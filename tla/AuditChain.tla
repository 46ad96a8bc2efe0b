----------------------------- MODULE AuditChain -----------------------------
(* One principal's audit log: weekly files of lines chained by their        *)
(* hashes, the chain state kept beside them, the forwarder's queue, and the *)
(* check that reads it all back (audit_log.py, audit_forwarding.py,         *)
(* scripts/verify_audit_log.py, ADR 0071, ADR 0176).                        *)
(*                                                                          *)
(* A hash is the number of the entry it was computed for, Genesis before    *)
(* the first. Threads record concurrently; `record` is cut at each of its   *)
(* writes, since a crash or an OSError may come at any of them.             *)
EXTENDS Integers, Sequences, FiniteSets

CONSTANTS Recorders,
          Absent,     \* no file, no line
          Weeks,      \* 1 .. n, the weeks the run lasts
          MaxEntries, \* bound of the entries recorded
          MaxMishaps, \* bound of the crashes, errors, losses and alterations of a run
          QueueSize,  \* _QUEUE_MAXSIZE
          Legacy      \* lines of the first week that are older than the chain

VARIABLES week,      \* the calendar
          file,      \* each week's jsonl file
          lastHash,  \* AuditLogger._last_hash
          stateFile, \* .audit_chain_state.json
          key,       \* which .audit_chain.key is in use
          recorder,  \* each thread's place in record()
          count,     \* entries stamped so far
          written,   \* the lines that reached a file, in that order
          queue,     \* AuditForwarder._queue
          forwarded, \* what the collector got
          mishaps    \* everything that went wrong

auditVars == <<week, file, lastHash, stateFile, key, recorder, count, written, queue, forwarded, mishaps>>

Genesis == 0
Line(kind, id, prev, k) == [kind |-> kind, id |-> id, prev |-> prev, key |-> k]
Plain == Line("plain", 0, 0, 0)   \* a line without chain fields
Torn == Line("torn", 0, 0, 0)     \* a line that is no JSON
Lines == [kind : {"whole", "edited", "plain", "torn"}, id : 0 .. MaxEntries, prev : 0 .. MaxEntries,
          key : 0 .. MaxMishaps + 1]
Mishaps == {"crash", "append", "persist", "state", "key", "late", "altered"}
At(pc, w, line) == [pc |-> pc, week |-> w, line |-> line]
Resting == At("idle", 1, Absent)

LineRecords == [kind : {"whole", "edited", "plain", "torn"}, id : Nat, prev : Nat, key : Nat]

\* The weeks are numbered, and nothing but plain lines precedes the chain.
AuditConstants ==
    /\ Weeks \subseteq Nat \ {0} /\ 1 \in Weeks
    /\ QueueSize \in Nat /\ MaxEntries \in Nat /\ MaxMishaps \in Nat
    /\ Absent \notin Nat /\ Absent \notin LineRecords
    /\ Legacy \in Seq(LineRecords)
    /\ \A i \in 1 .. Len(Legacy) : Legacy[i] = Plain
ASSUME AuditAssumption == AuditConstants

AuditTypeOK ==
    /\ week \in Weeks
    /\ file \in [Weeks -> Seq(Lines)]
    /\ lastHash \in 0 .. MaxEntries
    /\ stateFile \in (0 .. MaxEntries) \union {Absent}
    /\ key \in 1 .. MaxMishaps + 1
    /\ recorder \in [Recorders -> [pc : {"idle", "built", "stamped", "appended", "recorded"}, week : Weeks,
                                   line : Lines \union {Absent}]]
    /\ count \in 0 .. MaxEntries
    /\ written \in Seq(Lines)
    /\ queue \in Seq(1 .. MaxEntries) /\ Len(queue) <= QueueSize
    /\ forwarded \subseteq 1 .. MaxEntries
    /\ mishaps \in [Mishaps -> 0 .. MaxMishaps + 1]

AuditInit ==
    /\ week = 1
    /\ file = [w \in Weeks |-> IF w = 1 THEN Legacy ELSE <<>>]
    /\ lastHash = Genesis /\ stateFile = Absent /\ key = 1
    /\ recorder = [r \in Recorders |-> Resting]
    /\ count = 0 /\ written = <<>> /\ queue = <<>> /\ forwarded = {}
    /\ mishaps = [m \in Mishaps |-> 0]

Some(S) == \E m \in S : mishaps[m] > 0
Faults == Mishaps \ {"late"}
FaultsSoFar == {m \in Faults \X (1 .. MaxMishaps) : m[2] <= mishaps[m[1]]}
More == Cardinality(FaultsSoFar) < MaxMishaps
Mishap(m) == More /\ mishaps' = [mishaps EXCEPT ![m] = @ + 1]

----------------------------------------------------------------------------
(* record(), in a thread.                                                   *)

Holding(r) == recorder[r].pc \in {"stamped", "appended"}
LockFree == \A r \in Recorders : ~Holding(r)
LockIgnored == TRUE
MayStamp == LockFree

\* The caller builds the entry, with the week of that moment.
Build(r) ==
    /\ recorder[r].pc = "idle"
    /\ recorder' = [recorder EXCEPT ![r] = At("built", week, Absent)]
    /\ UNCHANGED <<week, file, lastHash, stateFile, key, count, written, queue, forwarded, mishaps>>

\* _stamp_entry, under the lock: the chain moves on before anything is written.
Stamp(r) ==
    /\ recorder[r].pc = "built"
    /\ MayStamp
    /\ count < MaxEntries
    /\ count' = count + 1
    /\ recorder' = [recorder EXCEPT ![r] =
                        At("stamped", @.week, Line("whole", count + 1, lastHash, key))]
    /\ lastHash' = count + 1
    /\ UNCHANGED <<week, file, stateFile, key, written, queue, forwarded, mishaps>>

\* A line behind an unfinished one becomes part of it.
EndsTorn(lines) == lines # <<>> /\ lines[Len(lines)] = Torn
With(lines, line) == IF EndsTorn(lines) THEN lines ELSE Append(lines, line)

\* Written after a line of a later week, because its caller was slower than another.
Late(w) == \E v \in Weeks : v > w /\ file[v] # <<>>
AppendLine(r) ==
    /\ recorder[r].pc = "stamped"
    /\ LET w == recorder[r].week  line == recorder[r].line
       IN  /\ file' = [file EXCEPT ![w] = With(@, line)]
           /\ mishaps' = IF Late(w) THEN [mishaps EXCEPT !["late"] = 1] ELSE mishaps
    /\ written' = Append(written, recorder[r].line)
    /\ recorder' = [recorder EXCEPT ![r].pc = "appended"]
    /\ UNCHANGED <<week, lastHash, stateFile, key, count, queue, forwarded>>

\* open or write fails: nothing of the line is in the file, or half of it; the caller gets the error.
GoesOnAfterError(r) == [recorder[r] EXCEPT !.pc = "recorded"]
AfterError(r) == Resting
AppendFails(r) ==
    /\ recorder[r].pc = "stamped"
    /\ Mishap("append")
    /\ \E half \in BOOLEAN :
          file' = IF half THEN [file EXCEPT ![recorder[r].week] = With(@, Torn)] ELSE file
    /\ recorder' = [recorder EXCEPT ![r] = AfterError(r)]
    /\ UNCHANGED <<week, lastHash, stateFile, key, count, written, queue, forwarded>>

\* _persist_chain_state, and the lock is free again. An OSError is only logged.
Persist(r) ==
    /\ recorder[r].pc = "appended"
    /\ \/ stateFile' = lastHash /\ UNCHANGED mishaps
       \/ stateFile' = stateFile /\ Mishap("persist")
    /\ recorder' = [recorder EXCEPT ![r].pc = "recorded"]
    /\ UNCHANGED <<week, file, lastHash, key, count, written, queue, forwarded>>

\* AuditForwarder.submit: a full queue drops the entry.
Queued(id) == IF Len(queue) < QueueSize THEN Append(queue, id) ELSE queue
Submit(r) ==
    /\ recorder[r].pc = "recorded"
    /\ queue' = Queued(recorder[r].line.id)
    /\ recorder' = [recorder EXCEPT ![r] = Resting]
    /\ UNCHANGED <<week, file, lastHash, stateFile, key, count, written, forwarded, mishaps>>

\* _run: sent, or failed to be.
Send ==
    /\ queue # <<>>
    /\ queue' = Tail(queue)
    /\ forwarded' \in {forwarded, forwarded \union {Head(queue)}}
    /\ UNCHANGED <<week, file, lastHash, stateFile, key, recorder, count, written, mishaps>>

----------------------------------------------------------------------------
(* Restarts, and what happens to the files.                                 *)

InHand == \E r \in Recorders : Holding(r)
\* _load_chain_state: what the file says, Genesis when it is missing.
Loaded == IF stateFile = Absent THEN Genesis ELSE stateFile
AuditRestart ==
    /\ \E half \in BOOLEAN :
          file' = [w \in Weeks |->
                     IF half /\ \E r \in Recorders : recorder[r].pc = "stamped" /\ recorder[r].week = w
                     THEN With(file[w], Torn) ELSE file[w]]
    /\ IF InHand THEN Mishap("crash") ELSE UNCHANGED mishaps
    /\ lastHash' = Loaded
    /\ recorder' = [r \in Recorders |-> Resting]
    /\ queue' = <<>>
    /\ UNCHANGED <<week, stateFile, key, count, written, forwarded>>

\* While the daemon is down the state file is lost, or the key; the next start makes the best of it.
LoseState ==
    /\ LockFree /\ stateFile # Absent
    /\ Mishap("state")
    /\ stateFile' = Absent
    /\ lastHash' = Genesis
    /\ recorder' = [r \in Recorders |-> Resting]
    /\ queue' = <<>>
    /\ UNCHANGED <<week, file, key, count, written, forwarded>>
LoseKey ==
    /\ LockFree
    /\ Mishap("key")
    /\ key' = key + 1
    /\ lastHash' = Loaded
    /\ recorder' = [r \in Recorders |-> Resting]
    /\ queue' = <<>>
    /\ UNCHANGED <<week, file, stateFile, count, written, forwarded>>

\* Something that is not the logger loses, moves, changes or replaces a line, or drops a week.
Without(s, i) == SubSeq(s, 1, i - 1) \o SubSeq(s, i + 1, Len(s))
Swapped(s, i) == [s EXCEPT ![i] = s[i + 1], ![i + 1] = s[i]]
Altered(s) ==
    {<<>>} \union {Without(s, i) : i \in 1 .. Len(s)} \union {Swapped(s, i) : i \in 1 .. Len(s) - 1}
    \union {[s EXCEPT ![i].kind = "edited"] : i \in {j \in 1 .. Len(s) : s[j].kind = "whole"}}
    \union {[s EXCEPT ![i] = Plain] : i \in 1 .. Len(s)}
Alter(w) ==
    /\ LockFree
    /\ file[w] # <<>>
    /\ Mishap("altered")
    /\ \E lines \in Altered(file[w]) : file' = [file EXCEPT ![w] = lines]
    /\ UNCHANGED <<week, lastHash, stateFile, key, recorder, count, written, queue, forwarded>>

NextWeek ==
    /\ week + 1 \in Weeks
    /\ week' = week + 1
    /\ UNCHANGED <<file, lastHash, stateFile, key, recorder, count, written, queue, forwarded, mishaps>>

AuditNext ==
    \/ \E r \in Recorders : \/ Build(r) \/ Stamp(r) \/ AppendLine(r) \/ AppendFails(r)
                            \/ Persist(r) \/ Submit(r)
    \/ Send
    \/ AuditRestart \/ LoseState \/ LoseKey
    \/ \E w \in Weeks : Alter(w)
    \/ NextWeek

AuditSpec == AuditInit /\ [][AuditNext]_auditVars

----------------------------------------------------------------------------
(* The check: AuditLogger.verify_chain over each week, then the script's    *)
(* own look at where one week meets the next, and at the newest entry.      *)

Chained(line) == line.kind \in {"whole", "edited"}
ChainedAt(w) == {i \in 1 .. Len(file[w]) : Chained(file[w][i])}
\* A line follows its predecessor, except that the first one need not.
FollowsUnchecked(lines, i) == TRUE
Follows(lines, i) == lines[i].prev = lines[i - 1].id
WeekOk(w) ==
    LET lines == file[w]
        chained == ChainedAt(w)
    IN  /\ \A i \in 1 .. Len(lines) : lines[i] # Torn
        /\ \A i \in chained : i < Len(lines) => i + 1 \in chained
        /\ \A i \in chained : i - 1 \in chained => Follows(lines, i)
        /\ \A i \in chained : i > 1 /\ (i - 1) \notin chained => lines[i].prev = Genesis
        /\ \A i \in chained : lines[i].kind = "whole" /\ lines[i].key = key

WithChain == {w \in Weeks : ChainedAt(w) # {}}
First(w) == {file[w][i] : i \in {j \in ChainedAt(w) : \A k \in ChainedAt(w) : j <= k}}
Last(w) == {file[w][i] : i \in {j \in ChainedAt(w) : \A k \in ChainedAt(w) : k <= j}}
WeeksMeet ==
    \A v, w \in WithChain :
        v < w /\ (\A x \in WithChain : ~(v < x /\ x < w)) =>
            \A first \in First(w), last \in Last(v) : first.prev \in {Genesis, last.id}
TailOk ==
    \A w \in WithChain :
        (\A x \in WithChain : x <= w) /\ stateFile # Absent => \A last \in Last(w) : stateFile = last.id
LogOk == (\A w \in Weeks : WeekOk(w)) /\ WeeksMeet /\ TailOk

----------------------------------------------------------------------------
(* What must hold.                                                          *)

\* Without a fault of the machine, the files or the calendar, the log the threads wrote
\* together over weeks and restarts passes its own check (ADR 0071: "the chain position
\* survives restarts").
SoundLogVerifies == LockFree /\ ~Some(Mishaps) => LogOk

\* A log that passes has lost, moved or changed nothing since its newest segment began,
\* but perhaps that segment's oldest lines (ADR 0176: "a removed week or a cut-off tail is
\* reported", where every write was completed and the state file names the newest entry).
OnDisk == {i \in 1 .. Len(written) : \E w \in Weeks : \E j \in 1 .. Len(file[w]) : file[w][j] = written[i]}
SegmentStart == {i \in 1 .. Len(written) : written[i].prev = Genesis}
StateIsCurrent == written # <<>> /\ stateFile = written[Len(written)].id
InNewest(i) == \A j \in SegmentStart : j <= i
PassMeansWhole ==
    LockFree /\ LogOk /\ WithChain # {} /\ StateIsCurrent /\ ~Some({"crash", "append", "persist", "late"}) =>
        \A i, j \in 1 .. Len(written) :
            InNewest(i) /\ i \in OnDisk /\ j > i => j \in OnDisk

\* What the collector has is in the log of record: an entry is handed over once it is written.
ForwardedIsRecorded ==
    \A id \in forwarded \union {queue[i] : i \in 1 .. Len(queue)} :
        \E i \in 1 .. Len(written) : written[i].id = id

\* "verify_chain() treats a GENESIS_HASH restart point as valid" (_load_chain_state): losing
\* the state file, and nothing else, leaves a log that verifies week by week.
RestartPointIsValid ==
    LockFree /\ ~Some(Mishaps \ {"state"}) => \A w \in Weeks : WeekOk(w)
=============================================================================
