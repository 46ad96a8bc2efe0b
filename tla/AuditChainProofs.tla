-------------------------- MODULE AuditChainProofs --------------------------
(* What AuditChain promises, for any number of threads, weeks, entries and  *)
(* mishaps, and any lines older than the chain in the first week.           *)
EXTENDS AuditChain, WellFoundedInduction, TLAPS


----------------------------------------------------------------------------
(* The inductive invariant.                                                 *)

Stages == {"idle", "built", "stamped", "appended", "recorded"}
Typed ==
    /\ recorder \in [Recorders -> [pc : Stages, week : Weeks, line : LineRecords \union {Absent}]]
    /\ \A r \in Recorders : recorder[r].pc \notin {"idle", "built"} => recorder[r].line \in LineRecords
    /\ lastHash \in Nat /\ count \in Nat /\ key \in Nat /\ stateFile \in Nat \union {Absent} /\ week \in Weeks
    /\ written \in Seq(LineRecords) /\ queue \in Seq(Nat)
    /\ mishaps \in [Mishaps -> Nat]

\* The lock is held by one thread.
OneHolder == \A r, q \in Recorders : Holding(r) /\ Holding(q) => r = q

\* What was appended, queued or sent is written.
Recorded(id) == \E i \in 1 .. Len(written) : written[i].id = id
AllRecorded ==
    /\ \A r \in Recorders : recorder[r].pc \in {"appended", "recorded"} => Recorded(recorder[r].line.id)
    /\ \A i \in 1 .. Len(queue) : Recorded(queue[i])
    /\ \A id \in forwarded : Recorded(id)

Quiet == \A m \in Mishaps : mishaps[m] = 0

\* While nothing went wrong: plain lines in the first week only, then whole ones, each naming
\* the one before it.
OurLine(line) == line \in LineRecords /\ line.kind = "whole" /\ line.key = 1
LinesChain ==
    /\ key = 1 /\ file \in [Weeks -> Seq(LineRecords)]
    /\ \A w \in Weeks : \A i \in 1 .. Len(file[w]) :
          /\ (file[w][i] = Plain /\ w = 1) \/ OurLine(file[w][i])
          /\ OurLine(file[w][i]) /\ i < Len(file[w]) =>
                OurLine(file[w][i + 1]) /\ file[w][i + 1].prev = file[w][i].id
          /\ OurLine(file[w][i]) /\ i > 1 /\ file[w][i - 1] = Plain => file[w][i].prev = Genesis

\* The newest entry of all is the last of the last week that has any; Genesis when there is none.
HasChain(w) == file[w] # <<>> /\ OurLine(file[w][Len(file[w])])
Newest(id) ==
    /\ (\A w \in Weeks : ~HasChain(w)) => id = Genesis
    /\ \A w \in Weeks : HasChain(w) /\ (\A x \in Weeks : HasChain(x) => x <= w) => file[w][Len(file[w])].id = id

\* The logger's position: what the next line will name, and what the state file says between two of them.
Position ==
    /\ (\A r \in Recorders : recorder[r].pc # "stamped") => Newest(lastHash)
    /\ \A r \in Recorders : recorder[r].pc = "stamped" =>
          /\ OurLine(recorder[r].line) /\ recorder[r].line.id = lastHash
          /\ Newest(recorder[r].line.prev)
    /\ LockFree => stateFile = lastHash \/ (stateFile = Absent /\ lastHash = Genesis)

\* One week's first line names the last line of the week before it.
Meet ==
    \A v, w \in Weeks : \A i \in 1 .. Len(file[w]) :
        /\ v < w /\ HasChain(v) /\ (\A x \in Weeks : HasChain(x) => ~(v < x /\ x < w))
        /\ OurLine(file[w][i]) /\ (i = 1 \/ file[w][i - 1] = Plain)
        => file[w][i].prev \in {Genesis, file[v][Len(file[v])].id}

SoundInv == Quiet => LinesChain /\ Position /\ Meet
Inv == Typed /\ OneHolder /\ AllRecorded /\ SoundInv

----------------------------------------------------------------------------
(* An entry on its way.                                                     *)

LEMMA InitInv ==
    ASSUME AuditConstants, AuditInit
    PROVE  Inv
<1>1. /\ week = 1 /\ file = [w \in Weeks |-> IF w = 1 THEN Legacy ELSE <<>>] /\ lastHash = 0 /\ stateFile = Absent
      /\ key = 1 /\ count = 0 /\ written = <<>> /\ queue = <<>> /\ forwarded = {}
      /\ recorder = [r \in Recorders |-> Resting] /\ mishaps = [m \in Mishaps |-> 0]
      BY DEF AuditInit, Genesis
<1>2. Resting \in [pc : Stages, week : Weeks, line : LineRecords \union {Absent}] /\ Resting.pc = "idle"
      BY DEF Resting, At, Stages, AuditConstants
<1> HIDE DEF Resting
<1>3. Typed
      BY <1>1, <1>2 DEF Typed, AuditConstants
<1>4. OneHolder /\ AllRecorded
      BY <1>1, <1>2 DEF OneHolder, AllRecorded, Holding
<1>5. \A w \in Weeks : \A i \in 1 .. Len(file[w]) : file[w][i] = Plain /\ w = 1
      BY <1>1 DEF AuditConstants
<1>6. ~OurLine(Plain)
      BY DEF OurLine, Plain, Line
<1> HIDE DEF Plain
<1>7. \A w \in Weeks : file[w] \in Seq(LineRecords)
      BY <1>1 DEF AuditConstants
<1>8. \A w \in Weeks : ~HasChain(w)
      BY <1>5, <1>6, <1>7 DEF HasChain
<1>9. LinesChain
      BY <1>1, <1>5, <1>6, <1>7 DEF LinesChain
<1>10. Position /\ Meet
      BY <1>1, <1>2, <1>5, <1>6, <1>8 DEF Position, Meet, Newest, Genesis
<1> QED BY <1>3, <1>4, <1>9, <1>10 DEF Inv, SoundInv

LEMMA MishapsAreLoud ==
    ASSUME Typed, NEW m \in Mishaps, Mishap(m)
    PROVE  ~Quiet' /\ mishaps' \in [Mishaps -> Nat]
<1>1. mishaps' = [mishaps EXCEPT ![m] = @ + 1]
      BY DEF Mishap
<1>2. mishaps'[m] = mishaps[m] + 1 /\ mishaps[m] \in Nat
      BY <1>1 DEF Typed
<1> QED BY <1>1, <1>2 DEF Quiet, Typed

LEMMA StepKeepsTyped ==
    ASSUME AuditConstants, Typed, AuditNext
    PROVE  Typed'
<1>0. /\ recorder \in [Recorders -> [pc : Stages, week : Weeks, line : LineRecords \union {Absent}]]
      /\ \A r \in Recorders : recorder[r].pc \notin {"idle", "built"} => recorder[r].line \in LineRecords
      /\ mishaps \in [Mishaps -> Nat] /\ week \in Weeks
      BY DEF Typed
<1>1. \A w \in Weeks, line \in LineRecords \union {Absent}, pc \in Stages :
          At(pc, w, line) \in [pc : Stages, week : Weeks, line : LineRecords \union {Absent}]
      BY DEF At
<1>2. Resting \in [pc : Stages, week : Weeks, line : LineRecords \union {Absent}] /\ Resting.pc = "idle"
      BY <1>1 DEF Resting, At, Stages, AuditConstants
<1> HIDE DEF Resting
<1>3. ASSUME NEW r \in Recorders, NEW at \in [pc : Stages, week : Weeks, line : LineRecords \union {Absent}],
             at.pc \notin {"idle", "built"} => at.line \in LineRecords, recorder' = [recorder EXCEPT ![r] = at]
      PROVE  /\ recorder' \in [Recorders -> [pc : Stages, week : Weeks, line : LineRecords \union {Absent}]]
             /\ \A q \in Recorders : recorder'[q].pc \notin {"idle", "built"} => recorder'[q].line \in LineRecords
  <2>1. \A q \in Recorders : recorder'[q] = IF q = r THEN at ELSE recorder[q]
        BY <1>0, <1>3
  <2> QED BY <1>0, <1>3, <2>1
<1>4. ASSUME NEW r \in Recorders, NEW pc \in Stages \ {"idle", "built"}, recorder[r].pc \notin {"idle", "built"},
             recorder' = [recorder EXCEPT ![r].pc = pc]
      PROVE  /\ recorder' \in [Recorders -> [pc : Stages, week : Weeks, line : LineRecords \union {Absent}]]
             /\ \A q \in Recorders : recorder'[q].pc \notin {"idle", "built"} => recorder'[q].line \in LineRecords
  <2>1. [recorder[r] EXCEPT !.pc = pc] \in [pc : Stages, week : Weeks, line : LineRecords \union {Absent}]
        /\ [recorder[r] EXCEPT !.pc = pc].line = recorder[r].line
        BY <1>0
  <2>2. recorder' = [recorder EXCEPT ![r] = [recorder[r] EXCEPT !.pc = pc]]
        BY <1>4
  <2> QED BY <1>0, <1>3, <1>4, <2>1, <2>2
<1>5. ASSUME recorder' = [r \in Recorders |-> Resting]
      PROVE  /\ recorder' \in [Recorders -> [pc : Stages, week : Weeks, line : LineRecords \union {Absent}]]
             /\ \A q \in Recorders : recorder'[q].pc \notin {"idle", "built"} => recorder'[q].line \in LineRecords
      BY <1>2, <1>5
<1>6. ASSUME NEW r \in Recorders, Build(r) PROVE Typed'
  <2>1. At("built", week, Absent) \in [pc : Stages, week : Weeks, line : LineRecords \union {Absent}]
        /\ At("built", week, Absent).pc = "built"
        BY <1>0 DEF At, Stages
  <2>2. recorder' = [recorder EXCEPT ![r] = At("built", week, Absent)]
        BY <1>6 DEF Build
  <2> HIDE DEF At
  <2> QED BY <1>3, <1>6, <2>1, <2>2 DEF Build, Typed
<1>7. ASSUME NEW r \in Recorders, Stamp(r) PROVE Typed'
  <2> DEFINE at == At("stamped", recorder[r].week, Line("whole", count + 1, lastHash, key))
  <2>1. Line("whole", count + 1, lastHash, key) \in LineRecords /\ "stamped" \in Stages /\ recorder[r].week \in Weeks
        BY <1>0 DEF Line, LineRecords, Typed, Stages
  <2>2. at \in [pc : Stages, week : Weeks, line : LineRecords \union {Absent}] /\ at.line \in LineRecords
        BY <2>1 DEF At
  <2>3. recorder' = [recorder EXCEPT ![r] = at]
        BY <1>7 DEF Stamp
  <2> HIDE DEF at
  <2> QED BY <1>3, <1>7, <2>2, <2>3 DEF Stamp, Typed
<1>8. ASSUME NEW r \in Recorders, AppendLine(r) PROVE Typed'
  <2>1. recorder[r].pc = "stamped" /\ recorder' = [recorder EXCEPT ![r].pc = "appended"] /\ recorder[r].line \in LineRecords
        BY <1>0, <1>8 DEF AppendLine
  <2>2. written' \in Seq(LineRecords)
        BY <1>8, <2>1 DEF AppendLine, Typed
  <2>3. mishaps' \in [Mishaps -> Nat]
        BY <1>0, <1>8 DEF AppendLine
  <2> QED BY <1>4, <1>8, <2>1, <2>2, <2>3 DEF AppendLine, Typed, Stages
<1>9. ASSUME NEW r \in Recorders, AppendFails(r) PROVE Typed'
  <2>1. recorder' = [recorder EXCEPT ![r] = Resting] /\ mishaps' \in [Mishaps -> Nat]
        BY <1>9, MishapsAreLoud DEF AppendFails, AfterError, Mishaps
  <2> QED BY <1>2, <1>3, <1>9, <2>1 DEF AppendFails, Typed
<1>10. ASSUME NEW r \in Recorders, Persist(r) PROVE Typed'
  <2>1. mishaps' \in [Mishaps -> Nat]
        BY <1>0, <1>10, MishapsAreLoud DEF Persist, Mishaps
  <2>2. recorder[r].pc = "appended" /\ recorder' = [recorder EXCEPT ![r].pc = "recorded"]
        BY <1>10 DEF Persist
  <2> QED BY <1>4, <1>10, <2>1, <2>2 DEF Persist, Typed, Stages
<1>11. ASSUME NEW r \in Recorders, Submit(r) PROVE Typed'
  <2>1. recorder' = [recorder EXCEPT ![r] = Resting] /\ recorder[r].line \in LineRecords
        BY <1>0, <1>11 DEF Submit
  <2>2. recorder[r].line.id \in Nat
        BY <2>1 DEF LineRecords
  <2>3. queue' \in Seq(Nat)
        BY <1>11, <2>2 DEF Submit, Queued, Typed
  <2> QED BY <1>2, <1>3, <1>11, <2>1, <2>3 DEF Submit, Typed
<1>12. ASSUME Send PROVE Typed'
  <2>1. queue' \in Seq(Nat)
        BY <1>12 DEF Send, Typed
  <2> QED BY <1>12, <2>1 DEF Send, Typed
<1>13. ASSUME AuditRestart \/ LoseState \/ LoseKey PROVE Typed'
  <2>1. mishaps' \in [Mishaps -> Nat]
        BY <1>0, <1>13, MishapsAreLoud DEF AuditRestart, LoseState, LoseKey, Mishaps
  <2>2. recorder' = [r \in Recorders |-> Resting] /\ queue' = <<>>
        BY <1>13 DEF AuditRestart, LoseState, LoseKey
  <2>3. lastHash' \in Nat /\ key' \in Nat
        BY <1>13 DEF AuditRestart, LoseState, LoseKey, Loaded, Genesis, Typed
  <2>4. stateFile' \in Nat \union {Absent} /\ count' = count /\ written' = written /\ week' = week
        BY <1>13 DEF AuditRestart, LoseState, LoseKey, Typed
  <2> QED BY <1>5, <2>1, <2>2, <2>3, <2>4 DEF Typed
<1>14. ASSUME NEW w \in Weeks, Alter(w) PROVE Typed'
  <2>1. mishaps' \in [Mishaps -> Nat]
        BY <1>14, MishapsAreLoud DEF Alter, Mishaps
  <2> QED BY <1>14, <2>1 DEF Alter, Typed
<1>15. ASSUME NextWeek PROVE Typed'
      BY <1>15 DEF NextWeek, Typed
<1> QED BY <1>6, <1>7, <1>8, <1>9, <1>10, <1>11, <1>12, <1>13, <1>14, <1>15 DEF AuditNext

\* Only one thread is between its stamp and its persist, and nothing is handed over unwritten.
LEMMA StepKeepsRecorded ==
    ASSUME AuditConstants, Typed, Typed', OneHolder, AllRecorded, AuditNext
    PROVE  OneHolder' /\ AllRecorded'
<1>0. /\ \A r \in Recorders : recorder[r].pc \notin {"idle", "built"} => recorder[r].line \in LineRecords
      /\ written \in Seq(LineRecords) /\ queue \in Seq(Nat) /\ written' \in Seq(LineRecords) /\ queue' \in Seq(Nat)
      BY DEF Typed
<1>1. Resting.pc = "idle" /\ \A r \in Recorders : \A line : At("stamped", recorder[r].week, line).pc = "stamped"
      /\ At("built", week, Absent).pc = "built"
      BY DEF Resting, At
<1> HIDE DEF Resting
<1>a. ASSUME UNCHANGED <<recorder, written>>, forwarded' \subseteq forwarded \union {queue[i] : i \in 1 .. Len(queue)},
             \A i \in 1 .. Len(queue') : \E j \in 1 .. Len(queue) : queue'[i] = queue[j]
      PROVE  OneHolder' /\ AllRecorded'
      BY <1>a DEF OneHolder, Holding, AllRecorded, Recorded
<1>b. ASSUME UNCHANGED <<written, queue, forwarded>>,
             \A q \in Recorders : recorder'[q].pc \in {"appended", "recorded"} => recorder'[q] = recorder[q]
      PROVE  AllRecorded'
      BY <1>b DEF AllRecorded, Recorded
<1>2. ASSUME NEW r \in Recorders, Build(r) PROVE OneHolder' /\ AllRecorded'
  <2>1. /\ \A q \in Recorders : recorder'[q] = IF q = r THEN At("built", week, Absent) ELSE recorder[q]
        /\ UNCHANGED <<written, queue, forwarded>>
        BY <1>2 DEF Build, Typed
  <2> HIDE DEF At
  <2>2. OneHolder'
        BY <1>1, <2>1 DEF OneHolder, Holding
  <2>3. AllRecorded'
        BY <1>1, <1>b, <2>1
  <2> QED BY <2>2, <2>3
<1>3. ASSUME NEW r \in Recorders, Stamp(r) PROVE OneHolder' /\ AllRecorded'
  <2>1. PICK line : \A q \in Recorders :
           recorder'[q] = IF q = r THEN At("stamped", recorder[r].week, line) ELSE recorder[q]
        BY <1>3 DEF Stamp, Typed
  <2>2. UNCHANGED <<written, queue, forwarded>> /\ \A q \in Recorders : ~Holding(q)
        BY <1>3 DEF Stamp, MayStamp, LockFree
  <2>3. OneHolder'
        BY <1>1, <2>1, <2>2 DEF OneHolder, Holding
  <2>4. AllRecorded'
        BY <1>1, <1>b, <2>1, <2>2
  <2> QED BY <2>3, <2>4
<1>4. ASSUME NEW r \in Recorders, AppendLine(r) PROVE OneHolder' /\ AllRecorded'
  <2>1. /\ recorder[r].pc = "stamped" /\ \A q \in Recorders \ {r} : recorder'[q] = recorder[q]
        /\ recorder'[r].pc = "appended" /\ recorder'[r].line = recorder[r].line
        /\ written' = Append(written, recorder[r].line) /\ UNCHANGED <<queue, forwarded>>
        BY <1>4 DEF AppendLine, Typed
  <2>2. OneHolder'
        BY <2>1 DEF OneHolder, Holding
  <2>3. recorder[r].line \in LineRecords
        BY <1>0, <2>1
  <2>4. /\ \A i \in 1 .. Len(written) : i \in 1 .. Len(written') /\ written'[i] = written[i]
        /\ Len(written) + 1 \in 1 .. Len(written') /\ written'[Len(written) + 1] = recorder[r].line
        BY <1>0, <2>1, <2>3
  <2>5. Recorded(recorder[r].line.id)' /\ \A id : Recorded(id) => Recorded(id)'
        BY <2>1, <2>4 DEF Recorded
  <2>6. \A q \in Recorders : recorder'[q].pc \in {"appended", "recorded"} => Recorded(recorder[q].line.id)'
        BY <2>1, <2>5 DEF AllRecorded
  <2>7. \A i \in 1 .. Len(queue') : Recorded(queue[i])'
    <3>1. \A i \in 1 .. Len(queue') : Recorded(queue[i])
          BY <2>1 DEF AllRecorded
    <3> QED BY <2>1, <2>5, <3>1 DEF Recorded
  <2>8. \A id \in forwarded' : Recorded(id)'
        BY <2>1, <2>5 DEF AllRecorded
  <2>9. AllRecorded'
        BY <2>6, <2>7, <2>8 DEF AllRecorded
  <2> QED BY <2>2, <2>9
<1>5. ASSUME NEW r \in Recorders, AppendFails(r) \/ Submit(r)
      PROVE  /\ \A q \in Recorders : recorder'[q] = IF q = r THEN Resting ELSE recorder[q]
             /\ UNCHANGED <<written, forwarded>> /\ OneHolder'
  <2>1. /\ \A q \in Recorders : recorder'[q] = IF q = r THEN Resting ELSE recorder[q]
        /\ UNCHANGED <<written, forwarded>>
        BY <1>5 DEF AppendFails, AfterError, Submit, Typed
  <2> QED BY <1>1, <2>1 DEF OneHolder, Holding
<1>6. ASSUME NEW r \in Recorders, AppendFails(r) PROVE AllRecorded'
  <2>1. queue' = queue
        BY <1>6 DEF AppendFails
  <2> QED BY <1>1, <1>5, <1>6, <1>b, <2>1
<1>7. ASSUME NEW r \in Recorders, Submit(r) PROVE AllRecorded'
  <2>1. Recorded(recorder[r].line.id) /\ recorder[r].line \in LineRecords
        BY <1>0, <1>7 DEF Submit, AllRecorded
  <2>2. recorder[r].line.id \in Nat
        BY <2>1 DEF LineRecords
  <2>3. queue' = queue \/ queue' = Append(queue, recorder[r].line.id)
        BY <1>7 DEF Submit, Queued
  <2>4. \A i \in 1 .. Len(queue') : queue'[i] = recorder[r].line.id \/ (i \in 1 .. Len(queue) /\ queue'[i] = queue[i])
    <3>1. CASE queue' = queue
          BY <3>1
    <3>2. CASE queue' = Append(queue, recorder[r].line.id)
          BY <1>0, <2>2, <3>2
    <3> QED BY <2>3, <3>1, <3>2
  <2> QED BY <1>1, <1>5, <1>7, <2>1, <2>4 DEF AllRecorded, Recorded
<1>8. ASSUME NEW r \in Recorders, Persist(r) PROVE OneHolder' /\ AllRecorded'
  <2>1. /\ recorder[r].pc = "appended" /\ \A q \in Recorders \ {r} : recorder'[q] = recorder[q]
        /\ recorder'[r].pc = "recorded" /\ recorder'[r].line = recorder[r].line
        /\ UNCHANGED <<written, queue, forwarded>>
        BY <1>8 DEF Persist, Typed
  <2> QED BY <2>1 DEF OneHolder, Holding, AllRecorded, Recorded
<1>9. ASSUME Send PROVE OneHolder' /\ AllRecorded'
  <2>1. queue # <<>> /\ queue' = Tail(queue) /\ forwarded' \in {forwarded, forwarded \union {Head(queue)}}
        /\ UNCHANGED <<recorder, written>>
        BY <1>9 DEF Send
  <2>2. Head(queue) = queue[1] /\ 1 \in 1 .. Len(queue)
        BY <1>0, <2>1
  <2>3. \A i \in 1 .. Len(queue') : i + 1 \in 1 .. Len(queue) /\ queue'[i] = queue[i + 1]
        BY <1>0, <2>1
  <2> QED BY <1>a, <2>1, <2>2, <2>3
<1>10. ASSUME AuditRestart \/ LoseState \/ LoseKey PROVE OneHolder' /\ AllRecorded'
  <2>1. /\ recorder' = [r \in Recorders |-> Resting] /\ queue' = <<>> /\ UNCHANGED <<written, forwarded>>
        BY <1>10 DEF AuditRestart, LoseState, LoseKey
  <2> QED BY <1>1, <2>1 DEF OneHolder, Holding, AllRecorded, Recorded
<1>11. ASSUME NextWeek \/ \E w \in Weeks : Alter(w) PROVE OneHolder' /\ AllRecorded'
  <2>1. UNCHANGED <<recorder, written, queue, forwarded>>
        BY <1>11 DEF NextWeek, Alter
  <2> QED BY <1>a, <2>1
<1> QED BY <1>2, <1>3, <1>4, <1>5, <1>6, <1>7, <1>8, <1>9, <1>10, <1>11 DEF AuditNext

----------------------------------------------------------------------------
(* The chain, while nothing goes wrong.                                     *)

LEMMA QuietBefore ==
    ASSUME AuditConstants, Typed, AuditNext, Quiet'
    PROVE  /\ Quiet /\ \A r \in Recorders : ~AppendFails(r)
           /\ \A m \in Mishaps : ~Mishap(m)
           /\ \A r \in Recorders : AppendLine(r) => ~Late(recorder[r].week)
<1>1. \A m \in Mishaps : ~Mishap(m)
      BY MishapsAreLoud
<1>2. {"crash", "append", "persist", "state", "key", "late", "altered"} = Mishaps
      BY DEF Mishaps
<1>3. ASSUME NEW r \in Recorders, AppendLine(r) PROVE ~Late(recorder[r].week) /\ mishaps' = mishaps
  <2>1. mishaps' = IF Late(recorder[r].week) THEN [mishaps EXCEPT !["late"] = 1] ELSE mishaps
        BY <1>3 DEF AppendLine
  <2>2. mishaps'["late"] = 0
        BY <1>2 DEF Quiet
  <2> QED BY <2>1, <2>2, <1>2 DEF Typed
<1>4. mishaps' = mishaps
      BY <1>1, <1>2, <1>3 DEF AuditNext, Build, Stamp, AppendFails, Persist, Submit, Send, AuditRestart, LoseState, LoseKey, Alter, NextWeek
<1> QED BY <1>1, <1>2, <1>3, <1>4 DEF AppendFails, Quiet

\* The line that reaches a file follows the newest one.
LEMMA AppendedLinesChain ==
    ASSUME AuditConstants, Inv, Quiet, NEW r \in Recorders, AppendLine(r),
           NEW w \in Weeks, w = recorder[r].week, ~Late(w), NEW line, line = recorder[r].line
    PROVE  LinesChain' /\ Position' /\ Meet'
<1>0. LinesChain /\ Position /\ Meet
      BY DEF Inv, SoundInv
<1>1. /\ w \in Weeks /\ OurLine(line) /\ line.id = lastHash /\ Newest(line.prev) /\ recorder[r].pc = "stamped"
      /\ Weeks \subseteq Nat \ {0}
      BY <1>0 DEF AppendLine, Inv, Typed, Position, AuditConstants
<1>2. /\ file' = [file EXCEPT ![w] = With(file[w], line)]
      /\ recorder' = [recorder EXCEPT ![r].pc = "appended"] /\ UNCHANGED <<lastHash, key>>
      BY DEF AppendLine
<1>3. \A v \in Weeks : v > w => file[v] = <<>>
      BY DEF Late
<1>4. \A v \in Weeks : file[v] \in Seq(LineRecords)
      BY <1>0 DEF LinesChain
<1>5. line \in LineRecords
      BY <1>1 DEF OurLine
<1>6. ~EndsTorn(file[w])
  <2>1. \A x : OurLine(x) => x.kind = "whole"
        BY DEF OurLine
  <2>2. Torn.kind = "torn" /\ Plain.kind = "plain"
        BY DEF Torn, Plain, Line
  <2> HIDE DEF Torn, Plain
  <2>3. ASSUME file[w] # <<>> PROVE Len(file[w]) \in 1 .. Len(file[w])
        BY <1>1, <1>4, <2>3
  <2> QED BY <1>0, <1>1, <2>1, <2>2, <2>3 DEF EndsTorn, LinesChain
<1>7. file' = [file EXCEPT ![w] = Append(file[w], line)]
      BY <1>2, <1>6 DEF With
<1>8. /\ \A v \in Weeks \ {w} : file'[v] = file[v]
      /\ file'[w] = Append(file[w], line)
      /\ file' \in [Weeks -> Seq(LineRecords)]
      BY <1>1, <1>4, <1>5, <1>7, <1>0 DEF LinesChain
<1> DEFINE n == Len(file[w])
<1>9. /\ n \in Nat /\ Len(file'[w]) = n + 1 /\ file'[w][n + 1] = line
      /\ \A i \in 1 .. n : file'[w][i] = file[w][i]
      BY <1>1, <1>4, <1>5, <1>8
<1> HIDE DEF n
<1>10. ~OurLine(Plain)
      BY DEF OurLine, Plain, Line
<1>b. HasChain(w)' /\ file'[w][Len(file'[w])] = line
  <2>1. file'[w] \in Seq(LineRecords) /\ Len(file'[w]) # 0
    <3>1. file'[w] \in Seq(LineRecords)
          BY <1>8
    <3>2. Len(file'[w]) # 0
          BY <1>9
    <3> QED BY <3>1, <3>2
  <2>2. file'[w] # <<>> /\ file'[w][Len(file'[w])] = line
        BY <1>9, <2>1
  <2> QED BY <1>1, <2>2 DEF HasChain
<1>11. \A x \in Weeks : HasChain(x) => x <= w /\ HasChain(x)'
  <2>1. ASSUME NEW x \in Weeks, HasChain(x) PROVE x <= w
    <3>1. x \in Nat /\ w \in Nat
          BY <1>1
    <3>2. ~(x > w)
          BY <1>3, <2>1 DEF HasChain
    <3> QED BY <3>1, <3>2
  <2>3. ASSUME NEW x \in Weeks \ {w}, HasChain(x) PROVE HasChain(x)'
        BY <1>8, <2>3 DEF HasChain
  <2>4. \A x \in Weeks : x = w \/ x \in Weeks \ {w}
        OBVIOUS
  <2> QED BY <1>b, <2>1, <2>3, <2>4
<1>12. ASSUME OurLine(file[w][n]), n > 0 PROVE line.prev = file[w][n].id
  <2>1. HasChain(w)
        BY <1>1, <1>4, <1>9, <1>12 DEF HasChain, n
  <2> QED BY <1>1, <1>11, <2>1 DEF Newest, n
<1>13. ASSUME file[w][n] = Plain, n > 0 PROVE line.prev = Genesis /\ w = 1
  <2>1. n \in 1 .. Len(file[w])
        BY <1>9, <1>13 DEF n
  <2>2. w = 1
        BY <1>0, <1>1, <1>10, <1>13, <2>1 DEF LinesChain
  <2>3. \A x \in Weeks : ~HasChain(x)
        BY <1>1, <1>3, <1>10, <1>13, <2>2 DEF HasChain, n
  <2> QED BY <1>1, <2>2, <2>3 DEF Newest
<1> HIDE DEF Plain, OurLine
<1>14. LinesChain'
  <2>1. ASSUME NEW x \in Weeks \ {w}
        PROVE  \A i \in 1 .. Len(file'[x]) :
                  /\ (file'[x][i] = Plain /\ x = 1) \/ OurLine(file'[x][i])
                  /\ OurLine(file'[x][i]) /\ i < Len(file'[x]) =>
                        OurLine(file'[x][i + 1]) /\ file'[x][i + 1].prev = file'[x][i].id
                  /\ OurLine(file'[x][i]) /\ i > 1 /\ file'[x][i - 1] = Plain => file'[x][i].prev = Genesis
        BY <1>0, <1>8 DEF LinesChain
  <2>2. ASSUME NEW i \in 1 .. n
        PROVE  /\ (file[w][i] = Plain /\ w = 1) \/ OurLine(file[w][i])
               /\ OurLine(file[w][i]) /\ i < n =>
                     OurLine(file[w][i + 1]) /\ file[w][i + 1].prev = file[w][i].id
               /\ OurLine(file[w][i]) /\ i > 1 /\ file[w][i - 1] = Plain => file[w][i].prev = Genesis
        BY <1>0, <1>1 DEF LinesChain, n
  <2>3. ASSUME NEW i \in 1 .. n + 1
        PROVE  /\ (file'[w][i] = Plain /\ w = 1) \/ OurLine(file'[w][i])
               /\ OurLine(file'[w][i]) /\ i < n + 1 =>
                     OurLine(file'[w][i + 1]) /\ file'[w][i + 1].prev = file'[w][i].id
               /\ OurLine(file'[w][i]) /\ i > 1 /\ file'[w][i - 1] = Plain => file'[w][i].prev = Genesis
    <3>1. CASE i = n + 1
      <4>1. file'[w][i] = line /\ ~(i < n + 1)
            BY <1>9, <3>1
      <4>2. i > 1 => i - 1 = n /\ n > 0 /\ file'[w][i - 1] = file[w][n]
            BY <1>9, <3>1
      <4> QED BY <1>1, <1>13, <4>1, <4>2
    <3>2. CASE i = n
      <4>1. file'[w][i] = file[w][i] /\ file'[w][i + 1] = line /\ n > 0
            BY <1>9, <2>3, <3>2
      <4>2. i > 1 => file'[w][i - 1] = file[w][i - 1]
            BY <1>9, <3>2
      <4>3. i \in 1 .. n
            BY <1>9, <2>3, <3>2
      <4> QED BY <1>1, <1>12, <2>2, <3>2, <4>1, <4>2, <4>3
    <3>3. CASE i < n
      <4>1. i \in 1 .. n /\ file'[w][i] = file[w][i] /\ file'[w][i + 1] = file[w][i + 1]
            BY <1>9, <2>3, <3>3
      <4>2. i > 1 => file'[w][i - 1] = file[w][i - 1]
            BY <1>9, <2>3, <3>3
      <4> QED BY <2>2, <3>3, <4>1, <4>2
    <3> QED BY <1>9, <2>3, <3>1, <3>2, <3>3
  <2>4. key' = 1
        BY <1>0, <1>2 DEF LinesChain
  <2> QED BY <1>1, <1>8, <1>9, <2>1, <2>3, <2>4 DEF LinesChain
<1>15. Position'
  <2>1. \A q \in Recorders : q # r => ~Holding(q)
        BY <1>1 DEF Inv, OneHolder, Holding
  <2>2. recorder'[r].pc = "appended" /\ \A q \in Recorders \ {r} : recorder'[q] = recorder[q]
        BY <1>2 DEF Inv, Typed
  <2>3. \A q \in Recorders : recorder'[q].pc # "stamped"
        BY <2>1, <2>2 DEF Holding
  <2>4. ~LockFree'
        BY <2>2 DEF LockFree, Holding
  <2>5. HasChain(w)' /\ file'[w][Len(file'[w])].id = lastHash'
        BY <1>1, <1>2, <1>b
  <2>6. \A x \in Weeks : x > w => ~HasChain(x)'
    <3> SUFFICES ASSUME NEW x \in Weeks, x > w PROVE file'[x] = <<>>
        BY DEF HasChain
    <3>1. x # w
          BY <1>1
    <3> QED BY <1>3, <1>8, <3>1
  <2>7. Newest(lastHash)'
    <3>1. ASSUME NEW x \in Weeks, HasChain(x)', \A y \in Weeks : HasChain(y)' => y <= x PROVE x = w
      <4>1. w <= x /\ ~(x > w)
            BY <1>1, <2>5, <2>6, <3>1
      <4> QED BY <1>1, <4>1
    <3>2. ~\A x \in Weeks : ~HasChain(x)'
          BY <1>1, <2>5
    <3>3. ASSUME NEW x \in Weeks, HasChain(x)', \A y \in Weeks : HasChain(y)' => y <= x
          PROVE  file'[x][Len(file'[x])].id = lastHash'
          BY <2>5, <3>1, <3>3
    <3> QED BY <3>2, <3>3 DEF Newest
  <2> QED BY <2>3, <2>4, <2>7 DEF Position
<1>16. Meet'
  <2> SUFFICES ASSUME NEW v \in Weeks, NEW u \in Weeks, NEW i \in 1 .. Len(file'[u]),
                      v < u, HasChain(v)', \A x \in Weeks : HasChain(x)' => ~(v < x /\ x < u),
                      OurLine(file'[u][i]), i = 1 \/ file'[u][i - 1] = Plain
               PROVE  file'[u][i].prev \in {Genesis, file'[v][Len(file'[v])].id}
      BY DEF Meet
  <2>1. v # w
        BY <1>1, <1>3, <1>4, <1>8
  <2>2. HasChain(v) /\ file'[v] = file[v] /\ \A x \in Weeks : HasChain(x) => ~(v < x /\ x < u)
        BY <1>8, <1>11, <2>1 DEF HasChain
  <2>3. CASE u # w
        BY <1>0, <1>8, <2>2, <2>3 DEF Meet
  <2>4. CASE u = w /\ i \in 1 .. n
    <3>1. file'[u][i] = file[u][i] /\ (i = 1 \/ file[u][i - 1] = Plain)
      <4>1. file'[u][i] = file[u][i] /\ (i # 1 => i - 1 \in 1 .. n)
            BY <1>9, <2>4
      <4>2. i # 1 => file'[u][i - 1] = file[u][i - 1]
            BY <1>9, <2>4, <4>1
      <4> QED BY <4>1, <4>2
    <3> QED BY <1>0, <2>2, <2>4, <3>1 DEF Meet, n
  <2>5. CASE u = w /\ i = n + 1
    <3>1. file'[u][i] = line
          BY <1>9, <2>5
    <3>2. CASE n = 0
      <4>1. ~HasChain(w)
            BY <1>1, <1>4, <3>2 DEF HasChain, n
      <4>2. \A x \in Weeks : HasChain(x) => x <= v
            BY <1>1, <1>11, <2>2, <2>5, <4>1
      <4> QED BY <1>1, <2>2, <3>1, <4>2 DEF Newest
    <3>3. CASE n > 0
      <4>1. i # 1 /\ i - 1 = n
            BY <1>9, <2>5, <3>3
      <4>2. file[w][n] = Plain
            BY <1>9, <2>5, <3>3, <4>1
      <4> QED BY <1>13, <3>1, <3>3, <4>2
    <3> QED BY <1>9, <3>2, <3>3
  <2> QED BY <1>9, <2>3, <2>4, <2>5
<1> QED BY <1>14, <1>15, <1>16

LEMMA StepKeepsSound ==
    ASSUME AuditConstants, Inv, AuditNext
    PROVE  SoundInv'
<1> SUFFICES ASSUME Quiet' PROVE LinesChain' /\ Position' /\ Meet'
    BY DEF SoundInv
<1>0. Typed /\ OneHolder /\ Quiet /\ LinesChain /\ Position /\ Meet /\ \A m \in Mishaps : ~Mishap(m)
      BY QuietBefore DEF Inv, SoundInv
<1>a. ASSUME UNCHANGED <<file, key>> PROVE LinesChain' /\ Meet'
      BY <1>0, <1>a DEF LinesChain, Meet, HasChain
<1>b. ASSUME UNCHANGED <<file, lastHash, stateFile>>,
             \A r \in Recorders : recorder'[r] = recorder[r]
                 \/ (recorder'[r].pc \notin {"stamped", "appended"} /\ recorder[r].pc \notin {"stamped", "appended"})
      PROVE  Position'
  <2>1. (LockFree' => LockFree) /\ \A r \in Recorders : recorder'[r].pc = "stamped" <=> recorder[r].pc = "stamped"
        BY <1>b DEF LockFree, Holding
  <2>2. \A id : Newest(id) => Newest(id)'
        BY <1>b DEF Newest, HasChain
  <2>3. \A r \in Recorders : recorder'[r].pc = "stamped" => recorder'[r] = recorder[r]
        BY <1>b
  <2>4. ASSUME NEW r \in Recorders, recorder'[r].pc = "stamped"
        PROVE  OurLine(recorder'[r].line) /\ recorder'[r].line.id = lastHash' /\ Newest(recorder[r].line.prev)'
    <3>1. OurLine(recorder[r].line) /\ recorder[r].line.id = lastHash /\ Newest(recorder[r].line.prev)
          BY <1>0, <2>1, <2>4 DEF Position
    <3>2. recorder'[r] = recorder[r]
          BY <2>3, <2>4
    <3>3. Newest(recorder[r].line.prev)'
          BY <3>1, <3>2, <1>b DEF Newest, HasChain
    <3> QED BY <1>b, <3>1, <3>2, <3>3
  <2>5. ASSUME \A r \in Recorders : recorder'[r].pc # "stamped" PROVE Newest(lastHash)'
    <3>1. Newest(lastHash)
          BY <1>0, <2>1, <2>5 DEF Position
    <3> QED BY <1>b, <3>1 DEF Newest, HasChain
  <2>6. LockFree' => stateFile' = lastHash' \/ (stateFile' = Absent /\ lastHash' = Genesis)
        BY <1>0, <1>b, <2>1 DEF Position
  <2> QED BY <2>4, <2>5, <2>6 DEF Position
<1>1. ASSUME NEW r \in Recorders, Build(r) \/ Submit(r) PROVE LinesChain' /\ Position' /\ Meet'
  <2>1. UNCHANGED <<file, key, lastHash, stateFile>>
        BY <1>1 DEF Build, Submit
  <2>2. /\ recorder[r].pc \in {"idle", "recorded"} /\ recorder'[r].pc \in {"built", "idle"}
        /\ \A q \in Recorders \ {r} : recorder'[q] = recorder[q]
        BY <1>0, <1>1 DEF Build, Submit, Typed, At, Resting
  <2>3. \A q \in Recorders : recorder'[q] = recorder[q]
            \/ (recorder'[q].pc \notin {"stamped", "appended"} /\ recorder[q].pc \notin {"stamped", "appended"})
        BY <2>2
  <2> QED BY <1>a, <1>b, <2>1, <2>3
<1>2. ASSUME NEW r \in Recorders, Stamp(r) PROVE LinesChain' /\ Position' /\ Meet'
  <2> DEFINE line == Line("whole", count + 1, lastHash, key)
  <2>1. UNCHANGED <<file, key, stateFile>> /\ lastHash' = count + 1 /\ LockFree
        BY <1>2 DEF Stamp, MayStamp
  <2>2. /\ recorder'[r].pc = "stamped" /\ recorder'[r].line = line
        /\ \A q \in Recorders \ {r} : recorder'[q] = recorder[q]
        BY <1>0, <1>2 DEF Stamp, Typed, At
  <2>3. \A q \in Recorders : recorder[q].pc # "stamped"
        BY <2>1 DEF LockFree, Holding
  <2>4. OurLine(line) /\ line.id = count + 1 /\ line.prev = lastHash
        BY <1>0 DEF OurLine, Line, LineRecords, LinesChain, Typed
  <2> HIDE DEF line
  <2>5. Newest(lastHash)
        BY <1>0, <2>3 DEF Position
  <2>6. Newest(recorder[r].line.prev)'
        BY <2>1, <2>2, <2>4, <2>5 DEF Newest, HasChain
  <2>7. ~LockFree'
        BY <2>2 DEF LockFree, Holding
  <2>8. \A q \in Recorders : recorder'[q].pc = "stamped" => q = r
        BY <2>2, <2>3
  <2>9. Position'
        BY <2>1, <2>2, <2>4, <2>6, <2>7, <2>8 DEF Position
  <2> QED BY <1>a, <2>1, <2>9
<1>3. ASSUME NEW r \in Recorders, AppendLine(r) PROVE LinesChain' /\ Position' /\ Meet'
  <2>1. PICK w \in Weeks : w = recorder[r].week
        BY <1>0 DEF Typed
  <2>2. PICK line : line = recorder[r].line
        OBVIOUS
  <2>3. ~Late(w)
        BY <1>3, <2>1, <1>0, QuietBefore
  <2> QED BY <1>0, <1>3, <2>1, <2>2, <2>3, AppendedLinesChain
<1>4. ASSUME NEW r \in Recorders, Persist(r) PROVE LinesChain' /\ Position' /\ Meet'
  <2>1. UNCHANGED <<file, key, lastHash>> /\ stateFile' = lastHash /\ recorder[r].pc = "appended"
        BY <1>0, <1>4 DEF Persist, Mishaps
  <2>2. recorder'[r].pc = "recorded" /\ \A q \in Recorders \ {r} : recorder'[q] = recorder[q]
        BY <1>0, <1>4 DEF Persist, Typed
  <2>3. \A q \in Recorders : recorder[q].pc # "stamped" /\ recorder'[q].pc # "stamped"
        BY <1>0, <2>1, <2>2 DEF OneHolder, Holding
  <2>4. Newest(lastHash)
        BY <1>0, <2>3 DEF Position
  <2>5. Newest(lastHash)'
        BY <2>1, <2>4 DEF Newest, HasChain
  <2>6. Position'
        BY <2>1, <2>3, <2>5 DEF Position
  <2> QED BY <1>a, <2>1, <2>6
<1>5. ASSUME Send \/ NextWeek PROVE LinesChain' /\ Position' /\ Meet'
  <2>1. UNCHANGED <<file, key, lastHash, stateFile, recorder>>
        BY <1>5 DEF Send, NextWeek
  <2> QED BY <1>a, <1>b, <2>1
<1>6. ASSUME AuditRestart PROVE LinesChain' /\ Position' /\ Meet'
  <2>1. ~InHand
        BY <1>0, <1>6 DEF AuditRestart, Mishaps
  <2>2. \A r \in Recorders : recorder[r].pc \notin {"stamped", "appended"}
        BY <2>1 DEF InHand, Holding
  <2>3. file' = [w \in Weeks |-> file[w]] /\ UNCHANGED <<stateFile, key>> /\ lastHash' = Loaded
        BY <1>6, <2>2 DEF AuditRestart
  <2>4. file' = file
        BY <1>0, <2>3 DEF LinesChain
  <2>5. lastHash' = lastHash
        BY <1>0, <2>2, <2>3 DEF Loaded, Position, LockFree, Holding, Typed, AuditConstants
  <2>6. \A r \in Recorders : recorder'[r].pc \notin {"stamped", "appended"}
        BY <1>6 DEF AuditRestart, Resting, At
  <2> QED BY <1>a, <1>b, <2>2, <2>3, <2>4, <2>5, <2>6
<1>7. ASSUME LoseState \/ LoseKey \/ \E w \in Weeks : Alter(w) PROVE FALSE
      BY <1>0, <1>7 DEF LoseState, LoseKey, Alter, Mishaps
<1>8. \A r \in Recorders : ~AppendFails(r)
      BY QuietBefore DEF Inv
<1> QED BY <1>1, <1>2, <1>3, <1>4, <1>5, <1>6, <1>7, <1>8 DEF AuditNext

LEMMA InvHolds == AuditSpec => []Inv
<1> USE AuditAssumption
<1>1. AuditInit => Inv
      BY InitInv
<1>2. ASSUME Inv, AuditNext PROVE Inv'
      BY <1>2, StepKeepsTyped, StepKeepsRecorded, StepKeepsSound DEF Inv
<1>3. ASSUME Inv, UNCHANGED auditVars PROVE Inv'
  <2>1. Typed' /\ OneHolder' /\ AllRecorded'
        BY <1>3 DEF Inv, auditVars, Typed, OneHolder, Holding, AllRecorded, Recorded
  <2>2. Quiet' => LinesChain' /\ Meet'
        BY <1>3 DEF Inv, SoundInv, auditVars, Quiet, LinesChain, Meet, HasChain
  <2>3. Quiet' => Position'
        BY <1>3 DEF Inv, SoundInv, auditVars, Quiet, Position, Newest, HasChain, LockFree, Holding
  <2> QED BY <2>1, <2>2, <2>3 DEF Inv, SoundInv
<1> QED BY <1>1, <1>2, <1>3, PTL DEF AuditSpec

----------------------------------------------------------------------------
(* What follows.                                                            *)

\* The collector gets nothing the log of record lacks.
THEOREM SentIsRecorded == AuditSpec => []ForwardedIsRecorded
<1>1. Inv => ForwardedIsRecorded
      BY DEF Inv, AllRecorded, Recorded, ForwardedIsRecorded
<1> QED BY <1>1, InvHolds, PTL

\* However many threads record, over however many weeks and restarts: while nothing goes wrong,
\* the log passes its check.
THEOREM SoundLogsVerify == AuditSpec => []SoundLogVerifies
<1> USE AuditAssumption
<1>1. Inv => SoundLogVerifies
  <2> SUFFICES ASSUME Inv, LockFree, ~Some(Mishaps) PROVE LogOk
      BY DEF SoundLogVerifies
  <2>0. LinesChain /\ Position /\ Meet /\ Weeks \subseteq Nat \ {0}
        BY DEF Some, Inv, Typed, SoundInv, Quiet, AuditConstants
  <2>1. /\ \A line : OurLine(line) => Chained(line) /\ line # Plain /\ line # Torn /\ line.kind = "whole" /\ line.key = 1
        /\ ~Chained(Plain) /\ Plain # Torn
        BY DEF OurLine, Chained, Plain, Torn, Line
  <2> HIDE DEF OurLine, Chained, Plain, Torn
  <2>2. \A w \in Weeks : \A i \in 1 .. Len(file[w]) :
            /\ file[w][i] # Torn /\ (file[w][i] = Plain \/ OurLine(file[w][i]))
            /\ i \in ChainedAt(w) <=> OurLine(file[w][i])
        BY <2>0, <2>1 DEF LinesChain, ChainedAt
  <2>3. \A w \in Weeks : ChainedAt(w) \subseteq 1 .. Len(file[w]) /\ Len(file[w]) \in Nat
        BY <2>0 DEF ChainedAt, LinesChain
  <2>4. ASSUME NEW w \in Weeks, NEW i \in ChainedAt(w)
        PROVE  /\ OurLine(file[w][i])
               /\ i < Len(file[w]) => i + 1 \in ChainedAt(w) /\ file[w][i + 1].prev = file[w][i].id
               /\ i > 1 /\ (i - 1) \notin ChainedAt(w) => file[w][i - 1] = Plain /\ file[w][i].prev = Genesis
    <3>1. i \in 1 .. Len(file[w]) /\ OurLine(file[w][i])
          BY <2>2, <2>3
    <3>2. i < Len(file[w]) => i + 1 \in 1 .. Len(file[w])
          BY <2>3, <3>1
    <3>3. i > 1 => i - 1 \in 1 .. Len(file[w])
          BY <2>3, <3>1
    <3>4. i < Len(file[w]) => OurLine(file[w][i + 1]) /\ file[w][i + 1].prev = file[w][i].id
          BY <2>0, <3>1 DEF LinesChain
    <3>5. i > 1 /\ file[w][i - 1] = Plain => file[w][i].prev = Genesis
          BY <2>0, <3>1 DEF LinesChain
    <3> QED BY <2>2, <3>1, <3>2, <3>3, <3>4, <3>5
  <2>5. \A w \in Weeks : WeekOk(w)
    <3> SUFFICES ASSUME NEW w \in Weeks PROVE WeekOk(w)
        OBVIOUS
    <3>1. ASSUME NEW i \in ChainedAt(w), i - 1 \in ChainedAt(w) PROVE Follows(file[w], i)
      <4>1. i - 1 < Len(file[w]) /\ (i - 1) + 1 = i
            BY <2>3, <3>1
      <4>2. file[w][(i - 1) + 1].prev = file[w][i - 1].id
            BY <2>4, <3>1, <4>1
      <4> QED BY <4>1, <4>2 DEF Follows
    <3>2. key = 1
          BY <2>0 DEF LinesChain
    <3> QED BY <2>1, <2>2, <2>4, <3>1, <3>2 DEF WeekOk
  <2>6. ASSUME NEW w \in Weeks, NEW last \in Last(w)
        PROVE  HasChain(w) /\ last = file[w][Len(file[w])]
    <3>1. PICK i \in ChainedAt(w) : last = file[w][i] /\ \A k \in ChainedAt(w) : k <= i
          BY DEF Last
    <3>2. i \in 1 .. Len(file[w]) /\ Len(file[w]) \in Nat
          BY <2>3
    <3>3. i = Len(file[w])
      <4>1. ~(i < Len(file[w]))
        <5>1. ASSUME i < Len(file[w]) PROVE FALSE
          <6>1. i + 1 \in ChainedAt(w)
                BY <2>4, <5>1
          <6> QED BY <3>1, <3>2, <6>1
        <5> QED BY <5>1
      <4> QED BY <3>2, <4>1
    <3>4. OurLine(file[w][i])
          BY <2>4
    <3>5. file[w] # <<>>
          BY <3>2, <3>3
    <3> QED BY <3>1, <3>3, <3>4, <3>5 DEF HasChain
  <2>7. \A x \in Weeks : HasChain(x) => x \in WithChain
    <3> SUFFICES ASSUME NEW x \in Weeks, HasChain(x) PROVE ChainedAt(x) # {}
        BY DEF WithChain
    <3>1. file[x] \in Seq(LineRecords) /\ file[x] # <<>>
          BY <2>0 DEF LinesChain, HasChain
    <3>2. Len(file[x]) \in 1 .. Len(file[x])
          BY <3>1
    <3> QED BY <2>2, <3>2 DEF HasChain
  <2>8. WeeksMeet
    <3> SUFFICES ASSUME NEW v \in WithChain, NEW w \in WithChain, v < w, \A x \in WithChain : ~(v < x /\ x < w),
                        NEW first \in First(w), NEW last \in Last(v)
                 PROVE  first.prev \in {Genesis, last.id}
        BY DEF WeeksMeet
    <3>1. v \in Weeks /\ w \in Weeks
          BY DEF WithChain
    <3>2. PICK i \in ChainedAt(w) : first = file[w][i] /\ \A k \in ChainedAt(w) : i <= k
          BY DEF First
    <3>3. i \in 1 .. Len(file[w]) /\ OurLine(file[w][i])
          BY <2>3, <2>4, <3>1
    <3>4. (i - 1) \notin ChainedAt(w)
          BY <3>2, <3>3
    <3>5. i = 1 \/ file[w][i - 1] = Plain
          BY <2>4, <3>1, <3>3, <3>4
    <3>6. HasChain(v) /\ last = file[v][Len(file[v])] /\ \A x \in Weeks : HasChain(x) => ~(v < x /\ x < w)
          BY <2>6, <2>7, <3>1
    <3> QED BY <2>0, <3>1, <3>2, <3>3, <3>5, <3>6 DEF Meet
  <2>9. TailOk
    <3> SUFFICES ASSUME NEW w \in WithChain, \A x \in WithChain : x <= w, stateFile # Absent, NEW last \in Last(w)
                 PROVE  stateFile = last.id
        BY DEF TailOk
    <3>1. w \in Weeks
          BY DEF WithChain
    <3>2. HasChain(w) /\ last = file[w][Len(file[w])] /\ \A x \in Weeks : HasChain(x) => x <= w
          BY <2>6, <2>7, <3>1
    <3>3. stateFile = lastHash /\ Newest(lastHash)
          BY <2>0 DEF Position, LockFree, Holding
    <3> QED BY <3>1, <3>2, <3>3 DEF Newest
  <2> QED BY <2>5, <2>8, <2>9 DEF LogOk
<1> QED BY <1>1, InvHolds, PTL

----------------------------------------------------------------------------
(* The whole log, whatever happens to it: what is written is numbered in    *)
(* the order it was written, and no line of a file was never written.       *)
FilesTyped == file \in [Weeks -> Seq(LineRecords)]
IsWritten(line) == \E i \in 1 .. Len(written) : written[i] = line
FilesAreWritten == \A w \in Weeks : \A p \in 1 .. Len(file[w]) : file[w][p].kind = "whole" => IsWritten(file[w][p])
Numbered ==
    /\ \A i \in 1 .. Len(written) : written[i].kind = "whole" /\ written[i].id \in 1 .. count
    /\ \A i, j \in 1 .. Len(written) : i < j => written[i].id < written[j].id
    /\ \A r \in Recorders : recorder[r].pc = "stamped" =>
          /\ recorder[r].line.kind = "whole" /\ recorder[r].line.id = count /\ count > 0
          /\ \A i \in 1 .. Len(written) : written[i].id < count

\* While no write was interrupted or failed, and none came late: a line names the one written
\* before it, or the chain starts anew; and a later week holds later lines.
Careful == \A m \in {"crash", "append", "persist", "late"} : mishaps[m] = 0
LastWritten == IF written = <<>> THEN Genesis ELSE written[Len(written)].id
NamesItsPredecessor ==
    \A i \in 1 .. Len(written) : written[i].prev = Genesis \/ (i > 1 /\ written[i].prev = written[i - 1].id)
LoggerKnows ==
    /\ \A r \in Recorders : recorder[r].pc = "stamped" => 
          recorder[r].line.prev \in {Genesis, LastWritten} /\ lastHash = recorder[r].line.id
    /\ \A r \in Recorders : recorder[r].pc = "appended" => lastHash = LastWritten
    /\ LockFree => lastHash \in {Genesis, LastWritten} /\ stateFile \in {Absent, LastWritten}
WeeksInOrder ==
    \A v, w \in Weeks : \A p \in 1 .. Len(file[v]), q \in 1 .. Len(file[w]) :
        v < w /\ file[v][p].kind = "whole" /\ file[w][q].kind = "whole" => file[v][p].id < file[w][q].id
CarefulInv == Careful => NamesItsPredecessor /\ LoggerKnows /\ WeeksInOrder
WholeInv == FilesTyped /\ FilesAreWritten /\ Numbered /\ CarefulInv

LEMMA LeastOf ==
    ASSUME NEW S \in SUBSET Nat, S # {}
    PROVE  \E m \in S : \A n \in S : m <= n
<1> DEFINE Less == OpToRel(<, Nat)
<1>1. IsWellFoundedOn(Less, Nat)
      BY NatLessThanWellFounded
<1>2. \A m, n \in Nat : n < m => <<n, m>> \in Less
      BY DEF OpToRel
<1> HIDE DEF Less
<1>3. PICK m \in S : \A n \in S : ~(<<n, m>> \in Less)
      BY <1>1, WFMin
<1>4. \A n \in S : ~(n < m) /\ n \in Nat /\ m \in Nat
      BY <1>2, <1>3
<1> QED BY <1>4

LEMMA WithLines ==
    ASSUME NEW lines \in Seq(LineRecords), NEW line \in LineRecords
    PROVE  /\ With(lines, line) \in Seq(LineRecords)
           /\ \A p \in 1 .. Len(With(lines, line)) :
                 With(lines, line)[p] = line \/ (p \in 1 .. Len(lines) /\ With(lines, line)[p] = lines[p])
<1>1. CASE EndsTorn(lines)
      BY <1>1 DEF With
<1>2. CASE ~EndsTorn(lines)
  <2>1. With(lines, line) = Append(lines, line)
        BY <1>2 DEF With
  <2> QED BY <2>1
<1> QED BY <1>1, <1>2

\* An alteration takes lines away, moves or damages them; it makes no whole one.
LEMMA AlteredLines ==
    ASSUME NEW lines \in Seq(LineRecords), NEW to \in Altered(lines)
    PROVE  /\ to \in Seq(LineRecords)
           /\ \A p \in 1 .. Len(to) : to[p].kind = "whole" => \E q \in 1 .. Len(lines) : lines[q] = to[p]
<1>0. Plain \in LineRecords /\ Plain.kind = "plain"
      BY DEF Plain, Line, LineRecords
<1> HIDE DEF Plain
<1>1. CASE to = <<>>
      BY <1>1
<1>2. ASSUME NEW i \in 1 .. Len(lines), to = Without(lines, i)
      PROVE  /\ to \in Seq(LineRecords)
             /\ \A p \in 1 .. Len(to) : \E q \in 1 .. Len(lines) : lines[q] = to[p]
  <2> DEFINE a == SubSeq(lines, 1, i - 1)
             b == SubSeq(lines, i + 1, Len(lines))
  <2>1. a \in Seq(LineRecords) /\ Len(a) = i - 1 /\ \A p \in 1 .. i - 1 : a[p] = lines[p]
        OBVIOUS
  <2>2. b \in Seq(LineRecords) /\ Len(b) = Len(lines) - i /\ \A p \in 1 .. Len(lines) - i : b[p] = lines[p + i]
        OBVIOUS
  <2>3. to = a \o b
        BY <1>2 DEF Without
  <2> HIDE DEF a, b
  <2>4. to \in Seq(LineRecords) /\ Len(to) = Len(lines) - 1
        BY <2>1, <2>2, <2>3
  <2>5. ASSUME NEW p \in 1 .. Len(to) PROVE \E q \in 1 .. Len(lines) : lines[q] = to[p]
    <3>1. CASE p <= i - 1
          BY <2>1, <2>2, <2>3, <2>4, <3>1
    <3>2. CASE p > i - 1
      <4>1. p - (i - 1) \in 1 .. Len(lines) - i /\ p + 1 \in 1 .. Len(lines)
            BY <2>4, <3>2
      <4>2. to[p] = b[p - (i - 1)]
            BY <2>1, <2>2, <2>3, <2>4, <3>2
      <4> QED BY <2>2, <4>1, <4>2
    <3> QED BY <3>1, <3>2
  <2> QED BY <2>4, <2>5
<1>3. ASSUME NEW i \in 1 .. Len(lines) - 1, to = Swapped(lines, i)
      PROVE  /\ to \in Seq(LineRecords)
             /\ \A p \in 1 .. Len(to) : \E q \in 1 .. Len(lines) : lines[q] = to[p]
      BY <1>3 DEF Swapped
<1>4. ASSUME NEW i \in 1 .. Len(lines), to = [lines EXCEPT ![i].kind = "edited"]
      PROVE  /\ to \in Seq(LineRecords)
             /\ \A p \in 1 .. Len(to) : to[p].kind = "whole" => \E q \in 1 .. Len(lines) : lines[q] = to[p]
  <2>1. lines[i] \in LineRecords
        OBVIOUS
  <2>2. [lines[i] EXCEPT !.kind = "edited"] \in LineRecords /\ [lines[i] EXCEPT !.kind = "edited"].kind = "edited"
        BY <2>1 DEF LineRecords
  <2>3. to = [lines EXCEPT ![i] = [lines[i] EXCEPT !.kind = "edited"]]
        BY <1>4
  <2> QED BY <2>2, <2>3
<1>5. ASSUME NEW i \in 1 .. Len(lines), to = [lines EXCEPT ![i] = Plain]
      PROVE  /\ to \in Seq(LineRecords)
             /\ \A p \in 1 .. Len(to) : to[p].kind = "whole" => \E q \in 1 .. Len(lines) : lines[q] = to[p]
      BY <1>0, <1>5
<1> QED BY <1>1, <1>2, <1>3, <1>4, <1>5 DEF Altered

\* What any step does to the files: a whole line was there before, or is the one just appended.
Appending(w, line) == \E r \in Recorders : AppendLine(r) /\ recorder[r].week = w /\ recorder[r].line = line
LEMMA StepKeepsFiles ==
    ASSUME AuditConstants, Typed, FilesTyped, AuditNext
    PROVE  /\ FilesTyped'
           /\ \A w \in Weeks : \A p \in 1 .. Len(file'[w]) : file'[w][p].kind = "whole" =>
                 (\E q \in 1 .. Len(file[w]) : file[w][q] = file'[w][p]) \/ Appending(w, file'[w][p])
<1> USE DEF FilesTyped
<1>0. Torn \in LineRecords /\ Torn.kind = "torn"
      BY DEF Torn, Line, LineRecords
<1> HIDE DEF Torn
<1>1. ASSUME NEW r \in Recorders, AppendLine(r)
      PROVE  /\ FilesTyped'
             /\ \A w \in Weeks : \A p \in 1 .. Len(file'[w]) : file'[w][p].kind = "whole" =>
                   (\E q \in 1 .. Len(file[w]) : file[w][q] = file'[w][p]) \/ Appending(w, file'[w][p])
  <2> DEFINE u == recorder[r].week
             line == recorder[r].line
  <2>1. u \in Weeks /\ line \in LineRecords
        BY <1>1 DEF AppendLine, Typed
  <2>2. file' = [file EXCEPT ![u] = With(file[u], line)]
        BY <1>1 DEF AppendLine
  <2>3. ASSUME NEW w \in Weeks, NEW p \in 1 .. Len(file'[w])
        PROVE  (\E q \in 1 .. Len(file[w]) : file[w][q] = file'[w][p]) \/ Appending(w, file'[w][p])
    <3>1. CASE w = u
      <4>1. file'[w] = With(file[w], line) /\ file[w] \in Seq(LineRecords)
            BY <2>2, <3>1
      <4>3. \A q \in 1 .. Len(With(file[w], line)) :
               With(file[w], line)[q] = line \/ (q \in 1 .. Len(file[w]) /\ With(file[w], line)[q] = file[w][q])
            BY <2>1, <4>1, WithLines
      <4>2. file'[w][p] = line \/ (p \in 1 .. Len(file[w]) /\ file'[w][p] = file[w][p])
            BY <4>1, <4>3
      <4> QED BY <1>1, <3>1, <4>2 DEF Appending
    <3>2. CASE w # u
          BY <2>2, <3>2
    <3> QED BY <3>1, <3>2
  <2>4. FilesTyped'
        BY <2>1, <2>2, WithLines
  <2> QED BY <2>3, <2>4
<1>2. ASSUME NEW w \in Weeks
      PROVE  /\ With(file[w], Torn) \in Seq(LineRecords)
             /\ \A p \in 1 .. Len(With(file[w], Torn)) : With(file[w], Torn)[p].kind = "whole" =>
                   \E q \in 1 .. Len(file[w]) : file[w][q] = With(file[w], Torn)[p]
      BY <1>0, WithLines
<1>3. ASSUME NEW r \in Recorders, AppendFails(r)
      PROVE  \A w \in Weeks : file'[w] \in {file[w], With(file[w], Torn)} /\ DOMAIN file' = Weeks
      BY <1>3 DEF AppendFails
<1>4. ASSUME AuditRestart
      PROVE  \A w \in Weeks : file'[w] \in {file[w], With(file[w], Torn)} /\ DOMAIN file' = Weeks
      BY <1>4 DEF AuditRestart
<1>5. ASSUME file' = [w \in Weeks |-> file'[w]], \A w \in Weeks : file'[w] \in {file[w], With(file[w], Torn)}
      PROVE  /\ FilesTyped'
             /\ \A w \in Weeks : \A p \in 1 .. Len(file'[w]) : file'[w][p].kind = "whole" =>
                   \E q \in 1 .. Len(file[w]) : file[w][q] = file'[w][p]
  <2>1. \A w \in Weeks : file'[w] \in Seq(LineRecords)
        BY <1>2, <1>5
  <2>2. FilesTyped'
        BY <1>5, <2>1
  <2>3. ASSUME NEW w \in Weeks, NEW p \in 1 .. Len(file'[w]), file'[w][p].kind = "whole"
        PROVE  \E q \in 1 .. Len(file[w]) : file[w][q] = file'[w][p]
    <3>1. CASE file'[w] = file[w]
          BY <2>3, <3>1
    <3>2. CASE file'[w] = With(file[w], Torn)
          BY <1>2, <2>3, <3>2
    <3> QED BY <1>5, <3>1, <3>2
  <2> QED BY <2>2, <2>3
<1>6. ASSUME NEW w \in Weeks, Alter(w)
      PROVE  /\ FilesTyped'
             /\ \A v \in Weeks : \A p \in 1 .. Len(file'[v]) : file'[v][p].kind = "whole" =>
                   \E q \in 1 .. Len(file[v]) : file[v][q] = file'[v][p]
  <2>1. PICK lines \in Altered(file[w]) : file' = [file EXCEPT ![w] = lines]
        BY <1>6 DEF Alter
  <2>2. lines \in Seq(LineRecords)
        /\ \A p \in 1 .. Len(lines) : lines[p].kind = "whole" => \E q \in 1 .. Len(file[w]) : file[w][q] = lines[p]
        BY <2>1, AlteredLines
  <2> QED BY <2>1, <2>2
<1>7. ASSUME file' = file
      PROVE  /\ FilesTyped'
             /\ \A w \in Weeks : \A p \in 1 .. Len(file'[w]) : file'[w][p].kind = "whole" =>
                   \E q \in 1 .. Len(file[w]) : file[w][q] = file'[w][p]
      BY <1>7
<1>8. ASSUME AuditRestart \/ \E r \in Recorders : AppendFails(r)
      PROVE  /\ FilesTyped'
             /\ \A w \in Weeks : \A p \in 1 .. Len(file'[w]) : file'[w][p].kind = "whole" =>
                   \E q \in 1 .. Len(file[w]) : file[w][q] = file'[w][p]
  <2>1. file' = [w \in Weeks |-> file'[w]]
        BY <1>8 DEF AuditRestart, AppendFails
  <2> QED BY <1>3, <1>4, <1>5, <1>8, <2>1
<1>9. \/ \E r \in Recorders : AppendLine(r) \/ AppendFails(r)
      \/ AuditRestart \/ \E w \in Weeks : Alter(w)
      \/ file' = file
      BY DEF AuditNext, Build, Stamp, Persist, Submit, Send, LoseState, LoseKey, NextWeek
<1> QED BY <1>1, <1>6, <1>7, <1>8, <1>9

\* Numbers only grow, in the order of writing, and only what is written reaches a file.
LEMMA StepKeepsNumbered ==
    ASSUME AuditConstants, Typed, Typed', OneHolder, FilesTyped, FilesAreWritten, Numbered, AuditNext
    PROVE  FilesAreWritten' /\ Numbered'
<1>0. /\ recorder \in [Recorders -> [pc : Stages, week : Weeks, line : LineRecords \union {Absent}]]
      /\ \A r \in Recorders : recorder[r].pc \notin {"idle", "built"} => recorder[r].line \in LineRecords
      /\ written \in Seq(LineRecords) /\ count \in Nat
      BY DEF Typed
<1>1. Resting.pc = "idle" /\ At("built", week, Absent).pc = "built"
      BY DEF Resting, At
<1> HIDE DEF Resting
<1>2. ASSUME written' = written, \A w \in Weeks : \A line : ~Appending(w, line)
      PROVE  FilesAreWritten'
  <2>1. \A w \in Weeks : \A p \in 1 .. Len(file'[w]) : file'[w][p].kind = "whole" => IsWritten(file'[w][p])
        BY <1>2, StepKeepsFiles DEF FilesAreWritten
  <2> QED BY <1>2, <2>1 DEF FilesAreWritten, IsWritten
<1>3. ASSUME written' = written, count' = count,
             \A r \in Recorders : recorder'[r].pc = "stamped" => recorder'[r] = recorder[r]
      PROVE  Numbered'
      BY <1>3 DEF Numbered
<1>4. ASSUME NEW r \in Recorders, AppendLine(r) PROVE FilesAreWritten' /\ Numbered'
  <2> DEFINE line == recorder[r].line
  <2>1. /\ recorder[r].pc = "stamped" /\ line \in LineRecords
        /\ written' = Append(written, line) /\ count' = count
        /\ \A q \in Recorders \ {r} : recorder'[q] = recorder[q]
        /\ recorder'[r].pc = "appended"
        BY <1>0, <1>4 DEF AppendLine
  <2>2. line.kind = "whole" /\ line.id = count /\ count > 0 /\ \A i \in 1 .. Len(written) : written[i].id < count
        BY <2>1 DEF Numbered
  <2>3. \A q \in Recorders : recorder'[q].pc # "stamped"
        BY <2>1 DEF OneHolder, Holding
  <2>4. ASSUME NEW w \in Weeks, NEW x, Appending(w, x) PROVE x = line
    <3>1. PICK q \in Recorders : AppendLine(q) /\ recorder[q].line = x
          BY <2>4 DEF Appending
    <3>2. recorder[q].pc = "stamped"
          BY <3>1 DEF AppendLine
    <3>3. q = r
          BY <2>1, <3>2 DEF OneHolder, Holding
    <3> QED BY <3>1, <3>3
  <2> HIDE DEF line
  <2>5. /\ Len(written') = Len(written) + 1 /\ written'[Len(written) + 1] = line
        /\ \A i \in 1 .. Len(written) : written'[i] = written[i]
        BY <1>0, <2>1
  <2>7. ASSUME NEW w \in Weeks, NEW p \in 1 .. Len(file'[w]), file'[w][p].kind = "whole"
        PROVE  \E i \in 1 .. Len(written') : written'[i] = file'[w][p]
    <3>1. CASE \E q \in 1 .. Len(file[w]) : file[w][q] = file'[w][p]
      <4>1. PICK i \in 1 .. Len(written) : written[i] = file'[w][p]
            BY <2>7, <3>1 DEF FilesAreWritten, IsWritten
      <4> QED BY <1>0, <2>5, <4>1
    <3>2. CASE Appending(w, file'[w][p])
      <4>1. file'[w][p] = line
            BY <2>4, <3>2
      <4> QED BY <1>0, <2>5, <4>1
    <3> QED BY <2>7, <3>1, <3>2, StepKeepsFiles
  <2>8. FilesAreWritten'
        BY <2>7 DEF FilesAreWritten, IsWritten
  <2>9. ASSUME NEW i \in 1 .. Len(written') PROVE written'[i].kind = "whole" /\ written'[i].id \in 1 .. count'
    <3>1. CASE i = Len(written) + 1
          BY <1>0, <2>1, <2>2, <2>5, <3>1
    <3>2. CASE i # Len(written) + 1
          BY <1>0, <2>1, <2>5, <3>2 DEF Numbered
    <3> QED BY <3>1, <3>2
  <2>10. ASSUME NEW i \in 1 .. Len(written'), NEW j \in 1 .. Len(written'), i < j PROVE written'[i].id < written'[j].id
    <3>0. i \in 1 .. Len(written) /\ written'[i] = written[i]
          BY <1>0, <2>5, <2>10
    <3>1. CASE j = Len(written) + 1
          BY <2>2, <2>5, <3>0, <3>1
    <3>2. CASE j # Len(written) + 1
      <4>1. j \in 1 .. Len(written) /\ written'[j] = written[j]
            BY <1>0, <2>5, <3>2
      <4> QED BY <2>10, <3>0, <4>1 DEF Numbered
    <3> QED BY <3>1, <3>2
  <2>11. Numbered'
        BY <2>3, <2>9, <2>10 DEF Numbered
  <2> QED BY <2>8, <2>11
<1>5. ASSUME NEW r \in Recorders, Stamp(r) PROVE FilesAreWritten' /\ Numbered'
  <2> DEFINE line == Line("whole", count + 1, lastHash, key)
  <2>1. /\ \A q \in Recorders : recorder'[q] = IF q = r THEN At("stamped", recorder[r].week, line) ELSE recorder[q]
        /\ count' = count + 1 /\ written' = written /\ file' = file
        /\ \A q \in Recorders : ~Holding(q)
        BY <1>0, <1>5 DEF Stamp, MayStamp, LockFree
  <2>2. line.kind = "whole" /\ line.id = count + 1
        BY DEF Line
  <2> HIDE DEF line
  <2>3. At("stamped", recorder[r].week, line).line = line
        BY DEF At
  <2>4. \A q \in Recorders : recorder'[q].pc = "stamped" => recorder'[q].line = line
        BY <2>1, <2>3 DEF Holding
  <2>5. \A i \in 1 .. Len(written) : written[i].id \in 1 .. count
        BY DEF Numbered
  <2>6. \A i \in 1 .. Len(written') : written'[i].kind = "whole" /\ written'[i].id \in 1 .. count' /\ written'[i].id < count'
        BY <1>0, <2>1, <2>5 DEF Numbered
  <2>7. Numbered'
        BY <1>0, <2>1, <2>2, <2>4, <2>6 DEF Numbered
  <2>8. FilesAreWritten'
        BY <2>1 DEF FilesAreWritten, IsWritten
  <2> QED BY <2>7, <2>8
<1>6. ASSUME NEW r \in Recorders, Build(r) \/ AppendFails(r) \/ Persist(r) \/ Submit(r)
      PROVE  FilesAreWritten' /\ Numbered'
  <2>1. /\ written' = written /\ count' = count
        /\ \A q \in Recorders : recorder'[q].pc = "stamped" => recorder'[q] = recorder[q]
        BY <1>0, <1>1, <1>6 DEF Build, AppendFails, Persist, Submit, AfterError
  <2>2. \A w \in Weeks : \A line : ~Appending(w, line)
    <3> SUFFICES ASSUME NEW q \in Recorders, AppendLine(q) PROVE FALSE
        BY DEF Appending
    <3>1. written' = Append(written, recorder[q].line) /\ recorder[q].line \in LineRecords
          BY <1>0 DEF AppendLine
    <3>2. Len(written') = Len(written) + 1
          BY <1>0, <3>1
    <3> QED BY <1>0, <2>1, <3>2
  <2> QED BY <1>2, <1>3, <2>1, <2>2
<1>7. ASSUME Send \/ AuditRestart \/ LoseState \/ LoseKey \/ NextWeek \/ \E w \in Weeks : Alter(w)
      PROVE  FilesAreWritten' /\ Numbered'
  <2>1. /\ written' = written /\ count' = count
        /\ \A q \in Recorders : recorder'[q].pc = "stamped" => recorder'[q] = recorder[q]
        BY <1>0, <1>1, <1>7 DEF Send, AuditRestart, LoseState, LoseKey, NextWeek, Alter
  <2>2. \A w \in Weeks : \A line : ~Appending(w, line)
    <3> SUFFICES ASSUME NEW q \in Recorders, AppendLine(q) PROVE FALSE
        BY DEF Appending
    <3>1. written' = Append(written, recorder[q].line) /\ recorder[q].line \in LineRecords
          BY <1>0 DEF AppendLine
    <3>2. Len(written') = Len(written) + 1
          BY <1>0, <3>1
    <3> QED BY <1>0, <2>1, <3>2
  <2> QED BY <1>2, <1>3, <2>1, <2>2
<1> QED BY <1>4, <1>5, <1>6, <1>7 DEF AuditNext

\* A run that is careful so far has been so all along.
LEMMA CarefulBefore ==
    ASSUME AuditConstants, Typed, AuditNext, Careful'
    PROVE  /\ Careful /\ \A m \in {"crash", "append", "persist"} : ~Mishap(m)
           /\ \A r \in Recorders : AppendLine(r) => ~Late(recorder[r].week)
<1>0. mishaps \in [Mishaps -> Nat] /\ {"crash", "append", "persist", "late", "state", "key", "altered"} = Mishaps
      BY DEF Typed, Mishaps
<1>1. ASSUME NEW m \in Mishaps, Mishap(m) PROVE \A n \in Mishaps : mishaps'[n] = IF n = m THEN mishaps[n] + 1 ELSE mishaps[n]
      BY <1>0, <1>1 DEF Mishap
<1>2. ASSUME NEW r \in Recorders, AppendLine(r)
      PROVE  ~Late(recorder[r].week) /\ mishaps' = mishaps
  <2>1. mishaps' = IF Late(recorder[r].week) THEN [mishaps EXCEPT !["late"] = 1] ELSE mishaps
        BY <1>2 DEF AppendLine
  <2>2. mishaps'["late"] = 0
        BY DEF Careful
  <2> QED BY <1>0, <2>1, <2>2
<1>3. \/ mishaps' = mishaps
      \/ \E m \in Mishaps : Mishap(m)
      BY <1>0, <1>2 DEF AuditNext, Build, Stamp, AppendFails, Persist, Submit, Send, AuditRestart, LoseState, LoseKey, Alter, NextWeek
<1>4. \A m \in {"crash", "append", "persist"} : ~Mishap(m)
      BY <1>0, <1>1 DEF Careful
<1>5. Careful
      BY <1>0, <1>1, <1>3 DEF Careful
<1> QED BY <1>2, <1>4, <1>5

\* While careful, the logger goes on from the entry it wrote last, or from the start.
LEMMA StepKeepsCareful ==
    ASSUME AuditConstants, Typed, OneHolder, FilesTyped, FilesAreWritten, Numbered, CarefulInv, AuditNext
    PROVE  CarefulInv'
<1> SUFFICES ASSUME Careful' PROVE NamesItsPredecessor' /\ LoggerKnows' /\ WeeksInOrder'
    BY DEF CarefulInv
<1>0. /\ recorder \in [Recorders -> [pc : Stages, week : Weeks, line : LineRecords \union {Absent}]]
      /\ \A r \in Recorders : recorder[r].pc \notin {"idle", "built"} => recorder[r].line \in LineRecords
      /\ written \in Seq(LineRecords) /\ count \in Nat /\ Weeks \subseteq Nat
      /\ \A w \in Weeks : file[w] \in Seq(LineRecords)
      BY DEF Typed, AuditConstants, FilesTyped
<1>1. NamesItsPredecessor /\ LoggerKnows /\ WeeksInOrder
      BY CarefulBefore DEF CarefulInv
<1>2. Resting.pc = "idle" /\ At("built", week, Absent).pc = "built"
      BY DEF Resting, At
<1> HIDE DEF Resting
<1>3. ASSUME written' = written PROVE NamesItsPredecessor' /\ LastWritten' = LastWritten
      BY <1>1, <1>3 DEF NamesItsPredecessor, LastWritten
<1>4. ASSUME \A w \in Weeks : \A line : ~Appending(w, line) PROVE WeeksInOrder'
  <2>1. \A w \in Weeks : \A p \in 1 .. Len(file'[w]) : file'[w][p].kind = "whole" =>
            \E q \in 1 .. Len(file[w]) : file[w][q] = file'[w][p]
        BY <1>4, StepKeepsFiles
  <2> SUFFICES ASSUME NEW v \in Weeks, NEW w \in Weeks, v < w,
                      NEW p \in 1 .. Len(file'[v]), NEW q \in 1 .. Len(file'[w]),
                      file'[v][p].kind = "whole", file'[w][q].kind = "whole"
               PROVE  file'[v][p].id < file'[w][q].id
      BY DEF WeeksInOrder
  <2>2. PICK k \in 1 .. Len(file[v]) : file[v][k] = file'[v][p]
        BY <2>1
  <2>3. PICK n \in 1 .. Len(file[w]) : file[w][n] = file'[w][q]
        BY <2>1
  <2> QED BY <1>1, <2>2, <2>3 DEF WeeksInOrder
<1>5. ASSUME written' = written PROVE \A w \in Weeks : \A line : ~Appending(w, line)
  <2> SUFFICES ASSUME NEW q \in Recorders, AppendLine(q) PROVE FALSE
      BY DEF Appending
  <2>1. written' = Append(written, recorder[q].line) /\ recorder[q].line \in LineRecords
        BY <1>0 DEF AppendLine
  <2>2. Len(written') = Len(written) + 1
        BY <1>0, <2>1
  <2> QED BY <1>0, <1>5, <2>2
<1>6. ASSUME NEW r \in Recorders, AppendLine(r)
      PROVE  NamesItsPredecessor' /\ LoggerKnows' /\ WeeksInOrder'
  <2> DEFINE line == recorder[r].line
             u == recorder[r].week
  <2>1. /\ recorder[r].pc = "stamped" /\ line \in LineRecords /\ u \in Weeks
        /\ written' = Append(written, line) /\ lastHash' = lastHash /\ stateFile' = stateFile
        /\ \A q \in Recorders \ {r} : recorder'[q] = recorder[q]
        /\ recorder'[r].pc = "appended"
        /\ file' = [file EXCEPT ![u] = With(file[u], line)]
        BY <1>0, <1>6 DEF AppendLine
  <2>2. /\ line.id = count /\ line.prev \in {Genesis, LastWritten}
        /\ \A i \in 1 .. Len(written) : written[i].id < count
        BY <1>1, <2>1 DEF Numbered, LoggerKnows
  <2>3. \A q \in Recorders : recorder[q].pc \in {"stamped", "appended"} => q = r
        BY <2>1 DEF OneHolder, Holding
  <2>4. lastHash = line.id
        BY <1>1, <2>1 DEF LoggerKnows
  <2>5. \A v \in Weeks : v > u => file[v] = <<>>
        BY <1>6, CarefulBefore DEF Late
  <2>6. ASSUME NEW w \in Weeks, NEW x, Appending(w, x) PROVE x = line /\ w = u
    <3>1. PICK q \in Recorders : AppendLine(q) /\ recorder[q].line = x /\ recorder[q].week = w
          BY <2>6 DEF Appending
    <3>2. recorder[q].pc = "stamped"
          BY <3>1 DEF AppendLine
    <3> QED BY <2>3, <3>1, <3>2
  <2> HIDE DEF line, u
  <2>7. /\ Len(written') = Len(written) + 1 /\ written'[Len(written) + 1] = line
        /\ \A i \in 1 .. Len(written) : written'[i] = written[i]
        BY <1>0, <2>1
  <2>8. LastWritten' = line.id
        BY <1>0, <2>7 DEF LastWritten
  <2>9. NamesItsPredecessor'
    <3> SUFFICES ASSUME NEW i \in 1 .. Len(written')
                 PROVE  written'[i].prev = Genesis \/ (i > 1 /\ written'[i].prev = written'[i - 1].id)
        BY DEF NamesItsPredecessor
    <3>1. CASE i = Len(written) + 1
      <4>1. CASE written = <<>>
            BY <2>2, <2>7, <3>1, <4>1 DEF LastWritten
      <4>2. CASE written # <<>>
        <5>1. i - 1 = Len(written) /\ i - 1 \in 1 .. Len(written) /\ i > 1
              BY <1>0, <3>1, <4>2
        <5>2. LastWritten = written'[i - 1].id
              BY <2>7, <4>2, <5>1 DEF LastWritten
        <5> QED BY <2>2, <2>7, <3>1, <5>1, <5>2
      <4> QED BY <4>1, <4>2
    <3>2. CASE i # Len(written) + 1
      <4>1. i \in 1 .. Len(written) /\ (i > 1 => i - 1 \in 1 .. Len(written))
            BY <1>0, <2>7, <3>2
      <4> QED BY <1>1, <2>7, <4>1 DEF NamesItsPredecessor
    <3> QED BY <3>1, <3>2
  <2>10. LoggerKnows'
    <3>1. \A q \in Recorders : recorder'[q].pc # "stamped"
          BY <2>1, <2>3
    <3>2. ~LockFree'
          BY <2>1 DEF LockFree, Holding
    <3>3. lastHash' = LastWritten'
          BY <2>1, <2>4, <2>8
    <3> QED BY <3>1, <3>2, <3>3 DEF LoggerKnows
  <2>11. WeeksInOrder'
    <3> SUFFICES ASSUME NEW v \in Weeks, NEW w \in Weeks, v < w,
                        NEW p \in 1 .. Len(file'[v]), NEW q \in 1 .. Len(file'[w]),
                        file'[v][p].kind = "whole", file'[w][q].kind = "whole"
                 PROVE  file'[v][p].id < file'[w][q].id
        BY DEF WeeksInOrder
    <3>1. w # u => \E k \in 1 .. Len(file[w]) : file[w][k] = file'[w][q]
          BY <2>6, StepKeepsFiles
    <3>2. \/ v = u /\ file'[v][p] = line
          \/ \E k \in 1 .. Len(file[v]) : file[v][k] = file'[v][p]
          BY <2>6, StepKeepsFiles
    <3>3. \/ w = u /\ file'[w][q] = line
          \/ \E k \in 1 .. Len(file[w]) : file[w][k] = file'[w][q]
          BY <2>6, StepKeepsFiles
    <3>4. v # u
      <4> SUFFICES ASSUME v = u PROVE FALSE
          OBVIOUS
      <4>1. file[w] = <<>> /\ w # u
            BY <1>0, <2>1, <2>5
      <4> QED BY <3>1, <4>1
    <3>5. PICK k \in 1 .. Len(file[v]) : file[v][k] = file'[v][p]
          BY <3>2, <3>4
    <3>6. CASE w = u /\ file'[w][q] = line
      <4>1. PICK i \in 1 .. Len(written) : written[i] = file'[v][p]
            BY <3>5 DEF FilesAreWritten, IsWritten
      <4> QED BY <2>2, <3>6, <4>1
    <3>7. CASE \E n \in 1 .. Len(file[w]) : file[w][n] = file'[w][q]
          BY <1>1, <3>5, <3>7 DEF WeeksInOrder
    <3> QED BY <3>3, <3>6, <3>7
  <2> QED BY <2>9, <2>10, <2>11
<1>7. ASSUME NEW r \in Recorders, Stamp(r)
      PROVE  NamesItsPredecessor' /\ LoggerKnows' /\ WeeksInOrder'
  <2>1. written' = written /\ \A q \in Recorders : ~Holding(q)
        BY <1>7 DEF Stamp, MayStamp, LockFree
  <2>2. lastHash \in {Genesis, LastWritten}
        BY <1>1, <2>1 DEF LoggerKnows, LockFree
  <2>3. /\ recorder'[r].pc = "stamped" /\ recorder'[r].line.prev = lastHash
        /\ recorder'[r].line.id = lastHash'
        /\ \A q \in Recorders \ {r} : recorder'[q] = recorder[q]
        BY <1>0, <1>7 DEF Stamp, At, Line
  <2>4. LoggerKnows'
    <3>1. ~LockFree'
          BY <2>3 DEF LockFree, Holding
    <3>2. \A q \in Recorders : recorder'[q].pc = "stamped" => q = r
          BY <2>1, <2>3 DEF Holding
    <3>3. \A q \in Recorders : recorder'[q].pc # "appended"
          BY <2>1, <2>3 DEF Holding
    <3> QED BY <1>3, <2>1, <2>2, <2>3, <3>1, <3>2, <3>3 DEF LoggerKnows
  <2> QED BY <1>3, <1>4, <1>5, <2>1, <2>4
<1>8. ASSUME NEW r \in Recorders, Persist(r)
      PROVE  NamesItsPredecessor' /\ LoggerKnows' /\ WeeksInOrder'
  <2>1. /\ written' = written /\ lastHash' = lastHash /\ stateFile' = lastHash
        /\ recorder[r].pc = "appended" /\ recorder'[r].pc = "recorded"
        /\ \A q \in Recorders \ {r} : recorder'[q] = recorder[q]
        BY <1>0, <1>8, CarefulBefore DEF Persist
  <2>2. lastHash = LastWritten
        BY <1>1, <2>1 DEF LoggerKnows
  <2>3. \A q \in Recorders : recorder'[q].pc \notin {"stamped", "appended"}
        BY <2>1 DEF OneHolder, Holding
  <2>4. LoggerKnows'
        BY <1>3, <2>1, <2>2, <2>3 DEF LoggerKnows
  <2> QED BY <1>3, <1>4, <1>5, <2>1, <2>4
<1>9. ASSUME NEW r \in Recorders, Build(r) \/ Submit(r)
      PROVE  NamesItsPredecessor' /\ LoggerKnows' /\ WeeksInOrder'
  <2>1. /\ written' = written /\ lastHash' = lastHash /\ stateFile' = stateFile
        /\ \A q \in Recorders : q # r => recorder'[q] = recorder[q]
        /\ recorder[r].pc \in {"idle", "recorded"} /\ recorder'[r].pc \in {"idle", "built"}
        BY <1>0, <1>2, <1>9 DEF Build, Submit
  <2>2. /\ LockFree' <=> LockFree
        /\ \A q \in Recorders : recorder'[q].pc \in {"stamped", "appended"} => recorder'[q] = recorder[q]
        BY <2>1 DEF LockFree, Holding
  <2>3. LoggerKnows'
        BY <1>1, <1>3, <2>1, <2>2 DEF LoggerKnows
  <2> QED BY <1>3, <1>4, <1>5, <2>1, <2>3
<1>10. ASSUME NEW r \in Recorders, AppendFails(r) PROVE FALSE
      BY <1>10, CarefulBefore DEF AppendFails
<1>11. ASSUME Send \/ NextWeek \/ \E w \in Weeks : Alter(w)
      PROVE  NamesItsPredecessor' /\ LoggerKnows' /\ WeeksInOrder'
  <2>1. UNCHANGED <<written, lastHash, stateFile, recorder>>
        BY <1>11 DEF Send, NextWeek, Alter
  <2>2. LoggerKnows'
        BY <1>1, <1>3, <2>1 DEF LoggerKnows, LockFree, Holding
  <2> QED BY <1>3, <1>4, <1>5, <2>1, <2>2
<1>12. ASSUME AuditRestart \/ LoseState \/ LoseKey
      PROVE  NamesItsPredecessor' /\ LoggerKnows' /\ WeeksInOrder'
  <2>1. LockFree
        BY <1>12, CarefulBefore DEF AuditRestart, LoseState, LoseKey, InHand, LockFree
  <2>2. lastHash' \in {Genesis, LastWritten} /\ stateFile' \in {Absent, LastWritten} /\ written' = written
        BY <1>1, <1>12, <2>1 DEF LoggerKnows, Loaded, AuditRestart, LoseState, LoseKey
  <2>3. \A q \in Recorders : recorder'[q].pc = "idle"
        BY <1>2, <1>12 DEF AuditRestart, LoseState, LoseKey
  <2>4. LoggerKnows'
        BY <1>3, <2>2, <2>3 DEF LoggerKnows
  <2> QED BY <1>3, <1>4, <1>5, <2>2, <2>4
<1> QED BY <1>6, <1>7, <1>8, <1>9, <1>10, <1>11, <1>12 DEF AuditNext

LEMMA WholeInvHolds == AuditSpec => []WholeInv
<1> USE AuditAssumption
<1>1. AuditInit => WholeInv
  <2> SUFFICES ASSUME AuditInit PROVE WholeInv
      OBVIOUS
  <2>1. /\ file = [w \in Weeks |-> IF w = 1 THEN Legacy ELSE <<>>] /\ lastHash = Genesis /\ stateFile = Absent
        /\ written = <<>> /\ \A r \in Recorders : recorder[r].pc = "idle"
        BY DEF AuditInit, Resting, At
  <2>2. \A w \in Weeks : \A p \in 1 .. Len(file[w]) : file[w][p] = Plain
        BY <2>1 DEF AuditConstants
  <2>3. Plain.kind # "whole"
        BY DEF Plain, Line
  <2> HIDE DEF Plain
  <2>4. FilesTyped /\ FilesAreWritten /\ WeeksInOrder
        BY <2>1, <2>2, <2>3 DEF FilesTyped, FilesAreWritten, WeeksInOrder, AuditConstants
  <2>5. Numbered /\ NamesItsPredecessor /\ LoggerKnows
        BY <2>1 DEF Numbered, NamesItsPredecessor, LoggerKnows
  <2> QED BY <2>4, <2>5 DEF WholeInv, CarefulInv
<1>2. Inv /\ Inv' /\ WholeInv /\ AuditNext => WholeInv'
      BY StepKeepsFiles, StepKeepsNumbered, StepKeepsCareful DEF WholeInv, Inv
<1>3. WholeInv /\ UNCHANGED auditVars => WholeInv'
  <2> SUFFICES ASSUME WholeInv, UNCHANGED auditVars PROVE WholeInv'
      OBVIOUS
  <2>1. FilesTyped' /\ FilesAreWritten' /\ Numbered'
        BY DEF WholeInv, auditVars, FilesTyped, FilesAreWritten, IsWritten, Numbered
  <2>2. (Careful' => Careful) /\ LastWritten' = LastWritten /\ (LockFree' <=> LockFree)
        BY DEF auditVars, Careful, LastWritten, LockFree, Holding
  <2>3. Careful' => NamesItsPredecessor' /\ WeeksInOrder'
        BY <2>2 DEF WholeInv, CarefulInv, auditVars, NamesItsPredecessor, WeeksInOrder
  <2>4. Careful' => LoggerKnows'
        BY <2>2 DEF WholeInv, CarefulInv, auditVars, LoggerKnows
  <2> QED BY <2>1, <2>3, <2>4 DEF WholeInv, CarefulInv
<1> QED BY <1>1, <1>2, <1>3, InvHolds, PTL DEF AuditSpec

\* The line that names the k-th line written, and is not the start of a segment, is the next one.
LEMMA TheNextLine ==
    ASSUME Typed, Numbered, NamesItsPredecessor,
           NEW k \in 1 .. Len(written), NEW n \in 1 .. Len(written), written[n].prev = written[k].id
    PROVE  n = k + 1
<1>0. written \in Seq(LineRecords) /\ count \in Nat
      BY DEF Typed
<1>1. written[k].id # Genesis
      BY <1>0 DEF Numbered, Genesis
<1>2. n > 1 /\ written[n - 1].id = written[k].id /\ n - 1 \in 1 .. Len(written)
      BY <1>0, <1>1 DEF NamesItsPredecessor
<1>3. n - 1 = k
  <2> SUFFICES ASSUME n - 1 # k PROVE FALSE
      OBVIOUS
  <2>1. written[n - 1].id \in Nat /\ written[k].id \in Nat
        BY <1>0, <1>2 DEF Numbered
  <2>2. n - 1 < k \/ k < n - 1
        BY <1>0, <1>2
  <2> QED BY <1>2, <2>1, <2>2 DEF Numbered
<1> QED BY <1>0, <1>3

\* In a log that passes, a line on disk with another written after it is followed on disk by that one.
LEMMA NextIsOnDisk ==
    ASSUME AuditConstants, Typed, WholeInv, Careful, LogOk, StateIsCurrent,
           NEW i \in 1 .. Len(written), InNewest(i),
           NEW k \in 1 .. Len(written) - 1, i <= k, k \in OnDisk
    PROVE  k + 1 \in OnDisk
<1>0. /\ written \in Seq(LineRecords) /\ count \in Nat /\ Weeks \subseteq Nat
      /\ FilesTyped /\ FilesAreWritten /\ Numbered /\ NamesItsPredecessor /\ WeeksInOrder
      /\ k \in 1 .. Len(written) /\ k + 1 \in 1 .. Len(written)
      BY DEF Typed, AuditConstants, WholeInv, CarefulInv
<1>a. PICK u \in Weeks : \E q \in 1 .. Len(file[u]) : file[u][q] = written[k]
      BY DEF OnDisk
<1>1. PICK q \in 1 .. Len(file[u]) : file[u][q] = written[k]
      BY <1>a
<1>2. file[u] \in Seq(LineRecords) /\ file[u][q].kind = "whole" /\ q \in ChainedAt(u)
      BY <1>0, <1>1 DEF FilesTyped, Numbered, Chained, ChainedAt
<1>3. ASSUME NEW v \in Weeks, NEW p \in ChainedAt(v), file[v][p].prev = written[k].id
      PROVE  k + 1 \in OnDisk
  <2>1. p \in 1 .. Len(file[v]) /\ file[v][p].kind = "whole"
        BY DEF ChainedAt, LogOk, WeekOk
  <2>2. PICK n \in 1 .. Len(written) : written[n] = file[v][p]
        BY <1>0, <2>1 DEF FilesAreWritten, IsWritten
  <2>3. n = k + 1
        BY <1>0, <1>3, <2>2, TheNextLine
  <2> QED BY <1>0, <2>1, <2>2, <2>3 DEF OnDisk
<1>4. CASE q < Len(file[u])
  <2>1. q + 1 \in ChainedAt(u) /\ (q + 1) - 1 = q
        BY <1>2, <1>4 DEF LogOk, WeekOk
  <2>2. Follows(file[u], q + 1)
        BY <1>2, <2>1 DEF LogOk, WeekOk
  <2>3. file[u][q + 1].prev = written[k].id
        BY <1>1, <2>1, <2>2 DEF Follows
  <2> QED BY <1>3, <2>1, <2>3
<1>5. CASE q = Len(file[u]) /\ \E x \in WithChain : u < x
  <2> DEFINE later == {x \in WithChain : u < x}
  <2>1. later \in SUBSET Nat /\ later # {}
        BY <1>0, <1>5 DEF WithChain
  <2>2. PICK v \in later : \A x \in later : v <= x
        BY <2>1, LeastOf
  <2>3. v \in WithChain /\ v \in Weeks /\ u < v /\ v \in Nat /\ u \in Nat
        BY <1>0, <2>2 DEF WithChain
  <2>4. \A x \in WithChain : ~(u < x /\ x < v)
        BY <1>0, <2>2, <2>3 DEF WithChain
  <2>5. ChainedAt(v) \in SUBSET Nat /\ ChainedAt(v) # {}
        BY <2>3 DEF WithChain, ChainedAt
  <2>6. PICK p \in ChainedAt(v) : \A n \in ChainedAt(v) : p <= n
        BY <2>5, LeastOf
  <2>7. file[v][p] \in First(v)
        BY <2>6 DEF First
  <2>8. \A n \in ChainedAt(u) : n <= q
        BY <1>2, <1>5 DEF ChainedAt
  <2>9. file[u][q] \in Last(u) /\ u \in WithChain
        BY <1>2, <2>8 DEF Last, WithChain
  <2>10. file[v][p].prev \in {Genesis, file[u][q].id}
        BY <2>3, <2>4, <2>7, <2>9 DEF LogOk, WeeksMeet
  <2>11. p \in 1 .. Len(file[v]) /\ file[v][p].kind = "whole"
        BY <2>3, <2>6 DEF ChainedAt, LogOk, WeekOk
  <2>12. CASE file[v][p].prev = Genesis
    <3>1. PICK n \in 1 .. Len(written) : written[n] = file[v][p]
          BY <1>0, <2>3, <2>11 DEF FilesAreWritten, IsWritten
    <3>2. n <= i
          BY <2>12, <3>1 DEF SegmentStart, InNewest
    <3>3. n <= k
          BY <3>2
    <3>4. written[k].id < written[n].id
          BY <1>0, <1>1, <1>2, <2>3, <2>11, <3>1 DEF WeeksInOrder
    <3>5. written[n].id \in Nat /\ written[k].id \in Nat
          BY <1>0 DEF Numbered
    <3>6. CASE n = k
          BY <3>4, <3>5, <3>6
    <3>7. CASE n < k
      <4>1. written[n].id < written[k].id
            BY <1>0, <3>7 DEF Numbered
      <4> QED BY <3>4, <3>5, <4>1
    <3> QED BY <3>3, <3>6, <3>7
  <2> QED BY <1>1, <1>3, <2>3, <2>6, <2>10, <2>12
<1>6. CASE q = Len(file[u]) /\ ~\E x \in WithChain : u < x
  <2>1. \A n \in ChainedAt(u) : n <= q
        BY <1>2, <1>6 DEF ChainedAt
  <2>2. file[u][q] \in Last(u) /\ u \in WithChain
        BY <1>2, <2>1 DEF Last, WithChain
  <2>3. \A x \in WithChain : x <= u
        BY <1>0, <1>6 DEF WithChain
  <2>4. stateFile = written[Len(written)].id /\ written[Len(written)].id \in Nat /\ written[k].id \in Nat
    <3>1. written[Len(written)].id \in 1 .. count /\ written[k].id \in 1 .. count
          BY <1>0 DEF Numbered
    <3> QED BY <1>0, <3>1 DEF StateIsCurrent
  <2>5. stateFile # Absent
        BY <2>4 DEF AuditConstants
  <2>6. stateFile = written[k].id
        BY <1>1, <2>2, <2>3, <2>5 DEF LogOk, TailOk
  <2>7. written[k].id < written[Len(written)].id
        BY <1>0 DEF Numbered
  <2> QED BY <2>4, <2>6, <2>7
<1>7. q = Len(file[u]) \/ q < Len(file[u])
      BY <1>2
<1> QED BY <1>4, <1>5, <1>6, <1>7

\* A log that passes has lost nothing behind any line it still has of its newest segment: the first
\* missing one would follow a line on disk, and that one's successor, the next week or the state file
\* would tell.
THEOREM PassingLogsAreWhole == AuditSpec => []PassMeansWhole
<1> USE AuditAssumption
<1>1. Inv /\ WholeInv => PassMeansWhole
  <2> SUFFICES ASSUME Inv, WholeInv, LogOk, StateIsCurrent, ~Some({"crash", "append", "persist", "late"}),
                      NEW i \in 1 .. Len(written), NEW j \in 1 .. Len(written),
                      InNewest(i), i \in OnDisk, j > i, j \notin OnDisk
               PROVE  FALSE
      BY DEF PassMeansWhole
  <2>0. Typed /\ Careful /\ written \in Seq(LineRecords)
        BY DEF Inv, Typed, Some, Careful, Mishaps
  <2> DEFINE Missing == {k \in 1 .. Len(written) : k > i /\ k \notin OnDisk}
  <2>1. Missing \in SUBSET Nat /\ j \in Missing
        BY <2>0
  <2>2. PICK k \in Missing : \A n \in Missing : k <= n
        BY <2>1, LeastOf
  <2>3. k \in 1 .. Len(written) /\ k > i /\ k \notin OnDisk
        BY <2>2
  <2>4. k - 1 \in 1 .. Len(written) - 1 /\ i <= k - 1 /\ (k - 1) + 1 = k
        BY <2>0, <2>3
  <2>5. k - 1 \in OnDisk
    <3>1. k - 1 \notin Missing
          BY <2>0, <2>2, <2>3
    <3> QED BY <2>0, <2>4, <3>1
  <2> QED BY <2>0, <2>3, <2>4, <2>5, NextIsOnDisk
<1> QED BY <1>1, InvHolds, WholeInvHolds, PTL
=============================================================================
