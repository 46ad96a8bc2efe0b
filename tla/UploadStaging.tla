---------------------------- MODULE UploadStaging ----------------------------
(* Uploads: slots of the staging store, the requests that fill them, and the *)
(* tool calls that read a slot before their gate and consume it after       *)
(* (upload_staging.py, local_files.py, web/routes_file_bridge.py, ADR 0102).*)
(*                                                                          *)
(* Everything runs on one event loop; a request that fills a slot awaits    *)
(* its body, a call awaits its gate. The gate is the registry's contract:   *)
(* one approval per key, answered at any time, given to one call.           *)
EXTENDS Service

CONSTANTS Slots, Puts, Calls, Refs, Contents, Owners,
          Paths,        \* the refs that name a file on the caller's own disk; the others name an upload id
          RefsOf,       \* what each call names
          Caller,       \* who makes each call
          SlotTTL, PendingTTL, LedgerTTL,
          WriteMayFail  \* whether writing a ciphertext can fail

VARIABLES slot,      \* _PendingSlot; it outlives its entry while a request or a file refers to it
          files,     \* ciphertexts under uploads/
          put,       \* the slot a PUT request looked up and is reading a body for
          call,      \* each call's attempt: which slots it uses, what it read
          approvals, \* the registry: a key, what its card showed, when it was asked and granted (0: not yet)
          backed,    \* how many writes each slot was used for
          wasted,    \* slots a commit used up before it failed on another one
          late       \* slots whose bytes arrived after their entry was swept

uploadVars == <<now, slot, files, put, call, approvals, backed, late, wasted>>

NoSlot == [ref |-> None, owner |-> None, live |-> FALSE, expires |-> 0, filled |-> FALSE, content |-> None]
Fresh == [phase |-> "idle", uses |-> [r \in Refs |-> None], data |-> [r \in Refs |-> None], key |-> None]
Hold == PendingTTL + LedgerTTL
SlotRecords == [ref : Refs \union {None}, owner : Owners \union {None}, live : BOOLEAN,
                expires : 0 .. LastTick + SlotTTL + Hold, filled : BOOLEAN, content : Contents \union {None}]
Read == [Refs -> Contents \union {None}]
Keys == [caller : Owners, refs : SUBSET Refs, data : Read]
CallRecords == [phase : {"idle", "read", "waiting", "done"}, uses : [Refs -> Slots \union {None}], data : Read,
                key : Keys \union {None}]
Approvals == [key : Keys, shown : Read, since : 1 .. LastTick, granted : 0 .. LastTick]

\* Each call names its files and has one caller.
UploadConstants ==
    /\ None \notin Slots \union Refs \union Owners \union Contents \union Keys
    /\ RefsOf \in [Calls -> SUBSET Refs] /\ Paths \subseteq Refs
    /\ Caller \in [Calls -> Owners]
    /\ SlotTTL \in Nat /\ PendingTTL \in Nat /\ LedgerTTL \in Nat
    /\ LastTick \in Nat \ {0}
    /\ WriteMayFail \in BOOLEAN
ASSUME UploadAssumption == UploadConstants

UploadTypeOK ==
    /\ now \in 1 .. LastTick
    /\ slot \in [Slots -> SlotRecords]
    /\ files \subseteq Slots /\ late \subseteq Slots /\ wasted \subseteq Slots
    /\ put \in [Puts -> Slots \union {None}]
    /\ call \in [Calls -> CallRecords]
    /\ approvals \subseteq Approvals
    /\ backed \in [Slots -> Nat]

UploadInit ==
    /\ now = 1
    /\ slot = [s \in Slots |-> NoSlot]
    /\ files = {} /\ late = {} /\ wasted = {} /\ approvals = {}
    /\ put = [u \in Puts |-> None]
    /\ call = [c \in Calls |-> Fresh]
    /\ backed = [s \in Slots |-> 0]

----------------------------------------------------------------------------
(* The store.  Every operation sweeps first.                                *)

Expired == {s \in Slots : slot[s].live /\ now > slot[s].expires}
SweptSlots == [s \in Slots |-> IF s \in Expired THEN [slot[s] EXCEPT !.live = FALSE] ELSE slot[s]]
FilesAnyway == files
SweptFiles == files \ Expired

Unminted(s) == slot[s].ref = None
Made(r) == \E s \in Slots : slot[s].ref = r
NewSlot(r, p) ==
    [ref |-> r, owner |-> p, live |-> TRUE, expires |-> now + SlotTTL, filled |-> FALSE, content |-> None]

\* What peek and claim find: the same answer for a slot that is gone, unfilled or someone else's.
Readable(s, p) == s # None /\ SweptSlots[s].live /\ slot[s].owner = p /\ slot[s].filled /\ s \in files

\* peek's hold_until: it never shortens an expiry.
Longer(a, b) == IF a > b THEN a ELSE b
HeldUntil(S, until) ==
    [s \in Slots |-> IF s \in S THEN [SweptSlots[s] EXCEPT !.expires = Longer(@, until)] ELSE SweptSlots[s]]
HeldForPending(S) == HeldUntil(S, now + PendingTTL)
HeldFor(S) == HeldUntil(S, now + Hold)

----------------------------------------------------------------------------
(* Slots and the requests that fill them.                                   *)

\* privacyfence_create_upload_slot: the slot is the upload id.
CreateSlot(s, r, p) ==
    /\ Unminted(s)
    /\ r \notin Paths /\ ~Made(r)
    /\ slot' = [SweptSlots EXCEPT ![s] = NewSlot(r, p)]
    /\ files' = SweptFiles
    /\ UNCHANGED <<now, put, call, approvals, backed, late, wasted>>

\* A PUT finds its slot. A capability URL names no principal, so nothing else is compared here.
BeginPut(u, s) ==
    /\ put[u] = None
    /\ SweptSlots[s].live /\ ~slot[s].filled
    /\ put' = [put EXCEPT ![u] = s]
    /\ slot' = SweptSlots
    /\ files' = SweptFiles
    /\ UNCHANGED <<now, call, approvals, backed, late, wasted>>

\* The client goes away, or the body is longer than the slot allows.
AbandonPut(u) ==
    /\ put[u] # None
    /\ put' = [put EXCEPT ![u] = None]
    /\ UNCHANGED <<now, slot, files, call, approvals, backed, late, wasted>>

\* _finish_fill, for a slot nobody filled since it was found; its entry may be gone by now.
FillableAgain(s) == TRUE
Fillable(s) == ~slot[s].filled
FinishPut(u, v) ==
    /\ put[u] # None
    /\ LET s == put[u]
       IN  /\ Fillable(s)
           /\ slot' = [slot EXCEPT ![s].filled = TRUE, ![s].content = v]
           /\ files' = files \union {s}
           /\ late' = IF slot[s].live THEN late ELSE late \union {s}
    /\ put' = [put EXCEPT ![u] = None]
    /\ UNCHANGED <<now, call, approvals, backed, wasted>>

\* Refused as already filled, or the disk refuses it and the slot is as unfilled as before.
FailPut(u) ==
    /\ put[u] # None
    /\ ~Fillable(put[u]) \/ WriteMayFail
    /\ put' = [put EXCEPT ![u] = None]
    /\ UNCHANGED <<now, slot, files, call, approvals, backed, late, wasted>>

----------------------------------------------------------------------------
(* A tool call, up to its gate.                                             *)

Uses(c) == {call[c].uses[r] : r \in RefsOf[c]}
\* The slots the request itself names: an upload id, or the shim's uploads map.
Given(c, r) == IF r \in Paths THEN call[c].uses[r]
               ELSE IF Made(r) THEN CHOOSE s \in Slots : slot[s].ref = r ELSE None
Asked(c) == {Given(c, r) : r \in RefsOf[c]}
Ids(c) == {Given(c, r) : r \in RefsOf[c] \ Paths}
\* An attempt that is over; the shim uploads its files again for the next one.
Over(c) == call' = [call EXCEPT ![c] = Fresh]

\* require_local_files: a path the daemon cannot open raises LocalFilesNeeded, and a slot is made for it.
NeedUpload(c, r, s) ==
    /\ call[c].phase = "idle"
    /\ r \in RefsOf[c] \intersect Paths /\ call[c].uses[r] = None
    /\ \A t \in Ids(c) : Readable(t, Caller[c])
    /\ Unminted(s)
    /\ slot' = [HeldFor(Ids(c)) EXCEPT ![s] = NewSlot(r, Caller[c])]
    /\ files' = SweptFiles
    /\ call' = [call EXCEPT ![c].uses[r] = s]
    /\ UNCHANGED <<now, put, approvals, backed, late, wasted>>

\* Every file is there: it is read into this call, not consumed, and held for a decision.
ReadUploads(c) ==
    /\ call[c].phase = "idle"
    /\ \A s \in Asked(c) : Readable(s, Caller[c])
    /\ slot' = HeldFor(Asked(c))
    /\ files' = SweptFiles
    /\ call' = [call EXCEPT ![c] = [@ EXCEPT !.phase = "read",
                    !.uses = [r \in Refs |-> IF r \in RefsOf[c] THEN Given(c, r) ELSE None],
                    !.data = [r \in Refs |-> IF r \in RefsOf[c] THEN slot[Given(c, r)].content ELSE None]]]
    /\ UNCHANGED <<now, put, approvals, backed, late, wasted>>

\* One is missing: those before it in the list were read, and held, already.
ReadFails(c) ==
    /\ call[c].phase = "idle"
    /\ \E s \in Asked(c) : s # None /\ ~Readable(s, Caller[c])
    /\ \E before \in SUBSET {s \in Asked(c) : Readable(s, Caller[c])} : slot' = HeldFor(before)
    /\ files' = SweptFiles
    /\ Over(c)
    /\ UNCHANGED <<now, put, approvals, backed, late, wasted>>

----------------------------------------------------------------------------
(* The gate, and what follows it.                                           *)

\* binding_key: the request and what its card showed, the files' bytes included (ADR 0175).
KeyOfRequest(c) == [caller |-> Caller[c], refs |-> RefsOf[c], data |-> [r \in Refs |-> None]]
KeyOf(c) == [caller |-> Caller[c], refs |-> RefsOf[c], data |-> call[c].data]

Collectable(a) == a.granted # 0 /\ now <= a.granted + LedgerTTL
StillOpen(a) == a.granted = 0 /\ now <= a.since + PendingTTL
Live(a) == Collectable(a) \/ StillOpen(a)
Of(k) == {a \in approvals : a.key = k}

EnterGate(c) ==
    /\ call[c].phase = "read"
    /\ approvals' = IF \E a \in Of(KeyOf(c)) : Live(a) THEN approvals
                    ELSE (approvals \ Of(KeyOf(c))) \union 
                         {[key |-> KeyOf(c), shown |-> call[c].data, since |-> now, granted |-> 0]}
    /\ call' = [call EXCEPT ![c].phase = "waiting", ![c].key = KeyOf(c)]
    /\ UNCHANGED <<now, slot, files, put, backed, late, wasted>>

\* The person answers; a card past its time is answered too while nothing swept it.
Allow(a) ==
    /\ a.granted = 0
    /\ approvals' = (approvals \ {a}) \union {[a EXCEPT !.granted = now]}
    /\ UNCHANGED <<now, slot, files, put, call, backed, late, wasted>>
Deny(a) ==
    /\ a.granted = 0
    /\ approvals' = approvals \ {a}
    /\ UNCHANGED <<now, slot, files, put, call, backed, late, wasted>>

\* approval_pending, a deny, or somebody else's use of the decision: the attempt ends.
LeaveGate(c) ==
    /\ call[c].phase = "waiting"
    /\ ~\E a \in Of(call[c].key) : Collectable(a)
    /\ Over(c)
    /\ UNCHANGED <<now, slot, files, put, approvals, backed, late, wasted>>

Consumed(S) == [s \in Slots |-> IF s \in S THEN [SweptSlots[s] EXCEPT !.live = FALSE] ELSE SweptSlots[s]]
Takes(c, a) == call[c].phase = "waiting" /\ a \in Of(call[c].key) /\ Collectable(a) /\ approvals' = approvals \ {a}

\* commit_uploads, right after the gate: every slot the call read is still there, and used up.
CommittableUnchecked(c) == TRUE
Committable(c) == \A s \in Uses(c) : Readable(s, Caller[c])
CommitAndWrite(c, a) ==
    /\ Takes(c, a)
    /\ Committable(c)
    /\ slot' = Consumed(Uses(c))
    /\ files' = SweptFiles \ Uses(c)
    /\ backed' = [s \in Slots |-> IF s \in Uses(c) THEN backed[s] + 1 ELSE backed[s]]
    /\ call' = [call EXCEPT ![c].phase = "done"]
    /\ UNCHANGED <<now, put, late, wasted>>

\* One is gone: the call fails before it writes, and those claimed before it are used up.
CommitFails(c, a) ==
    /\ Takes(c, a)
    /\ ~Committable(c)
    /\ \E before \in SUBSET {s \in Uses(c) : Readable(s, Caller[c])} :
          /\ slot' = Consumed(before)
          /\ files' = SweptFiles \ before
          /\ wasted' = wasted \union before
    /\ Over(c)
    /\ UNCHANGED <<now, put, backed, late>>

\* The registry and the slots are memory; the ciphertexts left behind are removed at startup.
UploadRestart ==
    /\ slot' = [s \in Slots |-> [slot[s] EXCEPT !.live = FALSE]]
    /\ files' = {} /\ late' = {} /\ approvals' = {}
    /\ put' = [u \in Puts |-> None]
    /\ call' = [c \in Calls |-> IF call[c].phase = "done" THEN call[c] ELSE Fresh]
    /\ UNCHANGED <<now, backed, wasted>>

\* A tick is minutes: no call spends one on its preview and its scans, between its read and its gate.
UploadTick ==
    /\ now < LastTick
    /\ \A c \in Calls : call[c].phase # "read"
    /\ now' = now + 1
    /\ UNCHANGED <<slot, files, put, call, approvals, backed, late, wasted>>

UploadNext ==
    \/ \E s \in Slots, r \in Refs, p \in Owners : CreateSlot(s, r, p)
    \/ \E u \in Puts, s \in Slots : BeginPut(u, s)
    \/ \E u \in Puts : AbandonPut(u) \/ FailPut(u)
    \/ \E u \in Puts, v \in Contents : FinishPut(u, v)
    \/ \E c \in Calls, r \in Refs, s \in Slots : NeedUpload(c, r, s)
    \/ \E c \in Calls : ReadUploads(c) \/ ReadFails(c) \/ EnterGate(c) \/ LeaveGate(c)
    \/ \E c \in Calls, a \in approvals : CommitAndWrite(c, a) \/ CommitFails(c, a)
    \/ \E a \in approvals : Allow(a) \/ Deny(a)
    \/ UploadRestart
    \/ UploadTick

UploadSpec == UploadInit /\ [][UploadNext]_uploadVars

----------------------------------------------------------------------------
(* What must hold.                                                          *)

\* An upload backs at most one approved write, however many calls read it first, and
\* however often each is re-issued (ADR 0102, commit_uploads).
OneWritePerSlot == \A s \in Slots : backed[s] <= 1

\* What a call read before its gate is still what its slots hold after it, its own and its
\* caller's: no later PUT, other person's slot or other file slips in under an open card.
ReadBytesStay ==
    \A c \in Calls : call[c].phase \in {"read", "waiting", "done"} =>
        \A r \in RefsOf[c] :
            LET s == slot[call[c].uses[r]]
            IN  s.content = call[c].data[r] /\ s.owner = Caller[c] /\ s.ref = r

ConsentCoversStep ==
    \A c \in Calls : call[c].phase = "waiting" /\ call'[c].phase = "done" =>
        \E a \in approvals \ approvals' : a.granted # 0 /\ a.shown = call[c].data
\* A write happens on a decision whose card showed the bytes it writes, also when the files
\* were uploaded again in between (ADR 0175: changed content does not reproduce the key).
ConsentCoversTheBytes == [][ConsentCoversStep]_uploadVars

\* An upload read by a call outlives the approval it waits on, decision and collection
\* included, when that one was answered in its time (ADR 0102); a commit
\* that fails on another of its files is the one that may use it up for nothing.
Backs(s, a) == \E r \in a.key.refs \ Paths : slot[s].ref = r /\ slot[s].content = a.shown[r]
HeldUploadOutlivesItsApproval ==
    \A a \in approvals, s \in Slots :
        /\ Backs(s, a) /\ a.key.caller = slot[s].owner /\ slot[s].filled
        /\ Live(a) /\ a.granted <= a.since + PendingTTL
        /\ backed[s] = 0 /\ s \notin wasted
        => slot[s].live /\ now <= slot[s].expires

\* A ciphertext on disk belongs to an entry that can still expire, but for bytes that
\* arrived after their slot was swept; those wait for the next start.
EveryFileHasItsSlot == \A s \in files : slot[s].live \/ s \in late
=============================================================================
