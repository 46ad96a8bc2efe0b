---------------------------- MODULE McpDispatch ----------------------------
(***************************************************************************)
(* McpDispatcher.call of web/mcp_dispatch.py: the dedupe of identical      *)
(* connector calls.  The first call of a key runs the connector and owns a *)
(* future; an identical call that arrives meanwhile awaits that future, a  *)
(* later one may be handed its result again until the entry goes stale.    *)
(*                                                                         *)
(* Grain.  All calls are tasks of one event loop.  A call is atomic up to  *)
(* its first await (the connector, or the shared future) and from there on *)
(* to its return, so an owner settles its future, drops its entry and      *)
(* stamps the last write in one step; a waiter wakes in a later one.       *)
(*                                                                         *)
(* `await existing` is not shielded: cancelling a task that waits there    *)
(* cancels the future it waits on, and set_result, or set_exception, on a  *)
(* cancelled future raises InvalidStateError in the owner.                 *)
(*                                                                         *)
(* Bounds.  One connector (the state is kept per connector).  Each call is *)
(* made once and the clock stops at LastTick.                              *)
(***************************************************************************)
EXTENDS Integers, FiniteSets

CONSTANTS
    Calls,            \* tools/call requests
    Callers,          \* (principal, scope, session, agent) of a request
    Principals,
    PrincipalOf,      \* caller |-> its principal
    Tools,            \* (tool, arguments) without the reason
    ReadTools,        \* those whose spec says read_only
    ExemptTools,      \* _DEDUPE_EXEMPT_TOOLS
    DeliveryTools,    \* those that may stage a download for the caller
    DedupeTTL,        \* _DEDUPE_TTL_SECONDS
    LastTick,
    None

Keys == Callers \X Tools

ASSUME DispatchAssumption ==
    /\ PrincipalOf \in [Callers -> Principals]
    /\ ReadTools \subseteq Tools
    /\ ExemptTools \subseteq Tools
    /\ DeliveryTools \subseteq Tools
    /\ DedupeTTL \in Nat \ {0}
    /\ LastTick \in Nat \ {0}
    /\ None \notin Calls \cup Keys

VARIABLES
    now,
    inflight,         \* _inflight: key |-> the call that owns its future, or None
    lastWrite,        \* _last_write_at: principal |-> time of a finished write, 0 if none
    fut,              \* call |-> the state of the future it owns
    pc,               \* call |-> where its task is
    key,              \* call |-> the dedupe key it computed
    startedAt,        \* call |-> recorded_at of its entry
    joined,           \* call |-> the owner whose future it awaits
    result,           \* call |-> what its client gets
    (* history: what no variable of the program remembers *)
    answeredWrites,   \* principal |-> how many writes were answered with success
    sawWrites,        \* owner |-> answeredWrites of its principal at its start
    replayed,         \* calls handed the future of a call that was over
    tornKeys          \* keys whose shared future a cancelled waiter cancelled

vars == <<now, inflight, lastWrite, fut, pc, key, startedAt, joined, result,
          answeredWrites, sawWrites, replayed, tornKeys>>
history == <<answeredWrites, sawWrites, replayed, tornKeys>>

Outcomes == {"data", "delivery", "approval_pending", "error", "cancelled"}
FutStates == {"none", "pending"} \cup Outcomes
Results == Outcomes \cup {"none", "invalid_state"}

Times == 0 .. LastTick
PrincipalOfKey(k) == PrincipalOf[k[1]]
Done(c) == fut[c] \notin {"none", "pending"}

(***************************************************************************)
(* The dedupe cache                                                        *)
(***************************************************************************)
Fresh(c) == now - startedAt[c] < DedupeTTL

\* entries that are done and past the TTL go, at every arrival
Pruned == [k \in Keys |->
    IF inflight[k] # None /\ Done(inflight[k]) /\ ~Fresh(inflight[k])
    THEN None ELSE inflight[k]]

\* recorded_at <= last write: a tie counts as stale
ReadIsStale(k, owner) ==
    k[2] \in ReadTools /\ startedAt[owner] <= lastWrite[PrincipalOfKey(k)]

\* mutant: the check for a later write is dropped
ReusableWhenDoneUnchecked(k, owner) == Fresh(owner) /\ k[2] \notin ExemptTools

ReusableWhenDone(k, owner) ==
    Fresh(owner) /\ k[2] \notin ExemptTools /\ ~ReadIsStale(k, owner)

\* mutant: only finished calls are found in the cache
ReusableOnceDone(k) ==
    LET owner == Pruned[k]
    IN  owner # None /\ Done(owner) /\ ReusableWhenDone(k, owner)

Reusable(k) ==
    LET owner == Pruned[k]
    IN  owner # None /\ (~Done(owner) \/ ReusableWhenDone(k, owner))

Popped(table, k) == [table EXCEPT ![k] = None]

(***************************************************************************)
(* A call arrives                                                          *)
(***************************************************************************)
Own(c, k) ==
    /\ pc[c] = "idle"
    /\ ~Reusable(k)
    /\ inflight' = [Pruned EXCEPT ![k] = c]
    /\ fut' = [fut EXCEPT ![c] = "pending"]
    /\ pc' = [pc EXCEPT ![c] = "running"]
    /\ key' = [key EXCEPT ![c] = k]
    /\ startedAt' = [startedAt EXCEPT ![c] = now]
    /\ sawWrites' = [sawWrites EXCEPT ![c] = answeredWrites[PrincipalOfKey(k)]]
    /\ UNCHANGED <<now, lastWrite, joined, result, answeredWrites, replayed, tornKeys>>

Join(c, k) ==
    /\ pc[c] = "idle"
    /\ Reusable(k) /\ ~Done(Pruned[k])
    /\ inflight' = Pruned
    /\ pc' = [pc EXCEPT ![c] = "waiting"]
    /\ key' = [key EXCEPT ![c] = k]
    /\ joined' = [joined EXCEPT ![c] = Pruned[k]]
    /\ UNCHANGED <<now, lastWrite, fut, startedAt, result, history>>

\* mutant: `return existing` without the await hands out the future itself
ReplayUnawaited(c, k) ==
    /\ pc[c] = "idle"
    /\ Reusable(k) /\ Done(Pruned[k])
    /\ pc' = [pc EXCEPT ![c] = "done"]
    /\ key' = [key EXCEPT ![c] = k]
    /\ joined' = [joined EXCEPT ![c] = Pruned[k]]
    /\ result' = [result EXCEPT ![c] = Pruned[k]]
    /\ replayed' = replayed \cup {c}
    /\ UNCHANGED <<now, inflight, lastWrite, fut, startedAt, answeredWrites, sawWrites, tornKeys>>

\* awaiting a future that is done returns, or raises, at once
Replay(c, k) ==
    LET owner == Pruned[k]
    IN  /\ pc[c] = "idle"
        /\ Reusable(k) /\ Done(owner)
        /\ inflight' = Pruned
        /\ pc' = [pc EXCEPT ![c] = "done"]
        /\ key' = [key EXCEPT ![c] = k]
        /\ joined' = [joined EXCEPT ![c] = owner]
        /\ result' = [result EXCEPT ![c] = fut[owner]]
        /\ replayed' = replayed \cup {c}
        /\ UNCHANGED <<now, lastWrite, fut, startedAt, answeredWrites, sawWrites, tornKeys>>

\* the connector is not there (any more): ValueError before anything is kept
Refuse(c) ==
    /\ pc[c] = "idle"
    /\ pc' = [pc EXCEPT ![c] = "done"]
    /\ result' = [result EXCEPT ![c] = "error"]
    /\ UNCHANGED <<now, inflight, lastWrite, fut, key, startedAt, joined, history>>

(***************************************************************************)
(* The owner's connector call ends                                         *)
(***************************************************************************)
Returns(c, what) ==
    /\ pc' = [pc EXCEPT ![c] = "done"]
    /\ result' = [result EXCEPT ![c] = what]

\* set_result, or set_exception, on a future a waiter's cancellation ended
Raises(c) ==
    /\ Returns(c, "invalid_state")
    /\ UNCHANGED <<now, lastWrite, fut, key, startedAt, joined, history>>

Succeed(c, what) ==
    LET k == key[c]
        p == PrincipalOfKey(k)
    IN  /\ pc[c] = "running"
        /\ fut[c] = "pending"
        /\ what = "delivery" => k[2] \in DeliveryTools
        /\ fut' = [fut EXCEPT ![c] = what]
        /\ inflight' = IF what = "delivery" THEN Popped(inflight, k) ELSE inflight
        /\ lastWrite' = IF k[2] \in ReadTools THEN lastWrite
                        ELSE [lastWrite EXCEPT ![p] = now]
        /\ answeredWrites' = IF k[2] \in ReadTools THEN answeredWrites
                             ELSE [answeredWrites EXCEPT ![p] = @ + 1]
        /\ Returns(c, what)
        /\ UNCHANGED <<now, key, startedAt, joined, sawWrites, replayed, tornKeys>>

\* a result, or an exception other than ApprovalPending, for such a future
SettleTooLate(c) ==
    /\ pc[c] = "running"
    /\ fut[c] = "cancelled"
    /\ Raises(c)
    /\ UNCHANGED inflight

\* mutant: the pending blob stays in the cache
PendCached(c) ==
    /\ pc[c] = "running"
    /\ fut[c] = "pending"
    /\ fut' = [fut EXCEPT ![c] = "approval_pending"]
    /\ Returns(c, "approval_pending")
    /\ UNCHANGED <<now, inflight, lastWrite, key, startedAt, joined, history>>

\* ApprovalPending: popped first, whoever the entry belongs to by now
Pend(c) ==
    /\ pc[c] = "running"
    /\ fut[c] = "pending"
    /\ inflight' = Popped(inflight, key[c])
    /\ fut' = [fut EXCEPT ![c] = "approval_pending"]
    /\ Returns(c, "approval_pending")
    /\ UNCHANGED <<now, lastWrite, key, startedAt, joined, history>>

PendTooLate(c) ==
    /\ pc[c] = "running"
    /\ fut[c] = "cancelled"
    /\ inflight' = Popped(inflight, key[c])
    /\ Raises(c)

\* any other exception: set first, then popped
Fail(c) ==
    /\ pc[c] = "running"
    /\ fut[c] = "pending"
    /\ fut' = [fut EXCEPT ![c] = "error"]
    /\ inflight' = Popped(inflight, key[c])
    /\ Returns(c, "error")
    /\ UNCHANGED <<now, lastWrite, key, startedAt, joined, history>>

\* mutant: a cancelled owner only drops its entry
CancelOwnerOnlyPops(c) ==
    /\ pc[c] = "running"
    /\ inflight' = Popped(inflight, key[c])
    /\ Returns(c, "cancelled")
    /\ UNCHANGED <<now, lastWrite, fut, key, startedAt, joined, history>>

\* mutant: a cancelled owner drops its future without settling it
CancelOwnerDrops(c) ==
    /\ pc[c] = "running"
    /\ inflight' = Popped(inflight, key[c])
    /\ fut' = [fut EXCEPT ![c] = "none"]
    /\ Returns(c, "cancelled")
    /\ UNCHANGED <<now, lastWrite, key, startedAt, joined, history>>

\* the owner's own client cancels, or drops its connection
CancelOwner(c) ==
    /\ pc[c] = "running"
    /\ inflight' = Popped(inflight, key[c])
    /\ fut' = [fut EXCEPT ![c] = "cancelled"]
    /\ Returns(c, "cancelled")
    /\ UNCHANGED <<now, lastWrite, key, startedAt, joined, history>>

(***************************************************************************)
(* A waiter                                                                *)
(***************************************************************************)
Wake(c) ==
    /\ pc[c] = "waiting"
    /\ Done(joined[c])
    /\ Returns(c, fut[joined[c]])
    /\ UNCHANGED <<now, inflight, lastWrite, fut, key, startedAt, joined, history>>

CancelWaiter(c) ==
    LET owner == joined[c]
    IN  /\ pc[c] = "waiting"
        /\ fut' = IF Done(owner) THEN fut ELSE [fut EXCEPT ![owner] = "cancelled"]
        /\ tornKeys' = IF Done(owner) THEN tornKeys ELSE tornKeys \cup {key[c]}
        /\ Returns(c, "cancelled")
        /\ UNCHANGED <<now, inflight, lastWrite, key, startedAt, joined,
                       answeredWrites, sawWrites, replayed>>

Tick ==
    /\ now < LastTick
    /\ now' = now + 1
    /\ UNCHANGED <<inflight, lastWrite, fut, pc, key, startedAt, joined, result, history>>

(***************************************************************************)
(* The specification                                                       *)
(***************************************************************************)
\* time.time() is never 0, so no call starts at the default of _last_write_at
Init ==
    /\ now = 1
    /\ inflight = [k \in Keys |-> None]
    /\ lastWrite = [p \in Principals |-> 0]
    /\ fut = [c \in Calls |-> "none"]
    /\ pc = [c \in Calls |-> "idle"]
    /\ key = [c \in Calls |-> None]
    /\ startedAt = [c \in Calls |-> 0]
    /\ joined = [c \in Calls |-> None]
    /\ result = [c \in Calls |-> "none"]
    /\ answeredWrites = [p \in Principals |-> 0]
    /\ sawWrites = [c \in Calls |-> 0]
    /\ replayed = {}
    /\ tornKeys = {}

Arrive(c) == Refuse(c) \/ \E k \in Keys : Own(c, k) \/ Join(c, k) \/ Replay(c, k)

Settle(c) ==
    \/ \E what \in {"data", "delivery"} : Succeed(c, what)
    \/ Pend(c) \/ PendTooLate(c)
    \/ Fail(c) \/ SettleTooLate(c)

Next ==
    \/ \E c \in Calls : Arrive(c) \/ Settle(c) \/ CancelOwner(c)
                        \/ Wake(c) \/ CancelWaiter(c)
    \/ Tick

Spec == Init /\ [][Next]_vars

\* every connector call ends, and the loop runs every task that is ready;
\* no client has to call or to cancel
FairSpec == Spec /\ \A c \in Calls : WF_vars(Settle(c)) /\ WF_vars(Wake(c))
(***************************************************************************)
(* Properties                                                              *)
(***************************************************************************)
TypeOK ==
    /\ now \in 1 .. LastTick
    /\ inflight \in [Keys -> Calls \cup {None}]
    /\ lastWrite \in [Principals -> Times]
    /\ fut \in [Calls -> FutStates]
    /\ pc \in [Calls -> {"idle", "running", "waiting", "done"}]
    /\ key \in [Calls -> Keys \cup {None}]
    /\ startedAt \in [Calls -> Times]
    /\ joined \in [Calls -> Calls \cup {None}]
    /\ result \in [Calls -> Results]
    /\ answeredWrites \in [Principals -> Nat]
    /\ sawWrites \in [Calls -> Nat]
    /\ replayed \subseteq Calls
    /\ tornKeys \subseteq Keys

\* A future that is pending, whether an entry points at it or a waiter awaits
\* it, belongs to a task that still runs: no way out of call() leaves a key
\* every later identical call would wait on for ever.
PendingHasRunner ==
    \A c \in Calls : fut[c] = "pending" => pc[c] = "running"

\* Two tasks run the same call only after a waiter that gave up cancelled the
\* future they share; retries on their own never start a second run.
OneRunnerPerKey ==
    \A a, b \in Calls :
        /\ a # b
        /\ pc[a] = "running" /\ pc[b] = "running"
        /\ key[a] = key[b]
        => key[a] \in tornKeys

\* A later call is handed an earlier result only when that is plain data: an
\* approval_pending blob, a failure or a result with a download token must
\* reach the connector again.  A torn future is replayed as a cancellation.
OnlyDataIsReplayed ==
    \A c \in replayed :
        \/ result[c] = "data"
        \/ result[c] = "cancelled" /\ key[c] \in tornKeys

\* A read that is answered from the cache was started after every write on
\* the connector that its principal has had answered with success.
ReplayedReadIsCurrent ==
    [][\A c \in Calls :
        (c \in replayed' /\ c \notin replayed /\ key'[c][2] \in ReadTools)
        => sawWrites[joined'[c]] = answeredWrites[PrincipalOfKey(key'[c])]]_vars

\* A call that waits on another call's future comes back.
WaiterReturns == \A c \in Calls : (pc[c] = "waiting") ~> (pc[c] = "done")

\* What the comment above call() says of a retry: "gets the in-flight or
\* just-finished result instead of a second gated call".  Cancelling a waiter
\* breaks it: its torn entry is pruned while the owner still runs.
NoSecondRun ==
    \A a, b \in Calls :
        ~(/\ a # b
          /\ pc[a] = "running" /\ pc[b] = "running"
          /\ key[a] = key[b])
=============================================================================
