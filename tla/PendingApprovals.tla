-------------------------- MODULE PendingApprovals --------------------------
(***************************************************************************)
(* The deferred-approval protocol of approvals.py (PendingApprovalRegistry)*)
(* and gate.py (gated_call, _resolve_decision, _drive_interaction and the  *)
(* two _interact closures): one registry, its calls, the cards and dialogs *)
(* a person answers, the rules that answer in the person's place, and the  *)
(* two TTL sweeps.                                                         *)
(*                                                                         *)
(* Grain.  Everything but the popup workers runs on one event loop, so the *)
(* code between two awaits is atomic with respect to other tasks.  A       *)
(* gated_call runs from its sweep to its wait without an await: `turn`     *)
(* names the call that holds the loop in that stretch, and every other     *)
(* task of the loop needs turn = None.  Only the clock moves meanwhile.    *)
(*                                                                         *)
(* Bounds.  A call, an approval id and a tick of the clock are each used   *)
(* once: Calls, Ids and LastArrival + HoldWindow + 1 bound the behaviours. *)
(***************************************************************************)
EXTENDS Integers, FiniteSets

CONSTANTS
    Principals,       \* who a request belongs to ("local", or one person each)
    ReadKeys,         \* binding keys of gate="review" requests
    WriteKeys,        \* binding keys of gate="popup" requests
    PIIKeys,          \* the keys whose scan found personal data
    Covers,           \* key |-> the keys an "Always allow" rule made on it covers
    SameFile,         \* write key |-> the keys its temp-accept window covers
    Proposers,        \* the principals whose agent proposes rule changes
    SettingsKeys,     \* the keys whose rules are edited on the Settings page
    Unattended,       \* which values of is_unattended() occur
    Calls,            \* gated_call invocations
    Ids,              \* approval ids (uuid4)
    None,             \* Python's None
    PendingTTL, LedgerTTL, HoldWindow, GraceTTL, AdaptiveHold,
    MaxPending, MaxPerPrincipal,
    LastArrival       \* no call arrives later than this

Keys == ReadKeys \cup WriteKeys
Horizon == LastArrival + 1 + HoldWindow

ASSUME KeyAssumption ==
    /\ ReadKeys \cap WriteKeys = {}
    /\ PIIKeys \subseteq Keys
    /\ Covers \in [Keys -> SUBSET Keys]
    /\ SameFile \in [WriteKeys -> SUBSET WriteKeys]
    /\ Proposers \subseteq Principals
    /\ SettingsKeys \subseteq Keys
    /\ Unattended \subseteq BOOLEAN
    /\ None \notin Principals \cup Keys \cup Calls \cup Ids

ASSUME TimeAssumption ==
    /\ PendingTTL \in Nat \ {0}
    /\ LedgerTTL \in Nat \ {0}
    /\ HoldWindow \in Nat \ {0}
    /\ GraceTTL \in Nat \ {0}
    /\ LastArrival \in Nat
    /\ AdaptiveHold \in BOOLEAN

ASSUME CapAssumption == MaxPending \in Nat /\ MaxPerPrincipal \in Nat

VARIABLES
    now,        \* time.time()
    approvals,  \* id |-> the PendingApproval object (it outlives its row)
    pending,    \* the ids that are rows of registry._pending
    byKey,      \* registry._by_key
    rules,      \* principal |-> the keys its auto-accept rules cover
    grace,      \* principal |-> write key |-> expiry of the temp-accept window
    driver,     \* id |-> how far _drive_interaction has come
    call,       \* gated_call invocations
    turn        \* the call that holds the event loop, or None

vars == <<now, approvals, pending, byKey, rules, grace, driver, call, turn>>

-----------------------------------------------------------------------------
(* Types.                                                                   *)

Accepting == {"accept", "accept_all", "auto_accepted"}
Decisions == Accepting \cup {"deny", "expired"}
Answers   == {"accept", "accept_all", "deny", "confirm", "cancel"}
Released  == {"auto_accepted", "approved", "accepted_via_accept_all"}
Outcomes  == Released \cup
    {"none", "rejected", "approval_pending", "cancelled", "denied_unattended",
     "too_many", "identical_write"}

Approval ==
    [kind : {"none", "card", "confirm"}, principal : Principals \cup {None},
     key : Keys \cup {None}, expires : Nat,
     answer : Answers \cup {"none"}, final : Decisions \cup {"none"},
     ledgerExpires : Nat, consumed : BOOLEAN, collected : BOOLEAN,
     waiters : Nat, expiredRow : {"none", "unanswered", "uncollected"}]

NoApproval ==
    [kind |-> "none", principal |-> None, key |-> None, expires |-> 0,
     answer |-> "none", final |-> "none", ledgerExpires |-> 0,
     consumed |-> FALSE, collected |-> FALSE, waiters |-> 0,
     expiredRow |-> "none"]

Call ==
    [pc : {"idle", "running", "waiting", "done"},
     principal : Principals \cup {None}, key : Keys \cup {None},
     unattended : BOOLEAN, id : Ids \cup {None}, deadline : Nat,
     outcome : Outcomes]

NoCall ==
    [pc |-> "idle", principal |-> None, key |-> None, unattended |-> FALSE,
     id |-> None, deadline |-> 0, outcome |-> "none"]

Driver ==
    [step : {"off", "card", "pii", "rule", "proposal", "done"},
     pii : Ids \cup {None}, rule : Ids \cup {None}]

NoDriver == [step |-> "off", pii |-> None, rule |-> None]

TypeOK ==
    /\ now \in Nat
    /\ approvals \in [Ids -> Approval]
    /\ pending \in SUBSET Ids
    /\ byKey \in [Principals \X Keys -> Ids \cup {None}]
    /\ rules \in [Principals -> SUBSET Keys]
    /\ grace \in [Principals -> [WriteKeys -> Nat]]
    /\ driver \in [Ids -> Driver]
    /\ call \in [Calls -> Call]
    /\ turn \in Calls \cup {None}

Init ==
    /\ now = 0
    /\ approvals = [a \in Ids |-> NoApproval]
    /\ pending = {}
    /\ byKey = [pk \in Principals \X Keys |-> None]
    /\ rules = [p \in Principals |-> {}]
    /\ grace = [p \in Principals |-> [k \in WriteKeys |-> 0]]
    /\ driver = [a \in Ids |-> NoDriver]
    /\ call = [c \in Calls |-> NoCall]
    /\ turn = None

-----------------------------------------------------------------------------
(* What the registry's methods test.                                        *)

IsWrite(a)   == approvals[a].key \in WriteKeys
Finalized(a) == approvals[a].final # "none"
KeyOf(a)     == <<approvals[a].principal, approvals[a].key>>

\* Mutant: only an answer wakes the worker (finalize() and the sweeps forget to).
EventSetByAnswerOnly(a) == approvals[a].answer # "none"
\* PendingApproval.event: set by answer(), and by whatever finalizes.
EventSet(a) == approvals[a].answer # "none" \/ Finalized(a)

\* The rows register_or_coalesce counts against its caps and has_other_live
\* looks at: confirm dialogs are rows like any other.
Live == {a \in pending : ~Finalized(a)}
LiveOf(p) == {a \in Live : approvals[a].principal = p}

\* _expire_stale_locked: _by_key without the keys of lapsed approvals.
Stale(a) ==
    \/ a \notin pending
    \/ ~Finalized(a) /\ now > approvals[a].expires
    \/ Finalized(a) /\ approvals[a].ledgerExpires # 0 /\ now > approvals[a].ledgerExpires
FreshKeys ==
    [pk \in Principals \X Keys |->
        IF byKey[pk] # None /\ Stale(byKey[pk]) THEN None ELSE byKey[pk]]

\* _drop_key_locked: free a key only while it still points at a dropped id.
DropKeys(keys, dropped) ==
    [pk \in Principals \X Keys |-> IF keys[pk] \in dropped THEN None ELSE keys[pk]]

\* _evaluate_auto_accept: a rule of this principal, or its temp-accept window.
AutoAllowed(covered, p, k) ==
    k \in covered \/ (k \in WriteKeys /\ now < grace[p][k])

\* Mutant: the last decision wins.
FinalizedAsLast(apps, S, d) ==
    [a \in Ids |->
        IF a \in S /\ a \in pending
        THEN [apps[a] EXCEPT !.final = d,
                !.ledgerExpires = IF apps[a].key # None THEN now + LedgerTTL ELSE 0]
        ELSE apps[a]]
\* finalize(): the approvals after the ids in S were finalized as d, the first
\* decision winning.
FinalizedAs(apps, S, d) ==
    [a \in Ids |->
        IF a \in S /\ a \in pending /\ apps[a].final = "none"
        THEN [apps[a] EXCEPT !.final = d,
                !.ledgerExpires = IF apps[a].key # None THEN now + LedgerTTL ELSE 0]
        ELSE apps[a]]

\* reevaluate_all: the open cards of p that the rules `covered` now allow.
Reevaluated(p, covered) ==
    {a \in pending :
        /\ approvals[a].kind = "card"
        /\ ~EventSet(a)
        /\ approvals[a].key \notin PIIKeys
        /\ approvals[a].principal = p
        /\ AutoAllowed(covered, p, approvals[a].key)}

-----------------------------------------------------------------------------
(* gated_call, from its sweep to its wait.                                  *)

\* pop_expired_events and pop_expired_ledger_events.
Unanswered == {a \in Live : now > approvals[a].expires}
Lapsed ==
    {a \in pending :
        /\ Finalized(a) /\ approvals[a].final # "expired"
        /\ ~approvals[a].consumed /\ approvals[a].waiters = 0
        /\ approvals[a].ledgerExpires # 0 /\ now > approvals[a].ledgerExpires}

\* A call arrives and sweeps.  The first sweep frees the key of an expired
\* card whatever the key points at by then.
Arrive(c, p, k, unattended) ==
    /\ turn = None /\ call[c].pc = "idle" /\ now <= LastArrival
    /\ \E a \in Ids : approvals[a].kind = "none"   \* bound: an id is left for it
    /\ turn' = c
    /\ call' = [call EXCEPT ![c] =
                  [NoCall EXCEPT !.pc = "running", !.principal = p, !.key = k,
                                 !.unattended = unattended, !.deadline = now]]
    /\ approvals' = [a \in Ids |->
          CASE a \in Unanswered ->
                 [approvals[a] EXCEPT !.final = "expired", !.expiredRow = "unanswered"]
            [] a \in Lapsed ->
                 [approvals[a] EXCEPT !.consumed = TRUE,
                    !.expiredRow = IF approvals[a].collected THEN "none" ELSE "uncollected"]
            [] OTHER -> approvals[a]]
    /\ pending' = pending \ Lapsed
    /\ byKey' = LET freed == {KeyOf(a) : a \in Unanswered} IN
                [pk \in Principals \X Keys |->
                    IF pk \in freed THEN None ELSE DropKeys(byKey, Lapsed)[pk]]
    /\ UNCHANGED <<now, rules, grace, driver>>

Running(c) == turn = c /\ call[c].pc = "running"

\* How a call ends; it gives the loop back.
Finish(c, outcome, id) ==
    /\ call' = [call EXCEPT ![c] =
                  [@ EXCEPT !.pc = "done", !.outcome = outcome, !.id = id]]
    /\ turn' = None

CoveredByRule(c) ==
    /\ AutoAllowed(rules[call[c].principal], call[c].principal, call[c].key)
    /\ call[c].key \notin PIIKeys

AutoAccept(c) ==
    /\ Running(c) /\ CoveredByRule(c)
    /\ Finish(c, "auto_accepted", None)
    /\ UNCHANGED <<now, approvals, pending, byKey, rules, grace, driver>>

DenyUnattended(c) ==
    /\ Running(c) /\ ~CoveredByRule(c) /\ call[c].unattended
    /\ Finish(c, "denied_unattended", None)
    /\ UNCHANGED <<now, approvals, pending, byKey, rules, grace, driver>>

\* The call goes to _resolve_decision; `Existing` is what its key points at.
NeedsDecision(c) == Running(c) /\ ~CoveredByRule(c) /\ ~call[c].unattended
\* Mutant: the key leaves the principal out.
ExistingOfAnyone(c) ==
    LET found == {pk \in Principals \X Keys : pk[2] = call[c].key /\ FreshKeys[pk] # None}
    IN IF found = {} THEN None ELSE FreshKeys[CHOOSE pk \in found : TRUE]
Existing(c) == FreshKeys[<<call[c].principal, call[c].key>>]

\* Mutant: the popup branch ends with the approval too.
OutcomeOfDefaultYes(k, decision) ==
    CASE decision = "auto_accepted" -> "auto_accepted"
      [] decision = "accept_all"    -> "accepted_via_accept_all"
      [] OTHER -> "approved"
\* Mutant: the test for a deny is gone.
OutcomeOfNoDeny(k, decision) ==
    CASE decision = "auto_accepted" -> "auto_accepted"
      [] decision = "accept_all"    -> "accepted_via_accept_all"
      [] decision = "accept"        -> "approved"
      [] OTHER -> IF k \in ReadKeys THEN "approved" ELSE "rejected"
\* What each branch of gated_call makes of a decision.  The popup branch ends
\* with the deny, the review branch with the approval.
OutcomeOf(k, decision) ==
    CASE decision = "auto_accepted" -> "auto_accepted"
      [] decision = "accept_all"    -> "accepted_via_accept_all"
      [] decision = "accept"        -> "approved"
      [] decision = "deny"          -> "rejected"
      [] OTHER -> IF k \in ReadKeys THEN "approved" ELSE "rejected"

\* Mutant: any decision arms the window.
GraceAfterAny(p, k, decision) ==
    IF k \in WriteKeys
    THEN [grace EXCEPT ![p] =
            [w \in WriteKeys |-> IF w \in SameFile[k] THEN now + GraceTTL ELSE grace[p][w]]]
    ELSE grace
\* "Allow once" on a file-scoped write arms the temp-accept window.
GraceAfter(p, k, decision) ==
    IF decision = "accept" /\ k \in WriteKeys
    THEN [grace EXCEPT ![p] =
            [w \in WriteKeys |-> IF w \in SameFile[k] THEN now + GraceTTL ELSE grace[p][w]]]
    ELSE grace

\* Mutant: a waiting write is handed out of the ledger as well.
LedgerHitHeldToo(a) ==
    /\ a # None
    /\ Finalized(a) /\ ~approvals[a].consumed
\* consume_ledger: a decision on file that no waiting write owns.
LedgerHit(a) ==
    /\ a # None
    /\ Finalized(a) /\ ~approvals[a].consumed
    /\ ~(IsWrite(a) /\ approvals[a].waiters > 0)

\* Mutant: collecting a write does not consume it.
CollectedRowKept(a, waiters) ==
    [approvals[a] EXCEPT !.collected = TRUE, !.waiters = waiters]
\* Mutant: whoever collects takes a waiter off the count once more.
CollectedRowReleased(a, waiters) ==
    [approvals[a] EXCEPT !.collected = TRUE, !.waiters = waiters - 1,
                         !.consumed = approvals[a].consumed \/ IsWrite(a)]
\* Mutant: nobody notes that the outcome was collected.
CollectedRowUnnoted(a, waiters) ==
    [approvals[a] EXCEPT !.waiters = waiters,
                         !.consumed = approvals[a].consumed \/ IsWrite(a)]
\* The outcome of `a` reaches call c: mark_collected and consume_ledger both
\* consume a write and drop its row.
CollectedRow(a, waiters) ==
    [approvals[a] EXCEPT !.collected = TRUE, !.waiters = waiters,
                         !.consumed = approvals[a].consumed \/ IsWrite(a)]
Collect(c, a, keys) ==
    LET p == call[c].principal
        k == call[c].key
        d == approvals[a].final
        write == IsWrite(a)
    IN /\ pending' = IF write THEN pending \ {a} ELSE pending
       /\ byKey' = IF write THEN DropKeys(keys, {a}) ELSE keys
       /\ grace' = GraceAfter(p, k, d)
       /\ Finish(c, OutcomeOf(k, d), a)

CollectFromLedger(c) ==
    LET a == Existing(c) IN
    /\ NeedsDecision(c) /\ LedgerHit(a)
    /\ approvals' = [approvals EXCEPT ![a] = CollectedRow(a, approvals[a].waiters)]
    /\ Collect(c, a, FreshKeys)
    /\ UNCHANGED <<now, rules, driver>>

\* register_or_coalesce, in the order of its tests.
MustRegister(c) == NeedsDecision(c) /\ ~LedgerHit(Existing(c))
\* Mutant: off by one.
IdenticalWaitingTwice(a) == a # None /\ IsWrite(a) /\ approvals[a].waiters > 1
IdenticalWaiting(a) == a # None /\ IsWrite(a) /\ approvals[a].waiters > 0
Joinable(a) == a # None /\ ~IdenticalWaiting(a) /\ ~Finalized(a)
\* Mutant: off by one.
CapExceeded(p) == Cardinality(LiveOf(p)) > MaxPerPrincipal \/ Cardinality(Live) > MaxPending
CapReached(p) == Cardinality(LiveOf(p)) >= MaxPerPrincipal \/ Cardinality(Live) >= MaxPending

RefuseIdenticalWrite(c) ==
    /\ MustRegister(c) /\ IdenticalWaiting(Existing(c))
    /\ byKey' = FreshKeys
    /\ Finish(c, "identical_write", None)
    /\ UNCHANGED <<now, approvals, pending, rules, grace, driver>>

RefuseCap(c) ==
    /\ MustRegister(c)
    /\ ~IdenticalWaiting(Existing(c)) /\ ~Joinable(Existing(c))
    /\ CapReached(call[c].principal)
    /\ byKey' = FreshKeys
    /\ Finish(c, "too_many", None)
    /\ UNCHANGED <<now, approvals, pending, rules, grace, driver>>

\* The hold window: none at all once the principal has another live row, and
\* then the call ends in the same stretch, its waiter released again.
Collapsed(p, a) == AdaptiveHold /\ LiveOf(p) \ {a} # {}
StartWait(c, a) ==
    IF Collapsed(call[c].principal, a)
    THEN Finish(c, "approval_pending", a)
    ELSE /\ call' = [call EXCEPT ![c] =
                       [@ EXCEPT !.pc = "waiting", !.id = a, !.deadline = now + HoldWindow]]
         /\ turn' = None
\* Mutant: a call whose window collapsed is never taken off the count.
WaitersAddedAlways(p, a) == 1
WaitersAdded(p, a) == IF Collapsed(p, a) THEN 0 ELSE 1

Coalesce(c) ==
    LET a == Existing(c) IN
    /\ MustRegister(c) /\ Joinable(a)
    /\ approvals' = [approvals EXCEPT ![a].waiters = @ + WaitersAdded(call[c].principal, a)]
    /\ byKey' = FreshKeys
    /\ StartWait(c, a)
    /\ UNCHANGED <<now, pending, rules, grace, driver>>

Register(c) ==
    LET p == call[c].principal
        k == call[c].key
    IN /\ MustRegister(c)
       /\ ~IdenticalWaiting(Existing(c)) /\ ~Joinable(Existing(c))
       /\ ~CapReached(p)
       /\ \E a \in Ids :
            /\ approvals[a].kind = "none"
            /\ approvals' = [approvals EXCEPT ![a] =
                  [NoApproval EXCEPT !.kind = "card", !.principal = p, !.key = k,
                     !.expires = now + PendingTTL, !.waiters = WaitersAdded(p, a)]]
            /\ pending' = pending \cup {a}
            /\ byKey' = [FreshKeys EXCEPT ![<<p, k>>] = a]
            /\ driver' = [driver EXCEPT ![a].step = "card"]
            /\ StartWait(c, a)
       /\ UNCHANGED <<now, rules, grace>>

-----------------------------------------------------------------------------
(* wait_async: the three ways out of the hold window.                       *)

Waiting(c) == turn = None /\ call[c].pc = "waiting"

\* release_waiter.
OneLess(a) == IF approvals[a].waiters > 0 THEN approvals[a].waiters - 1 ELSE 0
Unwaited(a) == [approvals EXCEPT ![a].waiters = OneLess(a)]

CollectInWindow(c) ==
    LET a == call[c].id IN
    /\ Waiting(c) /\ Finalized(a)
    /\ approvals' = [approvals EXCEPT ![a] = CollectedRow(a, OneLess(a))]
    /\ Collect(c, a, byKey)
    /\ UNCHANGED <<now, rules, driver>>

\* Mutant: the deadline is computed anew at every poll.
HoldWindowRestarts(c) ==
    LET a == call[c].id IN
    /\ Waiting(c) /\ ~Finalized(a) /\ now >= now + HoldWindow
    /\ approvals' = Unwaited(a)
    /\ Finish(c, "approval_pending", a)
    /\ UNCHANGED <<now, pending, byKey, rules, grace, driver>>
HoldWindowEnds(c) ==
    LET a == call[c].id IN
    /\ Waiting(c) /\ ~Finalized(a) /\ now >= call[c].deadline
    /\ approvals' = Unwaited(a)
    /\ Finish(c, "approval_pending", a)
    /\ UNCHANGED <<now, pending, byKey, rules, grace, driver>>

\* The client gave up on the request.
Cancel(c) ==
    /\ Waiting(c)
    /\ approvals' = Unwaited(call[c].id)
    /\ Finish(c, "cancelled", call[c].id)
    /\ UNCHANGED <<now, pending, byKey, rules, grace, driver>>

-----------------------------------------------------------------------------
(* _drive_interaction and _interact.                                        *)

\* register_confirm: a row with no key, outside the caps.
RegisterConfirm(b, p) ==
    /\ approvals[b].kind = "none"
    /\ approvals' = [approvals EXCEPT ![b] =
          [NoApproval EXCEPT !.kind = "confirm", !.principal = p,
                             !.expires = now + PendingTTL]]
    /\ pending' = pending \cup {b}

Concluded(a) == [driver EXCEPT ![a].step = "done"]
Conclude(a, d) ==
    /\ approvals' = FinalizedAs(approvals, {a}, d)
    /\ driver' = Concluded(a)

\* After the card and any personal-data dialog said yes.
Accepted(a) == approvals[a].answer \in {"accept", "accept_all"}
OffersRule(a) == approvals[a].answer = "accept_all" /\ Covers[approvals[a].key] # {}
AfterConsent(a) ==
    IF OffersRule(a)
    THEN \E b \in Ids :
            /\ RegisterConfirm(b, approvals[a].principal)
            /\ driver' = [driver EXCEPT ![a] = [@ EXCEPT !.step = "rule", !.rule = b]]
    ELSE /\ Conclude(a, "accept")
         /\ UNCHANGED pending

\* Mutant: only a plain accept asks about personal data.
CardClosedAcceptAllUnasked(a) ==
    /\ turn = None /\ driver[a].step = "card" /\ EventSet(a)
    /\ CASE ~Accepted(a) -> Conclude(a, "deny") /\ UNCHANGED pending
         [] approvals[a].answer = "accept" /\ approvals[a].key \in PIIKeys ->
              \E b \in Ids :
                 /\ RegisterConfirm(b, approvals[a].principal)
                 /\ driver' = [driver EXCEPT ![a] = [@ EXCEPT !.step = "pii", !.pii = b]]
         [] OTHER -> AfterConsent(a)
    /\ UNCHANGED <<now, byKey, rules, grace, call, turn>>
\* Mutant: the interaction dies with the call that started it.
CardClosedWithItsCall(a) ==
    /\ turn = None /\ driver[a].step = "card" /\ EventSet(a)
    /\ IF approvals[a].waiters = 0
       THEN driver' = Concluded(a) /\ UNCHANGED <<approvals, pending>>
       ELSE IF Accepted(a) THEN AfterConsent(a) ELSE Conclude(a, "deny") /\ UNCHANGED pending
    /\ UNCHANGED <<now, byKey, rules, grace, call, turn>>
\* block_on_card returns: anything that is no card result is a deny.
CardClosed(a) ==
    /\ turn = None /\ driver[a].step = "card" /\ EventSet(a)
    /\ CASE ~Accepted(a) -> Conclude(a, "deny") /\ UNCHANGED pending
         [] Accepted(a) /\ approvals[a].key \in PIIKeys ->
              \E b \in Ids :
                 /\ RegisterConfirm(b, approvals[a].principal)
                 /\ driver' = [driver EXCEPT ![a] = [@ EXCEPT !.step = "pii", !.pii = b]]
         [] OTHER -> AfterConsent(a)
    /\ UNCHANGED <<now, byKey, rules, grace, call, turn>>

Confirmed(b) == approvals[b].answer = "confirm"

PiiDialogClosed(a) ==
    /\ turn = None /\ driver[a].step = "pii" /\ EventSet(driver[a].pii)
    /\ IF Confirmed(driver[a].pii)
       THEN AfterConsent(a)
       ELSE Conclude(a, "deny") /\ UNCHANGED pending
    /\ UNCHANGED <<now, byKey, rules, grace, call, turn>>

\* Mutant: a cancelled rule still counts as "Always allow".
RuleDialogCancelIgnored(a) ==
    LET p == approvals[a].principal
        covered == rules[p] \cup Covers[approvals[a].key]
    IN /\ turn = None /\ driver[a].step = "rule" /\ EventSet(driver[a].rule)
       /\ rules' = [rules EXCEPT ![p] = covered]
       /\ approvals' = FinalizedAs(FinalizedAs(approvals, Reevaluated(p, covered), "auto_accepted"),
                                   {a}, "accept_all")
       /\ driver' = Concluded(a)
       /\ UNCHANGED <<now, pending, byKey, grace, call, turn>>
\* add_policy_v2_rules writes the rule and broadcasts before it returns; when
\* nothing changed it does neither.
RuleDialogClosed(a) ==
    LET p == approvals[a].principal
        covered == rules[p] \cup Covers[approvals[a].key]
        swept == IF covered = rules[p] THEN {} ELSE Reevaluated(p, covered)
    IN /\ turn = None /\ driver[a].step = "rule" /\ EventSet(driver[a].rule)
       /\ IF Confirmed(driver[a].rule)
          THEN /\ rules' = [rules EXCEPT ![p] = covered]
               /\ approvals' = FinalizedAs(FinalizedAs(approvals, swept, "auto_accepted"),
                                           {a}, "accept_all")
          ELSE /\ rules' = rules
               /\ approvals' = FinalizedAs(approvals, {a}, "accept")
       /\ driver' = Concluded(a)
       /\ UNCHANGED <<now, pending, byKey, grace, call, turn>>

\* An exception in _interact resolves the approval as denied.
InteractionFails(a) ==
    /\ turn = None /\ driver[a].step \in {"card", "pii", "rule"}
    /\ Conclude(a, "deny")
    /\ UNCHANGED <<now, pending, byKey, rules, grace, call, turn>>

-----------------------------------------------------------------------------
(* The person, the Settings page and the rule-proposal tool.                *)

\* PendingApproval.answer, through the decide route: the first answer wins.
Answer(a, r) ==
    /\ turn = None /\ a \in pending /\ ~EventSet(a)
    /\ r \in IF approvals[a].kind = "card" THEN {"accept", "accept_all", "deny"}
                                           ELSE {"confirm", "cancel"}
    /\ approvals' = [approvals EXCEPT ![a].answer = r]
    /\ UNCHANGED <<now, pending, byKey, rules, grace, driver, call, turn>>

\* PendingApproval.is_batchable: a plain card with no second confirmation to come.
Batchable(a) == approvals[a].kind = "card" /\ approvals[a].key \notin PIIKeys

\* answer_batch, through the approval binder: one request of one person answers
\* the cards of S without an await; the items it refuses change nothing.
AnswerBatch(p, S) ==
    /\ turn = None /\ S # {} /\ S \subseteq LiveOf(p)
    /\ \A a \in S : Batchable(a) /\ ~EventSet(a)
    /\ \E r \in [S -> {"accept", "deny"}] :
         approvals' = [a \in Ids |-> IF a \in S THEN [approvals[a] EXCEPT !.answer = r[a]]
                                               ELSE approvals[a]]
    /\ UNCHANGED <<now, pending, byKey, rules, grace, driver, call, turn>>

\* Mutant: no broadcast.
ChangeRulesQuietly(p, covered) ==
    /\ turn = None
    /\ rules' = [rules EXCEPT ![p] = covered]
    /\ UNCHANGED <<now, approvals, pending, byKey, grace, driver, call, turn>>
\* _save_and_reload_policy_v2: the rules change and the broadcast follows.
ChangeRules(p, covered) ==
    /\ turn = None
    /\ rules' = [rules EXCEPT ![p] = covered]
    /\ approvals' = FinalizedAs(approvals, Reevaluated(p, covered), "auto_accepted")
    /\ UNCHANGED <<now, pending, byKey, grace, driver, call, turn>>
SettingsAllow(p, k)  == ChangeRules(p, rules[p] \cup Covers[k])
SettingsRevoke(p, k) == ChangeRules(p, rules[p] \ Covers[k])

\* propose_policy_change: a dialog of its own, with no card before it.
ProposeRule(p) ==
    /\ turn = None /\ p \in Proposers
    /\ \E b \in Ids :
         /\ RegisterConfirm(b, p)
         /\ driver' = [driver EXCEPT ![b].step = "proposal"]
    /\ UNCHANGED <<now, byKey, rules, grace, call, turn>>

\* A proposal removes a rule, adds one, or does both (an update).
ProposedCovers == {{}} \cup {Covers[k] : k \in Keys}
ProposalClosed(b, gone, added) ==
    LET p == approvals[b].principal
        kept == rules[p] \ gone
        covered == kept \cup added
    IN /\ turn = None /\ driver[b].step = "proposal" /\ EventSet(b)
       /\ IF Confirmed(b) /\ (kept # rules[p] \/ covered # kept)
          THEN /\ rules' = [rules EXCEPT ![p] = covered]
               /\ approvals' = FinalizedAs(approvals, Reevaluated(p, covered), "auto_accepted")
          ELSE UNCHANGED <<rules, approvals>>
       /\ driver' = Concluded(b)
       /\ UNCHANGED <<now, pending, byKey, grace, call, turn>>

\* A call's stretch on the loop is short, but a TTL may run out inside it: the
\* clock moves at most once there (`deadline` holds the arrival until the wait).
Tick ==
    /\ now < Horizon
    /\ turn # None => now = call[turn].deadline
    /\ now' = now + 1
    /\ UNCHANGED <<approvals, pending, byKey, rules, grace, driver, call, turn>>

-----------------------------------------------------------------------------

GatedCall(c) ==
    \/ \E p \in Principals, k \in Keys, u \in Unattended : Arrive(c, p, k, u)
    \/ AutoAccept(c) \/ DenyUnattended(c) \/ CollectFromLedger(c)
    \/ RefuseIdenticalWrite(c) \/ RefuseCap(c) \/ Coalesce(c) \/ Register(c)
    \/ CollectInWindow(c) \/ HoldWindowEnds(c) \/ Cancel(c)

Interaction(a) ==
    CardClosed(a) \/ PiiDialogClosed(a) \/ RuleDialogClosed(a) \/ InteractionFails(a)

Next ==
    \/ \E c \in Calls : GatedCall(c)
    \/ \E a \in Ids : Interaction(a)
    \/ \E a \in Ids, r \in Answers : Answer(a, r)
    \/ \E p \in Principals, S \in SUBSET Ids : AnswerBatch(p, S)
    \/ \E p \in Principals, k \in SettingsKeys : SettingsAllow(p, k) \/ SettingsRevoke(p, k)
    \/ \E p \in Principals : ProposeRule(p)
    \/ \E b \in Ids, gone, added \in ProposedCovers : ProposalClosed(b, gone, added)
    \/ Tick

Spec == Init /\ [][Next]_vars

\* What the program's own scheduling guarantees: the loop runs its ready tasks,
\* a woken popup worker returns, and time passes.  A person never has to act.
RunsOnTheLoop(c) ==
    \/ AutoAccept(c) \/ DenyUnattended(c) \/ CollectFromLedger(c)
    \/ RefuseIdenticalWrite(c) \/ RefuseCap(c) \/ Coalesce(c) \/ Register(c)
    \/ CollectInWindow(c) \/ HoldWindowEnds(c)

FairSpec ==
    /\ Spec
    /\ WF_vars(Tick)
    /\ \A c \in Calls : WF_vars(RunsOnTheLoop(c))
    /\ \A a \in Ids : WF_vars(CardClosed(a))
                     /\ WF_vars(PiiDialogClosed(a))
                     /\ WF_vars(RuleDialogClosed(a))

-----------------------------------------------------------------------------
(* Properties.                                                              *)

Cards == {a \in Ids : approvals[a].kind = "card"}

\* The outcome of approval a reached call c: its release or its refusal.
CollectedBy(c, a) ==
    call[c].id = a /\ call[c].outcome \in Released \cup {"rejected"}
ReleasedBy(c, a) == call[c].id = a /\ call[c].outcome \in Released

\* One decision never releases two writes, whichever way its calls collect it:
\* the ledger, the hold window, a coalesced wait (ADR 0073, mark_collected).
OneCollectorPerWrite ==
    \A a \in Cards : IsWrite(a) =>
        \A c, d \in Calls : CollectedBy(c, a) /\ CollectedBy(d, a) => c = d

\* An approved write runs only on a yes that was given for it: the person's own,
\* never after their deny, or a rule's, and then only on a card nobody answered.
WriteNeedsConsent ==
    \A c \in Calls, a \in Cards : IsWrite(a) /\ ReleasedBy(c, a) =>
        \/ approvals[a].final \in {"accept", "accept_all"}
             /\ approvals[a].answer \in {"accept", "accept_all"}
        \/ approvals[a].final = "auto_accepted" /\ approvals[a].answer = "none"

\* The same for a read, for every decision but "expired" (see ExpiryReleasesNothing).
ReadNeedsConsent ==
    \A c \in Calls, a \in Cards :
        ReleasedBy(c, a) /\ ~IsWrite(a) /\ approvals[a].final # "expired" =>
            \/ approvals[a].answer \in {"accept", "accept_all"}
            \/ approvals[a].final = "auto_accepted" /\ approvals[a].answer = "none"

\* pop_expired_events: "no decision means pending, then expired, which counts as
\* denied -- never auto-approved".
ExpiryReleasesNothing ==
    \A c \in Calls, a \in Cards : ReleasedBy(c, a) => approvals[a].final # "expired"

\* A decision is released to the principal it was made for, for the request that
\* was shown: the coalescing key and the ledger key carry both.
DecisionStaysWithItsRequest ==
    \A c \in Calls : call[c].id # None =>
        KeyOf(call[c].id) = <<call[c].principal, call[c].key>>

\* _confirm_pii_or_deny: no rule and no single click accepts a request whose
\* scan found personal data; the second dialog said yes.
PersonalDataIsConfirmed ==
    \A a \in Cards : approvals[a].key \in PIIKeys /\ approvals[a].final \in Accepting =>
        /\ approvals[a].final # "auto_accepted"
        /\ driver[a].pii # None /\ Confirmed(driver[a].pii)

\* A call is recorded as accepted_via_accept_all only when the person confirmed
\* the rule in its own dialog.
AcceptAllIsConfirmed ==
    \A c \in Calls : call[c].outcome = "accepted_via_accept_all" =>
        Confirmed(driver[call[c].id].rule)

\* A write no rule can cover runs without a card only inside the temp-accept
\* window that an "Allow once" of the same principal on the same file opened.
WindowNeedsAllowOnce ==
    \A c \in Calls :
        /\ call[c].outcome = "auto_accepted" /\ call[c].id = None
        /\ \A k \in Keys : call[c].key \notin Covers[k]
        => \E d \in Calls :
              /\ call[d].outcome = "approved" /\ call[d].principal = call[c].principal
              /\ call[d].key \in WriteKeys /\ call[c].key \in SameFile[call[d].key]

\* An "expired" row of a decided approval means no call ever got its outcome
\* (ADR 0073, pop_expired_ledger_events).
UncollectedReachedNobody ==
    \A a \in Cards, c \in Calls :
        approvals[a].expiredRow = "uncollected" => ~CollectedBy(c, a)

\* waiters is the number of calls in wait_async on the approval: a leaked waiter
\* would refuse that write for as long as its card lives, a lost one would let a
\* second call take it.
WaitersAreCounted ==
    \A a \in Ids : approvals[a].waiters =
        Cardinality({c \in Calls : call[c].pc = "waiting" /\ call[c].id = a})

\* The rules-changed broadcast leaves no card open that a rule now covers: a call
\* that registered just before it, or is still waiting, is resolved by it.
NoCoveredCardStaysOpen ==
    \A a \in Cards \cap Live :
        ~EventSet(a) /\ approvals[a].key \notin PIIKeys =>
            approvals[a].key \notin rules[approvals[a].principal]

\* The caps bound the open cards, whatever sweeps, dialogs and joins happen.
CapsHold ==
    /\ Cardinality(Cards \cap Live) <= MaxPending
    /\ \A p \in Principals : Cardinality(Cards \cap LiveOf(p)) <= MaxPerPrincipal

\* "First decision wins": neither a late click, a worker woken after an expiry or
\* a broadcast, nor a later sweep changes an answer or a decision.
FirstDecisionWins ==
    [][\A a \in Ids :
        /\ Finalized(a) => approvals'[a].final = approvals[a].final
        /\ EventSet(a) => approvals'[a].answer = approvals[a].answer]_vars

\* _drop_key_locked: a key is freed "only while it still points at" the approval;
\* an open card that is not past its TTL can be found under its key.
OpenCardKeepsItsKey ==
    \A a \in Cards \cap Live :
        now <= approvals[a].expires => byKey[KeyOf(a)] = a

\* A card names the principal and the request it was made for, _by_key leads only to
\* such cards, and only a card has an interaction that opens dialogs.
RowsWellFormed ==
    /\ \A a \in Ids :
        /\ approvals[a].kind = "none" => driver[a].step = "off"
        /\ approvals[a].kind # "none" => approvals[a].principal # None
        /\ approvals[a].kind = "card" <=> approvals[a].key # None
        /\ driver[a].step \in {"card", "pii", "rule"} => approvals[a].kind = "card"
        /\ driver[a].step = "pii" => driver[a].pii # None
        /\ driver[a].step = "rule" => driver[a].rule # None
        /\ approvals[a].consumed => Finalized(a)
    /\ \A pk \in Principals \X Keys :
        byKey[pk] # None => approvals[byKey[pk]].kind = "card" /\ KeyOf(byKey[pk]) = pk

\* A call has an approval only once it waits or is over, and it is the card that was
\* made for its request.
CallsWellFormed ==
    \A c \in Calls :
        /\ call[c].id # None =>
              /\ approvals[call[c].id].kind = "card"
              /\ KeyOf(call[c].id) = <<call[c].principal, call[c].key>>
        /\ call[c].pc \in {"idle", "running"} => call[c].id = None /\ call[c].outcome = "none"
        /\ call[c].pc = "waiting" => call[c].id # None /\ call[c].outcome = "none"
        /\ call[c].pc # "idle" => call[c].principal # None /\ call[c].key # None

\* Why a write is collected once: a call holds its approval while it waits on it
\* (register_or_coalesce counts it in), an approval with a holder is never handed
\* to another call nor swept, and whoever takes it consumes it.
WriteHasOneOwner ==
    /\ \A c \in Calls : call[c].pc = "waiting" /\ IsWrite(call[c].id) =>
          /\ approvals[call[c].id].waiters > 0 /\ ~approvals[call[c].id].consumed
          /\ \A d \in Calls : call[d].pc = "waiting" /\ call[d].id = call[c].id => c = d
    /\ \A c \in Calls, a \in Ids : CollectedBy(c, a) /\ IsWrite(a) =>
          /\ approvals[a].consumed
          /\ \A d \in Calls : CollectedBy(d, a) => c = d

\* The inductive invariant behind OneCollectorPerWrite.
OwnershipInv == TypeOK /\ RowsWellFormed /\ CallsWellFormed /\ WriteHasOneOwner

\* An id nobody registered stands for nothing yet: no answer, no decision, no row.
BlankUntilRegistered ==
    \A a \in Ids : approvals[a].kind = "none" =>
        approvals[a] = NoApproval /\ a \notin pending

\* What stands behind a decision.  An accept: the person's own yes to the card, to the
\* personal-data dialog if there was one and, for accept_all, to the rule's dialog.  A
\* rule's: that nobody answered and no personal data was found.  An interaction comes
\* past its card on a yes only.
HasConsent(a) ==
    /\ approvals[a].final \in {"accept", "accept_all"} => Accepted(a) /\ driver[a].step = "done"
    /\ approvals[a].final = "accept_all" =>
          driver[a].rule # None /\ Confirmed(driver[a].rule)
    /\ approvals[a].final = "auto_accepted" =>
          approvals[a].answer = "none" /\ approvals[a].key \notin PIIKeys
    /\ driver[a].step \in {"pii", "rule"} => Accepted(a)
    /\ approvals[a].key \in PIIKeys
         /\ (driver[a].step = "rule" \/ approvals[a].final \in {"accept", "accept_all"})
       => driver[a].pii # None /\ Confirmed(driver[a].pii)
DecisionsHaveConsent == \A a \in Ids : HasConsent(a)

\* What a call was told is what its branch of gated_call makes of the decision on its
\* approval; without one only a rule or the temp-accept window can have released it.
OutcomesFollowDecisions ==
    \A c \in Calls : call[c].outcome \in Released \cup {"rejected"} =>
        IF call[c].id = None THEN call[c].outcome = "auto_accepted"
        ELSE /\ Finalized(call[c].id) /\ approvals[call[c].id].collected
             /\ call[c].outcome = OutcomeOf(call[c].key, approvals[call[c].id].final)

\* The calls in wait_async on an approval, counted.
WaitersOf(a) == {c \in Calls : call[c].pc = "waiting" /\ call[c].id = a}
WaitersAreFinite == \A a \in Ids : IsFiniteSet(WaitersOf(a))

\* A row swept as uncollected is over: nobody waits on it, nobody can look it up.  A
\* collected write is over as well.
SweptIsOver ==
    \A a \in Ids :
        /\ approvals[a].expiredRow = "uncollected" =>
              approvals[a].consumed /\ approvals[a].waiters = 0 /\ ~approvals[a].collected
        /\ approvals[a].collected /\ IsWrite(a) => approvals[a].consumed

\* Rules come from "Always allow", the Settings page or a proposal; a temp-accept window
\* from an "Allow once" of the same principal on the same file.
PermissionsHaveASource ==
    /\ \A p \in Principals : rules[p] \subseteq UNION {Covers[k] : k \in Keys}
    /\ \A p \in Principals, w \in WriteKeys : grace[p][w] # 0 =>
          \E d \in Calls :
              /\ call[d].pc = "done" /\ call[d].outcome = "approved"
              /\ call[d].principal = p
              /\ call[d].key \in WriteKeys /\ w \in SameFile[call[d].key]

\* The inductive invariant behind the consent, counting, sweeping and broadcast
\* properties above.
ApprovalInv ==
    /\ OwnershipInv /\ BlankUntilRegistered /\ DecisionsHaveConsent
    /\ OutcomesFollowDecisions /\ WaitersAreCounted /\ WaitersAreFinite /\ SweptIsOver
    /\ PermissionsHaveASource /\ WindowNeedsAllowOnce /\ NoCoveredCardStaysOpen
    /\ IsFiniteSet(pending) /\ CapsHold

-----------------------------------------------------------------------------
(* What the protocol promises about writes: SingleUseConsent, under the mapping *)
(* of the write cards to consents.                                          *)

ConsentIn(r) ==
    IF r.key \notin WriteKeys THEN "none"
    ELSE CASE r.final = "none" -> "open"
           [] r.final \in {"deny", "expired"} -> "refused"
           [] r.final \in Accepting /\ ~r.consumed -> "granted"
           [] r.final \in Accepting /\ r.consumed ->
                IF r.collected THEN "spent" ELSE "refused"
ConsentOf(a) == ConsentIn(approvals[a])

TakenBy(c) ==
    IF call[c].id # None /\ ConsentOf(call[c].id) # "none" /\ call[c].outcome \in Released
    THEN call[c].id ELSE None

Consent == INSTANCE SingleUseConsent
    WITH consent <- [a \in Ids |-> ConsentOf(a)], taken <- [c \in Calls |-> TakenBy(c)]

\* Every step of the registry and the gate is a step of the single-use contract.
ImplementsSingleUseConsent == Consent!Spec

-----------------------------------------------------------------------------
(* Liveness, under FairSpec.                                                *)

\* A held call comes back within its window, decided or not.
HeldCallReturns == \A c \in Calls : call[c].pc = "waiting" ~> call[c].pc = "done"

\* Whatever resolves an approval, a sweep and a broadcast included, frees the popup
\* worker parked on its card.
ResolvedCardFreesItsWorker ==
    \A a \in Ids : (driver[a].step = "card" /\ Finalized(a)) ~> driver[a].step = "done"

\* A denied card is finalized even when its call has long returned
\* "approval_pending" or was cancelled (_drive_interaction's promise).
DenyIsFinalized ==
    \A a \in Ids : (driver[a].step = "card" /\ approvals[a].answer = "deny") ~> Finalized(a)
=============================================================================
