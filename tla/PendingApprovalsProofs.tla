----------------------- MODULE PendingApprovalsProofs -----------------------
(* Proofs about the approval protocol for every number of principals, requests, *)
(* calls and approvals, and every TTL, hold window and cap.                     *)
EXTENDS PendingApprovals, TLAPS

\* finalize() keeps an approval an approval.
LEMMA FinalizedAsType ==
    ASSUME NEW apps \in [Ids -> Approval], NEW S, NEW d \in Decisions, now \in Nat
    PROVE  FinalizedAs(apps, S, d) \in [Ids -> Approval]
<1>1. ASSUME NEW r \in Approval, NEW n \in Nat
      PROVE  [r EXCEPT !.final = d, !.ledgerExpires = n] \in Approval
  BY <1>1 DEF Approval
<1>2. now + LedgerTTL \in Nat
  BY TimeAssumption
<1>3. ASSUME NEW a \in Ids PROVE FinalizedAs(apps, S, d)[a] \in Approval
  <2>1. CASE a \in S /\ a \in pending /\ apps[a].final = "none"
    <3>1. PICK n \in Nat : FinalizedAs(apps, S, d)[a] =
                [apps[a] EXCEPT !.final = d, !.ledgerExpires = n]
      BY <2>1, <1>2 DEF FinalizedAs
    <3>2. apps[a] \in Approval
      OBVIOUS
    <3>3. [apps[a] EXCEPT !.final = d, !.ledgerExpires = n] \in Approval
      BY <3>2, <1>1
    <3> QED
      BY <3>1, <3>3
  <2> QED
    BY <2>1 DEF FinalizedAs
<1> QED
  BY <1>3 DEF FinalizedAs

\* The key index keeps its type when stale keys, or keys of dropped ids, go.
LEMMA KeysType ==
    ASSUME TypeOK
    PROVE  /\ FreshKeys \in [Principals \X Keys -> Ids \cup {None}]
           /\ \A dropped : \A keys \in [Principals \X Keys -> Ids \cup {None}] :
                DropKeys(keys, dropped) \in [Principals \X Keys -> Ids \cup {None}]
  BY DEF TypeOK, FreshKeys, DropKeys

\* The blank approval, call and driver are well typed.
LEMMA BlankTypes ==
    /\ NoApproval \in Approval
    /\ NoCall \in Call
    /\ NoDriver \in Driver
  BY DEF NoApproval, Approval, NoCall, Call, NoDriver, Driver, Outcomes, Released

\* Ending a call keeps the calls typed.
LEMMA FinishType ==
    ASSUME TypeOK, NEW c \in Calls, NEW outcome \in Outcomes, NEW id \in Ids \cup {None},
           Finish(c, outcome, id)
    PROVE  call' \in [Calls -> Call] /\ turn' \in Calls \cup {None}
<1>1. ASSUME NEW r \in Call
      PROVE  [r EXCEPT !.pc = "done", !.outcome = outcome, !.id = id] \in Call
  BY DEF Call
<1> QED
  BY <1>1 DEF TypeOK, Finish

\* The approval a call collected, or stopped waiting on, is still one.
LEMMA CollectedRowType ==
    ASSUME TypeOK, NEW a \in Ids, NEW n \in Nat
    PROVE  /\ CollectedRow(a, n) \in Approval
           /\ OneLess(a) \in Nat
           /\ Unwaited(a) \in [Ids -> Approval]
<1>1. approvals[a] \in Approval
  BY DEF TypeOK
<1>2. ASSUME NEW r \in Approval, NEW b \in BOOLEAN
      PROVE  [r EXCEPT !.collected = TRUE, !.waiters = n, !.consumed = b] \in Approval
  BY DEF Approval
<1>3. ASSUME NEW r \in Approval, NEW m \in Nat
      PROVE  [r EXCEPT !.waiters = m] \in Approval
  BY DEF Approval
<1>4. (approvals[a].consumed \/ IsWrite(a)) \in BOOLEAN
  OBVIOUS
<1>5. OneLess(a) \in Nat
  BY <1>1 DEF OneLess, Approval
<1> QED
  BY <1>1, <1>2, <1>3, <1>4, <1>5 DEF CollectedRow, Unwaited, TypeOK

\* Whatever a branch of gated_call makes of a decision is an outcome.
LEMMA OutcomeType == \A k, d : OutcomeOf(k, d) \in Outcomes
  BY DEF OutcomeOf, Outcomes, Released

\* Arming the temp-accept window keeps the windows typed.
LEMMA GraceType ==
    ASSUME TypeOK, NEW p \in Principals, NEW k \in Keys, NEW d
    PROVE  GraceAfter(p, k, d) \in [Principals -> [WriteKeys -> Nat]]
<1>1. now + GraceTTL \in Nat
  BY TimeAssumption DEF TypeOK
<1>2. ASSUME NEW w \in WriteKeys PROVE grace[p][w] \in Nat
  BY DEF TypeOK
<1>3. [w \in WriteKeys |-> IF w \in SameFile[k] THEN now + GraceTTL ELSE grace[p][w]]
        \in [WriteKeys -> Nat]
  BY <1>1, <1>2
<1> QED
  BY <1>3 DEF GraceAfter, TypeOK

\* register_or_coalesce adds a typed row.
LEMMA NewRowType ==
    ASSUME NEW p \in Principals, NEW k \in Keys, NEW n \in Nat, now \in Nat
    PROVE  [NoApproval EXCEPT !.kind = "card", !.principal = p, !.key = k,
                     !.expires = now + PendingTTL, !.waiters = n] \in Approval
<1>1. now + PendingTTL \in Nat
  BY TimeAssumption
<1>2. ASSUME NEW r \in Approval, NEW t \in Nat
      PROVE  [r EXCEPT !.kind = "card", !.principal = p, !.key = k,
                       !.expires = t, !.waiters = n] \in Approval
  BY <1>2 DEF Approval
<1> QED
  BY <1>1, <1>2, BlankTypes

\* The two TTL sweeps leave typed approvals.
LEMMA SweepType ==
    ASSUME TypeOK, NEW c \in Calls, NEW p \in Principals, NEW k \in Keys,
           NEW u \in BOOLEAN, Arrive(c, p, k, u)
    PROVE  TypeOK'
<1>1. approvals' \in [Ids -> Approval]
  <2>1. ASSUME NEW r \in Approval, NEW row \in {"none", "uncollected"}
        PROVE  /\ [r EXCEPT !.final = "expired", !.expiredRow = "unanswered"] \in Approval
               /\ [r EXCEPT !.consumed = TRUE, !.expiredRow = row] \in Approval
    BY <2>1 DEF Approval, Decisions
  <2>2. ASSUME NEW a \in Ids PROVE approvals'[a] \in Approval
    <3>0. approvals[a] \in Approval
      BY DEF TypeOK
    <3>1. CASE a \in Unanswered
      BY <3>0, <3>1, <2>1 DEF Arrive
    <3>2. CASE a \notin Unanswered /\ a \in Lapsed
      BY <3>0, <3>2, <2>1 DEF Arrive
    <3>3. CASE a \notin Unanswered /\ a \notin Lapsed
      BY <3>0, <3>3 DEF Arrive
    <3> QED
      BY <3>1, <3>2, <3>3
  <2> QED
    BY <2>2 DEF Arrive
<1>2. byKey' \in [Principals \X Keys -> Ids \cup {None}]
  <2>1. DropKeys(byKey, Lapsed) \in [Principals \X Keys -> Ids \cup {None}]
    BY KeysType DEF TypeOK
  <2> QED
    BY <2>1 DEF Arrive
<1>3. call' \in [Calls -> Call]
  <2>1. now \in Nat
    BY DEF TypeOK
  <2>2. [NoCall EXCEPT !.pc = "running", !.principal = p, !.key = k,
                       !.unattended = u, !.deadline = now] \in Call
    BY <2>1, BlankTypes DEF Call
  <2> QED
    BY <2>2 DEF Arrive, TypeOK
<1> QED
  BY <1>1, <1>2, <1>3 DEF Arrive, TypeOK

\* Between its sweep and its wait a call knows its principal and its key.
LEMMA ExistingType ==
    ASSUME TypeOK, CallsWellFormed, NEW c \in Calls, Running(c)
    PROVE  /\ call[c].principal \in Principals /\ call[c].key \in Keys
           /\ Existing(c) \in Ids \cup {None}
<1>1. call[c].principal \in Principals /\ call[c].key \in Keys
  BY DEF TypeOK, Call, Running, CallsWellFormed
<1> QED
  BY <1>1, KeysType DEF Existing

\* Collecting an outcome keeps the rows, the index, the windows and the calls typed.
LEMMA CollectType ==
    ASSUME TypeOK, NEW c \in Calls, NEW a \in Ids,
           call[c].principal \in Principals, call[c].key \in Keys,
           NEW keys \in [Principals \X Keys -> Ids \cup {None}],
           Collect(c, a, keys)
    PROVE  /\ pending' \in SUBSET Ids
           /\ byKey' \in [Principals \X Keys -> Ids \cup {None}]
           /\ grace' \in [Principals -> [WriteKeys -> Nat]]
           /\ call' \in [Calls -> Call] /\ turn' \in Calls \cup {None}
<1>1. Finish(c, OutcomeOf(call[c].key, approvals[a].final), a)
  BY DEF Collect
<1>2. call' \in [Calls -> Call] /\ turn' \in Calls \cup {None}
  BY <1>1, FinishType, OutcomeType
<1>3. byKey' \in [Principals \X Keys -> Ids \cup {None}]
  BY KeysType DEF Collect
<1>4. grace' \in [Principals -> [WriteKeys -> Nat]]
  BY GraceType DEF Collect
<1> QED
  BY <1>2, <1>3, <1>4 DEF Collect, TypeOK

\* Recording a decision on one more driver keeps the drivers typed.
LEMMA DriverType ==
    ASSUME TypeOK, NEW a \in Ids, NEW b \in Ids,
           NEW step \in {"off", "card", "pii", "rule", "proposal", "done"}
    PROVE  /\ [driver EXCEPT ![a].step = step] \in [Ids -> Driver]
           /\ [driver EXCEPT ![a] = [@ EXCEPT !.step = "pii", !.pii = b]] \in [Ids -> Driver]
           /\ [driver EXCEPT ![a] = [@ EXCEPT !.step = "rule", !.rule = b]] \in [Ids -> Driver]
<1>1. ASSUME NEW r \in Driver
      PROVE  /\ [r EXCEPT !.step = step] \in Driver
             /\ [r EXCEPT !.step = "pii", !.pii = b] \in Driver
             /\ [r EXCEPT !.step = "rule", !.rule = b] \in Driver
  BY <1>1 DEF Driver
<1> QED
  BY <1>1 DEF TypeOK

\* Held or collapsed, the start of the wait leaves typed calls.
LEMMA StartWaitType ==
    ASSUME TypeOK, NEW c \in Calls, NEW a \in Ids, StartWait(c, a)
    PROVE  call' \in [Calls -> Call] /\ turn' \in Calls \cup {None}
<1>1. CASE Collapsed(call[c].principal, a)
  BY <1>1, FinishType DEF StartWait, Outcomes
<1>2. CASE ~Collapsed(call[c].principal, a)
  <2>1. now + HoldWindow \in Nat
    BY TimeAssumption DEF TypeOK
  <2>2. ASSUME NEW r \in Call, NEW n \in Nat
        PROVE  [r EXCEPT !.pc = "waiting", !.id = a, !.deadline = n] \in Call
    BY <2>2 DEF Call
  <2>3. [call[c] EXCEPT !.pc = "waiting", !.id = a, !.deadline = now + HoldWindow] \in Call
    BY <2>1, <2>2 DEF TypeOK
  <2> QED
    BY <1>2, <2>3 DEF StartWait, TypeOK
<1> QED
  BY <1>1, <1>2

\* A confirm dialog is a typed row.
LEMMA RegisterConfirmType ==
    ASSUME TypeOK, NEW b \in Ids, NEW p \in Principals \cup {None}, RegisterConfirm(b, p)
    PROVE  approvals' \in [Ids -> Approval] /\ pending' \in SUBSET Ids
<1>1. [NoApproval EXCEPT !.kind = "confirm", !.principal = p, !.expires = now + PendingTTL]
        \in Approval
  <2>1. now + PendingTTL \in Nat
    BY TimeAssumption DEF TypeOK
  <2>2. ASSUME NEW r \in Approval, NEW t \in Nat
        PROVE  [r EXCEPT !.kind = "confirm", !.principal = p, !.expires = t] \in Approval
    BY <2>2 DEF Approval
  <2> QED
    BY <2>1, <2>2, BlankTypes
<1> QED
  BY <1>1 DEF RegisterConfirm, TypeOK

\* The steps of a gated_call keep the types.
LEMMA CallStepType ==
    ASSUME TypeOK, CallsWellFormed, NEW c \in Calls, GatedCall(c)
    PROVE  TypeOK'
<1>1. ASSUME NEW p \in Principals, NEW k \in Keys, NEW u \in Unattended, Arrive(c, p, k, u)
      PROVE  TypeOK'
  <2>1. u \in BOOLEAN
    BY KeyAssumption
  <2> QED
    BY <1>1, <2>1, SweepType
<1>2. ASSUME NEW outcome \in Outcomes, Finish(c, outcome, None),
             byKey' \in [Principals \X Keys -> Ids \cup {None}],
             UNCHANGED <<now, approvals, pending, rules, grace, driver>>
      PROVE  TypeOK'
  BY <1>2, FinishType DEF TypeOK
<1>3. CASE AutoAccept(c) \/ DenyUnattended(c)
  BY <1>2, <1>3 DEF AutoAccept, DenyUnattended, Outcomes, Released, TypeOK
<1>4. CASE RefuseIdenticalWrite(c) \/ RefuseCap(c)
  BY <1>2, <1>4, KeysType DEF RefuseIdenticalWrite, RefuseCap, Outcomes
<1>5. CASE CollectFromLedger(c)
  <2> DEFINE a == Existing(c)
  <2>1. /\ call[c].principal \in Principals /\ call[c].key \in Keys
        /\ a \in Ids
    BY <1>5, ExistingType DEF CollectFromLedger, NeedsDecision, LedgerHit
  <2>2. approvals[a].waiters \in Nat
    BY <2>1 DEF TypeOK, Approval
  <2>3. CollectedRow(a, approvals[a].waiters) \in Approval
    BY <2>1, <2>2, CollectedRowType
  <2>4. approvals' \in [Ids -> Approval]
    BY <1>5, <2>3 DEF CollectFromLedger, TypeOK
  <2>5. FreshKeys \in [Principals \X Keys -> Ids \cup {None}] /\ Collect(c, a, FreshKeys)
    BY <1>5, KeysType DEF CollectFromLedger
  <2> QED
    BY <1>5, <2>1, <2>4, <2>5, CollectType DEF CollectFromLedger, TypeOK
<1>6. CASE Coalesce(c)
  <2> DEFINE a == Existing(c)
  <2>1. /\ call[c].principal \in Principals /\ a \in Ids
    BY <1>6, ExistingType DEF Coalesce, MustRegister, NeedsDecision, Joinable
  <2>2. approvals[a].waiters + WaitersAdded(call[c].principal, a) \in Nat
    BY <2>1 DEF TypeOK, Approval, WaitersAdded
  <2>3. ASSUME NEW r \in Approval, NEW m \in Nat
        PROVE  [r EXCEPT !.waiters = m] \in Approval
    BY <2>3 DEF Approval
  <2>4. [approvals[a] EXCEPT !.waiters = approvals[a].waiters + WaitersAdded(call[c].principal, a)]
          \in Approval
    BY <2>1, <2>2, <2>3 DEF TypeOK
  <2>5. approvals' \in [Ids -> Approval]
    BY <1>6, <2>1, <2>4 DEF Coalesce, TypeOK
  <2>6. call' \in [Calls -> Call] /\ turn' \in Calls \cup {None}
    BY <1>6, <2>1, StartWaitType DEF Coalesce
  <2> QED
    BY <1>6, <2>5, <2>6, KeysType DEF Coalesce, TypeOK
<1>7. CASE Register(c)
  <2> DEFINE p == call[c].principal
             k == call[c].key
  <2>1. p \in Principals /\ k \in Keys
    BY <1>7, ExistingType DEF Register, MustRegister, NeedsDecision
  <2>2. PICK a \in Ids :
            /\ approvals' = [approvals EXCEPT ![a] =
                  [NoApproval EXCEPT !.kind = "card", !.principal = p, !.key = k,
                     !.expires = now + PendingTTL, !.waiters = WaitersAdded(p, a)]]
            /\ pending' = pending \cup {a}
            /\ byKey' = [FreshKeys EXCEPT ![<<p, k>>] = a]
            /\ driver' = [driver EXCEPT ![a].step = "card"]
            /\ StartWait(c, a)
    BY <1>7 DEF Register
  <2>3. WaitersAdded(p, a) \in Nat
    BY DEF WaitersAdded
  <2>4. approvals' \in [Ids -> Approval]
    BY <2>1, <2>2, <2>3, NewRowType DEF TypeOK
  <2>5. byKey' \in [Principals \X Keys -> Ids \cup {None}]
    BY <2>2, KeysType
  <2>6. call' \in [Calls -> Call] /\ turn' \in Calls \cup {None}
    BY <2>2, StartWaitType
  <2>7. driver' \in [Ids -> Driver]
    BY <2>2, DriverType
  <2> QED
    BY <1>7, <2>2, <2>4, <2>5, <2>6, <2>7 DEF Register, TypeOK
<1>8. CASE CollectInWindow(c)
  <2> DEFINE a == call[c].id
  <2>1. /\ call[c].principal \in Principals /\ call[c].key \in Keys
        /\ a \in Ids
    BY <1>8 DEF CollectInWindow, Waiting, CallsWellFormed, TypeOK, Call
  <2>2. approvals[a].waiters \in Nat
    BY <2>1 DEF TypeOK, Approval
  <2>3. CollectedRow(a, OneLess(a)) \in Approval
    BY <2>1, <2>2, CollectedRowType
  <2>4. approvals' \in [Ids -> Approval]
    BY <1>8, <2>3 DEF CollectInWindow, TypeOK
  <2>5. Collect(c, a, byKey)
    BY <1>8 DEF CollectInWindow
  <2>6. byKey \in [Principals \X Keys -> Ids \cup {None}]
    BY DEF TypeOK
  <2> QED
    BY <1>8, <2>1, <2>4, <2>5, <2>6, CollectType DEF CollectInWindow, TypeOK
<1>9. CASE HoldWindowEnds(c) \/ Cancel(c)
  <2> DEFINE a == call[c].id
  <2>1. a \in Ids
    BY <1>9 DEF HoldWindowEnds, Cancel, Waiting, CallsWellFormed, TypeOK, Call
  <2>2. approvals' = Unwaited(a) /\ UNCHANGED <<now, pending, byKey, rules, grace, driver>>
    BY <1>9 DEF HoldWindowEnds, Cancel
  <2>3. approvals' \in [Ids -> Approval]
    BY <2>1, <2>2, CollectedRowType
  <2>4. PICK outcome \in Outcomes : Finish(c, outcome, a)
    BY <1>9 DEF HoldWindowEnds, Cancel, Outcomes
  <2> QED
    BY <2>1, <2>2, <2>3, <2>4, FinishType DEF TypeOK
<1> QED
  BY <1>1, <1>3, <1>4, <1>5, <1>6, <1>7, <1>8, <1>9 DEF GatedCall

\* Replacing one principal's rules keeps the rules typed.
LEMMA PrincipalRulesType ==
    ASSUME TypeOK, NEW p \in Principals, NEW k \in Keys, NEW S,
           rules' = [rules EXCEPT ![p] = S],
           S = rules[p] \cup Covers[k] \/ S = rules[p] \ Covers[k] \/ S = rules[p]
    PROVE  rules' \in [Principals -> SUBSET Keys]
<1>1. rules[p] \in SUBSET Keys /\ Covers[k] \in SUBSET Keys
  BY KeyAssumption DEF TypeOK
<1> QED
  BY <1>1 DEF TypeOK

\* The end of an interaction, and the dialogs on its way, keep the types.
LEMMA AfterConsentType ==
    ASSUME TypeOK, NEW a \in Ids, AfterConsent(a)
    PROVE  /\ approvals' \in [Ids -> Approval] /\ pending' \in SUBSET Ids
           /\ driver' \in [Ids -> Driver]
<1>1. approvals[a].principal \in Principals \cup {None} /\ now \in Nat
  BY DEF TypeOK, Approval
<1>2. CASE OffersRule(a)
  <2>1. PICK b \in Ids :
           /\ RegisterConfirm(b, approvals[a].principal)
           /\ driver' = [driver EXCEPT ![a] = [@ EXCEPT !.step = "rule", !.rule = b]]
    BY <1>2 DEF AfterConsent
  <2> QED
    BY <1>1, <2>1, RegisterConfirmType, DriverType
<1>3. CASE ~OffersRule(a)
  <2>1. /\ approvals' = FinalizedAs(approvals, {a}, "accept")
        /\ driver' = [driver EXCEPT ![a].step = "done"] /\ UNCHANGED pending
    BY <1>3 DEF AfterConsent, Conclude, Concluded
  <2>2. "accept" \in Decisions /\ approvals \in [Ids -> Approval]
    BY DEF Decisions, Accepting, TypeOK
  <2>3. approvals' \in [Ids -> Approval]
    BY <1>1, <2>1, <2>2, FinalizedAsType
  <2>4. driver' \in [Ids -> Driver]
    BY <2>1, DriverType
  <2> QED
    BY <2>1, <2>3, <2>4 DEF TypeOK
<1> QED
  BY <1>2, <1>3

\* The steps of _drive_interaction keep the types.
LEMMA InteractionType ==
    ASSUME TypeOK, RowsWellFormed, NEW a \in Ids, Interaction(a)
    PROVE  TypeOK'
<1>0. /\ approvals \in [Ids -> Approval] /\ now \in Nat
      /\ {"deny", "accept", "auto_accepted", "accept_all"} \subseteq Decisions
      /\ approvals[a].principal \in Principals \cup {None}
  BY DEF TypeOK, Approval, Decisions, Accepting
<1>1. ASSUME NEW d \in Decisions, Conclude(a, d)
      PROVE  approvals' \in [Ids -> Approval] /\ driver' \in [Ids -> Driver]
  BY <1>0, <1>1, FinalizedAsType, DriverType DEF Conclude, Concluded
<1>2. CASE CardClosed(a)
  <2>1. CASE ~Accepted(a)
    BY <1>0, <1>1, <1>2, <2>1 DEF CardClosed, TypeOK
  <2>2. CASE Accepted(a) /\ approvals[a].key \in PIIKeys
    <3>1. PICK b \in Ids :
             /\ RegisterConfirm(b, approvals[a].principal)
             /\ driver' = [driver EXCEPT ![a] = [@ EXCEPT !.step = "pii", !.pii = b]]
      BY <1>2, <2>2 DEF CardClosed
    <3> QED
      BY <1>0, <1>2, <3>1, RegisterConfirmType, DriverType DEF CardClosed, TypeOK
  <2>3. CASE Accepted(a) /\ approvals[a].key \notin PIIKeys
    BY <1>2, <2>3, AfterConsentType DEF CardClosed, TypeOK
  <2> QED
    BY <2>1, <2>2, <2>3
<1>3. CASE PiiDialogClosed(a)
  <2>1. CASE Confirmed(driver[a].pii)
    BY <1>3, <2>1, AfterConsentType DEF PiiDialogClosed, TypeOK
  <2>2. CASE ~Confirmed(driver[a].pii)
    BY <1>0, <1>1, <1>3, <2>2 DEF PiiDialogClosed, TypeOK
  <2> QED
    BY <2>1, <2>2
<1>4. CASE RuleDialogClosed(a)
  <2> DEFINE p == approvals[a].principal
             covered == rules[p] \cup Covers[approvals[a].key]
             swept == IF covered = rules[p] THEN {} ELSE Reevaluated(p, covered)
             once == FinalizedAs(approvals, swept, "auto_accepted")
  <2>1. p \in Principals /\ approvals[a].key \in Keys
    BY <1>4 DEF RuleDialogClosed, RowsWellFormed, TypeOK, Approval
  <2>2. rules' = [rules EXCEPT ![p] = covered] \/ rules' = rules
    BY <1>4 DEF RuleDialogClosed
  <2>3. rules' \in [Principals -> SUBSET Keys]
    BY <2>1, <2>2, PrincipalRulesType DEF TypeOK
  <2>4. once \in [Ids -> Approval]
    BY <1>0, FinalizedAsType
  <2>5. approvals' = FinalizedAs(once, {a}, "accept_all") \/ approvals' = FinalizedAs(approvals, {a}, "accept")
    BY <1>4 DEF RuleDialogClosed
  <2>6. approvals' \in [Ids -> Approval]
    BY <1>0, <2>4, <2>5, FinalizedAsType
  <2>7. driver' \in [Ids -> Driver]
    BY <1>4, DriverType DEF RuleDialogClosed, Concluded
  <2> QED
    BY <1>4, <2>3, <2>6, <2>7 DEF RuleDialogClosed, TypeOK
<1>5. CASE InteractionFails(a)
  <2>1. Conclude(a, "deny") /\ "deny" \in Decisions
        /\ UNCHANGED <<now, pending, byKey, rules, grace, call, turn>>
    BY <1>0, <1>5 DEF InteractionFails
  <2> QED
    BY <1>1, <2>1 DEF TypeOK
<1> QED
  BY <1>2, <1>3, <1>4, <1>5 DEF Interaction

\* The person, the Settings page and the rule-proposal tool keep the types.
LEMMA PersonStepType ==
    ASSUME TypeOK, RowsWellFormed
    PROVE  /\ \A a \in Ids, r \in Answers : Answer(a, r) => TypeOK'
           /\ \A p \in Principals, S \in SUBSET Ids : AnswerBatch(p, S) => TypeOK'
           /\ \A p \in Principals, k \in SettingsKeys :
                SettingsAllow(p, k) \/ SettingsRevoke(p, k) => TypeOK'
           /\ \A p \in Principals : ProposeRule(p) => TypeOK'
           /\ \A b \in Ids, gone, added \in ProposedCovers :
                ProposalClosed(b, gone, added) => TypeOK'
           /\ Tick => TypeOK'
<1>0. /\ approvals \in [Ids -> Approval] /\ now \in Nat
      /\ "auto_accepted" \in Decisions
  BY DEF TypeOK, Decisions, Accepting
<1>1. ASSUME NEW a \in Ids, NEW r \in Answers, Answer(a, r) PROVE TypeOK'
  <2>1. [approvals[a] EXCEPT !.answer = r] \in Approval
    <3>1. ASSUME NEW row \in Approval PROVE [row EXCEPT !.answer = r] \in Approval
      BY <3>1 DEF Approval
    <3> QED
      BY <1>0, <3>1
  <2> QED
    BY <1>1, <2>1 DEF Answer, TypeOK
<1>2. ASSUME NEW p \in Principals, NEW k \in SettingsKeys,
             SettingsAllow(p, k) \/ SettingsRevoke(p, k)
      PROVE  TypeOK'
  <2>1. PICK S : ChangeRules(p, S) /\ (S = rules[p] \cup Covers[k] \/ S = rules[p] \ Covers[k])
    BY <1>2 DEF SettingsAllow, SettingsRevoke
  <2>2. k \in Keys
    BY KeyAssumption
  <2>3. rules' \in [Principals -> SUBSET Keys]
    BY <2>1, <2>2, PrincipalRulesType DEF ChangeRules
  <2>4. approvals' \in [Ids -> Approval]
    BY <1>0, <2>1, FinalizedAsType DEF ChangeRules
  <2> QED
    BY <2>1, <2>3, <2>4 DEF ChangeRules, TypeOK
<1>3. ASSUME NEW p \in Principals, ProposeRule(p) PROVE TypeOK'
  <2>1. PICK b \in Ids : RegisterConfirm(b, p) /\ driver' = [driver EXCEPT ![b].step = "proposal"]
    BY <1>3 DEF ProposeRule
  <2>2. approvals' \in [Ids -> Approval] /\ pending' \in SUBSET Ids /\ driver' \in [Ids -> Driver]
    BY <2>1, RegisterConfirmType, DriverType
  <2> QED
    BY <1>3, <2>2 DEF ProposeRule, TypeOK
<1>4. ASSUME NEW b \in Ids, NEW gone \in ProposedCovers, NEW added \in ProposedCovers,
             ProposalClosed(b, gone, added)
      PROVE  TypeOK'
  <2> DEFINE p == approvals[b].principal
             covered == (rules[p] \ gone) \cup added
  <2>1. p \in Principals
    BY <1>0, <1>4 DEF ProposalClosed, RowsWellFormed, NoDriver, Approval
  <2>2. \/ /\ rules' = [rules EXCEPT ![p] = covered]
           /\ approvals' = FinalizedAs(approvals, Reevaluated(p, covered), "auto_accepted")
        \/ UNCHANGED <<rules, approvals>>
    BY <1>4 DEF ProposalClosed
  <2>3. rules' \in [Principals -> SUBSET Keys]
    <3>1. added \in SUBSET Keys
      BY KeyAssumption DEF ProposedCovers
    <3>2. rules[p] \in SUBSET Keys
      BY <2>1 DEF TypeOK
    <3> QED
      BY <2>1, <2>2, <3>1, <3>2 DEF TypeOK
  <2>4. approvals' \in [Ids -> Approval]
    BY <1>0, <2>2, FinalizedAsType
  <2>5. driver' \in [Ids -> Driver]
    BY <1>4, DriverType DEF ProposalClosed, Concluded
  <2> QED
    BY <1>4, <2>3, <2>4, <2>5 DEF ProposalClosed, TypeOK
<1>5. ASSUME Tick PROVE TypeOK'
  BY <1>5 DEF Tick, TypeOK
<1>6. ASSUME NEW p \in Principals, NEW S \in SUBSET Ids, AnswerBatch(p, S) PROVE TypeOK'
  <2>1. PICK r \in [S -> {"accept", "deny"}] :
          approvals' = [a \in Ids |-> IF a \in S THEN [approvals[a] EXCEPT !.answer = r[a]]
                                                ELSE approvals[a]]
    BY <1>6 DEF AnswerBatch
  <2>2. ASSUME NEW a \in Ids PROVE approvals'[a] \in Approval
    <3>1. ASSUME NEW row \in Approval, NEW x \in Answers
          PROVE  [row EXCEPT !.answer = x] \in Approval
      BY <3>1 DEF Approval
    <3>2. a \in S => r[a] \in Answers
      BY <2>1 DEF Answers
    <3> QED
      BY <1>0, <2>1, <3>1, <3>2
  <2> QED
    BY <1>6, <2>1, <2>2 DEF AnswerBatch, TypeOK
<1> QED
  BY <1>1, <1>2, <1>3, <1>4, <1>5, <1>6

\* Every step keeps the types.
LEMMA NextType ==
    ASSUME TypeOK, RowsWellFormed, CallsWellFormed, [Next]_vars
    PROVE  TypeOK'
<1>1. CASE Next
  BY <1>1, CallStepType, InteractionType, PersonStepType DEF Next
<1>2. CASE UNCHANGED vars
  BY <1>2 DEF vars, TypeOK
<1> QED
  BY <1>1, <1>2

-----------------------------------------------------------------------------
(* Everything outside gated_call leaves the calls and the ownership of a row   *)
(* alone: it may finalize or answer rows, and register confirm dialogs.        *)

Kept(r, s) ==
    /\ s.kind = r.kind /\ s.principal = r.principal /\ s.key = r.key
    /\ s.waiters = r.waiters /\ s.consumed = r.consumed /\ s.collected = r.collected
    /\ r.final # "none" => s.final = r.final

NewDialog(r, s) == r.kind = "none" /\ s.kind = "confirm" /\ s.key = None /\ s.principal # None
                   /\ s.consumed = FALSE /\ s.final = "none"

Quiet == call' = call /\ \A a \in Ids : Kept(approvals[a], approvals'[a])
                                     \/ NewDialog(approvals[a], approvals'[a])

\* finalize() changes nothing of an approval but its decision and its ledger TTL.
LEMMA FinalizedAsKeeps ==
    ASSUME NEW apps \in [Ids -> Approval], NEW S, NEW d \in Decisions
    PROVE  \A a \in Ids : Kept(apps[a], FinalizedAs(apps, S, d)[a])
<1> SUFFICES ASSUME NEW a \in Ids PROVE Kept(apps[a], FinalizedAs(apps, S, d)[a])
  OBVIOUS
<1>1. ASSUME NEW r \in Approval, NEW n, r.final = "none"
      PROVE  Kept(r, [r EXCEPT !.final = d, !.ledgerExpires = n])
  BY <1>1 DEF Approval, Kept
<1>2. ASSUME NEW r \in Approval PROVE Kept(r, r)
  BY DEF Kept
<1>3. CASE a \in S /\ a \in pending /\ apps[a].final = "none"
  <2>1. PICK n : FinalizedAs(apps, S, d)[a] =
              [apps[a] EXCEPT !.final = d, !.ledgerExpires = n]
    BY <1>3 DEF FinalizedAs
  <2>2. apps[a] \in Approval /\ apps[a].final = "none"
    BY <1>3
  <2>3. Kept(apps[a], [apps[a] EXCEPT !.final = d, !.ledgerExpires = n])
    BY <1>1, <2>2
  <2> QED
    BY <2>1, <2>3
<1>4. CASE ~(a \in S /\ a \in pending /\ apps[a].final = "none")
  BY <1>2, <1>4 DEF FinalizedAs
<1> QED
  BY <1>3, <1>4

\* A new confirm dialog is no card, and every other approval is left alone.
LEMMA RegisterConfirmKeeps ==
    ASSUME TypeOK, NEW b \in Ids, NEW p \in Principals, RegisterConfirm(b, p)
    PROVE  \A a \in Ids : Kept(approvals[a], approvals'[a])
                       \/ NewDialog(approvals[a], approvals'[a])
<1> SUFFICES ASSUME NEW a \in Ids
             PROVE  Kept(approvals[a], approvals'[a]) \/ NewDialog(approvals[a], approvals'[a])
  OBVIOUS
<1>1. CASE a = b
  BY <1>1, KeyAssumption DEF RegisterConfirm, NewDialog, NoApproval, TypeOK
<1>2. CASE a # b
  BY <1>2 DEF RegisterConfirm, Kept, TypeOK
<1> QED
  BY <1>1, <1>2

\* What two finalizations in a row leave alone.
LEMMA KeptTwice ==
    ASSUME NEW r, NEW s, NEW t, Kept(r, s), Kept(s, t)
    PROVE  Kept(r, t)
  BY DEF Kept

\* An interaction never touches a card's request, its waiters or its consumption.
LEMMA InteractionIsQuiet ==
    ASSUME TypeOK, RowsWellFormed, NEW a \in Ids, Interaction(a)
    PROVE  Quiet
<1>0. /\ approvals \in [Ids -> Approval]
      /\ {"deny", "accept", "auto_accepted", "accept_all"} \subseteq Decisions
  BY DEF TypeOK, Decisions, Accepting
<1>1. call' = call
  BY DEF Interaction, CardClosed, PiiDialogClosed, RuleDialogClosed, InteractionFails
<1>2. approvals[a].principal \in Principals
  BY DEF Interaction, CardClosed, PiiDialogClosed, RuleDialogClosed, InteractionFails,
         RowsWellFormed, TypeOK, Approval
<1>3. ASSUME NEW d \in Decisions, Conclude(a, d) PROVE Quiet
  BY <1>0, <1>1, <1>3, FinalizedAsKeeps DEF Conclude, Quiet
<1>4. ASSUME NEW b \in Ids, RegisterConfirm(b, approvals[a].principal) PROVE Quiet
  BY <1>1, <1>2, <1>4, RegisterConfirmKeeps DEF Quiet
<1>5. ASSUME AfterConsent(a) PROVE Quiet
  BY <1>0, <1>3, <1>4, <1>5 DEF AfterConsent
<1>6. CASE CardClosed(a)
  <2>1. \/ Conclude(a, "deny") \/ AfterConsent(a)
        \/ \E b \in Ids : RegisterConfirm(b, approvals[a].principal)
    BY <1>6 DEF CardClosed
  <2> QED
    BY <1>0, <1>3, <1>4, <1>5, <2>1
<1>7. CASE PiiDialogClosed(a)
  BY <1>0, <1>3, <1>5, <1>7 DEF PiiDialogClosed
<1>8. CASE RuleDialogClosed(a)
  <2>1. PICK S : \/ approvals' = FinalizedAs(FinalizedAs(approvals, S, "auto_accepted"),
                                             {a}, "accept_all")
                 \/ approvals' = FinalizedAs(approvals, {a}, "accept")
    BY <1>8 DEF RuleDialogClosed
  <2> DEFINE once == FinalizedAs(approvals, S, "auto_accepted")
  <2>2. once \in [Ids -> Approval]
    BY <1>0, FinalizedAsType DEF TypeOK
  <2>3. \A b \in Ids : Kept(approvals[b], once[b])
    BY <1>0, FinalizedAsKeeps
  <2>4. CASE approvals' = FinalizedAs(once, {a}, "accept_all")
    <3>1. \A b \in Ids : Kept(once[b], approvals'[b])
      BY <1>0, <2>2, <2>4, FinalizedAsKeeps
    <3>2. \A b \in Ids : Kept(approvals[b], approvals'[b])
      BY <2>3, <3>1, KeptTwice
    <3> QED
      BY <1>1, <3>2 DEF Quiet
  <2>5. CASE approvals' = FinalizedAs(approvals, {a}, "accept")
    BY <1>0, <1>1, <2>5, FinalizedAsKeeps DEF Quiet
  <2> QED
    BY <2>1, <2>4, <2>5
<1>9. CASE InteractionFails(a)
  BY <1>0, <1>3, <1>9 DEF InteractionFails
<1> QED
  BY <1>6, <1>7, <1>8, <1>9 DEF Interaction

PersonStep ==
    \/ \E a \in Ids, r \in Answers : Answer(a, r)
    \/ \E p \in Principals, S \in SUBSET Ids : AnswerBatch(p, S)
    \/ \E p \in Principals, k \in SettingsKeys : SettingsAllow(p, k) \/ SettingsRevoke(p, k)
    \/ \E p \in Principals : ProposeRule(p)
    \/ \E b \in Ids, gone, added \in ProposedCovers : ProposalClosed(b, gone, added)
    \/ Tick

\* Nor does a person, the Settings page or a rule proposal.
LEMMA PersonStepIsQuiet ==
    ASSUME TypeOK, RowsWellFormed, PersonStep
    PROVE  Quiet
<1>0. approvals \in [Ids -> Approval] /\ "auto_accepted" \in Decisions
  BY DEF TypeOK, Decisions, Accepting
<1>1. call' = call
  BY DEF PersonStep, Answer, AnswerBatch, SettingsAllow, SettingsRevoke, ChangeRules, ProposeRule,
         ProposalClosed, Tick
<1>2. ASSUME UNCHANGED approvals PROVE Quiet
  BY <1>1, <1>2 DEF Quiet, Kept
<1>3. ASSUME NEW S, approvals' = FinalizedAs(approvals, S, "auto_accepted") PROVE Quiet
  BY <1>0, <1>1, <1>3, FinalizedAsKeeps DEF Quiet
<1>4. ASSUME NEW a \in Ids, NEW r \in Answers, Answer(a, r) PROVE Quiet
  BY <1>0, <1>1, <1>4 DEF Answer, Quiet, Kept, Approval
<1>5. ASSUME NEW p \in Principals, ProposeRule(p) PROVE Quiet
  BY <1>1, <1>5, RegisterConfirmKeeps DEF ProposeRule, Quiet
<1>6. ASSUME NEW p \in Principals, NEW S \in SUBSET Ids, AnswerBatch(p, S) PROVE Quiet
  BY <1>0, <1>1, <1>6 DEF AnswerBatch, Quiet, Kept, Approval
<1> QED
  BY <1>2, <1>3, <1>4, <1>5, <1>6
     DEF PersonStep, SettingsAllow, SettingsRevoke, ChangeRules, ProposalClosed, Tick

\* A step that leaves calls, waiters and consumption alone keeps every write's owner.
LEMMA QuietKeepsOwners ==
    ASSUME TypeOK, CallsWellFormed, WriteHasOneOwner, Quiet
    PROVE  CallsWellFormed' /\ WriteHasOneOwner'
<1>1. \A c \in Calls : call[c].id # None =>
        call[c].id \in Ids /\ Kept(approvals[call[c].id], approvals'[call[c].id])
  BY DEF TypeOK, Call, CallsWellFormed, Quiet, NewDialog
<1>2. CallsWellFormed'
  BY <1>1 DEF CallsWellFormed, Kept, KeyOf, Quiet
<1>3. ASSUME NEW c \in Calls, call'[c].pc = "waiting", IsWrite(call[c].id)'
      PROVE  /\ approvals'[call'[c].id].waiters > 0 /\ ~approvals'[call'[c].id].consumed
             /\ \A d \in Calls : call'[d].pc = "waiting" /\ call'[d].id = call'[c].id => c = d
  BY <1>1, <1>3 DEF WriteHasOneOwner, CallsWellFormed, Kept, IsWrite, Quiet
<1>4. ASSUME NEW c \in Calls, NEW a \in Ids, CollectedBy(c, a)', IsWrite(a)'
      PROVE  /\ approvals'[a].consumed
             /\ \A d \in Calls : CollectedBy(d, a)' => c = d
  <2>1. Kept(approvals[a], approvals'[a])
    BY <1>1, <1>4, KeyAssumption DEF CollectedBy, Quiet
  <2> QED
    BY <1>4, <2>1 DEF WriteHasOneOwner, CollectedBy, IsWrite, Kept, Quiet
<1> QED
  BY <1>2, <1>3, <1>4 DEF WriteHasOneOwner

\* What those steps do to the drivers.
DriverMoves ==
    \A a \in Ids :
        \/ driver'[a] = driver[a]
        \/ approvals[a].kind = "card" /\ driver'[a].step = "done"
        \/ approvals[a].kind = "card" /\ driver'[a].step = "pii" /\ driver'[a].pii # None
        \/ approvals[a].kind = "card" /\ driver'[a].step = "rule" /\ driver'[a].rule # None
        \/ approvals'[a].kind = "confirm" /\ driver'[a].step \in {"proposal", "done"}

\* Such a step keeps the rows and the key index well formed.
LEMMA QuietKeepsRows ==
    ASSUME TypeOK, RowsWellFormed, Quiet, DriverMoves, byKey' = byKey
    PROVE  RowsWellFormed'
<1>1. ASSUME NEW a \in Ids, Kept(approvals[a], approvals'[a])
      PROVE  /\ approvals'[a].kind = "none" => driver'[a].step = "off"
             /\ approvals'[a].kind # "none" => approvals'[a].principal # None
             /\ approvals'[a].kind = "card" <=> approvals'[a].key # None
             /\ driver'[a].step \in {"card", "pii", "rule"} => approvals'[a].kind = "card"
             /\ driver'[a].step = "pii" => driver'[a].pii # None
             /\ driver'[a].step = "rule" => driver'[a].rule # None
             /\ approvals'[a].consumed => Finalized(a)'
  BY <1>1 DEF RowsWellFormed, DriverMoves, Kept, Finalized
<1>2. ASSUME NEW a \in Ids, NewDialog(approvals[a], approvals'[a])
      PROVE  /\ approvals'[a].kind = "none" => driver'[a].step = "off"
             /\ approvals'[a].kind # "none" => approvals'[a].principal # None
             /\ approvals'[a].kind = "card" <=> approvals'[a].key # None
             /\ driver'[a].step \in {"card", "pii", "rule"} => approvals'[a].kind = "card"
             /\ driver'[a].step = "pii" => driver'[a].pii # None
             /\ driver'[a].step = "rule" => driver'[a].rule # None
             /\ approvals'[a].consumed => Finalized(a)'
  BY <1>2 DEF RowsWellFormed, DriverMoves, NewDialog, Finalized
<1>3. ASSUME NEW pk \in Principals \X Keys, byKey'[pk] # None
      PROVE  approvals'[byKey'[pk]].kind = "card" /\ KeyOf(byKey[pk])' = pk
  <2>1. byKey[pk] \in Ids
    BY <1>3 DEF TypeOK
  <2>2. Kept(approvals[byKey[pk]], approvals'[byKey[pk]])
    BY <1>3, <2>1 DEF RowsWellFormed, Quiet, NewDialog
  <2> QED
    BY <1>3, <2>1, <2>2 DEF RowsWellFormed, Kept, KeyOf
<1> QED
  BY <1>1, <1>2, <1>3 DEF RowsWellFormed, Quiet

\* An interaction moves its own driver and opens the dialog it waits for.
LEMMA InteractionMovesDriver ==
    ASSUME TypeOK, RowsWellFormed, NEW a \in Ids, Interaction(a)
    PROVE  DriverMoves /\ byKey' = byKey
<1>1. approvals[a].kind = "card" /\ driver[a] \in Driver
  BY DEF Interaction, CardClosed, PiiDialogClosed, RuleDialogClosed, InteractionFails,
         RowsWellFormed, TypeOK
<1>2. \/ driver' = Concluded(a)
      \/ \E b \in Ids : driver' = [driver EXCEPT ![a] = [@ EXCEPT !.step = "pii", !.pii = b]]
      \/ \E b \in Ids : driver' = [driver EXCEPT ![a] = [@ EXCEPT !.step = "rule", !.rule = b]]
  BY DEF Interaction, CardClosed, PiiDialogClosed, RuleDialogClosed, InteractionFails,
         AfterConsent, Conclude
<1>3. byKey' = byKey
  BY DEF Interaction, CardClosed, PiiDialogClosed, RuleDialogClosed, InteractionFails
<1>4. ASSUME NEW b \in Ids, b # a PROVE driver'[b] = driver[b]
  BY <1>2, <1>4 DEF Concluded, TypeOK
<1>5. \/ driver'[a].step = "done"
      \/ driver'[a].step = "pii" /\ driver'[a].pii # None
      \/ driver'[a].step = "rule" /\ driver'[a].rule # None
  <2>1. ASSUME NEW r \in Driver, NEW b \in Ids
        PROVE  /\ [r EXCEPT !.step = "done"].step = "done"
               /\ [r EXCEPT !.step = "pii", !.pii = b].step = "pii"
               /\ [r EXCEPT !.step = "pii", !.pii = b].pii = b
               /\ [r EXCEPT !.step = "rule", !.rule = b].step = "rule"
               /\ [r EXCEPT !.step = "rule", !.rule = b].rule = b
    BY <2>1 DEF Driver
  <2>2. \/ driver'[a] = [driver[a] EXCEPT !.step = "done"]
        \/ \E b \in Ids : driver'[a] = [driver[a] EXCEPT !.step = "pii", !.pii = b]
        \/ \E b \in Ids : driver'[a] = [driver[a] EXCEPT !.step = "rule", !.rule = b]
    BY <1>2 DEF Concluded, TypeOK
  <2>3. CASE driver'[a] = [driver[a] EXCEPT !.step = "done"]
    BY <1>1, <2>1, <2>3
  <2>4. ASSUME NEW b \in Ids, driver'[a] = [driver[a] EXCEPT !.step = "pii", !.pii = b]
        PROVE  driver'[a].step = "pii" /\ driver'[a].pii # None
    BY <1>1, <2>1, <2>4, KeyAssumption
  <2>5. ASSUME NEW b \in Ids, driver'[a] = [driver[a] EXCEPT !.step = "rule", !.rule = b]
        PROVE  driver'[a].step = "rule" /\ driver'[a].rule # None
    BY <1>1, <2>1, <2>5, KeyAssumption
  <2> QED
    BY <2>2, <2>3, <2>4, <2>5
<1> QED
  BY <1>1, <1>3, <1>4, <1>5 DEF DriverMoves

\* Only a rule proposal gives a driver to a dialog.
LEMMA PersonStepMovesDriver ==
    ASSUME TypeOK, RowsWellFormed, PersonStep
    PROVE  DriverMoves /\ byKey' = byKey
<1>1. byKey' = byKey
  BY DEF PersonStep, Answer, AnswerBatch, SettingsAllow, SettingsRevoke, ChangeRules, ProposeRule,
         ProposalClosed, Tick
<1>2. ASSUME NEW p \in Principals, ProposeRule(p) PROVE DriverMoves
  BY <1>2 DEF ProposeRule, RegisterConfirm, DriverMoves, TypeOK, Driver, NoApproval
<1>3. ASSUME NEW b \in Ids, NEW gone \in ProposedCovers, NEW added \in ProposedCovers,
             ProposalClosed(b, gone, added)
      PROVE  DriverMoves
  <2>1. driver' = Concluded(b) /\ approvals[b].kind \in {"card", "confirm"}
    BY <1>3 DEF ProposalClosed, RowsWellFormed, TypeOK, Approval
  <2>2. approvals'[b].kind = approvals[b].kind
    <3>1. PersonStep
      BY <1>3 DEF PersonStep
    <3> QED
      BY <2>1, <3>1, PersonStepIsQuiet DEF Quiet, Kept, NewDialog
  <2> QED
    BY <2>1, <2>2 DEF Concluded, DriverMoves, TypeOK, Driver
<1>4. CASE driver' = driver
  BY <1>1, <1>4 DEF DriverMoves
<1> QED
  BY <1>1, <1>2, <1>3, <1>4
     DEF PersonStep, Answer, AnswerBatch, SettingsAllow, SettingsRevoke, ChangeRules, Tick

-----------------------------------------------------------------------------
(* The steps of a gated_call c: what each must show for the invariant to hold. *)

SameCard(a) ==
    /\ approvals'[a].kind = approvals[a].kind
    /\ approvals'[a].principal = approvals[a].principal
    /\ approvals'[a].key = approvals[a].key

\* Cards stay the cards they are, and a consumed one stays consumed.
CardsStay ==
    \A a \in Ids : approvals[a].kind = "card" =>
        SameCard(a) /\ (approvals[a].consumed => approvals'[a].consumed)

\* The other calls do not move, and those that wait on a write keep it.
OthersKeepTheirWrite(c) ==
    \A d \in Calls \ {c} :
        /\ call'[d] = call[d]
        /\ call[d].pc = "waiting" /\ IsWrite(call[d].id) =>
              /\ approvals'[call[d].id].waiters > 0 /\ ~approvals'[call[d].id].consumed
              /\ ~(call'[c].pc = "waiting" /\ call'[c].id = call[d].id)

\* Where the step leaves c.
CallLeftWellFormed(c) ==
    /\ call'[c].pc \in {"running", "waiting", "done"}
    /\ call'[c].principal # None /\ call'[c].key # None
    /\ call'[c].id \in Ids =>
          /\ approvals'[call'[c].id].kind = "card"
          /\ KeyOf(call[c].id)' = <<call'[c].principal, call'[c].key>>
    /\ call'[c].pc = "running" => call'[c].id = None /\ call'[c].outcome = "none"
    /\ call'[c].pc = "waiting" => call'[c].id # None /\ call'[c].outcome = "none"

\* If c now waits on a write, it is counted in; if it collected one, that one is
\* consumed now and was not before.
CallOwnsItsWrite(c) ==
    \A a \in Ids : a = call'[c].id /\ IsWrite(a)' =>
        /\ call'[c].pc = "waiting" => approvals'[a].waiters > 0 /\ ~approvals'[a].consumed
        /\ CollectedBy(c, a)' =>
              approvals'[a].consumed /\ (approvals[a].kind = "card" => ~approvals[a].consumed)

\* A step of a gated_call keeps the calls well formed and every write's owner.
LEMMA CallStepKeepsOwners ==
    ASSUME TypeOK, TypeOK', CallsWellFormed, WriteHasOneOwner, NEW c \in Calls,
           CardsStay, OthersKeepTheirWrite(c), CallLeftWellFormed(c), CallOwnsItsWrite(c)
    PROVE  CallsWellFormed' /\ WriteHasOneOwner'
<1>0. \A d \in Calls : /\ call'[d].id # None => call'[d].id \in Ids
                       /\ call[d].id # None => call[d].id \in Ids
  BY DEF TypeOK, Call
<1>1. CallsWellFormed'
  <2>1. ASSUME NEW d \in Calls, d # c, call[d].id # None
        PROVE  SameCard(call[d].id) /\ approvals[call[d].id].kind = "card"
    BY <1>0, <2>1 DEF CardsStay, CallsWellFormed
  <2>2. ASSUME NEW d \in Calls, d # c PROVE call'[d] = call[d]
    BY <2>2 DEF OthersKeepTheirWrite
  <2>3. ASSUME NEW d \in Calls, d # c
        PROVE  /\ call'[d].id # None =>
                    /\ approvals'[call'[d].id].kind = "card"
                    /\ KeyOf(call[d].id)' = <<call'[d].principal, call'[d].key>>
               /\ call'[d].pc \in {"idle", "running"} => call'[d].id = None /\ call'[d].outcome = "none"
               /\ call'[d].pc = "waiting" => call'[d].id # None /\ call'[d].outcome = "none"
               /\ call'[d].pc # "idle" => call'[d].principal # None /\ call'[d].key # None
    BY <2>1, <2>2, <2>3 DEF CallsWellFormed, SameCard, KeyOf
  <2> QED
    BY <1>0, <2>3 DEF CallsWellFormed, CallLeftWellFormed
<1>2. \A d \in Calls \ {c} : call[d].id # None =>
        SameCard(call[d].id) /\ approvals[call[d].id].kind = "card"
  BY <1>0 DEF CardsStay, CallsWellFormed
<1>3. ASSUME NEW d \in Calls, call'[d].pc = "waiting", IsWrite(call[d].id)'
      PROVE  /\ approvals'[call'[d].id].waiters > 0 /\ ~approvals'[call'[d].id].consumed
             /\ \A e \in Calls : call'[e].pc = "waiting" /\ call'[e].id = call'[d].id => d = e
  <2>1. call'[d].id \in Ids
    BY <1>0, <1>1, <1>3 DEF CallsWellFormed
  <2>2. CASE d = c
    <3>1. approvals'[call'[c].id].waiters > 0 /\ ~approvals'[call'[c].id].consumed
      BY <1>3, <2>1, <2>2 DEF CallOwnsItsWrite, IsWrite
    <3>2. ASSUME NEW e \in Calls, e # c, call'[e].pc = "waiting", call'[e].id = call'[c].id
          PROVE  FALSE
      BY <1>2, <1>3, <2>1, <2>2, <3>2, KeyAssumption
         DEF OthersKeepTheirWrite, SameCard, IsWrite
    <3> QED
      BY <2>2, <3>1, <3>2
  <2>3. CASE d # c
    <3>1. /\ call'[d] = call[d] /\ call[d].pc = "waiting" /\ IsWrite(call[d].id)
      BY <1>2, <1>3, <2>1, <2>3, KeyAssumption DEF OthersKeepTheirWrite, SameCard, IsWrite
    <3> QED
      BY <2>3, <3>1 DEF OthersKeepTheirWrite, WriteHasOneOwner
  <2> QED
    BY <2>2, <2>3
<1>4. ASSUME NEW d \in Calls, NEW a \in Ids, CollectedBy(d, a)', IsWrite(a)'
      PROVE  /\ approvals'[a].consumed
             /\ \A e \in Calls : CollectedBy(e, a)' => d = e
  <2>1. ASSUME NEW e \in Calls, e # c, CollectedBy(e, a)'
        PROVE  /\ CollectedBy(e, a) /\ IsWrite(a)
               /\ approvals[a].kind = "card" /\ approvals[a].consumed /\ approvals'[a].consumed
    <3>1. call'[e] = call[e]
      BY <2>1 DEF OthersKeepTheirWrite
    <3>2. CollectedBy(e, a)
      BY <2>1, <3>1 DEF CollectedBy
    <3>3. approvals[a].kind = "card" /\ SameCard(a)
      BY <1>2, <2>1, <3>2, KeyAssumption DEF CollectedBy
    <3>4. IsWrite(a)
      BY <1>4, <3>3 DEF SameCard, IsWrite
    <3> QED
      BY <3>2, <3>3, <3>4 DEF WriteHasOneOwner, CardsStay
  <2>2. CollectedBy(c, a)' =>
            approvals'[a].consumed /\ (approvals[a].kind = "card" => ~approvals[a].consumed)
    BY <1>4 DEF CallOwnsItsWrite, CollectedBy
  <2>3. ASSUME NEW e \in Calls, CollectedBy(e, a)', e # d PROVE FALSE
    BY <1>4, <2>1, <2>2, <2>3 DEF WriteHasOneOwner
  <2> QED
    BY <1>4, <2>1, <2>2, <2>3
<1> QED
  BY <1>1, <1>3, <1>4 DEF WriteHasOneOwner

\* Keys are freed, never moved, by everything but a registration.
KeysOnlyGo == \A pk \in Principals \X Keys : byKey'[pk] = None \/ byKey'[pk] = byKey[pk]

\* The rows stay well formed when requests and drivers do and consumption follows a decision.
LEMMA RowsStayWellFormed ==
    ASSUME TypeOK, RowsWellFormed, KeysOnlyGo, driver' = driver,
           \A a \in Ids : SameCard(a) /\ (approvals'[a].consumed => Finalized(a)')
    PROVE  RowsWellFormed'
<1>1. ASSUME NEW pk \in Principals \X Keys, byKey'[pk] # None
      PROVE  approvals'[byKey'[pk]].kind = "card" /\ KeyOf(byKey[pk])' = pk
  BY <1>1 DEF RowsWellFormed, KeysOnlyGo, SameCard, KeyOf, TypeOK
<1>2. ASSUME NEW a \in Ids
      PROVE  /\ approvals'[a].kind = "none" => driver'[a].step = "off"
             /\ approvals'[a].kind # "none" => approvals'[a].principal # None
             /\ approvals'[a].kind = "card" <=> approvals'[a].key # None
             /\ driver'[a].step \in {"card", "pii", "rule"} => approvals'[a].kind = "card"
             /\ driver'[a].step = "pii" => driver'[a].pii # None
             /\ driver'[a].step = "rule" => driver'[a].rule # None
             /\ approvals'[a].consumed => Finalized(a)'
  BY DEF RowsWellFormed, SameCard
<1> QED
  BY <1>1, <1>2 DEF RowsWellFormed

\* What the end of a call leaves of the calls.
LEMMA FinishLeaves ==
    ASSUME TypeOK, NEW c \in Calls, NEW outcome \in Outcomes, NEW id \in Ids \cup {None},
           Finish(c, outcome, id)
    PROVE  /\ \A d \in Calls \ {c} : call'[d] = call[d]
           /\ call'[c].pc = "done" /\ call'[c].outcome = outcome /\ call'[c].id = id
           /\ call'[c].principal = call[c].principal /\ call'[c].key = call[c].key
<1>1. ASSUME NEW r \in Call
      PROVE  LET s == [r EXCEPT !.pc = "done", !.outcome = outcome, !.id = id] IN
             /\ s.pc = "done" /\ s.outcome = outcome /\ s.id = id
             /\ s.principal = r.principal /\ s.key = r.key
  BY <1>1 DEF Call
<1>2. call[c] \in Call /\ call'[c] = [call[c] EXCEPT !.pc = "done", !.outcome = outcome, !.id = id]
  BY DEF TypeOK, Finish
<1>3. \A d \in Calls \ {c} : call'[d] = call[d]
  BY DEF TypeOK, Finish
<1> QED
  BY <1>1, <1>2, <1>3

\* What collecting leaves of an approval.
LEMMA CollectedRowIs ==
    ASSUME TypeOK, NEW a \in Ids, NEW n \in Nat
    PROVE  LET s == CollectedRow(a, n) IN
           /\ s.kind = approvals[a].kind /\ s.principal = approvals[a].principal
           /\ s.key = approvals[a].key /\ s.final = approvals[a].final
           /\ s.waiters = n
           /\ s.consumed = (approvals[a].consumed \/ IsWrite(a))
<1>1. ASSUME NEW r \in Approval, NEW b \in BOOLEAN
      PROVE  LET s == [r EXCEPT !.collected = TRUE, !.waiters = n, !.consumed = b] IN
             /\ s.kind = r.kind /\ s.principal = r.principal
             /\ s.key = r.key /\ s.final = r.final
             /\ s.waiters = n /\ s.consumed = b
  BY <1>1 DEF Approval
<1>2. approvals[a] \in Approval /\ (approvals[a].consumed \/ IsWrite(a)) \in BOOLEAN
  BY DEF TypeOK
<1> QED
  BY <1>1, <1>2 DEF CollectedRow

\* The call arrives: the sweep leaves every write that is waited on alone.
LEMMA ArriveKeeps ==
    ASSUME OwnershipInv, TypeOK', NEW c \in Calls, NEW p \in Principals, NEW k \in Keys,
           NEW u \in Unattended, Arrive(c, p, k, u)
    PROVE  RowsWellFormed' /\ CallsWellFormed' /\ WriteHasOneOwner'
<1> USE DEF OwnershipInv
<1>1. ASSUME NEW a \in Ids
      PROVE  /\ SameCard(a)
             /\ approvals'[a].waiters = approvals[a].waiters
             /\ approvals'[a].consumed => Finalized(a)'
             /\ approvals[a].consumed => approvals'[a].consumed
             /\ approvals'[a].consumed # approvals[a].consumed => approvals[a].waiters = 0
  <2>1. ASSUME NEW r \in Approval, NEW row
        PROVE  LET s == [r EXCEPT !.consumed = TRUE, !.expiredRow = row] IN
               /\ s.kind = r.kind /\ s.principal = r.principal /\ s.key = r.key
               /\ s.waiters = r.waiters /\ s.consumed = TRUE /\ s.final = r.final
    BY <2>1 DEF Approval
  <2>0. ASSUME NEW r \in Approval
        PROVE  LET s == [r EXCEPT !.final = "expired", !.expiredRow = "unanswered"] IN
               /\ s.kind = r.kind /\ s.principal = r.principal /\ s.key = r.key
               /\ s.waiters = r.waiters /\ s.consumed = r.consumed /\ s.final = "expired"
    BY <2>0 DEF Approval
  <2>2. approvals[a] \in Approval
    BY DEF TypeOK
  <2>3. CASE a \in Unanswered
    <3>1. approvals'[a] = [approvals[a] EXCEPT !.final = "expired", !.expiredRow = "unanswered"]
      <4>1. a \notin Lapsed
        BY <2>3 DEF Unanswered, Lapsed, Live
      <4> QED
        BY <2>3, <4>1 DEF Arrive
    <3>2. /\ approvals'[a].kind = approvals[a].kind
          /\ approvals'[a].principal = approvals[a].principal
          /\ approvals'[a].key = approvals[a].key
          /\ approvals'[a].waiters = approvals[a].waiters
          /\ approvals'[a].consumed = approvals[a].consumed
          /\ approvals'[a].final = "expired"
      BY <2>0, <2>2, <3>1
    <3> QED
      BY <3>2 DEF SameCard, Finalized
  <2>4. CASE a \notin Unanswered /\ a \in Lapsed
    <3>1. PICK row : approvals'[a] = [approvals[a] EXCEPT !.consumed = TRUE, !.expiredRow = row]
      BY <2>4 DEF Arrive
    <3>2. Finalized(a) /\ approvals[a].waiters = 0
      BY <2>4 DEF Lapsed
    <3> QED
      BY <2>1, <2>2, <3>1, <3>2 DEF SameCard, Finalized
  <2>5. CASE a \notin Unanswered /\ a \notin Lapsed
    <3>1. approvals'[a] = approvals[a]
      BY <2>5 DEF Arrive
    <3> QED
      BY <3>1 DEF SameCard, Finalized, RowsWellFormed
  <2> QED
    BY <2>3, <2>4, <2>5
<1>2. KeysOnlyGo
  <2>1. \A pk \in Principals \X Keys : DropKeys(byKey, Lapsed)[pk] \in {None, byKey[pk]}
    BY DEF DropKeys
  <2> QED
    BY <2>1 DEF Arrive, KeysOnlyGo
<1>3. RowsWellFormed'
  BY <1>1, <1>2, RowsStayWellFormed DEF Arrive
<1>4. /\ call'[c].pc = "running" /\ call'[c].principal = p /\ call'[c].key = k
      /\ call'[c].id = None /\ call'[c].outcome = "none"
      /\ \A d \in Calls \ {c} : call'[d] = call[d]
  BY DEF Arrive, TypeOK, NoCall
<1>5. CardsStay
  BY <1>1 DEF CardsStay
<1>6. OthersKeepTheirWrite(c)
  <2>1. ASSUME NEW d \in Calls, d # c, call[d].pc = "waiting", IsWrite(call[d].id)
        PROVE  approvals'[call[d].id].waiters > 0 /\ ~approvals'[call[d].id].consumed
    <3>1. call[d].id \in Ids
      BY <2>1 DEF CallsWellFormed, TypeOK, Call
    <3>2. approvals[call[d].id].waiters > 0 /\ ~approvals[call[d].id].consumed
      BY <2>1 DEF WriteHasOneOwner
    <3>3. approvals'[call[d].id].consumed \in BOOLEAN /\ approvals[call[d].id].consumed \in BOOLEAN
      BY <3>1 DEF TypeOK, Approval
    <3> QED
      BY <1>1, <3>1, <3>2, <3>3
  <2> QED
    BY <1>4, <2>1 DEF OthersKeepTheirWrite
<1>7. CallLeftWellFormed(c)
  BY <1>4, KeyAssumption DEF CallLeftWellFormed
<1>8. CallOwnsItsWrite(c)
  BY <1>4, KeyAssumption DEF CallOwnsItsWrite
<1> QED
  BY <1>3, <1>5, <1>6, <1>7, <1>8, CallStepKeepsOwners

\* A call that ends without an approval changes nobody's ownership.
LEMMA FinishWithoutKeeps ==
    ASSUME OwnershipInv, TypeOK', NEW c \in Calls, NEW outcome \in Outcomes, Running(c),
           Finish(c, outcome, None), KeysOnlyGo, UNCHANGED <<approvals, driver>>
    PROVE  RowsWellFormed' /\ CallsWellFormed' /\ WriteHasOneOwner'
<1> USE DEF OwnershipInv
<1>1. /\ \A d \in Calls \ {c} : call'[d] = call[d]
      /\ call'[c].pc = "done" /\ call'[c].id = None
      /\ call'[c].principal = call[c].principal /\ call'[c].key = call[c].key
  BY FinishLeaves
<1>2. RowsWellFormed'
  BY RowsStayWellFormed DEF SameCard, Finalized, RowsWellFormed
<1>3. CardsStay
  BY DEF CardsStay, SameCard
<1>4. OthersKeepTheirWrite(c)
  BY <1>1 DEF OthersKeepTheirWrite, WriteHasOneOwner
<1>5. CallLeftWellFormed(c)
  BY <1>1, KeyAssumption DEF CallLeftWellFormed, CallsWellFormed, Running
<1>6. CallOwnsItsWrite(c)
  BY <1>1, KeyAssumption DEF CallOwnsItsWrite
<1> QED
  BY <1>2, <1>3, <1>4, <1>5, <1>6, CallStepKeepsOwners

\* A call that collects an approval nobody else holds, or its own.
LEMMA CollectKeeps ==
    ASSUME OwnershipInv, TypeOK', NEW c \in Calls, NEW a \in Ids, NEW n \in Nat,
           NEW keys \in [Principals \X Keys -> Ids \cup {None}],
           \A pk \in Principals \X Keys : keys[pk] = None \/ keys[pk] = byKey[pk],
           approvals[a].kind = "card", KeyOf(a) = <<call[c].principal, call[c].key>>,
           call[c].principal # None, call[c].key # None,
           Finalized(a),
           approvals' = [approvals EXCEPT ![a] = CollectedRow(a, n)],
           Collect(c, a, keys), driver' = driver,
           IsWrite(a) =>
              /\ ~approvals[a].consumed
              /\ \A d \in Calls \ {c} : ~(call[d].pc = "waiting" /\ call[d].id = a)
    PROVE  RowsWellFormed' /\ CallsWellFormed' /\ WriteHasOneOwner'
<1> USE DEF OwnershipInv
<1>1. PICK outcome \in Outcomes : Finish(c, outcome, a)
  BY OutcomeType DEF Collect
<1>2. /\ \A d \in Calls \ {c} : call'[d] = call[d]
      /\ call'[c].pc = "done" /\ call'[c].id = a
      /\ call'[c].principal = call[c].principal /\ call'[c].key = call[c].key
  BY <1>1, FinishLeaves
<1>3. /\ SameCard(a) /\ approvals'[a].final = approvals[a].final
      /\ approvals'[a].consumed = (approvals[a].consumed \/ IsWrite(a))
  BY CollectedRowIs DEF SameCard, TypeOK
<1>4. \A b \in Ids \ {a} : approvals'[b] = approvals[b]
  BY DEF TypeOK
<1>5. RowsWellFormed'
  <2>1. KeysOnlyGo
    <3>1. byKey' = DropKeys(keys, {a}) \/ byKey' = keys
      BY DEF Collect
    <3>2. \A pk \in Principals \X Keys :
            DropKeys(keys, {a})[pk] = None \/ DropKeys(keys, {a})[pk] = keys[pk]
      BY DEF DropKeys
    <3> QED
      BY <3>1, <3>2 DEF KeysOnlyGo
  <2>2. \A b \in Ids : SameCard(b) /\ (approvals'[b].consumed => Finalized(b)')
    BY <1>3, <1>4 DEF SameCard, Finalized, RowsWellFormed
  <2> QED
    BY <2>1, <2>2, RowsStayWellFormed
<1>6. CardsStay
  BY <1>3, <1>4 DEF CardsStay, SameCard
<1>7. OthersKeepTheirWrite(c)
  <2>1. ASSUME NEW d \in Calls, d # c, call[d].pc = "waiting", IsWrite(call[d].id)
        PROVE  approvals'[call[d].id].waiters > 0 /\ ~approvals'[call[d].id].consumed
    <3>1. call[d].id \in Ids
      BY <2>1 DEF CallsWellFormed, TypeOK, Call
    <3>2. call[d].id # a
      BY <2>1
    <3> QED
      BY <1>4, <2>1, <3>1, <3>2 DEF WriteHasOneOwner
  <2> QED
    BY <1>2, <2>1 DEF OthersKeepTheirWrite
<1>8. CallLeftWellFormed(c)
  BY <1>2, <1>3, KeyAssumption DEF CallLeftWellFormed, SameCard, KeyOf
<1>9. CallOwnsItsWrite(c)
  BY <1>2, <1>3 DEF CallOwnsItsWrite, IsWrite, SameCard
<1> QED
  BY <1>5, <1>6, <1>7, <1>8, <1>9, CallStepKeepsOwners

\* The approval _by_key leads a call to is the card made for its request.
LEMMA ExistingIs ==
    ASSUME TypeOK, RowsWellFormed, CallsWellFormed, NEW c \in Calls, Running(c),
           Existing(c) # None
    PROVE  /\ Existing(c) \in Ids /\ approvals[Existing(c)].kind = "card"
           /\ KeyOf(Existing(c)) = <<call[c].principal, call[c].key>>
<1>1. /\ call[c].principal \in Principals /\ call[c].key \in Keys
      /\ Existing(c) \in Ids
  BY ExistingType
<1>2. Existing(c) = byKey[<<call[c].principal, call[c].key>>]
  BY <1>1 DEF Existing, FreshKeys
<1> QED
  BY <1>1, <1>2 DEF RowsWellFormed

\* A decision taken from the ledger: no write is handed out while another call holds it.
LEMMA LedgerKeeps ==
    ASSUME OwnershipInv, TypeOK', NEW c \in Calls, CollectFromLedger(c)
    PROVE  RowsWellFormed' /\ CallsWellFormed' /\ WriteHasOneOwner'
<1> USE DEF OwnershipInv
<1> DEFINE a == Existing(c)
<1>1. /\ a \in Ids /\ approvals[a].kind = "card"
      /\ KeyOf(a) = <<call[c].principal, call[c].key>>
  BY ExistingIs DEF CollectFromLedger, NeedsDecision, LedgerHit
<1>2. approvals[a].waiters \in Nat
  BY <1>1 DEF TypeOK, Approval
<1>3. IsWrite(a) =>
        /\ ~approvals[a].consumed
        /\ \A d \in Calls \ {c} : ~(call[d].pc = "waiting" /\ call[d].id = a)
  BY <1>1 DEF CollectFromLedger, LedgerHit, WriteHasOneOwner
<1>4. /\ FreshKeys \in [Principals \X Keys -> Ids \cup {None}]
      /\ \A pk \in Principals \X Keys : FreshKeys[pk] = None \/ FreshKeys[pk] = byKey[pk]
  BY KeysType DEF FreshKeys
<1>5. call[c].principal # None /\ call[c].key # None
  BY DEF CollectFromLedger, NeedsDecision, Running, CallsWellFormed
<1>6. /\ Finalized(a) /\ Collect(c, a, FreshKeys) /\ driver' = driver
      /\ approvals' = [approvals EXCEPT ![a] = CollectedRow(a, approvals[a].waiters)]
  BY DEF CollectFromLedger, LedgerHit
<1> QED
  BY <1>1, <1>2, <1>3, <1>4, <1>5, <1>6, CollectKeeps

\* A decision collected in the hold window by a call that holds it.
LEMMA WindowKeeps ==
    ASSUME OwnershipInv, TypeOK', NEW c \in Calls, CollectInWindow(c)
    PROVE  RowsWellFormed' /\ CallsWellFormed' /\ WriteHasOneOwner'
<1> USE DEF OwnershipInv
<1> DEFINE a == call[c].id
<1>1. /\ a \in Ids /\ approvals[a].kind = "card"
      /\ KeyOf(a) = <<call[c].principal, call[c].key>>
      /\ call[c].principal # None /\ call[c].key # None
  BY DEF CollectInWindow, Waiting, CallsWellFormed, TypeOK, Call
<1>2. OneLess(a) \in Nat
  BY <1>1, CollectedRowType DEF TypeOK, Approval
<1>3. IsWrite(a) =>
        /\ ~approvals[a].consumed
        /\ \A d \in Calls \ {c} : ~(call[d].pc = "waiting" /\ call[d].id = a)
  BY <1>1 DEF CollectInWindow, Waiting, WriteHasOneOwner
<1>4. byKey \in [Principals \X Keys -> Ids \cup {None}]
  BY DEF TypeOK
<1>5. /\ Finalized(a) /\ Collect(c, a, byKey) /\ driver' = driver
      /\ approvals' = [approvals EXCEPT ![a] = CollectedRow(a, OneLess(a))]
  BY DEF CollectInWindow
<1> QED
  BY <1>1, <1>2, <1>3, <1>4, <1>5, CollectKeeps

\* A call that stops waiting leaves its approval to whoever asks next.
LEMMA StopWaitingKeeps ==
    ASSUME OwnershipInv, TypeOK', NEW c \in Calls, HoldWindowEnds(c) \/ Cancel(c)
    PROVE  RowsWellFormed' /\ CallsWellFormed' /\ WriteHasOneOwner'
<1> USE DEF OwnershipInv
<1> DEFINE a == call[c].id
<1>1. /\ a \in Ids /\ approvals[a].kind = "card" /\ call[c].pc = "waiting"
      /\ KeyOf(a) = <<call[c].principal, call[c].key>>
      /\ call[c].principal # None /\ call[c].key # None
  BY DEF HoldWindowEnds, Cancel, Waiting, CallsWellFormed, TypeOK, Call
<1>2. PICK outcome \in {"approval_pending", "cancelled"} : Finish(c, outcome, a)
  BY DEF HoldWindowEnds, Cancel
<1>3. /\ \A d \in Calls \ {c} : call'[d] = call[d]
      /\ call'[c].pc = "done" /\ call'[c].outcome = outcome /\ call'[c].id = a
      /\ call'[c].principal = call[c].principal /\ call'[c].key = call[c].key
  BY <1>1, <1>2, FinishLeaves DEF Outcomes
<1>4. /\ SameCard(a) /\ approvals'[a].final = approvals[a].final
      /\ approvals'[a].consumed = approvals[a].consumed
  <2>1. approvals' = [approvals EXCEPT ![a].waiters = OneLess(a)]
    BY DEF HoldWindowEnds, Cancel, Unwaited
  <2>2. ASSUME NEW r \in Approval, NEW m
        PROVE  LET s == [r EXCEPT !.waiters = m] IN
               /\ s.kind = r.kind /\ s.principal = r.principal /\ s.key = r.key
               /\ s.final = r.final /\ s.consumed = r.consumed
    BY <2>2 DEF Approval
  <2>3. approvals[a] \in Approval /\ approvals'[a] = [approvals[a] EXCEPT !.waiters = OneLess(a)]
    BY <1>1, <2>1 DEF TypeOK
  <2> QED
    BY <2>2, <2>3 DEF SameCard
<1>5. \A b \in Ids \ {a} : approvals'[b] = approvals[b]
  BY DEF HoldWindowEnds, Cancel, Unwaited, TypeOK
<1>6. RowsWellFormed'
  <2>1. KeysOnlyGo /\ driver' = driver
    BY DEF HoldWindowEnds, Cancel, KeysOnlyGo
  <2>2. \A b \in Ids : SameCard(b) /\ (approvals'[b].consumed => Finalized(b)')
    BY <1>4, <1>5 DEF SameCard, Finalized, RowsWellFormed
  <2> QED
    BY <2>1, <2>2, RowsStayWellFormed
<1>7. CardsStay
  BY <1>4, <1>5 DEF CardsStay, SameCard
<1>8. OthersKeepTheirWrite(c)
  <2>1. ASSUME NEW d \in Calls, d # c, call[d].pc = "waiting", IsWrite(call[d].id)
        PROVE  approvals'[call[d].id].waiters > 0 /\ ~approvals'[call[d].id].consumed
    <3>1. call[d].id \in Ids
      BY <2>1 DEF CallsWellFormed, TypeOK, Call
    <3>2. call[d].id # a
      BY <1>1, <2>1 DEF WriteHasOneOwner
    <3> QED
      BY <1>5, <2>1, <3>1, <3>2 DEF WriteHasOneOwner
  <2> QED
    BY <1>3, <2>1 DEF OthersKeepTheirWrite
<1>9. CallLeftWellFormed(c)
  BY <1>1, <1>3, <1>4, KeyAssumption DEF CallLeftWellFormed, SameCard, KeyOf
<1>10. CallOwnsItsWrite(c)
  BY <1>3 DEF CallOwnsItsWrite, CollectedBy, Released
<1> QED
  BY <1>6, <1>7, <1>8, <1>9, <1>10, CallStepKeepsOwners

\* Where the start of the wait leaves the call: held, or over at once.
LEMMA StartWaitLeaves ==
    ASSUME TypeOK, NEW c \in Calls, NEW a \in Ids, StartWait(c, a)
    PROVE  /\ \A d \in Calls \ {c} : call'[d] = call[d]
           /\ call'[c].id = a
           /\ call'[c].principal = call[c].principal /\ call'[c].key = call[c].key
           /\ \/ Collapsed(call[c].principal, a) /\ call'[c].pc = "done"
                   /\ call'[c].outcome = "approval_pending"
              \/ ~Collapsed(call[c].principal, a) /\ call'[c].pc = "waiting"
                   /\ call'[c].outcome = call[c].outcome
<1>1. CASE Collapsed(call[c].principal, a)
  BY <1>1, FinishLeaves DEF StartWait, Outcomes
<1>2. CASE ~Collapsed(call[c].principal, a)
  <2>1. ASSUME NEW r \in Call, NEW t
        PROVE  LET s == [r EXCEPT !.pc = "waiting", !.id = a, !.deadline = t] IN
               /\ s.pc = "waiting" /\ s.id = a /\ s.outcome = r.outcome
               /\ s.principal = r.principal /\ s.key = r.key
    BY <2>1 DEF Call
  <2>2. /\ call[c] \in Call
        /\ call'[c] = [call[c] EXCEPT !.pc = "waiting", !.id = a, !.deadline = now + HoldWindow]
        /\ \A d \in Calls \ {c} : call'[d] = call[d]
    BY <1>2 DEF StartWait, TypeOK
  <2> QED
    BY <1>2, <2>1, <2>2
<1> QED
  BY <1>1, <1>2

\* A call joins an open approval: a write only when no other call holds it.
LEMMA CoalesceKeeps ==
    ASSUME OwnershipInv, TypeOK', NEW c \in Calls, Coalesce(c)
    PROVE  RowsWellFormed' /\ CallsWellFormed' /\ WriteHasOneOwner'
<1> USE DEF OwnershipInv
<1>0. Running(c)
  BY DEF Coalesce, MustRegister, NeedsDecision
<1>1. PICK a \in Ids :
      /\ a = Existing(c) /\ approvals[a].kind = "card"
      /\ KeyOf(a) = <<call[c].principal, call[c].key>>
      /\ call[c].principal # None /\ call[c].key # None /\ call[c].outcome = "none"
  BY <1>0, ExistingIs DEF Coalesce, Joinable, CallsWellFormed, Running
<1> DEFINE n == approvals[a].waiters + WaitersAdded(call[c].principal, a)
<1>2. /\ \A d \in Calls \ {c} : call'[d] = call[d]
      /\ call'[c].id = a
      /\ call'[c].principal = call[c].principal /\ call'[c].key = call[c].key
      /\ \/ call'[c].pc = "done" /\ call'[c].outcome = "approval_pending"
         \/ ~Collapsed(call[c].principal, a) /\ call'[c].pc = "waiting"
              /\ call'[c].outcome = call[c].outcome
  BY <1>1, StartWaitLeaves DEF Coalesce
<1>3. /\ SameCard(a) /\ approvals'[a].final = approvals[a].final
      /\ approvals'[a].consumed = approvals[a].consumed /\ approvals'[a].waiters = n
  <2>1. approvals[a] \in Approval /\ approvals'[a] = [approvals[a] EXCEPT !.waiters = n]
    BY <1>1 DEF Coalesce, TypeOK
  <2>2. ASSUME NEW r \in Approval, NEW m
        PROVE  LET s == [r EXCEPT !.waiters = m] IN
               /\ s.kind = r.kind /\ s.principal = r.principal /\ s.key = r.key
               /\ s.final = r.final /\ s.consumed = r.consumed /\ s.waiters = m
    BY <2>2 DEF Approval
  <2> QED
    BY <2>1, <2>2 DEF SameCard
<1>4. \A b \in Ids \ {a} : approvals'[b] = approvals[b]
  BY <1>1 DEF Coalesce, TypeOK
<1>5. RowsWellFormed'
  <2>1. KeysOnlyGo /\ driver' = driver
    BY DEF Coalesce, FreshKeys, KeysOnlyGo
  <2>2. \A b \in Ids : SameCard(b) /\ (approvals'[b].consumed => Finalized(b)')
    BY <1>3, <1>4 DEF SameCard, Finalized, RowsWellFormed
  <2> QED
    BY <2>1, <2>2, RowsStayWellFormed
<1>6. CardsStay
  BY <1>3, <1>4 DEF CardsStay, SameCard
<1>7. approvals[a].waiters \in Nat
  BY <1>1 DEF TypeOK, Approval
<1>8. IsWrite(a) => ~(approvals[a].waiters > 0) /\ ~approvals[a].consumed
  BY <1>1 DEF Coalesce, Joinable, IdenticalWaiting, RowsWellFormed
<1>9. OthersKeepTheirWrite(c)
  <2>1. ASSUME NEW d \in Calls, d # c, call[d].pc = "waiting", IsWrite(call[d].id)
        PROVE  /\ approvals'[call[d].id].waiters > 0 /\ ~approvals'[call[d].id].consumed
               /\ call[d].id # a
    <3>1. call[d].id \in Ids
      BY <2>1 DEF CallsWellFormed, TypeOK, Call
    <3>2. call[d].id # a
      BY <1>8, <2>1 DEF WriteHasOneOwner
    <3> QED
      BY <1>4, <2>1, <3>1, <3>2 DEF WriteHasOneOwner
  <2> QED
    BY <1>2, <2>1 DEF OthersKeepTheirWrite
<1>10. CallLeftWellFormed(c)
  BY <1>1, <1>2, <1>3, KeyAssumption DEF CallLeftWellFormed, SameCard, KeyOf
<1>11. CallOwnsItsWrite(c)
  <2>1. ASSUME IsWrite(a)', call'[c].pc = "waiting"
        PROVE  approvals'[a].waiters > 0 /\ ~approvals'[a].consumed
    <3>1. IsWrite(a) /\ n = approvals[a].waiters + 1
      BY <1>2, <1>3, <2>1 DEF SameCard, IsWrite, WaitersAdded
    <3> QED
      BY <1>3, <1>7, <1>8, <3>1
  <2>2. ~CollectedBy(c, a)'
    BY <1>1, <1>2 DEF CollectedBy, Released
  <2> QED
    BY <1>2, <2>1, <2>2 DEF CallOwnsItsWrite
<1> QED
  BY <1>5, <1>6, <1>9, <1>10, <1>11, CallStepKeepsOwners

\* A call registers a new card and is the first to hold it.
LEMMA RegisterKeeps ==
    ASSUME OwnershipInv, TypeOK', NEW c \in Calls, Register(c)
    PROVE  RowsWellFormed' /\ CallsWellFormed' /\ WriteHasOneOwner'
<1> USE DEF OwnershipInv
<1> DEFINE p == call[c].principal
           k == call[c].key
<1>1. /\ p \in Principals /\ k \in Keys /\ p # None /\ k # None
      /\ call[c].outcome = "none" /\ call[c].id = None
  BY ExistingType, KeyAssumption
     DEF Register, MustRegister, NeedsDecision, Running, CallsWellFormed
<1>2. PICK a \in Ids :
        /\ approvals[a].kind = "none"
        /\ approvals' = [approvals EXCEPT ![a] =
              [NoApproval EXCEPT !.kind = "card", !.principal = p, !.key = k,
                 !.expires = now + PendingTTL, !.waiters = WaitersAdded(p, a)]]
        /\ byKey' = [FreshKeys EXCEPT ![<<p, k>>] = a]
        /\ driver' = [driver EXCEPT ![a].step = "card"]
        /\ StartWait(c, a)
  BY DEF Register
<1>3. /\ approvals'[a].kind = "card" /\ approvals'[a].principal = p /\ approvals'[a].key = k
      /\ approvals'[a].consumed = FALSE /\ approvals'[a].waiters = WaitersAdded(p, a)
  BY <1>2 DEF NoApproval, TypeOK
<1>4. \A b \in Ids \ {a} : approvals'[b] = approvals[b]
  BY <1>2 DEF TypeOK
<1>5. /\ \A d \in Calls \ {c} : call'[d] = call[d]
      /\ call'[c].id = a /\ call'[c].principal = p /\ call'[c].key = k
      /\ \/ call'[c].pc = "done" /\ call'[c].outcome = "approval_pending"
         \/ ~Collapsed(p, a) /\ call'[c].pc = "waiting" /\ call'[c].outcome = "none"
  BY <1>1, <1>2, StartWaitLeaves
<1>6. RowsWellFormed'
  <2>1. ASSUME NEW b \in Ids
        PROVE  /\ approvals'[b].kind = "none" => driver'[b].step = "off"
               /\ approvals'[b].kind # "none" => approvals'[b].principal # None
               /\ approvals'[b].kind = "card" <=> approvals'[b].key # None
               /\ driver'[b].step \in {"card", "pii", "rule"} => approvals'[b].kind = "card"
               /\ driver'[b].step = "pii" => driver'[b].pii # None
               /\ driver'[b].step = "rule" => driver'[b].rule # None
               /\ approvals'[b].consumed => Finalized(b)'
    <3>1. CASE b = a
      <4>1. driver'[a].step = "card"
        BY <1>2 DEF TypeOK, Driver
      <4> QED
        BY <1>1, <1>3, <3>1, <4>1
    <3>2. CASE b # a
      BY <1>2, <1>4, <3>2 DEF RowsWellFormed, Finalized, TypeOK
    <3> QED
      BY <3>1, <3>2
  <2>2. ASSUME NEW pk \in Principals \X Keys, byKey'[pk] # None
        PROVE  approvals'[byKey'[pk]].kind = "card" /\ KeyOf(byKey[pk])' = pk
    <3>1. CASE pk = <<p, k>>
      <4>1. byKey'[pk] = a
        BY <1>2, <3>1, KeysType
      <4> QED
        BY <1>3, <3>1, <4>1 DEF KeyOf
    <3>2. CASE pk # <<p, k>>
      <4>1. byKey'[pk] = byKey[pk] /\ byKey[pk] \in Ids
        BY <1>2, <2>2, <3>2, KeysType DEF FreshKeys, TypeOK
      <4>2. approvals[byKey[pk]].kind = "card" /\ KeyOf(byKey[pk]) = pk
        BY <2>2, <4>1, KeyAssumption DEF RowsWellFormed
      <4>3. approvals'[byKey[pk]] = approvals[byKey[pk]]
        BY <1>2, <1>4, <4>1, <4>2
      <4> QED
        BY <4>1, <4>2, <4>3 DEF KeyOf
    <3> QED
      BY <3>1, <3>2
  <2> QED
    BY <2>1, <2>2 DEF RowsWellFormed
<1>7. CardsStay
  BY <1>2, <1>4 DEF CardsStay, SameCard
<1>8. OthersKeepTheirWrite(c)
  <2>1. ASSUME NEW d \in Calls, d # c, call[d].pc = "waiting", IsWrite(call[d].id)
        PROVE  /\ approvals'[call[d].id].waiters > 0 /\ ~approvals'[call[d].id].consumed
               /\ call[d].id # a
    <3>1. call[d].id \in Ids /\ approvals[call[d].id].kind = "card"
      BY <2>1 DEF CallsWellFormed, TypeOK, Call
    <3> QED
      BY <1>2, <1>4, <2>1, <3>1 DEF WriteHasOneOwner
  <2> QED
    BY <1>5, <2>1 DEF OthersKeepTheirWrite
<1>9. CallLeftWellFormed(c)
  BY <1>1, <1>3, <1>5, KeyAssumption DEF CallLeftWellFormed, KeyOf
<1>10. CallOwnsItsWrite(c)
  BY <1>3, <1>5 DEF CallOwnsItsWrite, CollectedBy, Released, WaitersAdded
<1> QED
  BY <1>6, <1>7, <1>8, <1>9, <1>10, CallStepKeepsOwners

-----------------------------------------------------------------------------

\* The invariant holds initially and every step keeps it.
LEMMA InvInit == Init => OwnershipInv
<1> SUFFICES ASSUME Init PROVE OwnershipInv
  OBVIOUS
<1>1. TypeOK
  <2>1. 0 \in Nat
    OBVIOUS
  <2> QED
    BY <2>1, BlankTypes DEF Init, TypeOK
<1>2. RowsWellFormed
  BY DEF Init, RowsWellFormed, NoApproval, NoDriver
<1>3. CallsWellFormed
  BY DEF Init, CallsWellFormed, NoCall
<1>4. WriteHasOneOwner
  BY KeyAssumption DEF Init, WriteHasOneOwner, NoCall, CollectedBy
<1> QED
  BY <1>1, <1>2, <1>3, <1>4 DEF OwnershipInv

\* Every step keeps the invariant.
LEMMA InvStep == OwnershipInv /\ [Next]_vars => OwnershipInv'
<1> SUFFICES ASSUME OwnershipInv, [Next]_vars PROVE OwnershipInv'
  OBVIOUS
<1>1. TypeOK /\ RowsWellFormed /\ CallsWellFormed /\ WriteHasOneOwner
  BY DEF OwnershipInv
<1>2. TypeOK'
  BY <1>1, NextType
<1>3. ASSUME NEW c \in Calls, GatedCall(c)
      PROVE  RowsWellFormed' /\ CallsWellFormed' /\ WriteHasOneOwner'
  <2>1. CASE \E p \in Principals, k \in Keys, u \in Unattended : Arrive(c, p, k, u)
    BY <1>2, <2>1, ArriveKeeps
  <2>2. CASE AutoAccept(c) \/ DenyUnattended(c)
    <3>1. KeysOnlyGo /\ Running(c) /\ UNCHANGED <<approvals, driver>>
      BY <2>2 DEF AutoAccept, DenyUnattended, KeysOnlyGo
    <3>2. PICK outcome \in Outcomes : Finish(c, outcome, None)
      BY <2>2 DEF AutoAccept, DenyUnattended, Outcomes, Released
    <3> QED
      BY <1>2, <3>1, <3>2, FinishWithoutKeeps
  <2>3. CASE RefuseIdenticalWrite(c) \/ RefuseCap(c)
    <3>1. Running(c) /\ UNCHANGED <<approvals, driver>> /\ byKey' = FreshKeys
      BY <2>3 DEF RefuseIdenticalWrite, RefuseCap, MustRegister, NeedsDecision
    <3>2. KeysOnlyGo
      BY <3>1 DEF KeysOnlyGo, FreshKeys
    <3>3. PICK outcome \in Outcomes : Finish(c, outcome, None)
      BY <2>3 DEF RefuseIdenticalWrite, RefuseCap, Outcomes
    <3> QED
      BY <1>2, <3>1, <3>2, <3>3, FinishWithoutKeeps
  <2>4. CASE CollectFromLedger(c)
    BY <1>2, <2>4, LedgerKeeps
  <2>5. CASE Coalesce(c)
    BY <1>2, <2>5, CoalesceKeeps
  <2>6. CASE Register(c)
    BY <1>2, <2>6, RegisterKeeps
  <2>7. CASE CollectInWindow(c)
    BY <1>2, <2>7, WindowKeeps
  <2>8. CASE HoldWindowEnds(c) \/ Cancel(c)
    BY <1>2, <2>8, StopWaitingKeeps
  <2> QED
    BY <1>3, <2>1, <2>2, <2>3, <2>4, <2>5, <2>6, <2>7, <2>8 DEF GatedCall
<1>4. ASSUME NEW a \in Ids, Interaction(a)
      PROVE  RowsWellFormed' /\ CallsWellFormed' /\ WriteHasOneOwner'
  BY <1>1, <1>4, InteractionIsQuiet, InteractionMovesDriver, QuietKeepsRows, QuietKeepsOwners
<1>5. ASSUME PersonStep PROVE RowsWellFormed' /\ CallsWellFormed' /\ WriteHasOneOwner'
  BY <1>1, <1>5, PersonStepIsQuiet, PersonStepMovesDriver, QuietKeepsRows, QuietKeepsOwners
<1>6. ASSUME UNCHANGED vars PROVE RowsWellFormed' /\ CallsWellFormed' /\ WriteHasOneOwner'
  BY <1>1, <1>6
     DEF vars, RowsWellFormed, CallsWellFormed, WriteHasOneOwner, IsWrite, CollectedBy,
         KeyOf, Finalized
<1> QED
  BY <1>2, <1>3, <1>4, <1>5, <1>6 DEF Next, PersonStep, OwnershipInv

\* Every reachable state of the registry and the gate is well typed.
THEOREM TypeCorrect == Spec => []TypeOK
<1>1. OwnershipInv => TypeOK
  BY DEF OwnershipInv
<1> QED
  BY InvInit, InvStep, <1>1, PTL DEF Spec

\* A waiting call owns its write, a collected write is consumed, keys lead to cards of their own
\* request: the ownership argument holds in every reachable state.
THEOREM WritesHaveOneOwner == Spec => []OwnershipInv
<1> QED
  BY InvInit, InvStep, PTL DEF Spec

\* One decision on a write is collected by at most one call: of the calls that wait
\* on it, coalesce onto it or find it in the ledger, one gets its outcome.
THEOREM OneDecisionOneWrite == Spec => []OneCollectorPerWrite
<1>1. OwnershipInv => OneCollectorPerWrite
  BY DEF OwnershipInv, WriteHasOneOwner, OneCollectorPerWrite, Cards
<1> QED
  BY InvInit, InvStep, <1>1, PTL DEF Spec

\* The approval a call waits on or was answered by is one that was made for the same
\* principal and the same request.
THEOREM DecisionNeverCrosses == Spec => []DecisionStaysWithItsRequest
<1>1. OwnershipInv => DecisionStaysWithItsRequest
  BY DEF OwnershipInv, CallsWellFormed, DecisionStaysWithItsRequest
<1> QED
  BY InvInit, InvStep, <1>1, PTL DEF Spec
=============================================================================
