------------------------ MODULE ApprovalConsentProofs ------------------------
(* Proofs about decisions, for every instance of the approval protocol: whose yes *)
(* stands behind a release, which decision is final, who is counted as waiting,   *)
(* what a sweep or a broadcast leaves, and that every step is one of the contract *)
(* SingleUseConsent.  The invariant is ApprovalInv.                               *)
EXTENDS PendingApprovalsProofs, FiniteSetTheorems

-----------------------------------------------------------------------------
(* What one step can do to one approval.  Every action does one of these to each *)
(* row, and the parts of the invariant are proved from that.                     *)

SameRequest(r, s) == s.kind = r.kind /\ s.principal = r.principal /\ s.key = r.key
SameVerdict(r, s) == s.answer = r.answer /\ s.final = r.final
SameHistory(r, s) ==
    s.consumed = r.consumed /\ s.collected = r.collected /\ s.expiredRow = r.expiredRow

\* A card or a dialog takes a blank id.
Registers(r, s) ==
    /\ r.kind = "none" /\ s.kind # "none"
    /\ s.answer = "none" /\ s.final = "none"
    /\ s.consumed = FALSE /\ s.collected = FALSE /\ s.expiredRow = "none"
    /\ s.kind = "confirm" => s.waiters = 0

\* A person answers a row that has neither an answer nor a decision.
Answered(r, s) ==
    /\ SameRequest(r, s) /\ SameHistory(r, s) /\ s.waiters = r.waiters
    /\ r.answer = "none" /\ r.final = "none" /\ s.final = "none"

\* A row is finalized for the first time.
Decided(r, s) ==
    /\ SameRequest(r, s) /\ s.waiters = r.waiters
    /\ s.answer = r.answer /\ r.final = "none" /\ s.final # "none"
    /\ s.consumed = r.consumed /\ s.collected = r.collected
    /\ s.expiredRow \in {r.expiredRow, "unanswered"}

\* A call starts or stops waiting.
Rejoined(r, s) ==
    /\ SameRequest(r, s) /\ SameVerdict(r, s) /\ SameHistory(r, s)
    /\ r.expiredRow # "uncollected"

\* A call collects the decision.
HandedOut(r, s) ==
    /\ SameRequest(r, s) /\ SameVerdict(r, s)
    /\ r.final # "none" /\ r.expiredRow # "uncollected"
    /\ s.collected = TRUE /\ s.consumed = (r.consumed \/ r.key \in WriteKeys)
    /\ s.expiredRow = r.expiredRow

\* A sweep drops a decision nobody waits on.
SweptAway(r, s) ==
    /\ SameRequest(r, s) /\ SameVerdict(r, s)
    /\ r.final # "none" /\ r.consumed = FALSE /\ r.waiters = 0
    /\ s.waiters = 0 /\ s.consumed = TRUE /\ s.collected = r.collected
    /\ s.expiredRow = IF r.collected THEN "none" ELSE "uncollected"

\* What the two sweeps of an arriving call do.
Sweeps(r, s) == s = r \/ (Decided(r, s) /\ s.final = "expired") \/ SweptAway(r, s)

RowMoves(r, s) ==
    \/ s = r
    \/ Registers(r, s)
    \/ r.kind # "none" /\ ( \/ Answered(r, s) \/ Decided(r, s) \/ Rejoined(r, s)
                            \/ HandedOut(r, s) \/ SweptAway(r, s) )

RowsMove ==
    /\ \A a \in Ids : RowMoves(approvals[a], approvals'[a])
    /\ \A a \in pending' : a \in pending \/ Registers(approvals[a], approvals'[a])

\* The record updates of the model are such moves.
LEMMA DecidingARow ==
    ASSUME NEW r \in Approval, NEW s, NEW d, NEW n, r.final = "none", d # "none",
           s = [r EXCEPT !.final = d, !.ledgerExpires = n]
    PROVE  Decided(r, s) /\ s.final = d
  BY DEF Approval, Decided, SameRequest

LEMMA ExpiringARow ==
    ASSUME NEW r \in Approval, NEW s, r.final = "none",
           s = [r EXCEPT !.final = "expired", !.expiredRow = "unanswered"]
    PROVE  Decided(r, s) /\ s.final = "expired"
  BY DEF Approval, Decided, SameRequest

LEMMA AnsweringARow ==
    ASSUME NEW r \in Approval, NEW s, NEW x, r.answer = "none", r.final = "none",
           s = [r EXCEPT !.answer = x]
    PROVE  Answered(r, s) /\ s.answer = x
  BY DEF Approval, Answered, SameRequest, SameHistory

LEMMA RejoiningARow ==
    ASSUME NEW r \in Approval, NEW s, NEW n, r.expiredRow # "uncollected",
           s = [r EXCEPT !.waiters = n]
    PROVE  Rejoined(r, s) /\ s.waiters = n
  BY DEF Approval, Rejoined, SameRequest, SameVerdict, SameHistory

LEMMA HandingOutARow ==
    ASSUME NEW r \in Approval, NEW n, NEW b \in BOOLEAN
    PROVE  LET s == [r EXCEPT !.collected = TRUE, !.waiters = n, !.consumed = b] IN
           /\ s.kind = r.kind /\ s.principal = r.principal /\ s.key = r.key
           /\ s.answer = r.answer /\ s.final = r.final /\ s.expiredRow = r.expiredRow
           /\ s.collected = TRUE /\ s.waiters = n /\ s.consumed = b
  BY DEF Approval

LEMMA SweepingARow ==
    ASSUME NEW r \in Approval, NEW s, r.final # "none", ~r.consumed, r.waiters = 0,
           s = [r EXCEPT !.consumed = TRUE,
                         !.expiredRow = IF r.collected THEN "none" ELSE "uncollected"]
    PROVE  SweptAway(r, s)
  BY DEF Approval, SweptAway, SameRequest, SameVerdict

\* finalize() decides rows of the registry that are open, and no others.
LEMMA FinalizedAsDecides ==
    ASSUME NEW apps \in [Ids -> Approval], NEW S, NEW d \in Decisions, NEW a \in Ids
    PROVE  \/ FinalizedAs(apps, S, d)[a] = apps[a]
              /\ ~(a \in S /\ a \in pending /\ apps[a].final = "none")
           \/ /\ a \in S /\ a \in pending
              /\ Decided(apps[a], FinalizedAs(apps, S, d)[a])
              /\ FinalizedAs(apps, S, d)[a].final = d
<1>0. d # "none"
  BY DEF Decisions, Accepting
<1>1. CASE a \in S /\ a \in pending /\ apps[a].final = "none"
  <2>1. PICK n : FinalizedAs(apps, S, d)[a] =
              [apps[a] EXCEPT !.final = d, !.ledgerExpires = n]
    BY <1>1 DEF FinalizedAs
  <2>2. apps[a] \in Approval
    OBVIOUS
  <2> QED
    BY <1>0, <1>1, <2>1, <2>2, DecidingARow
<1>2. CASE ~(a \in S /\ a \in pending /\ apps[a].final = "none")
  BY <1>2 DEF FinalizedAs
<1> QED
  BY <1>1, <1>2

\* A new dialog takes a blank id and leaves the other rows alone.
LEMMA RegisterConfirmRegisters ==
    ASSUME TypeOK, NEW b \in Ids, NEW p, RegisterConfirm(b, p)
    PROVE  /\ Registers(approvals[b], approvals'[b])
           /\ approvals'[b].kind = "confirm" /\ approvals'[b].waiters = 0
           /\ \A a \in Ids \ {b} : approvals'[a] = approvals[a]
           /\ pending' = pending \cup {b}
  BY DEF RegisterConfirm, Registers, NoApproval, TypeOK

\* Answers and dialogs, rules and finalizations: each step outside gated_call moves rows.
LEMMA FinalizeMoves ==
    ASSUME TypeOK, BlankUntilRegistered, NEW S, NEW d \in Decisions,
           approvals' = FinalizedAs(approvals, S, d), pending' = pending
    PROVE  RowsMove
<1>1. ASSUME NEW a \in Ids PROVE RowMoves(approvals[a], approvals'[a])
  <2>1. \/ approvals'[a] = approvals[a]
        \/ a \in pending /\ Decided(approvals[a], approvals'[a])
    BY FinalizedAsDecides DEF TypeOK
  <2> QED
    BY <2>1 DEF RowMoves, BlankUntilRegistered
<1> QED
  BY <1>1 DEF RowsMove

LEMMA DialogMoves ==
    ASSUME TypeOK, NEW b \in Ids, NEW p, RegisterConfirm(b, p)
    PROVE  RowsMove
  BY RegisterConfirmRegisters DEF RowsMove, RowMoves

\* Two finalizations in one step, as when an "Always allow" is confirmed.
LEMMA DecidedTwice ==
    ASSUME NEW r, NEW s, NEW t, s = r \/ Decided(r, s), t = s \/ Decided(s, t)
    PROVE  t = r \/ Decided(r, t)
  BY DEF Decided, SameRequest

\* An interaction decides its card or opens a dialog.
LEMMA InteractionMoves ==
    ASSUME TypeOK, BlankUntilRegistered, NEW a \in Ids, Interaction(a)
    PROVE  RowsMove
<1>0. /\ approvals \in [Ids -> Approval]
      /\ {"deny", "accept", "auto_accepted", "accept_all"} \subseteq Decisions
  BY DEF TypeOK, Decisions, Accepting
<1>1. ASSUME NEW d \in Decisions, Conclude(a, d), pending' = pending PROVE RowsMove
  BY <1>1, FinalizeMoves DEF Conclude
<1>2. ASSUME AfterConsent(a) PROVE RowsMove
  BY <1>0, <1>1, <1>2, DialogMoves DEF AfterConsent
<1>3. CASE CardClosed(a)
  <2>1. \/ Conclude(a, "deny") /\ pending' = pending
        \/ AfterConsent(a)
        \/ \E b \in Ids : RegisterConfirm(b, approvals[a].principal)
    BY <1>3 DEF CardClosed
  <2> QED
    BY <1>0, <1>1, <1>2, <2>1, DialogMoves
<1>4. CASE PiiDialogClosed(a)
  BY <1>0, <1>1, <1>2, <1>4 DEF PiiDialogClosed
<1>5. CASE RuleDialogClosed(a)
  <2>0. pending' = pending
    BY <1>5 DEF RuleDialogClosed
  <2>1. PICK S : \/ approvals' = FinalizedAs(FinalizedAs(approvals, S, "auto_accepted"),
                                             {a}, "accept_all")
                 \/ approvals' = FinalizedAs(approvals, {a}, "accept")
    BY <1>5 DEF RuleDialogClosed
  <2> DEFINE once == FinalizedAs(approvals, S, "auto_accepted")
  <2>2. once \in [Ids -> Approval]
    BY <1>0, FinalizedAsType DEF TypeOK
  <2>3. CASE approvals' = FinalizedAs(once, {a}, "accept_all")
    <3>1. ASSUME NEW b \in Ids PROVE RowMoves(approvals[b], approvals'[b])
      <4>1. once[b] = approvals[b] \/ (b \in pending /\ Decided(approvals[b], once[b]))
        BY <1>0, FinalizedAsDecides
      <4>2. approvals'[b] = once[b] \/ (b \in pending /\ Decided(once[b], approvals'[b]))
        BY <1>0, <2>2, <2>3, FinalizedAsDecides
      <4>3. approvals'[b] = approvals[b] \/ (b \in pending /\ Decided(approvals[b], approvals'[b]))
        BY <4>1, <4>2, DecidedTwice
      <4> QED
        BY <4>3 DEF RowMoves, BlankUntilRegistered
    <3> QED
      BY <2>0, <3>1 DEF RowsMove
  <2>4. CASE approvals' = FinalizedAs(approvals, {a}, "accept")
    BY <1>0, <2>0, <2>4, FinalizeMoves
  <2> QED
    BY <2>1, <2>3, <2>4
<1>6. CASE InteractionFails(a)
  BY <1>0, <1>1, <1>6 DEF InteractionFails
<1> QED
  BY <1>3, <1>4, <1>5, <1>6 DEF Interaction

\* So do the person, the Settings page and a rule proposal.
LEMMA PersonStepMoves ==
    ASSUME TypeOK, BlankUntilRegistered, PersonStep
    PROVE  RowsMove
<1>0. approvals \in [Ids -> Approval] /\ "auto_accepted" \in Decisions
  BY DEF TypeOK, Decisions, Accepting
<1>1. ASSUME UNCHANGED <<approvals, pending>> PROVE RowsMove
  BY <1>1 DEF RowsMove, RowMoves
<1>2. ASSUME NEW S, approvals' = FinalizedAs(approvals, S, "auto_accepted"), pending' = pending
      PROVE  RowsMove
  BY <1>0, <1>2, FinalizeMoves
<1>3. ASSUME NEW a \in Ids, NEW x, a \in pending, ~EventSet(a),
             approvals'[a] = [approvals[a] EXCEPT !.answer = x]
      PROVE  RowMoves(approvals[a], approvals'[a])
  <2>1. Answered(approvals[a], approvals'[a])
    BY <1>0, <1>3, AnsweringARow DEF EventSet, Finalized
  <2> QED
    BY <1>3, <2>1 DEF RowMoves, BlankUntilRegistered
<1>4. ASSUME NEW a \in Ids, NEW r \in Answers, Answer(a, r) PROVE RowsMove
  <2>1. /\ a \in pending /\ ~EventSet(a) /\ pending' = pending
        /\ approvals'[a] = [approvals[a] EXCEPT !.answer = r]
        /\ \A b \in Ids \ {a} : approvals'[b] = approvals[b]
    BY <1>0, <1>4 DEF Answer
  <2> QED
    BY <1>3, <2>1 DEF RowsMove, RowMoves
<1>5. ASSUME NEW p \in Principals, NEW S \in SUBSET Ids, AnswerBatch(p, S) PROVE RowsMove
  <2>1. PICK x : approvals' = [a \in Ids |-> IF a \in S THEN [approvals[a] EXCEPT !.answer = x[a]]
                                                         ELSE approvals[a]]
    BY <1>5 DEF AnswerBatch
  <2>2. /\ pending' = pending
        /\ \A a \in S : a \in pending /\ ~EventSet(a)
    BY <1>5 DEF AnswerBatch, LiveOf, Live
  <2>3. ASSUME NEW a \in Ids PROVE RowMoves(approvals[a], approvals'[a])
    <3>1. CASE a \in S
      BY <1>3, <2>1, <2>2, <3>1
    <3>2. CASE a \notin S
      BY <2>1, <3>2 DEF RowMoves
    <3> QED
      BY <3>1, <3>2
  <2> QED
    BY <2>2, <2>3 DEF RowsMove
<1>6. ASSUME NEW p \in Principals, ProposeRule(p) PROVE RowsMove
  BY <1>6, DialogMoves DEF ProposeRule
<1> QED
  BY <1>1, <1>2, <1>4, <1>5, <1>6
     DEF PersonStep, SettingsAllow, SettingsRevoke, ChangeRules, ProposalClosed, Tick

-----------------------------------------------------------------------------
(* The steps of a gated_call.                                                *)

\* A call in its hold window is counted in, so its approval has not been swept.
LEMMA WaiterIsCounted ==
    ASSUME TypeOK, CallsWellFormed, WaitersAreCounted, WaitersAreFinite, SweptIsOver,
           NEW c \in Calls, call[c].pc = "waiting"
    PROVE  /\ call[c].id \in Ids /\ approvals[call[c].id].waiters > 0
           /\ approvals[call[c].id].kind = "card"
           /\ approvals[call[c].id].expiredRow # "uncollected"
<1>1. call[c].id \in Ids /\ approvals[call[c].id].kind = "card"
  BY DEF TypeOK, Call, CallsWellFormed
<1> DEFINE W == WaitersOf(call[c].id)
<1>2. c \in W /\ IsFiniteSet(W) /\ approvals[call[c].id].waiters = Cardinality(W)
  BY <1>1 DEF WaitersAreCounted, WaitersAreFinite, WaitersOf
<1>3. Cardinality(W) \in Nat /\ Cardinality(W) # 0
  BY <1>2, FS_EmptySet, FS_CardinalityType
<1>4. approvals[call[c].id].waiters > 0
  BY <1>2, <1>3
<1> QED
  BY <1>1, <1>4 DEF SweptIsOver

\* The sweeps decide open rows and drop decided ones nobody waits on.
LEMMA ArriveMoves ==
    ASSUME TypeOK, BlankUntilRegistered, NEW c \in Calls, NEW p \in Principals, NEW k \in Keys,
           NEW u \in Unattended, Arrive(c, p, k, u)
    PROVE  /\ RowsMove
           /\ \A a \in Ids : Sweeps(approvals[a], approvals'[a])
           /\ \A a \in Ids : approvals'[a].waiters = approvals[a].waiters
<1>1. ASSUME NEW a \in Ids
      PROVE  /\ Sweeps(approvals[a], approvals'[a])
             /\ approvals'[a] # approvals[a] => a \in pending
  <2>0. approvals[a] \in Approval
    BY DEF TypeOK
  <2>1. CASE a \in Unanswered
    <3>1. /\ a \in pending /\ approvals[a].final = "none"
          /\ approvals'[a] = [approvals[a] EXCEPT !.final = "expired", !.expiredRow = "unanswered"]
      <4>1. a \in pending /\ approvals[a].final = "none" /\ a \notin Lapsed
        BY <2>1 DEF Unanswered, Lapsed, Live, Finalized
      <4> QED
        BY <2>1, <4>1 DEF Arrive
    <3> QED
      BY <2>0, <3>1, ExpiringARow DEF Sweeps
  <2>2. CASE a \notin Unanswered /\ a \in Lapsed
    <3>1. /\ a \in pending /\ approvals[a].final # "none"
          /\ ~approvals[a].consumed /\ approvals[a].waiters = 0
          /\ approvals'[a] = [approvals[a] EXCEPT !.consumed = TRUE,
                 !.expiredRow = IF approvals[a].collected THEN "none" ELSE "uncollected"]
      BY <2>2 DEF Arrive, Lapsed, Finalized
    <3> QED
      BY <2>0, <3>1, SweepingARow DEF Sweeps
  <2>3. CASE a \notin Unanswered /\ a \notin Lapsed
    BY <2>3 DEF Arrive, Sweeps
  <2> QED
    BY <2>1, <2>2, <2>3
<1>2. \A a \in Ids : RowMoves(approvals[a], approvals'[a])
  BY <1>1 DEF Sweeps, RowMoves, BlankUntilRegistered
<1>3. \A a \in Ids : approvals'[a].waiters = approvals[a].waiters
  BY <1>1 DEF Sweeps, Decided, SweptAway
<1> QED
  BY <1>1, <1>2, <1>3 DEF RowsMove, Arrive

\* A call that collects hands out one decision that was not swept away.
LEMMA CollectMoves ==
    ASSUME TypeOK, NEW c \in Calls, NEW a \in Ids, NEW n \in Nat, NEW keys,
           approvals[a].kind # "none", Finalized(a), approvals[a].expiredRow # "uncollected",
           approvals' = [approvals EXCEPT ![a] = CollectedRow(a, n)], Collect(c, a, keys)
    PROVE  /\ RowsMove
           /\ HandedOut(approvals[a], approvals'[a]) /\ approvals'[a].waiters = n
           /\ \A b \in Ids \ {a} : approvals'[b] = approvals[b]
<1>1. approvals[a] \in Approval /\ \A b \in Ids \ {a} : approvals'[b] = approvals[b]
  BY DEF TypeOK
<1>2. (approvals[a].consumed \/ IsWrite(a)) \in BOOLEAN /\ approvals'[a] = CollectedRow(a, n)
  BY DEF TypeOK
<1>3. HandedOut(approvals[a], approvals'[a]) /\ approvals'[a].waiters = n
  <2> DEFINE s == CollectedRow(a, n)
  <2>1. /\ s.kind = approvals[a].kind /\ s.principal = approvals[a].principal
        /\ s.key = approvals[a].key /\ s.answer = approvals[a].answer
        /\ s.final = approvals[a].final /\ s.expiredRow = approvals[a].expiredRow
        /\ s.collected = TRUE /\ s.waiters = n
        /\ s.consumed = (approvals[a].consumed \/ IsWrite(a))
    BY <1>1, <1>2, HandingOutARow DEF CollectedRow
  <2> QED
    BY <1>2, <2>1 DEF HandedOut, SameRequest, SameVerdict, Finalized, IsWrite
<1>4. pending' \subseteq pending
  BY DEF Collect
<1> QED
  BY <1>1, <1>3, <1>4 DEF RowsMove, RowMoves

\* The approval a call finds decided in the ledger.
LEMMA LedgerMoves ==
    ASSUME TypeOK, RowsWellFormed, CallsWellFormed, SweptIsOver, NEW c \in Calls,
           CollectFromLedger(c)
    PROVE  LET a == Existing(c) IN
           /\ a \in Ids /\ approvals[a].kind = "card"
           /\ KeyOf(a) = <<call[c].principal, call[c].key>>
           /\ Finalized(a) /\ ~approvals[a].consumed
           /\ RowsMove
           /\ HandedOut(approvals[a], approvals'[a]) /\ approvals'[a].waiters = approvals[a].waiters
           /\ \A b \in Ids \ {a} : approvals'[b] = approvals[b]
<1> DEFINE a == Existing(c)
<1>1. /\ a \in Ids /\ approvals[a].kind = "card"
      /\ KeyOf(a) = <<call[c].principal, call[c].key>>
  BY ExistingIs DEF CollectFromLedger, NeedsDecision, LedgerHit
<1>2. Finalized(a) /\ ~approvals[a].consumed
  BY DEF CollectFromLedger, LedgerHit
<1>3. approvals[a].expiredRow # "uncollected" /\ approvals[a].waiters \in Nat
  BY <1>1, <1>2 DEF SweptIsOver, TypeOK, Approval
<1>4. /\ Collect(c, a, FreshKeys)
      /\ approvals' = [approvals EXCEPT ![a] = CollectedRow(a, approvals[a].waiters)]
  BY DEF CollectFromLedger
<1>5. /\ RowsMove
      /\ HandedOut(approvals[a], approvals'[a]) /\ approvals'[a].waiters = approvals[a].waiters
      /\ \A b \in Ids \ {a} : approvals'[b] = approvals[b]
  BY <1>1, <1>2, <1>3, <1>4, CollectMoves
<1> QED
  BY <1>1, <1>2, <1>5

\* The approval a call sees decided in its hold window.
LEMMA WindowMoves ==
    ASSUME TypeOK, CallsWellFormed, WaitersAreCounted, WaitersAreFinite, SweptIsOver,
           NEW c \in Calls, CollectInWindow(c)
    PROVE  LET a == call[c].id IN
           /\ a \in Ids /\ approvals[a].kind = "card"
           /\ KeyOf(a) = <<call[c].principal, call[c].key>>
           /\ Finalized(a)
           /\ RowsMove
           /\ HandedOut(approvals[a], approvals'[a])
           /\ approvals'[a].waiters = approvals[a].waiters - 1
           /\ \A b \in Ids \ {a} : approvals'[b] = approvals[b]
<1> DEFINE a == call[c].id
<1>1. /\ a \in Ids /\ approvals[a].kind = "card" /\ approvals[a].waiters > 0
      /\ approvals[a].expiredRow # "uncollected"
      /\ KeyOf(a) = <<call[c].principal, call[c].key>>
  BY WaiterIsCounted, KeyAssumption DEF CollectInWindow, Waiting, CallsWellFormed
<1>2. /\ Finalized(a) /\ Collect(c, a, byKey)
      /\ approvals' = [approvals EXCEPT ![a] = CollectedRow(a, OneLess(a))]
  BY DEF CollectInWindow
<1>3. OneLess(a) = approvals[a].waiters - 1 /\ OneLess(a) \in Nat
  BY <1>1, CollectedRowType DEF OneLess, TypeOK, Approval
<1>4. /\ RowsMove
      /\ HandedOut(approvals[a], approvals'[a]) /\ approvals'[a].waiters = approvals[a].waiters - 1
      /\ \A b \in Ids \ {a} : approvals'[b] = approvals[b]
  BY <1>1, <1>2, <1>3, CollectMoves
<1> QED
  BY <1>1, <1>2, <1>4

\* A call that stops waiting takes itself off the count and changes nothing else.
LEMMA StopMoves ==
    ASSUME TypeOK, CallsWellFormed, WaitersAreCounted, WaitersAreFinite, SweptIsOver,
           NEW c \in Calls, HoldWindowEnds(c) \/ Cancel(c)
    PROVE  LET a == call[c].id IN
           /\ a \in Ids /\ call[c].pc = "waiting"
           /\ RowsMove
           /\ Rejoined(approvals[a], approvals'[a])
           /\ approvals'[a].waiters = approvals[a].waiters - 1
           /\ \A b \in Ids \ {a} : approvals'[b] = approvals[b]
<1> DEFINE a == call[c].id
<1>1. /\ a \in Ids /\ approvals[a].kind = "card" /\ approvals[a].waiters > 0
      /\ approvals[a].expiredRow # "uncollected" /\ call[c].pc = "waiting"
  BY WaiterIsCounted DEF HoldWindowEnds, Cancel, Waiting
<1>2. /\ approvals[a] \in Approval /\ pending' = pending
      /\ approvals'[a] = [approvals[a] EXCEPT !.waiters = OneLess(a)]
      /\ \A b \in Ids \ {a} : approvals'[b] = approvals[b]
  BY <1>1 DEF HoldWindowEnds, Cancel, Unwaited, TypeOK
<1>3. OneLess(a) = approvals[a].waiters - 1
  BY <1>1 DEF OneLess
<1>4. Rejoined(approvals[a], approvals'[a]) /\ approvals'[a].waiters = approvals[a].waiters - 1
  BY <1>1, <1>2, <1>3, RejoiningARow
<1>5. RowsMove
  BY <1>1, <1>2, <1>4 DEF RowsMove, RowMoves
<1> QED
  BY <1>1, <1>2, <1>4, <1>5

\* A call joins an approval that is still open.
LEMMA CoalesceMoves ==
    ASSUME TypeOK, RowsWellFormed, CallsWellFormed, SweptIsOver, NEW c \in Calls, Coalesce(c)
    PROVE  LET a == Existing(c) IN
           /\ a \in Ids /\ ~Finalized(a)
           /\ KeyOf(a) = <<call[c].principal, call[c].key>>
           /\ RowsMove
           /\ Rejoined(approvals[a], approvals'[a])
           /\ approvals'[a].waiters = approvals[a].waiters + WaitersAdded(call[c].principal, a)
           /\ \A b \in Ids \ {a} : approvals'[b] = approvals[b]
<1> DEFINE a == Existing(c)
<1>1. /\ a \in Ids /\ approvals[a].kind = "card" /\ ~Finalized(a)
      /\ KeyOf(a) = <<call[c].principal, call[c].key>>
  BY ExistingIs DEF Coalesce, MustRegister, NeedsDecision, Joinable
<1>2. approvals[a].expiredRow # "uncollected"
  BY <1>1 DEF SweptIsOver, RowsWellFormed
<1>3. /\ approvals[a] \in Approval /\ pending' = pending
      /\ approvals'[a] = [approvals[a] EXCEPT !.waiters =
                            approvals[a].waiters + WaitersAdded(call[c].principal, a)]
      /\ \A b \in Ids \ {a} : approvals'[b] = approvals[b]
  BY <1>1 DEF Coalesce, TypeOK
<1>4. /\ Rejoined(approvals[a], approvals'[a])
      /\ approvals'[a].waiters = approvals[a].waiters + WaitersAdded(call[c].principal, a)
  BY <1>2, <1>3, RejoiningARow
<1>5. RowsMove
  BY <1>1, <1>3, <1>4 DEF RowsMove, RowMoves
<1> QED
  BY <1>1, <1>3, <1>4, <1>5

\* A call registers a card of its own.
LEMMA RegisterMoves ==
    ASSUME TypeOK, NEW c \in Calls, NEW a \in Ids, approvals[a].kind = "none",
           approvals' = [approvals EXCEPT ![a] =
               [NoApproval EXCEPT !.kind = "card", !.principal = call[c].principal,
                  !.key = call[c].key, !.expires = now + PendingTTL,
                  !.waiters = WaitersAdded(call[c].principal, a)]],
           pending' = pending \cup {a}
    PROVE  /\ RowsMove
           /\ Registers(approvals[a], approvals'[a])
           /\ approvals'[a].kind = "card" /\ approvals'[a].principal = call[c].principal
           /\ approvals'[a].key = call[c].key
           /\ approvals'[a].waiters = WaitersAdded(call[c].principal, a)
           /\ \A b \in Ids \ {a} : approvals'[b] = approvals[b]
<1>1. /\ Registers(approvals[a], approvals'[a])
      /\ approvals'[a].kind = "card" /\ approvals'[a].principal = call[c].principal
      /\ approvals'[a].key = call[c].key
      /\ approvals'[a].waiters = WaitersAdded(call[c].principal, a)
  BY DEF Registers, NoApproval, TypeOK
<1>2. \A b \in Ids \ {a} : approvals'[b] = approvals[b]
  BY DEF TypeOK
<1> QED
  BY <1>1, <1>2 DEF RowsMove, RowMoves

\* Every step moves rows in one of these ways.
LEMMA StepMoves ==
    ASSUME ApprovalInv, [Next]_vars
    PROVE  RowsMove
<1>0. /\ TypeOK /\ RowsWellFormed /\ CallsWellFormed /\ BlankUntilRegistered
      /\ WaitersAreCounted /\ WaitersAreFinite /\ SweptIsOver
  BY DEF ApprovalInv, OwnershipInv
<1>1. ASSUME NEW c \in Calls, GatedCall(c) PROVE RowsMove
  <2>1. CASE \E p \in Principals, k \in Keys, u \in Unattended : Arrive(c, p, k, u)
    BY <1>0, <2>1, ArriveMoves
  <2>2. CASE AutoAccept(c) \/ DenyUnattended(c) \/ RefuseIdenticalWrite(c) \/ RefuseCap(c)
    BY <2>2 DEF AutoAccept, DenyUnattended, RefuseIdenticalWrite, RefuseCap, RowsMove, RowMoves
  <2>3. CASE CollectFromLedger(c)
    BY <1>0, <2>3, LedgerMoves
  <2>4. CASE Coalesce(c)
    BY <1>0, <2>4, CoalesceMoves
  <2>5. CASE Register(c)
    BY <1>0, <2>5, RegisterMoves DEF Register
  <2>6. CASE CollectInWindow(c)
    BY <1>0, <2>6, WindowMoves
  <2>7. CASE HoldWindowEnds(c) \/ Cancel(c)
    BY <1>0, <2>7, StopMoves
  <2> QED
    BY <1>1, <2>1, <2>2, <2>3, <2>4, <2>5, <2>6, <2>7 DEF GatedCall
<1>2. CASE UNCHANGED vars
  BY <1>2 DEF vars, RowsMove, RowMoves
<1> QED
  BY <1>0, <1>1, <1>2, InteractionMoves, PersonStepMoves DEF Next, PersonStep

-----------------------------------------------------------------------------
(* What follows from the moves alone.                                        *)

\* Requests, decisions, answers and collections stay once they are there.
LEMMA MovesKeep ==
    ASSUME BlankUntilRegistered, RowsMove, NEW a \in Ids
    PROVE  /\ approvals[a].kind # "none" => SameRequest(approvals[a], approvals'[a])
           /\ Finalized(a) => approvals'[a].final = approvals[a].final
           /\ EventSet(a) => approvals'[a].answer = approvals[a].answer
           /\ approvals[a].collected => approvals'[a].collected
           /\ Confirmed(a) => Confirmed(a)'
<1>1. RowMoves(approvals[a], approvals'[a])
  BY DEF RowsMove
<1>2. approvals[a].kind = "none" =>
        approvals[a].final = "none" /\ approvals[a].answer = "none" /\ approvals[a].collected = FALSE
  BY DEF BlankUntilRegistered, NoApproval
<1> QED
  BY <1>1, <1>2
     DEF RowMoves, Registers, Answered, Decided, Rejoined, HandedOut, SweptAway,
         SameRequest, SameVerdict, SameHistory, Finalized, EventSet, Confirmed

\* A blank id stays blank until it is registered.
LEMMA BlankStays ==
    ASSUME BlankUntilRegistered, RowsMove
    PROVE  BlankUntilRegistered'
<1> SUFFICES ASSUME NEW a \in Ids, approvals'[a].kind = "none"
             PROVE  approvals'[a] = NoApproval /\ a \notin pending'
  BY DEF BlankUntilRegistered
<1>1. RowMoves(approvals[a], approvals'[a]) /\ ~Registers(approvals[a], approvals'[a])
  BY DEF RowsMove, Registers
<1>2. approvals'[a] = approvals[a]
  BY <1>1 DEF RowMoves, Answered, Decided, Rejoined, HandedOut, SweptAway, SameRequest
<1> QED
  BY <1>1, <1>2 DEF BlankUntilRegistered, RowsMove

\* What was swept stays over, and a write is collected only by being consumed.
LEMMA SweptStays ==
    ASSUME TypeOK, RowsWellFormed, BlankUntilRegistered, SweptIsOver, RowsMove
    PROVE  SweptIsOver'
<1> SUFFICES ASSUME NEW a \in Ids
             PROVE  /\ approvals'[a].expiredRow = "uncollected" =>
                          /\ approvals'[a].consumed /\ approvals'[a].waiters = 0
                          /\ ~approvals'[a].collected
                    /\ approvals'[a].collected /\ approvals'[a].key \in WriteKeys =>
                          approvals'[a].consumed
  BY DEF SweptIsOver, IsWrite
<1> DEFINE r == approvals[a]
           s == approvals'[a]
<1>1. /\ r \in Approval
      /\ r.expiredRow = "uncollected" => r.consumed /\ r.waiters = 0 /\ ~r.collected
      /\ r.collected /\ r.key \in WriteKeys => r.consumed
      /\ r.final = "none" => ~r.consumed
  BY DEF TypeOK, SweptIsOver, IsWrite, RowsWellFormed, Finalized
<1>2. CASE s = r \/ Registers(r, s) \/ Answered(r, s) \/ Rejoined(r, s)
  BY <1>1, <1>2 DEF Registers, Answered, Rejoined, SameRequest, SameHistory
<1>3. CASE Decided(r, s)
  BY <1>1, <1>3 DEF Decided, SameRequest
<1>4. CASE HandedOut(r, s)
  BY <1>1, <1>4 DEF HandedOut, SameRequest
<1>5. CASE SweptAway(r, s)
  <2>1. r.collected \in BOOLEAN
    BY <1>1 DEF Approval
  <2> QED
    BY <1>1, <1>5, <2>1 DEF SweptAway, SameRequest
<1>6. RowMoves(r, s)
  BY DEF RowsMove
<1> QED
  BY <1>2, <1>3, <1>4, <1>5, <1>6 DEF RowMoves

-----------------------------------------------------------------------------
(* Whose yes stands behind a decision.                                       *)

\* The personal-data dialog, where the scan calls for one, said yes.
PiiAsked(a) == approvals[a].key \in PIIKeys => driver[a].pii # None /\ Confirmed(driver[a].pii)

\* Where a step takes the interaction of a row ...
DriverOnward(a) ==
    \/ driver'[a] = driver[a]
    \/ driver[a].step = "off" /\ driver'[a].step \in {"card", "proposal"}
    \/ driver[a].step = "card" /\ driver'[a].step = "pii" /\ Accepted(a)
    \/ /\ driver[a].step \in {"card", "pii"} /\ driver'[a].step = "rule"
       /\ driver'[a].pii = driver[a].pii /\ Accepted(a) /\ PiiAsked(a)
    \/ /\ driver[a].step \in {"card", "pii", "rule", "proposal"} /\ driver'[a].step = "done"
       /\ driver'[a].pii = driver[a].pii /\ driver'[a].rule = driver[a].rule

\* ... and why it decides the row, if it does.
Justified(a) ==
    \/ approvals'[a].final = approvals[a].final
    \/ approvals'[a].final \in {"none", "deny", "expired"}
    \/ /\ approvals'[a].final = "auto_accepted"
       /\ ~EventSet(a) /\ approvals[a].key \notin PIIKeys
    \/ /\ approvals'[a].final \in {"accept", "accept_all"} /\ Accepted(a) /\ PiiAsked(a)
       /\ driver[a].step \in {"card", "pii", "rule"} /\ driver'[a].step = "done"
       /\ approvals'[a].final = "accept_all" =>
             driver[a].rule # None /\ Confirmed(driver[a].rule)

\* Such steps keep the consent behind every decision.
LEMMA ConsentStays ==
    ASSUME TypeOK, RowsWellFormed, BlankUntilRegistered, RowsMove, NEW a \in Ids, HasConsent(a),
           DriverOnward(a), Justified(a)
    PROVE  HasConsent(a)'
<1> DEFINE r == approvals[a]
           s == approvals'[a]
<1>1. /\ driver[a].pii \in Ids \cup {None} /\ driver[a].rule \in Ids \cup {None}
  BY DEF TypeOK, Driver
<1>2. /\ driver[a].pii # None /\ Confirmed(driver[a].pii) => approvals'[driver[a].pii].answer = "confirm"
      /\ driver[a].rule # None /\ Confirmed(driver[a].rule) => approvals'[driver[a].rule].answer = "confirm"
  BY <1>1, MovesKeep DEF Confirmed
<1>3. /\ r.kind # "none" => s.key = r.key
      /\ r.final # "none" => s.final = r.final
      /\ r.answer # "none" \/ r.final # "none" => s.answer = r.answer
  BY MovesKeep DEF SameRequest, Finalized, EventSet
<1>4. /\ r.kind = "none" => r.final = "none" /\ r.answer = "none" /\ driver[a].step = "off"
  BY DEF BlankUntilRegistered, NoApproval, RowsWellFormed
<1>5. s.final \notin {"none", r.final} => s.answer = r.answer /\ s.key = r.key /\ r.kind # "none"
  <2>1. RowMoves(r, s)
    BY DEF RowsMove
  <2> QED
    BY <2>1, <1>3 DEF RowMoves, Registers, Answered, Decided, Rejoined, HandedOut, SweptAway, SameVerdict
<1>6. /\ s.final \in {"accept", "accept_all"} =>
           s.answer \in {"accept", "accept_all"} /\ driver'[a].step = "done"
      /\ s.final = "accept_all" =>
           driver'[a].rule # None /\ approvals'[driver'[a].rule].answer = "confirm"
  <2>1. CASE s.final = r.final
    BY <1>2, <1>3, <1>4, <2>1 DEF HasConsent, Accepted, DriverOnward
  <2>2. CASE s.final # r.final
    BY <1>2, <1>3, <1>5, <2>2 DEF Justified, Accepted, DriverOnward
  <2> QED
    BY <2>1, <2>2
<1>7. s.final = "auto_accepted" => s.answer = "none" /\ s.key \notin PIIKeys
  BY <1>3, <1>4, <1>5 DEF HasConsent, Justified, EventSet
<1>8. driver'[a].step \in {"pii", "rule"} => s.answer \in {"accept", "accept_all"}
  BY <1>3, <1>4 DEF HasConsent, Accepted, DriverOnward
<1>9. s.key \in PIIKeys /\ (driver'[a].step = "rule" \/ s.final \in {"accept", "accept_all"}) =>
        driver'[a].pii # None /\ approvals'[driver'[a].pii].answer = "confirm"
  BY <1>2, <1>3, <1>4, <1>5, <1>6 DEF HasConsent, Justified, DriverOnward, PiiAsked
<1> QED
  BY <1>6, <1>7, <1>8, <1>9 DEF HasConsent, Accepted, Confirmed

\* No step of a gated_call decides anything but an expiry.
LEMMA CallStepJustified ==
    ASSUME ApprovalInv, NEW c \in Calls, GatedCall(c), NEW a \in Ids
    PROVE  DriverOnward(a) /\ Justified(a)
<1>0. /\ TypeOK /\ RowsWellFormed /\ CallsWellFormed /\ BlankUntilRegistered
      /\ WaitersAreCounted /\ WaitersAreFinite /\ SweptIsOver
  BY DEF ApprovalInv, OwnershipInv
<1>1. ASSUME NEW p \in Principals, NEW k \in Keys, NEW u \in Unattended, Arrive(c, p, k, u)
      PROVE  DriverOnward(a) /\ Justified(a)
  <2>1. driver' = driver
    BY <1>1 DEF Arrive
  <2>2. approvals'[a].final = approvals[a].final \/ approvals'[a].final = "expired"
    BY <1>0, <1>1, ArriveMoves DEF Sweeps, SweptAway, SameVerdict
  <2> QED
    BY <2>1, <2>2 DEF DriverOnward, Justified
<1>2. CASE AutoAccept(c) \/ DenyUnattended(c) \/ RefuseIdenticalWrite(c) \/ RefuseCap(c)
  BY <1>2 DEF AutoAccept, DenyUnattended, RefuseIdenticalWrite, RefuseCap, DriverOnward, Justified
<1>3. CASE CollectFromLedger(c) \/ CollectInWindow(c) \/ HoldWindowEnds(c) \/ Cancel(c) \/ Coalesce(c)
  <2>1. PICK b \in Ids : /\ \A d \in Ids \ {b} : approvals'[d] = approvals[d]
                         /\ SameVerdict(approvals[b], approvals'[b])
    BY <1>0, <1>3, LedgerMoves, WindowMoves, StopMoves, CoalesceMoves DEF HandedOut, Rejoined
  <2>2. driver' = driver
    BY <1>3 DEF CollectFromLedger, CollectInWindow, HoldWindowEnds, Cancel, Coalesce
  <2> QED
    BY <2>1, <2>2 DEF SameVerdict, DriverOnward, Justified
<1>4. CASE Register(c)
  <2>1. PICK b \in Ids :
          /\ approvals[b].kind = "none"
          /\ Registers(approvals[b], approvals'[b])
          /\ \A d \in Ids \ {b} : approvals'[d] = approvals[d]
          /\ driver' = [driver EXCEPT ![b].step = "card"]
    BY <1>0, <1>4, RegisterMoves DEF Register
  <2>2. driver[b].step = "off" /\ driver'[b].step = "card"
    BY <1>0, <2>1 DEF RowsWellFormed, TypeOK, Driver
  <2>3. \A d \in Ids \ {b} : driver'[d] = driver[d]
    BY <1>0, <2>1 DEF TypeOK
  <2> QED
    BY <2>1, <2>2, <2>3 DEF DriverOnward, Justified, Registers
<1> QED
  BY <1>1, <1>2, <1>3, <1>4 DEF GatedCall

\* A broadcast decides only what nobody answered and no scan holds back.
LEMMA BroadcastJustified ==
    ASSUME TypeOK, NEW p, NEW covered, NEW S, S \subseteq Reevaluated(p, covered),
           approvals' = FinalizedAs(approvals, S, "auto_accepted")
    PROVE  \A a \in Ids : Justified(a)
<1> SUFFICES ASSUME NEW a \in Ids PROVE Justified(a)
  OBVIOUS
<1>1. \/ approvals'[a] = approvals[a]
      \/ a \in S /\ approvals'[a].final = "auto_accepted"
  <2>1. "auto_accepted" \in Decisions
    BY DEF Decisions, Accepting
  <2> QED
    BY <2>1, FinalizedAsDecides DEF TypeOK
<1>2. a \in S => ~EventSet(a) /\ approvals[a].key \notin PIIKeys
  BY DEF Reevaluated
<1> QED
  BY <1>1, <1>2 DEF Justified

\* The person and the Settings page decide nothing but by a broadcast.
LEMMA PersonStepJustified ==
    ASSUME ApprovalInv, PersonStep, NEW a \in Ids
    PROVE  DriverOnward(a) /\ Justified(a)
<1>0. TypeOK /\ RowsWellFormed /\ BlankUntilRegistered
  BY DEF ApprovalInv, OwnershipInv
<1>1. RowMoves(approvals[a], approvals'[a])
  BY <1>0, PersonStepMoves DEF RowsMove
<1>2. ASSUME NEW b \in Ids, NEW r \in Answers, Answer(b, r) PROVE DriverOnward(a) /\ Justified(a)
  <2>1. driver' = driver /\ (approvals'[a].final = approvals[a].final)
    BY <1>0, <1>2 DEF Answer, TypeOK, Approval
  <2> QED
    BY <2>1 DEF DriverOnward, Justified
<1>3. ASSUME NEW p \in Principals, NEW S \in SUBSET Ids, AnswerBatch(p, S)
      PROVE  DriverOnward(a) /\ Justified(a)
  <2>1. driver' = driver /\ (approvals'[a].final = approvals[a].final)
    BY <1>0, <1>3 DEF AnswerBatch, TypeOK, Approval
  <2> QED
    BY <2>1 DEF DriverOnward, Justified
<1>4. ASSUME NEW p \in Principals, NEW S, ChangeRules(p, S) PROVE DriverOnward(a) /\ Justified(a)
  <2>1. Justified(a)
    BY <1>0, <1>4, BroadcastJustified DEF ChangeRules
  <2> QED
    BY <1>4, <2>1 DEF ChangeRules, DriverOnward
<1>5. ASSUME NEW p \in Principals, ProposeRule(p) PROVE DriverOnward(a) /\ Justified(a)
  <2>1. PICK b \in Ids : RegisterConfirm(b, p) /\ driver' = [driver EXCEPT ![b].step = "proposal"]
    BY <1>5 DEF ProposeRule
  <2>2. Registers(approvals[b], approvals'[b]) /\ \A d \in Ids \ {b} : approvals'[d] = approvals[d]
    BY <1>0, <2>1, RegisterConfirmRegisters
  <2>3. driver[b].step = "off" /\ driver'[b].step = "proposal"
    BY <1>0, <2>1, <2>2 DEF Registers, RowsWellFormed, TypeOK, Driver
  <2>4. \A d \in Ids \ {b} : driver'[d] = driver[d]
    BY <1>0, <2>1 DEF TypeOK
  <2> QED
    BY <2>2, <2>3, <2>4 DEF DriverOnward, Justified, Registers
<1>6. ASSUME NEW b \in Ids, NEW gone \in ProposedCovers, NEW added \in ProposedCovers,
             ProposalClosed(b, gone, added)
      PROVE  DriverOnward(a) /\ Justified(a)
  <2>1. Justified(a)
    BY <1>0, <1>6, BroadcastJustified DEF ProposalClosed, Justified
  <2>2. driver[b].step = "proposal" /\ driver' = [driver EXCEPT ![b].step = "done"]
    BY <1>6 DEF ProposalClosed, Concluded
  <2>3. DriverOnward(a)
    BY <1>0, <2>2 DEF DriverOnward, TypeOK, Driver
  <2> QED
    BY <2>1, <2>3
<1>7. ASSUME Tick PROVE DriverOnward(a) /\ Justified(a)
  BY <1>7 DEF Tick, DriverOnward, Justified
<1> QED
  BY <1>2, <1>3, <1>4, <1>5, <1>6, <1>7 DEF PersonStep, SettingsAllow, SettingsRevoke

\* Where an interaction goes: the record updates of its driver.
LEMMA DriverUpdates ==
    ASSUME TypeOK, NEW a \in Ids, NEW b \in Ids
    PROVE  /\ driver' = [driver EXCEPT ![a].step = "done"] =>
                /\ driver'[a].step = "done" /\ driver'[a].pii = driver[a].pii
                /\ driver'[a].rule = driver[a].rule
                /\ \A d \in Ids \ {a} : driver'[d] = driver[d]
           /\ driver' = [driver EXCEPT ![a] = [@ EXCEPT !.step = "pii", !.pii = b]] =>
                /\ driver'[a].step = "pii"
                /\ \A d \in Ids \ {a} : driver'[d] = driver[d]
           /\ driver' = [driver EXCEPT ![a] = [@ EXCEPT !.step = "rule", !.rule = b]] =>
                /\ driver'[a].step = "rule" /\ driver'[a].pii = driver[a].pii
                /\ \A d \in Ids \ {a} : driver'[d] = driver[d]
<1>1. ASSUME NEW r \in Driver
      PROVE  /\ [r EXCEPT !.step = "done"].step = "done"
             /\ [r EXCEPT !.step = "done"].pii = r.pii
             /\ [r EXCEPT !.step = "done"].rule = r.rule
             /\ [r EXCEPT !.step = "pii", !.pii = b].step = "pii"
             /\ [r EXCEPT !.step = "rule", !.rule = b].step = "rule"
             /\ [r EXCEPT !.step = "rule", !.rule = b].pii = r.pii
  BY <1>1 DEF Driver
<1>2. driver \in [Ids -> Driver] /\ driver[a] \in Driver
  BY DEF TypeOK
<1>3. ASSUME driver' = [driver EXCEPT ![a].step = "done"]
      PROVE  /\ driver'[a].step = "done" /\ driver'[a].pii = driver[a].pii
             /\ driver'[a].rule = driver[a].rule
             /\ \A d \in Ids \ {a} : driver'[d] = driver[d]
  <2>1. driver'[a] = [driver[a] EXCEPT !.step = "done"]
    BY <1>2, <1>3
  <2>2. \A d \in Ids \ {a} : driver'[d] = driver[d]
    BY <1>2, <1>3
  <2> QED
    BY <1>1, <1>2, <2>1, <2>2
<1>4. ASSUME driver' = [driver EXCEPT ![a] = [@ EXCEPT !.step = "pii", !.pii = b]]
      PROVE  /\ driver'[a].step = "pii"
             /\ \A d \in Ids \ {a} : driver'[d] = driver[d]
  <2>1. driver'[a] = [driver[a] EXCEPT !.step = "pii", !.pii = b]
    BY <1>2, <1>4
  <2>2. \A d \in Ids \ {a} : driver'[d] = driver[d]
    BY <1>2, <1>4
  <2> QED
    BY <1>1, <1>2, <2>1, <2>2
<1>5. ASSUME driver' = [driver EXCEPT ![a] = [@ EXCEPT !.step = "rule", !.rule = b]]
      PROVE  /\ driver'[a].step = "rule" /\ driver'[a].pii = driver[a].pii
             /\ \A d \in Ids \ {a} : driver'[d] = driver[d]
  <2>1. driver'[a] = [driver[a] EXCEPT !.step = "rule", !.rule = b]
    BY <1>2, <1>5
  <2>2. \A d \in Ids \ {a} : driver'[d] = driver[d]
    BY <1>2, <1>5
  <2> QED
    BY <1>1, <1>2, <2>1, <2>2
<1> QED
  BY <1>3, <1>4, <1>5

\* An interaction decides its own card on the answers it was given, and whatever the
\* rule it wrote sweeps.
LEMMA InteractionJustified ==
    ASSUME ApprovalInv, NEW a \in Ids, Interaction(a)
    PROVE  \A b \in Ids : DriverOnward(b) /\ Justified(b)
<1>0. /\ TypeOK /\ RowsWellFormed /\ BlankUntilRegistered /\ HasConsent(a)
      /\ approvals \in [Ids -> Approval]
      /\ {"deny", "accept", "auto_accepted", "accept_all"} \subseteq Decisions
  BY DEF ApprovalInv, OwnershipInv, DecisionsHaveConsent, TypeOK, Decisions, Accepting
<1>1. approvals[a].kind = "card" /\ driver[a].step \in {"card", "pii", "rule"}
  BY <1>0 DEF Interaction, CardClosed, PiiDialogClosed, RuleDialogClosed, InteractionFails,
              RowsWellFormed
<1>2. ASSUME NEW d \in {"deny", "accept"}, Conclude(a, d),
             d = "accept" => Accepted(a) /\ PiiAsked(a)
      PROVE  \A b \in Ids : DriverOnward(b) /\ Justified(b)
  <2>1. /\ driver'[a].step = "done" /\ driver'[a].pii = driver[a].pii
        /\ driver'[a].rule = driver[a].rule
        /\ \A b \in Ids \ {a} : driver'[b] = driver[b]
    BY <1>0, <1>2, DriverUpdates DEF Conclude, Concluded
  <2>2. \A b \in Ids : approvals'[b] = approvals[b] \/ (b = a /\ approvals'[b].final = d)
    BY <1>0, <1>2, FinalizedAsDecides DEF Conclude
  <2> QED
    BY <1>1, <1>2, <2>1, <2>2 DEF DriverOnward, Justified
<1>3. ASSUME NEW b \in Ids, RegisterConfirm(b, approvals[a].principal), Accepted(a),
             driver[a].step \in {"card", "pii"},
             \/ /\ driver[a].step = "card"
                /\ driver' = [driver EXCEPT ![a] = [@ EXCEPT !.step = "pii", !.pii = b]]
             \/ /\ PiiAsked(a)
                /\ driver' = [driver EXCEPT ![a] = [@ EXCEPT !.step = "rule", !.rule = b]]
      PROVE  \A d \in Ids : DriverOnward(d) /\ Justified(d)
  <2>1. \A d \in Ids : d # a => driver'[d] = driver[d]
    BY <1>0, <1>3, DriverUpdates
  <2>2. \A d \in Ids : DriverOnward(d)
    BY <1>0, <1>3, <2>1, DriverUpdates DEF DriverOnward
  <2>3. \A d \in Ids : Justified(d)
    BY <1>0, <1>3, RegisterConfirmRegisters DEF Justified, Registers
  <2> QED
    BY <2>2, <2>3
<1>4. ASSUME AfterConsent(a), Accepted(a), PiiAsked(a), driver[a].step \in {"card", "pii"}
      PROVE  \A b \in Ids : DriverOnward(b) /\ Justified(b)
  BY <1>2, <1>3, <1>4 DEF AfterConsent
<1>5. CASE CardClosed(a)
  <2>1. CASE ~Accepted(a)
    BY <1>2, <1>5, <2>1 DEF CardClosed
  <2>2. CASE Accepted(a) /\ approvals[a].key \in PIIKeys
    BY <1>3, <1>5, <2>2 DEF CardClosed
  <2>3. CASE Accepted(a) /\ approvals[a].key \notin PIIKeys
    BY <1>4, <1>5, <2>3 DEF CardClosed, PiiAsked
  <2> QED
    BY <2>1, <2>2, <2>3
<1>6. CASE PiiDialogClosed(a)
  <2>1. CASE Confirmed(driver[a].pii)
    BY <1>0, <1>4, <1>6, <2>1 DEF PiiDialogClosed, PiiAsked, HasConsent, RowsWellFormed
  <2>2. CASE ~Confirmed(driver[a].pii)
    BY <1>2, <1>6, <2>2 DEF PiiDialogClosed
  <2> QED
    BY <2>1, <2>2
<1>7. CASE RuleDialogClosed(a)
  <2>1. /\ driver[a].step = "rule" /\ driver[a].rule # None
        /\ Accepted(a) /\ PiiAsked(a)
    BY <1>0, <1>7 DEF RuleDialogClosed, HasConsent, PiiAsked, RowsWellFormed
  <2>2. /\ driver'[a].step = "done" /\ driver'[a].pii = driver[a].pii
        /\ driver'[a].rule = driver[a].rule
        /\ \A b \in Ids \ {a} : driver'[b] = driver[b]
    BY <1>0, <1>7, DriverUpdates DEF RuleDialogClosed, Concluded
  <2>3. \A b \in Ids : DriverOnward(b)
    BY <2>1, <2>2 DEF DriverOnward
  <2>4. CASE Confirmed(driver[a].rule)
    <3>1. PICK p, covered, S : /\ S \subseteq Reevaluated(p, covered)
                               /\ approvals' = FinalizedAs(FinalizedAs(approvals, S, "auto_accepted"),
                                                           {a}, "accept_all")
      BY <1>7, <2>4 DEF RuleDialogClosed
    <3> DEFINE once == FinalizedAs(approvals, S, "auto_accepted")
    <3>2. once \in [Ids -> Approval]
      BY <1>0, FinalizedAsType DEF TypeOK
    <3>3. ASSUME NEW b \in Ids PROVE Justified(b)
      <4>1. once[b] = approvals[b] \/ (b \in S /\ once[b].final = "auto_accepted")
        BY <1>0, FinalizedAsDecides
      <4>2. approvals'[b] = once[b] \/ (b = a /\ approvals'[b].final = "accept_all")
        BY <1>0, <3>1, <3>2, FinalizedAsDecides
      <4>3. b \in S => ~EventSet(b) /\ approvals[b].key \notin PIIKeys
        BY <3>1 DEF Reevaluated
      <4> QED
        BY <2>1, <2>2, <2>4, <4>1, <4>2, <4>3 DEF Justified
    <3> QED
      BY <2>3, <3>3
  <2>5. CASE ~Confirmed(driver[a].rule)
    <3>1. approvals' = FinalizedAs(approvals, {a}, "accept")
      BY <1>7, <2>5 DEF RuleDialogClosed
    <3>2. \A b \in Ids : approvals'[b] = approvals[b] \/ (b = a /\ approvals'[b].final = "accept")
      BY <1>0, <3>1, FinalizedAsDecides
    <3> QED
      BY <2>1, <2>2, <2>3, <3>2 DEF Justified
  <2> QED
    BY <2>4, <2>5
<1>8. CASE InteractionFails(a)
  BY <1>2, <1>8 DEF InteractionFails
<1> QED
  BY <1>5, <1>6, <1>7, <1>8 DEF Interaction

\* Every decision there is has its consent, after every step.
LEMMA ConsentStep ==
    ASSUME ApprovalInv, [Next]_vars
    PROVE  DecisionsHaveConsent'
<1>0. /\ TypeOK /\ RowsWellFormed /\ BlankUntilRegistered /\ DecisionsHaveConsent /\ RowsMove
  BY StepMoves DEF ApprovalInv, OwnershipInv
<1>1. ASSUME NEW a \in Ids PROVE DriverOnward(a) /\ Justified(a)
  <2>1. CASE UNCHANGED vars
    BY <2>1 DEF vars, DriverOnward, Justified
  <2> QED
    BY <2>1, CallStepJustified, PersonStepJustified, InteractionJustified DEF Next, PersonStep
<1> QED
  BY <1>0, <1>1, ConsentStays DEF DecisionsHaveConsent

-----------------------------------------------------------------------------
(* What one step can do to one call, and to the temp-accept windows.         *)

\* A call arrives, waits, or ends with nothing released and nothing refused by a person.
Unserved(c) == call[c].pc # "done" /\ call'[c].outcome \notin Released \cup {"rejected"}

\* A rule or the temp-accept window lets a call through without a card.
LetThrough(c) ==
    /\ call[c].pc = "running" /\ CoveredByRule(c)
    /\ call'[c].pc = "done" /\ call'[c].outcome = "auto_accepted" /\ call'[c].id = None
    /\ call'[c].principal = call[c].principal /\ call'[c].key = call[c].key

\* A call is told the decision on a card of its own request.
Served(c, a) ==
    /\ call[c].pc \in {"running", "waiting"} /\ call[c].outcome = "none"
    /\ a \in Ids /\ approvals[a].kind = "card"
    /\ KeyOf(a) = <<call[c].principal, call[c].key>>
    /\ Finalized(a) /\ HandedOut(approvals[a], approvals'[a])
    /\ call'[c].pc = "done" /\ call'[c].id = a
    /\ call'[c].outcome = OutcomeOf(call[c].key, approvals[a].final)
    /\ call'[c].principal = call[c].principal /\ call'[c].key = call[c].key

CallMoves(c) ==
    call'[c] = call[c] \/ Unserved(c) \/ LetThrough(c) \/ (\E a \in Ids : Served(c, a))

CallsMove ==
    /\ \A c \in Calls : CallMoves(c)
    /\ \/ grace' = grace
       \/ \E c \in Calls, a \in Ids :
             /\ Served(c, a)
             /\ grace' = GraceAfter(call[c].principal, call[c].key, approvals[a].final)

\* A call that collects is served.
LEMMA CollectServes ==
    ASSUME TypeOK, CallsWellFormed, NEW c \in Calls, NEW a \in Ids, NEW keys,
           call[c].pc \in {"running", "waiting"}, approvals[a].kind = "card",
           KeyOf(a) = <<call[c].principal, call[c].key>>, Finalized(a),
           HandedOut(approvals[a], approvals'[a]), Collect(c, a, keys)
    PROVE  /\ Served(c, a) /\ CallsMove
           /\ \A d \in Calls \ {c} : call'[d] = call[d]
<1>1. Finish(c, OutcomeOf(call[c].key, approvals[a].final), a)
  BY DEF Collect
<1>2. /\ \A d \in Calls \ {c} : call'[d] = call[d]
      /\ call'[c].pc = "done" /\ call'[c].id = a
      /\ call'[c].outcome = OutcomeOf(call[c].key, approvals[a].final)
      /\ call'[c].principal = call[c].principal /\ call'[c].key = call[c].key
  BY <1>1, FinishLeaves, OutcomeType
<1>3. call[c].outcome = "none"
  BY DEF CallsWellFormed
<1>4. Served(c, a)
  BY <1>2, <1>3 DEF Served
<1>5. grace' = GraceAfter(call[c].principal, call[c].key, approvals[a].final)
  BY DEF Collect
<1> QED
  BY <1>2, <1>4, <1>5 DEF CallsMove, CallMoves

\* A call that starts to wait, or whose window collapsed, is not served.
LEMMA StartWaitServesNot ==
    ASSUME TypeOK, CallsWellFormed, NEW c \in Calls, NEW a \in Ids, call[c].pc = "running",
           StartWait(c, a), grace' = grace
    PROVE  CallsMove
<1>1. call[c].outcome = "none"
  BY DEF CallsWellFormed
<1>2. /\ \A d \in Calls \ {c} : call'[d] = call[d]
      /\ call'[c].outcome \in {"none", "approval_pending"}
  BY <1>1, StartWaitLeaves
<1> QED
  BY <1>2 DEF CallsMove, CallMoves, Unserved, Released

\* Every step moves the calls in one of these ways.
LEMMA StepMovesCalls ==
    ASSUME ApprovalInv, [Next]_vars
    PROVE  CallsMove
<1>0. /\ TypeOK /\ RowsWellFormed /\ CallsWellFormed /\ BlankUntilRegistered
      /\ WaitersAreCounted /\ WaitersAreFinite /\ SweptIsOver
  BY DEF ApprovalInv, OwnershipInv
<1>1. ASSUME call' = call, grace' = grace PROVE CallsMove
  BY <1>1 DEF CallsMove, CallMoves
<1>2. ASSUME NEW c \in Calls, GatedCall(c) PROVE CallsMove
  <2>1. CASE \E p \in Principals, k \in Keys, u \in Unattended : Arrive(c, p, k, u)
    <3>1. PICK p \in Principals, k \in Keys, u \in Unattended : Arrive(c, p, k, u)
      BY <2>1
    <3>2. call[c].pc = "idle" /\ grace' = grace
      BY <3>1 DEF Arrive
    <3>3. call'[c].outcome = "none" /\ \A d \in Calls \ {c} : call'[d] = call[d]
      BY <1>0, <3>1 DEF Arrive, TypeOK, NoCall
    <3> QED
      BY <3>2, <3>3 DEF CallsMove, CallMoves, Unserved, Released
  <2>2. CASE AutoAccept(c)
    <3>1. /\ call[c].pc = "running" /\ CoveredByRule(c) /\ grace' = grace
          /\ Finish(c, "auto_accepted", None) /\ "auto_accepted" \in Outcomes
      BY <2>2 DEF AutoAccept, Running, Outcomes, Released
    <3> QED
      BY <1>0, <3>1, FinishLeaves DEF CallsMove, CallMoves, LetThrough
  <2>3. CASE DenyUnattended(c) \/ RefuseIdenticalWrite(c) \/ RefuseCap(c)
             \/ HoldWindowEnds(c) \/ Cancel(c)
    <3>1. PICK id \in Ids \cup {None},
               outcome \in {"denied_unattended", "identical_write", "too_many",
                            "approval_pending", "cancelled"} : Finish(c, outcome, id)
      BY <1>0, <2>3
         DEF DenyUnattended, RefuseIdenticalWrite, RefuseCap, HoldWindowEnds, Cancel, TypeOK, Call
    <3>2. outcome \in Outcomes /\ outcome \notin Released \cup {"rejected"}
      BY <3>1 DEF Outcomes, Released
    <3>3. call[c].pc # "done" /\ grace' = grace
      BY <2>3 DEF DenyUnattended, RefuseIdenticalWrite, RefuseCap, HoldWindowEnds, Cancel,
                  MustRegister, NeedsDecision, Running, Waiting
    <3> QED
      BY <1>0, <3>1, <3>2, <3>3, FinishLeaves DEF CallsMove, CallMoves, Unserved
  <2>4. CASE CollectFromLedger(c)
    <3> DEFINE a == Existing(c)
    <3>1. /\ a \in Ids /\ approvals[a].kind = "card"
          /\ KeyOf(a) = <<call[c].principal, call[c].key>>
          /\ Finalized(a) /\ HandedOut(approvals[a], approvals'[a])
      BY <1>0, <2>4, LedgerMoves
    <3>2. call[c].pc = "running" /\ Collect(c, a, FreshKeys)
      BY <2>4 DEF CollectFromLedger, NeedsDecision, Running
    <3> QED
      BY <1>0, <3>1, <3>2, CollectServes
  <2>5. CASE CollectInWindow(c)
    <3> DEFINE a == call[c].id
    <3>1. /\ a \in Ids /\ approvals[a].kind = "card"
          /\ KeyOf(a) = <<call[c].principal, call[c].key>>
          /\ Finalized(a) /\ HandedOut(approvals[a], approvals'[a])
      BY <1>0, <2>5, WindowMoves
    <3>2. call[c].pc = "waiting" /\ Collect(c, a, byKey)
      BY <2>5 DEF CollectInWindow, Waiting
    <3> QED
      BY <1>0, <3>1, <3>2, CollectServes
  <2>6. CASE Coalesce(c)
    <3>1. /\ Existing(c) \in Ids /\ call[c].pc = "running" /\ grace' = grace
          /\ StartWait(c, Existing(c))
      BY <1>0, <2>6, CoalesceMoves DEF Coalesce, MustRegister, NeedsDecision, Running
    <3> QED
      BY <1>0, <3>1, StartWaitServesNot
  <2>7. CASE Register(c)
    <3>1. /\ call[c].pc = "running" /\ grace' = grace
          /\ \E a \in Ids : StartWait(c, a)
      BY <2>7 DEF Register, MustRegister, NeedsDecision, Running
    <3> QED
      BY <1>0, <3>1, StartWaitServesNot
  <2> QED
    BY <1>2, <2>1, <2>2, <2>3, <2>4, <2>5, <2>6, <2>7 DEF GatedCall
<1>3. ASSUME NEW a \in Ids, Interaction(a) PROVE CallsMove
  <2>1. call' = call
    BY <1>0, <1>3, InteractionIsQuiet DEF Quiet
  <2>2. grace' = grace
    BY <1>3 DEF Interaction, CardClosed, PiiDialogClosed, RuleDialogClosed, InteractionFails
  <2> QED
    BY <1>1, <2>1, <2>2
<1>4. ASSUME PersonStep PROVE CallsMove
  <2>1. call' = call
    BY <1>0, <1>4, PersonStepIsQuiet DEF Quiet
  <2>2. grace' = grace
    BY <1>4 DEF PersonStep, Answer, AnswerBatch, SettingsAllow, SettingsRevoke, ChangeRules,
                ProposeRule, ProposalClosed, Tick
  <2> QED
    BY <1>1, <2>1, <2>2
<1>5. CASE UNCHANGED vars
  BY <1>1, <1>5 DEF vars
<1> QED
  BY <1>2, <1>3, <1>4, <1>5 DEF Next, PersonStep

-----------------------------------------------------------------------------
(* What a call was told, and what let it through.                            *)

\* What a call was told stays what the decision on its approval says.
LEMMA OutcomesStay ==
    ASSUME TypeOK, BlankUntilRegistered, OutcomesFollowDecisions, RowsMove, CallsMove
    PROVE  OutcomesFollowDecisions'
<1> SUFFICES ASSUME NEW c \in Calls, call'[c].outcome \in Released \cup {"rejected"}
             PROVE  IF call'[c].id = None THEN call'[c].outcome = "auto_accepted"
                    ELSE /\ approvals'[call'[c].id].final # "none"
                         /\ approvals'[call'[c].id].collected
                         /\ call'[c].outcome = OutcomeOf(call'[c].key, approvals'[call'[c].id].final)
  BY DEF OutcomesFollowDecisions, Finalized
<1>1. CASE call'[c] = call[c]
  <2>1. CASE call[c].id = None
    BY <1>1, <2>1 DEF OutcomesFollowDecisions
  <2>2. CASE call[c].id # None
    <3>1. /\ call[c].id \in Ids /\ Finalized(call[c].id) /\ approvals[call[c].id].collected
          /\ call[c].outcome = OutcomeOf(call[c].key, approvals[call[c].id].final)
      BY <1>1, <2>2 DEF OutcomesFollowDecisions, TypeOK, Call
    <3>2. /\ approvals'[call[c].id].final = approvals[call[c].id].final
          /\ approvals'[call[c].id].collected
      BY <3>1, MovesKeep
    <3> QED
      BY <1>1, <2>2, <3>1, <3>2 DEF Finalized
  <2> QED
    BY <2>1, <2>2
<1>2. CASE Unserved(c)
  BY <1>2 DEF Unserved
<1>3. CASE LetThrough(c)
  BY <1>3 DEF LetThrough
<1>4. ASSUME NEW a \in Ids, Served(c, a)
      PROVE  /\ call'[c].id = a /\ a # None /\ approvals'[a].final # "none"
             /\ approvals'[a].collected
             /\ call'[c].outcome = OutcomeOf(call'[c].key, approvals'[a].final)
  BY <1>4, KeyAssumption DEF Served, HandedOut, SameVerdict, Finalized
<1> QED
  BY <1>1, <1>2, <1>3, <1>4 DEF CallsMove, CallMoves

\* A call that is over stays as it is.
LEMMA DoneCallsStay ==
    ASSUME CallsMove, NEW c \in Calls, call[c].pc = "done"
    PROVE  call'[c] = call[c]
  BY DEF CallsMove, CallMoves, Unserved, LetThrough, Served

-----------------------------------------------------------------------------
(* The calls that wait, counted.                                             *)

Counted(a) ==
    IsFiniteSet(WaitersOf(a)) /\ approvals[a].waiters = Cardinality(WaitersOf(a))

\* A step that leaves the calls and the count of a row alone keeps it counted.
LEMMA CountUntouched ==
    ASSUME NEW a \in Ids, Counted(a), approvals'[a].waiters = approvals[a].waiters,
           \A c \in Calls : (call'[c].pc = "waiting" /\ call'[c].id = a)
                          <=> (call[c].pc = "waiting" /\ call[c].id = a)
    PROVE  Counted(a)'
<1>1. WaitersOf(a)' = WaitersOf(a)
  BY DEF WaitersOf
<1> QED
  BY <1>1 DEF Counted

\* A call that starts to wait is one more.
LEMMA CountOneMore ==
    ASSUME TypeOK, NEW a \in Ids, Counted(a), NEW c \in Calls,
           approvals'[a].waiters = approvals[a].waiters + 1,
           \A d \in Calls \ {c} : call'[d] = call[d],
           call[c].pc # "waiting", call'[c].pc = "waiting", call'[c].id = a
    PROVE  Counted(a)'
<1>1. WaitersOf(a)' = WaitersOf(a) \cup {c} /\ c \notin WaitersOf(a)
  BY DEF WaitersOf
<1>2. IsFiniteSet(WaitersOf(a)') /\ Cardinality(WaitersOf(a)') = Cardinality(WaitersOf(a)) + 1
  BY <1>1, FS_AddElement DEF Counted
<1> QED
  BY <1>2 DEF Counted

\* A call that stops waiting is one fewer.
LEMMA CountOneFewer ==
    ASSUME TypeOK, NEW a \in Ids, Counted(a), NEW c \in Calls,
           approvals'[a].waiters = approvals[a].waiters - 1,
           \A d \in Calls \ {c} : call'[d] = call[d],
           call[c].pc = "waiting", call[c].id = a, call'[c].pc # "waiting"
    PROVE  Counted(a)'
<1>1. WaitersOf(a)' = WaitersOf(a) \ {c} /\ c \in WaitersOf(a)
  BY DEF WaitersOf
<1>2. IsFiniteSet(WaitersOf(a)') /\ Cardinality(WaitersOf(a)') = Cardinality(WaitersOf(a)) - 1
  BY <1>1, FS_RemoveElement DEF Counted
<1> QED
  BY <1>2 DEF Counted

\* A call that waits, or returns at once because its window collapsed, is counted so.
LEMMA CountStartWait ==
    ASSUME TypeOK, NEW a \in Ids, Counted(a), NEW c \in Calls, call[c].pc = "running",
           StartWait(c, a),
           approvals'[a].waiters = approvals[a].waiters + WaitersAdded(call[c].principal, a)
    PROVE  Counted(a)'
<1>1. /\ \A d \in Calls \ {c} : call'[d] = call[d]
      /\ call'[c].id = a
      /\ \/ Collapsed(call[c].principal, a) /\ call'[c].pc = "done"
         \/ ~Collapsed(call[c].principal, a) /\ call'[c].pc = "waiting"
  BY StartWaitLeaves
<1>2. approvals[a].waiters \in Nat
  BY DEF TypeOK, Approval
<1>3. CASE Collapsed(call[c].principal, a)
  <2>1. approvals'[a].waiters = approvals[a].waiters
    BY <1>2, <1>3 DEF WaitersAdded
  <2> QED
    BY <1>1, <1>3, <2>1, CountUntouched
<1>4. CASE ~Collapsed(call[c].principal, a)
  BY <1>1, <1>4, CountOneMore DEF WaitersAdded
<1> QED
  BY <1>3, <1>4

\* A call that has stopped waiting is on no count any more; the other rows keep theirs.
LEMMA CountWindowOver ==
    ASSUME TypeOK, \A b \in Ids : Counted(b), NEW c \in Calls, NEW a \in Ids,
           call[c].pc = "waiting", call[c].id = a, NEW outcome \in Outcomes,
           Finish(c, outcome, a),
           approvals'[a].waiters = approvals[a].waiters - 1,
           \A b \in Ids \ {a} : approvals'[b] = approvals[b]
    PROVE  \A b \in Ids : Counted(b)'
<1>1. (\A d \in Calls \ {c} : call'[d] = call[d]) /\ call'[c].pc = "done"
  BY FinishLeaves
<1>2. Counted(a)'
  BY <1>1, CountOneFewer
<1>3. ASSUME NEW b \in Ids \ {a} PROVE Counted(b)'
  BY <1>1, CountUntouched
<1> QED
  BY <1>2, <1>3

\* waiters stays the number of calls in wait_async.
LEMMA CountStep ==
    ASSUME ApprovalInv, [Next]_vars
    PROVE  WaitersAreCounted' /\ WaitersAreFinite'
<1>0. /\ TypeOK /\ RowsWellFormed /\ CallsWellFormed /\ BlankUntilRegistered
      /\ WaitersAreCounted /\ WaitersAreFinite /\ SweptIsOver /\ RowsMove
  BY StepMoves DEF ApprovalInv, OwnershipInv
<1>1. \A a \in Ids : Counted(a)
  BY <1>0 DEF Counted, WaitersAreCounted, WaitersAreFinite, WaitersOf
<1> SUFFICES \A a \in Ids : Counted(a)'
  BY DEF Counted, WaitersAreCounted, WaitersAreFinite, WaitersOf
<1>2. ASSUME Quiet PROVE \A a \in Ids : Counted(a)'
  <2>1. ASSUME NEW a \in Ids PROVE approvals'[a].waiters = approvals[a].waiters
    <3>1. CASE Kept(approvals[a], approvals'[a])
      BY <3>1 DEF Kept
    <3>2. CASE NewDialog(approvals[a], approvals'[a])
      <4>1. approvals[a].waiters = 0
        BY <1>0, <3>2 DEF NewDialog, BlankUntilRegistered, NoApproval
      <4>2. approvals'[a].waiters = 0
        <5>1. RowMoves(approvals[a], approvals'[a])
          BY <1>0 DEF RowsMove
        <5> QED
          BY <3>2, <5>1 DEF RowMoves, NewDialog, Registers
      <4> QED
        BY <4>1, <4>2
    <3> QED
      BY <1>2, <3>1, <3>2 DEF Quiet
  <2> QED
    BY <1>1, <1>2, <2>1, CountUntouched DEF Quiet
<1>3. ASSUME NEW c \in Calls, GatedCall(c) PROVE \A a \in Ids : Counted(a)'
  <2>1. CASE \E p \in Principals, k \in Keys, u \in Unattended : Arrive(c, p, k, u)
    <3>1. PICK p \in Principals, k \in Keys, u \in Unattended : Arrive(c, p, k, u)
      BY <2>1
    <3>2. /\ call[c].pc = "idle" /\ call'[c].pc = "running"
          /\ \A d \in Calls \ {c} : call'[d] = call[d]
      BY <1>0, <3>1 DEF Arrive, TypeOK, NoCall
    <3>3. \A a \in Ids : approvals'[a].waiters = approvals[a].waiters
      BY <1>0, <3>1, ArriveMoves
    <3> QED
      BY <1>1, <3>2, <3>3, CountUntouched
  <2>2. CASE AutoAccept(c) \/ DenyUnattended(c) \/ RefuseIdenticalWrite(c) \/ RefuseCap(c)
    <3>1. call[c].pc = "running" /\ approvals' = approvals
      BY <2>2 DEF AutoAccept, DenyUnattended, RefuseIdenticalWrite, RefuseCap, MustRegister,
                  NeedsDecision, Running
    <3>2. \E outcome \in Outcomes : Finish(c, outcome, None)
      BY <2>2 DEF AutoAccept, DenyUnattended, RefuseIdenticalWrite, RefuseCap, Outcomes, Released
    <3>3. (\A d \in Calls \ {c} : call'[d] = call[d]) /\ call'[c].pc = "done"
      BY <1>0, <3>2, FinishLeaves
    <3> QED
      BY <1>1, <3>1, <3>3, CountUntouched
  <2>3. CASE CollectFromLedger(c)
    <3>1. call[c].pc = "running" /\ \E a \in Ids \cup {None}, outcome \in Outcomes : Finish(c, outcome, a)
      BY <1>0, <2>3, LedgerMoves, OutcomeType
         DEF CollectFromLedger, Collect, NeedsDecision, Running
    <3>3. (\A d \in Calls \ {c} : call'[d] = call[d]) /\ call'[c].pc = "done"
      BY <1>0, <3>1, FinishLeaves
    <3>2. \A a \in Ids : approvals'[a].waiters = approvals[a].waiters
      BY <1>0, <2>3, LedgerMoves
    <3> QED
      BY <1>1, <3>1, <3>2, <3>3, CountUntouched
  <2>4. CASE Coalesce(c)
    <3>1. PICK a \in Ids :
            /\ \A b \in Ids \ {a} : approvals'[b] = approvals[b]
            /\ approvals'[a].waiters = approvals[a].waiters + WaitersAdded(call[c].principal, a)
            /\ call[c].pc = "running" /\ StartWait(c, a)
      BY <1>0, <2>4, CoalesceMoves DEF Coalesce, MustRegister, NeedsDecision, Running
    <3>2. Counted(a)'
      BY <1>0, <1>1, <3>1, CountStartWait
    <3>3. ASSUME NEW b \in Ids \ {a} PROVE Counted(b)'
      BY <1>0, <1>1, <3>1, StartWaitLeaves, CountUntouched
    <3> QED
      BY <3>2, <3>3
  <2>5. CASE Register(c)
    <3>1. PICK a \in Ids :
            /\ approvals[a].kind = "none" /\ StartWait(c, a)
            /\ approvals'[a].waiters = WaitersAdded(call[c].principal, a)
            /\ \A b \in Ids \ {a} : approvals'[b] = approvals[b]
      BY <1>0, <2>5, RegisterMoves DEF Register
    <3>2. call[c].pc = "running" /\ approvals[a].waiters = 0
      BY <1>0, <2>5, <3>1
         DEF Register, MustRegister, NeedsDecision, Running, BlankUntilRegistered, NoApproval
    <3>3. Counted(a)'
      BY <1>0, <1>1, <3>1, <3>2, CountStartWait DEF WaitersAdded
    <3>4. ASSUME NEW b \in Ids \ {a} PROVE Counted(b)'
      BY <1>0, <1>1, <3>1, <3>2, StartWaitLeaves, CountUntouched
    <3> QED
      BY <3>3, <3>4
  <2>6. CASE CollectInWindow(c)
    <3> DEFINE a == call[c].id
    <3>1. /\ a \in Ids /\ call[c].pc = "waiting"
          /\ approvals'[a].waiters = approvals[a].waiters - 1
          /\ \A b \in Ids \ {a} : approvals'[b] = approvals[b]
      BY <1>0, <2>6, WindowMoves DEF CollectInWindow, Waiting
    <3>2. \E outcome \in Outcomes : Finish(c, outcome, a)
      BY <2>6, OutcomeType DEF CollectInWindow, Collect
    <3> QED
      BY <1>0, <1>1, <3>1, <3>2, CountWindowOver
  <2>7. CASE HoldWindowEnds(c) \/ Cancel(c)
    <3> DEFINE a == call[c].id
    <3>1. /\ a \in Ids /\ call[c].pc = "waiting"
          /\ approvals'[a].waiters = approvals[a].waiters - 1
          /\ \A b \in Ids \ {a} : approvals'[b] = approvals[b]
      BY <1>0, <2>7, StopMoves
    <3>2. \E outcome \in Outcomes : Finish(c, outcome, a)
      BY <2>7 DEF HoldWindowEnds, Cancel, Outcomes
    <3> QED
      BY <1>0, <1>1, <3>1, <3>2, CountWindowOver
  <2> QED
    BY <1>3, <2>1, <2>2, <2>3, <2>4, <2>5, <2>6, <2>7 DEF GatedCall
<1>4. CASE UNCHANGED vars
  BY <1>1, <1>4, CountUntouched DEF vars
<1> QED
  BY <1>0, <1>2, <1>3, <1>4, InteractionIsQuiet, PersonStepIsQuiet DEF Next, PersonStep

-----------------------------------------------------------------------------
(* Where the permissions come from that let a call through without a card.   *)

\* An "Allow once" that opened the temp-accept window of principal p on the file of w.
AllowedOnce(d, p, w) ==
    /\ call[d].pc = "done" /\ call[d].outcome = "approved" /\ call[d].principal = p
    /\ call[d].key \in WriteKeys /\ w \in SameFile[call[d].key]

\* A gated_call changes no rule.
LEMMA CallsKeepRules ==
    ASSUME NEW c \in Calls, GatedCall(c)
    PROVE  rules' = rules
  BY DEF GatedCall, Arrive, AutoAccept, DenyUnattended, CollectFromLedger, RefuseIdenticalWrite,
         RefuseCap, Coalesce, Register, CollectInWindow, HoldWindowEnds, Cancel

\* Rules only ever cover what some rule covers.
LEMMA RulesHaveASource ==
    ASSUME TypeOK, RowsWellFormed, [Next]_vars,
           \A p \in Principals : rules[p] \subseteq UNION {Covers[k] : k \in Keys}
    PROVE  \A p \in Principals : rules'[p] \subseteq UNION {Covers[k] : k \in Keys}
<1> DEFINE Coverable == UNION {Covers[k] : k \in Keys}
<1>0. /\ rules \in [Principals -> SUBSET Keys]
      /\ \A p \in Principals : rules[p] \subseteq Coverable
      /\ \A k \in Keys : Covers[k] \subseteq Coverable
  BY DEF TypeOK
<1>1. ASSUME NEW p, NEW S, rules' = [rules EXCEPT ![p] = S],
             \/ \E k \in Keys : S = rules[p] \cup Covers[k] \/ S = rules[p] \ Covers[k]
             \/ \E gone, added \in ProposedCovers : S = (rules[p] \ gone) \cup added
      PROVE  \A q \in Principals : rules'[q] \subseteq Coverable
  <2>1. \A added \in ProposedCovers : added \subseteq Coverable
    BY <1>0 DEF ProposedCovers
  <2>2. p \in Principals => S \subseteq Coverable
    BY <1>0, <1>1, <2>1
  <2>3. \A q \in Principals : rules'[q] = IF q = p THEN S ELSE rules[q]
    BY <1>0, <1>1
  <2> HIDE DEF Coverable
  <2> QED
    BY <1>0, <2>2, <2>3
<1>2. ASSUME NEW a \in Ids, RuleDialogClosed(a) PROVE \A q \in Principals : rules'[q] \subseteq Coverable
  <2>1. approvals[a].key \in Keys
    BY <1>2 DEF RuleDialogClosed, RowsWellFormed, TypeOK, Approval
  <2>2. \/ rules' = rules
        \/ rules' = [rules EXCEPT ![approvals[a].principal] =
                       rules[approvals[a].principal] \cup Covers[approvals[a].key]]
    BY <1>2 DEF RuleDialogClosed
  <2> HIDE DEF Coverable
  <2> QED
    BY <1>0, <1>1, <2>1, <2>2
<1>3. ASSUME NEW b \in Ids, NEW gone \in ProposedCovers, NEW added \in ProposedCovers,
             ProposalClosed(b, gone, added)
      PROVE  \A q \in Principals : rules'[q] \subseteq Coverable
  <2>1. \/ rules' = rules
        \/ rules' = [rules EXCEPT ![approvals[b].principal] =
                       (rules[approvals[b].principal] \ gone) \cup added]
    BY <1>3 DEF ProposalClosed
  <2> HIDE DEF Coverable
  <2> QED
    BY <1>0, <1>1, <2>1
<1>4. ASSUME NEW p \in Principals, NEW k \in SettingsKeys, SettingsAllow(p, k) \/ SettingsRevoke(p, k)
      PROVE  \A q \in Principals : rules'[q] \subseteq Coverable
  <2>1. k \in Keys
    BY KeyAssumption
  <2>2. \/ rules' = [rules EXCEPT ![p] = rules[p] \cup Covers[k]]
        \/ rules' = [rules EXCEPT ![p] = rules[p] \ Covers[k]]
    BY <1>4 DEF SettingsAllow, SettingsRevoke, ChangeRules
  <2> HIDE DEF Coverable
  <2> QED
    BY <1>1, <2>1, <2>2
<1>5. ASSUME rules' = rules PROVE \A q \in Principals : rules'[q] \subseteq Coverable
  BY <1>0, <1>5
<1>6. ASSUME NEW c \in Calls, GatedCall(c) PROVE rules' = rules
  BY <1>6, CallsKeepRules
<1>7. ASSUME NEW a \in Ids, CardClosed(a) \/ PiiDialogClosed(a) \/ InteractionFails(a)
      PROVE  rules' = rules
  BY <1>7 DEF CardClosed, PiiDialogClosed, InteractionFails
<1>8. \/ \E a \in Ids, r \in Answers : Answer(a, r)
      \/ \E p \in Principals, S \in SUBSET Ids : AnswerBatch(p, S)
      \/ \E p \in Principals : ProposeRule(p)
      \/ Tick \/ UNCHANGED vars
      => rules' = rules
  BY DEF Answer, AnswerBatch, ProposeRule, Tick, vars
<1> QED
  BY <1>2, <1>3, <1>4, <1>5, <1>6, <1>7, <1>8 DEF Next, Interaction

\* A window that is open was opened by an "Allow once".
LEMMA WindowsHaveASource ==
    ASSUME TypeOK, CallsWellFormed, CallsMove,
           \A p \in Principals, w \in WriteKeys :
               grace[p][w] # 0 => \E d \in Calls : AllowedOnce(d, p, w)
    PROVE  \A p \in Principals, w \in WriteKeys :
               grace'[p][w] # 0 => \E d \in Calls : AllowedOnce(d, p, w)'
<1> SUFFICES ASSUME NEW p \in Principals, NEW w \in WriteKeys, grace'[p][w] # 0
             PROVE  \E d \in Calls : AllowedOnce(d, p, w)'
  OBVIOUS
<1>1. ASSUME NEW d \in Calls, AllowedOnce(d, p, w) PROVE AllowedOnce(d, p, w)'
  BY <1>1, DoneCallsStay DEF AllowedOnce
<1>2. CASE grace'[p][w] = grace[p][w]
  BY <1>1, <1>2
<1>3. CASE grace'[p][w] # grace[p][w]
  <2>1. PICK c \in Calls, a \in Ids :
          /\ Served(c, a)
          /\ grace' = GraceAfter(call[c].principal, call[c].key, approvals[a].final)
    BY <1>3 DEF CallsMove
  <2>2. /\ approvals[a].final = "accept" /\ call[c].key \in WriteKeys
        /\ call[c].principal = p /\ w \in SameFile[call[c].key]
    BY <1>3, <2>1 DEF GraceAfter, TypeOK
  <2>3. AllowedOnce(c, p, w)'
    BY <2>1, <2>2 DEF AllowedOnce, Served, OutcomeOf
  <2> QED
    BY <2>3
<1> QED
  BY <1>2, <1>3

\* What lets a call through without a card is a rule or such a window.
LEMMA LettingThroughHasASource ==
    ASSUME TypeOK, CallsWellFormed, PermissionsHaveASource, WindowNeedsAllowOnce, CallsMove
    PROVE  WindowNeedsAllowOnce'
<1> SUFFICES ASSUME NEW c \in Calls, NEW p, NEW w,
                    p = call'[c].principal, w = call'[c].key,
                    call'[c].outcome = "auto_accepted" /\ call'[c].id = None,
                    \A k \in Keys : w \notin Covers[k]
             PROVE  \E d \in Calls : AllowedOnce(d, p, w)'
  BY DEF WindowNeedsAllowOnce, AllowedOnce
<1>1. ASSUME NEW d \in Calls, AllowedOnce(d, p, w) PROVE AllowedOnce(d, p, w)'
  BY <1>1, DoneCallsStay DEF AllowedOnce
<1>2. CASE call'[c] = call[c]
  <2>1. PICK d \in Calls :
          /\ call[d].outcome = "approved" /\ call[d].principal = call[c].principal
          /\ call[d].key \in WriteKeys /\ call[c].key \in SameFile[call[d].key]
    BY <1>2 DEF WindowNeedsAllowOnce
  <2>2. call[d].pc = "done"
    BY <2>1 DEF TypeOK, Call, CallsWellFormed
  <2> QED
    BY <1>1, <1>2, <2>1, <2>2 DEF AllowedOnce
<1>3. CASE Unserved(c)
  BY <1>3 DEF Unserved, Released
<1>4. CASE LetThrough(c)
  <2>1. /\ p \in Principals /\ now \in Nat
        /\ w \in rules[p] \/ (w \in WriteKeys /\ now < grace[p][w])
    BY <1>4 DEF LetThrough, CoveredByRule, AutoAllowed, CallsWellFormed, TypeOK, Call
  <2>2. w \notin rules[p]
    BY <2>1 DEF PermissionsHaveASource
  <2>3. w \in WriteKeys /\ grace[p][w] # 0
    BY <2>1, <2>2
  <2>4. \E d \in Calls : AllowedOnce(d, p, w)
    BY <2>1, <2>3 DEF PermissionsHaveASource, AllowedOnce
  <2> QED
    BY <1>1, <2>4
<1>5. ASSUME NEW a \in Ids, Served(c, a) PROVE FALSE
  BY <1>5, KeyAssumption DEF Served
<1> QED
  BY <1>2, <1>3, <1>4, <1>5 DEF CallsMove, CallMoves

-----------------------------------------------------------------------------
(* The open cards: what a broadcast leaves, and how many there are.          *)

OpenCards == Cards \cap Live

\* The card a call registers: no rule covers it and the caps leave room for it.
NewCard(a) ==
    \E c \in Calls :
        /\ call[c].principal \in Principals /\ ~CoveredByRule(c) /\ ~CapReached(call[c].principal)
        /\ rules' = rules
        /\ approvals'[a].principal = call[c].principal /\ approvals'[a].key = call[c].key
        /\ \A b \in Ids \ {a} : approvals'[b] = approvals[b]

\* Only a registration opens a card, one at a time; every step adds at most one row.
LEMMA OpenCardsStep ==
    ASSUME ApprovalInv, [Next]_vars
    PROVE  \E a \in Ids \cup {None} :
              /\ pending' \subseteq pending \cup {a}
              /\ OpenCards' \subseteq OpenCards \/ (a \in Ids /\ NewCard(a))
              /\ OpenCards' \subseteq OpenCards \cup {a}
<1>0. /\ TypeOK /\ RowsWellFormed /\ CallsWellFormed /\ BlankUntilRegistered /\ RowsMove
  BY StepMoves DEF ApprovalInv, OwnershipInv
<1>1. ASSUME NEW a \in OpenCards', a \in pending PROVE a \in OpenCards
  <2>1. a \in Ids /\ approvals[a].kind # "none"
    BY <1>0, <1>1 DEF OpenCards, Cards, BlankUntilRegistered
  <2>2. approvals'[a].kind = "card" /\ approvals'[a].final = "none"
    BY <1>1 DEF OpenCards, Cards, Live, Finalized
  <2>3. approvals[a].kind = "card" /\ approvals[a].final = "none"
    BY <1>0, <2>1, <2>2, MovesKeep DEF SameRequest, Finalized
  <2> QED
    BY <1>1, <2>1, <2>3 DEF OpenCards, Cards, Live, Finalized
<1>2. ASSUME NEW a \in Ids \cup {None}, pending' \subseteq pending \cup {a},
             a \in Ids => approvals'[a].kind # "card"
      PROVE  OpenCards' \subseteq OpenCards
  <2>1. ASSUME NEW b \in OpenCards' PROVE b \in OpenCards
    <3>1. b \in Ids /\ b \in pending' /\ approvals'[b].kind = "card"
      BY <2>1 DEF OpenCards, Cards, Live
    <3>2. b \in pending
      BY <1>2, <3>1
    <3> QED
      BY <1>1, <2>1, <3>2
  <2> QED
    BY <2>1
<1>3. ASSUME pending' \subseteq pending PROVE OpenCards' \subseteq OpenCards
  <2>1. ASSUME NEW b \in OpenCards' PROVE b \in OpenCards
    <3>1. b \in pending
      BY <1>3, <2>1 DEF OpenCards, Live
    <3> QED
      BY <1>1, <2>1, <3>1
  <2> QED
    BY <2>1
<1>4. ASSUME NEW b \in Ids, NEW p, RegisterConfirm(b, p)
      PROVE  pending' \subseteq pending \cup {b} /\ OpenCards' \subseteq OpenCards
  <2>1. pending' = pending \cup {b} /\ approvals'[b].kind = "confirm"
    BY <1>0, <1>4, RegisterConfirmRegisters
  <2> QED
    BY <1>2, <2>1
<1>5. ASSUME NEW a \in Ids, Interaction(a)
      PROVE  pending' = pending \/ \E b \in Ids, p \in {approvals[a].principal} : RegisterConfirm(b, p)
  BY <1>5 DEF Interaction, CardClosed, PiiDialogClosed, RuleDialogClosed, InteractionFails,
              AfterConsent
<1>6. ASSUME PersonStep
      PROVE  pending' = pending \/ \E b \in Ids, p \in Principals : RegisterConfirm(b, p)
  BY <1>6 DEF PersonStep, Answer, AnswerBatch, SettingsAllow, SettingsRevoke, ChangeRules,
              ProposeRule, ProposalClosed, Tick
<1>7. ASSUME NEW c \in Calls, GatedCall(c), ~Register(c) PROVE pending' \subseteq pending
  BY <1>7 DEF GatedCall, Arrive, AutoAccept, DenyUnattended, CollectFromLedger,
              RefuseIdenticalWrite, RefuseCap, Coalesce, CollectInWindow, HoldWindowEnds, Cancel,
              Collect
<1>8. ASSUME NEW c \in Calls, Register(c)
      PROVE  \E a \in Ids : pending' = pending \cup {a} /\ NewCard(a)
  <2>1. PICK a \in Ids :
          /\ pending' = pending \cup {a}
          /\ approvals'[a].principal = call[c].principal /\ approvals'[a].key = call[c].key
          /\ \A b \in Ids \ {a} : approvals'[b] = approvals[b]
    BY <1>0, <1>8, RegisterMoves DEF Register
  <2>2. /\ ~CoveredByRule(c) /\ ~CapReached(call[c].principal) /\ rules' = rules
        /\ call[c].principal \in Principals
    BY <1>0, <1>8, ExistingType DEF Register, MustRegister, NeedsDecision
  <2> QED
    BY <2>1, <2>2 DEF NewCard
<1>9. ASSUME NEW a \in Ids, pending' = pending \cup {a} PROVE OpenCards' \subseteq OpenCards \cup {a}
  <2>1. ASSUME NEW b \in OpenCards', b # a PROVE b \in OpenCards
    <3>1. b \in pending
      BY <1>9, <2>1 DEF OpenCards, Live
    <3> QED
      BY <1>1, <2>1, <3>1
  <2> QED
    BY <2>1
<1>10. CASE \E c \in Calls : Register(c)
  BY <1>8, <1>9, <1>10
<1>11. CASE ~\E c \in Calls : Register(c)
  <2>1. \/ pending' \subseteq pending
        \/ \E b \in Ids : pending' \subseteq pending \cup {b} /\ OpenCards' \subseteq OpenCards
    <3>1. UNCHANGED vars => pending' = pending
      BY DEF vars
    <3> QED
      BY <1>4, <1>5, <1>6, <1>7, <1>11, <3>1 DEF Next, PersonStep
  <2> QED
    BY <1>3, <2>1
<1> QED
  BY <1>10, <1>11

\* A step that changes rules also decides every card the new rules cover.
RulesMove ==
    \/ rules' = rules
    \/ \E p \in Principals :
          /\ rules' = [rules EXCEPT ![p] = rules'[p]]
          /\ rules'[p] # rules[p] =>
                \A a \in Reevaluated(p, rules'[p]) : approvals'[a].final # "none"

LEMMA RulesStep ==
    ASSUME TypeOK, RowsWellFormed, BlankUntilRegistered, [Next]_vars
    PROVE  RulesMove
<1>0. /\ approvals \in [Ids -> Approval] /\ rules \in [Principals -> SUBSET Keys]
      /\ {"auto_accepted", "accept_all"} \subseteq Decisions /\ pending \subseteq Ids
  BY DEF TypeOK, Decisions, Accepting
<1>1. ASSUME NEW p, NEW S, NEW apps, apps = FinalizedAs(approvals, S, "auto_accepted"),
             NEW covered, S = Reevaluated(p, covered), NEW a \in S
      PROVE  a \in Ids /\ apps[a].final # "none"
  <2>1. a \in Ids /\ a \in pending /\ approvals[a].final = "none"
    BY <1>0, <1>1 DEF Reevaluated, EventSet, Finalized
  <2>2. apps[a].final = "auto_accepted"
    BY <1>0, <1>1, <2>1, FinalizedAsDecides
  <2> QED
    BY <2>1, <2>2
<1>2. ASSUME NEW p \in Principals, NEW covered, rules' = [rules EXCEPT ![p] = covered],
             approvals' = FinalizedAs(approvals, Reevaluated(p, covered), "auto_accepted")
      PROVE  RulesMove
  <2>1. rules'[p] = covered
    BY <1>0, <1>2
  <2>2. \A a \in Reevaluated(p, covered) : approvals'[a].final # "none"
    BY <1>1, <1>2
  <2> QED
    BY <1>2, <2>1, <2>2 DEF RulesMove
<1>3. ASSUME NEW r, NEW t, t = r \/ Decided(r, t), r.final # "none" PROVE t.final # "none"
  BY <1>3 DEF Decided
<1>4. ASSUME NEW a \in Ids, RuleDialogClosed(a) PROVE RulesMove
  <2> DEFINE p == approvals[a].principal
             covered == rules[p] \cup Covers[approvals[a].key]
             swept == IF covered = rules[p] THEN {} ELSE Reevaluated(p, covered)
             once == FinalizedAs(approvals, swept, "auto_accepted")
  <2>1. p \in Principals
    BY <1>4 DEF RuleDialogClosed, RowsWellFormed, TypeOK, Approval
  <2>2. CASE rules' = rules
    BY <2>2 DEF RulesMove
  <2>3. CASE /\ rules' = [rules EXCEPT ![p] = covered]
             /\ approvals' = FinalizedAs(once, {a}, "accept_all")
    <3>1. ASSUME NEW b \in Reevaluated(p, covered), covered # rules[p]
          PROVE  approvals'[b].final # "none"
      <4>1. b \in Ids /\ once[b].final # "none"
        BY <1>1, <3>1
      <4>2. once \in [Ids -> Approval]
        BY <1>0, FinalizedAsType DEF TypeOK
      <4>3. approvals'[b] = once[b] \/ Decided(once[b], approvals'[b])
        BY <1>0, <2>3, <4>1, <4>2, FinalizedAsDecides
      <4> QED
        BY <1>3, <4>1, <4>3
    <3>2. rules'[p] = covered
      BY <1>0, <2>1, <2>3
    <3> QED
      BY <2>1, <2>3, <3>1, <3>2 DEF RulesMove
  <2> QED
    BY <1>4, <2>2, <2>3 DEF RuleDialogClosed
<1>5. ASSUME NEW b \in Ids, NEW gone, NEW added, ProposalClosed(b, gone, added) PROVE RulesMove
  <2>1. approvals[b].principal \in Principals
    BY <1>5 DEF ProposalClosed, RowsWellFormed, TypeOK, Approval
  <2>2. \/ rules' = rules
        \/ \E covered :
              /\ rules' = [rules EXCEPT ![approvals[b].principal] = covered]
              /\ approvals' = FinalizedAs(approvals, Reevaluated(approvals[b].principal, covered),
                                         "auto_accepted")
    BY <1>5 DEF ProposalClosed
  <2> QED
    BY <1>2, <2>1, <2>2 DEF RulesMove
<1>6. ASSUME NEW p \in Principals, NEW k, SettingsAllow(p, k) \/ SettingsRevoke(p, k) PROVE RulesMove
  BY <1>2, <1>6 DEF SettingsAllow, SettingsRevoke, ChangeRules
<1>7. ASSUME NEW a \in Ids, CardClosed(a) \/ PiiDialogClosed(a) \/ InteractionFails(a)
      PROVE  RulesMove
  BY <1>7 DEF CardClosed, PiiDialogClosed, InteractionFails, RulesMove
<1>8. \/ \E a \in Ids, r \in Answers : Answer(a, r)
      \/ \E p \in Principals, S \in SUBSET Ids : AnswerBatch(p, S)
      \/ \E p \in Principals : ProposeRule(p)
      \/ Tick \/ UNCHANGED vars
      => RulesMove
  BY DEF Answer, AnswerBatch, ProposeRule, Tick, vars, RulesMove
<1>9. ASSUME NEW c \in Calls, GatedCall(c) PROVE RulesMove
  BY <1>9, CallsKeepRules DEF RulesMove
<1> QED
  BY <1>4, <1>5, <1>6, <1>7, <1>8, <1>9 DEF Next, Interaction

\* No card stays open that a rule covers.
LEMMA BroadcastLeavesNone ==
    ASSUME ApprovalInv, [Next]_vars
    PROVE  NoCoveredCardStaysOpen'
<1>0. /\ TypeOK /\ RowsWellFormed /\ BlankUntilRegistered /\ RowsMove
      /\ NoCoveredCardStaysOpen /\ RulesMove
  BY StepMoves, RulesStep DEF ApprovalInv, OwnershipInv
<1> SUFFICES ASSUME NEW a \in OpenCards',
                    approvals'[a].answer = "none", approvals'[a].key \notin PIIKeys
             PROVE  approvals'[a].key \notin rules'[approvals'[a].principal]
  BY DEF NoCoveredCardStaysOpen, OpenCards, EventSet
<1>1. a \in Ids /\ approvals'[a].final = "none"
  BY DEF OpenCards, Cards, Live, Finalized
<1> DEFINE q == approvals[a].principal
           k == approvals[a].key
<1>2. CASE a \in OpenCards
  <2>1. /\ approvals[a].kind = "card" /\ a \in pending /\ ~EventSet(a)
        /\ approvals'[a].principal = q /\ approvals'[a].key = k
    BY <1>0, <1>1, <1>2, MovesKeep DEF OpenCards, Cards, Live, SameRequest, EventSet, Finalized
  <2>2. q \in Principals /\ k \notin rules[q] /\ k \notin PIIKeys
    BY <1>0, <1>2, <2>1
       DEF NoCoveredCardStaysOpen, OpenCards, RowsWellFormed, TypeOK, Approval
  <2>3. CASE rules' = rules
    BY <2>1, <2>2, <2>3
  <2>4. ASSUME NEW p \in Principals, rules' = [rules EXCEPT ![p] = rules'[p]],
               rules'[p] # rules[p] =>
                  \A b \in Reevaluated(p, rules'[p]) : approvals'[b].final # "none"
        PROVE  k \notin rules'[q]
    <3>1. CASE p # q \/ rules'[p] = rules[p]
      BY <1>0, <2>2, <2>4, <3>1 DEF TypeOK
    <3>2. CASE p = q /\ rules'[p] # rules[p]
      <4>1. a \notin Reevaluated(q, rules'[q])
        BY <1>1, <2>4, <3>2
      <4> QED
        BY <2>1, <2>2, <4>1 DEF Reevaluated, AutoAllowed
    <3> QED
      BY <3>1, <3>2
  <2> QED
    BY <1>0, <2>1, <2>3, <2>4 DEF RulesMove
<1>3. CASE a \notin OpenCards
  <2>1. NewCard(a)
    BY <1>3, OpenCardsStep
  <2> QED
    BY <2>1 DEF NewCard, CoveredByRule, AutoAllowed
<1> QED
  BY <1>2, <1>3

\* A finite set with one element more has at most one element more.
LEMMA OneMoreAtMost ==
    ASSUME NEW S, IsFiniteSet(S), NEW T, NEW a, T \subseteq S \cup {a}
    PROVE  IsFiniteSet(T) /\ Cardinality(T) \in Nat /\ Cardinality(T) <= Cardinality(S) + 1
<1>1. IsFiniteSet(S \cup {a}) /\ Cardinality(S \cup {a}) <= Cardinality(S) + 1
  <2>1. Cardinality(S) \in Nat
    BY FS_CardinalityType
  <2> QED
    BY <2>1, FS_AddElement
<1>2. IsFiniteSet(T) /\ Cardinality(T) <= Cardinality(S \cup {a})
  BY <1>1, FS_Subset
<1>3. Cardinality(T) \in Nat /\ Cardinality(S \cup {a}) \in Nat /\ Cardinality(S) \in Nat
  BY <1>1, <1>2, FS_CardinalityType
<1> QED
  BY <1>1, <1>2, <1>3

\* Registration respects the caps, and nothing else opens a card.
LEMMA CapsStay ==
    ASSUME ApprovalInv, [Next]_vars
    PROVE  IsFiniteSet(pending)' /\ CapsHold'
<1>0. /\ TypeOK /\ RowsWellFormed /\ BlankUntilRegistered /\ RowsMove
      /\ IsFiniteSet(pending) /\ CapsHold
  BY StepMoves DEF ApprovalInv, OwnershipInv
<1>1. IsFiniteSet(pending)'
  BY <1>0, OpenCardsStep, OneMoreAtMost
<1>2. /\ \A S \in SUBSET pending : IsFiniteSet(S) /\ Cardinality(S) \in Nat
      /\ \A S \in SUBSET pending : \A T \in SUBSET S : Cardinality(T) <= Cardinality(S)
  BY <1>0, FS_Subset, FS_CardinalityType
<1>3. /\ Live \subseteq pending /\ OpenCards \subseteq Live
      /\ \A p : LiveOf(p) \subseteq Live
  BY DEF Live, LiveOf, OpenCards
<1> DEFINE Of(p) == {a \in OpenCards : approvals[a].principal = p}
<1>4. /\ \A p : OpenCards \cap LiveOf(p) = Of(p)
      /\ \A p : Cards \cap LiveOf(p) = Of(p)
      /\ \A p : Of(p) \subseteq LiveOf(p)
      /\ \A p : (Cards \cap LiveOf(p))' = {a \in OpenCards' : approvals'[a].principal = p}
  BY DEF OpenCards, LiveOf
<1>5. \A a \in OpenCards : approvals'[a].principal = approvals[a].principal
  BY <1>0, MovesKeep DEF OpenCards, Cards, SameRequest
<1>6. PICK a \in Ids \cup {None} :
         /\ OpenCards' \subseteq OpenCards \/ (a \in Ids /\ NewCard(a))
         /\ OpenCards' \subseteq OpenCards \cup {a}
  BY OpenCardsStep
<1>7. MaxPending \in Nat /\ MaxPerPrincipal \in Nat
  BY CapAssumption
<1>8. CASE OpenCards' \subseteq OpenCards
  <2>1. Cardinality(OpenCards') <= MaxPending
    <3>1. Cardinality(OpenCards) <= MaxPending
      BY <1>0 DEF CapsHold, OpenCards
    <3>2. /\ Cardinality(OpenCards) \in Nat /\ Cardinality(OpenCards') \in Nat
          /\ Cardinality(OpenCards') <= Cardinality(OpenCards)
      BY <1>2, <1>3, <1>8
    <3> QED
      BY <1>7, <3>1, <3>2
  <2>2. ASSUME NEW q \in Principals PROVE Cardinality((Cards \cap LiveOf(q))') <= MaxPerPrincipal
    <3>1. Cardinality(Of(q)) <= MaxPerPrincipal
      BY <1>0, <1>4 DEF CapsHold
    <3>2. (Cards \cap LiveOf(q))' \subseteq Of(q)
      BY <1>4, <1>5, <1>8
    <3>3. /\ Cardinality(Of(q)) \in Nat /\ Cardinality((Cards \cap LiveOf(q))') \in Nat
          /\ Cardinality((Cards \cap LiveOf(q))') <= Cardinality(Of(q))
      BY <1>2, <1>3, <1>4, <3>2
    <3> QED
      BY <1>7, <3>1, <3>3
  <2> QED
    BY <1>1, <2>1, <2>2 DEF CapsHold, OpenCards
<1>9. ASSUME NewCard(a) PROVE CapsHold'
  <2>1. PICK p \in Principals : ~CapReached(p) /\ approvals'[a].principal = p
    BY <1>9 DEF NewCard
  <2>2. Cardinality(Live) < MaxPending /\ Cardinality(LiveOf(p)) < MaxPerPrincipal
    BY <1>2, <1>3, <1>7, <2>1 DEF CapReached
  <2>3. Cardinality(OpenCards') <= MaxPending
    <3>1. /\ Cardinality(OpenCards') <= Cardinality(Live) + 1
          /\ Cardinality(Live) \in Nat /\ Cardinality(OpenCards') \in Nat
      BY <1>2, <1>3, <1>6, OneMoreAtMost
    <3> QED
      BY <1>7, <2>2, <3>1
  <2>4. ASSUME NEW q \in Principals PROVE Cardinality((Cards \cap LiveOf(q))') <= MaxPerPrincipal
    <3> DEFINE now_q == (Cards \cap LiveOf(q))'
    <3>1. now_q \subseteq Of(q) \cup (IF p = q THEN {a} ELSE {})
      BY <1>4, <1>5, <1>6, <2>1
    <3>2. CASE p = q
      <4>1. now_q \subseteq LiveOf(q) \cup {a}
        BY <1>4, <3>1, <3>2
      <4>2. /\ Cardinality(now_q) <= Cardinality(LiveOf(q)) + 1
            /\ Cardinality(LiveOf(q)) \in Nat /\ Cardinality(now_q) \in Nat
        BY <1>2, <1>3, <4>1, OneMoreAtMost
      <4> QED
        BY <1>7, <2>2, <3>2, <4>2
    <3>3. CASE p # q
      <4>1. now_q \subseteq Of(q) /\ Cardinality(Of(q)) <= MaxPerPrincipal
        BY <1>0, <1>4, <3>1, <3>3 DEF CapsHold
      <4>2. /\ Cardinality(now_q) <= Cardinality(Of(q))
            /\ Cardinality(Of(q)) \in Nat /\ Cardinality(now_q) \in Nat
        BY <1>2, <1>3, <1>4, <4>1
      <4> QED
        BY <1>7, <4>1, <4>2
    <3> QED
      BY <3>2, <3>3
  <2> QED
    BY <2>3, <2>4 DEF CapsHold, OpenCards
<1> QED
  BY <1>1, <1>6, <1>8, <1>9

-----------------------------------------------------------------------------
(* The invariant, and what follows from it in every reachable state.         *)

LEMMA ApprovalInvInit == Init => ApprovalInv
<1> SUFFICES ASSUME Init PROVE ApprovalInv
  OBVIOUS
<1>1. OwnershipInv
  BY InvInit
<1>2. BlankUntilRegistered /\ DecisionsHaveConsent /\ OutcomesFollowDecisions /\ SweptIsOver
  BY DEF Init, BlankUntilRegistered, DecisionsHaveConsent, HasConsent, OutcomesFollowDecisions,
         SweptIsOver, NoApproval, NoDriver, NoCall, Released
<1>3. WaitersAreCounted /\ WaitersAreFinite
  <2>1. ASSUME NEW a \in Ids PROVE WaitersOf(a) = {}
    BY DEF Init, WaitersOf, NoCall
  <2>2. IsFiniteSet({}) /\ Cardinality({}) = 0
    BY FS_EmptySet
  <2>3. \A a \in Ids : IsFiniteSet(WaitersOf(a)) /\ Cardinality(WaitersOf(a)) = 0
    BY <2>1, <2>2
  <2> QED
    BY <2>3 DEF Init, NoApproval, WaitersOf, WaitersAreCounted, WaitersAreFinite
<1>4. PermissionsHaveASource /\ WindowNeedsAllowOnce
  BY DEF Init, PermissionsHaveASource, WindowNeedsAllowOnce, NoCall
<1>5. Cards = {} /\ pending = {}
  BY DEF Init, Cards, NoApproval
<1>6. NoCoveredCardStaysOpen
  BY <1>5 DEF NoCoveredCardStaysOpen
<1>7. IsFiniteSet(pending) /\ CapsHold
  <2>1. Cards \cap Live = {} /\ \A p : Cards \cap LiveOf(p) = {}
    BY <1>5
  <2>2. IsFiniteSet({}) /\ Cardinality({}) = 0
    BY FS_EmptySet
  <2> QED
    BY <1>5, <2>1, <2>2, CapAssumption DEF CapsHold
<1> QED
  BY <1>1, <1>2, <1>3, <1>4, <1>6, <1>7 DEF ApprovalInv

LEMMA ApprovalInvStep == ApprovalInv /\ [Next]_vars => ApprovalInv'
<1> SUFFICES ASSUME ApprovalInv, [Next]_vars PROVE ApprovalInv'
  OBVIOUS
<1>0. /\ OwnershipInv /\ TypeOK /\ RowsWellFormed /\ CallsWellFormed /\ BlankUntilRegistered
      /\ OutcomesFollowDecisions /\ SweptIsOver /\ PermissionsHaveASource /\ WindowNeedsAllowOnce
  BY DEF ApprovalInv, OwnershipInv
<1>1. RowsMove /\ CallsMove
  BY StepMoves, StepMovesCalls
<1>2. OwnershipInv'
  BY <1>0, InvStep
<1>3. BlankUntilRegistered'
  BY <1>0, <1>1, BlankStays
<1>4. SweptIsOver'
  BY <1>0, <1>1, SweptStays
<1>5. OutcomesFollowDecisions'
  BY <1>0, <1>1, OutcomesStay
<1>6. PermissionsHaveASource'
  <2>1. \A p \in Principals : rules'[p] \subseteq UNION {Covers[k] : k \in Keys}
    BY <1>0, RulesHaveASource DEF PermissionsHaveASource
  <2>2. \A p \in Principals, w \in WriteKeys :
            grace'[p][w] # 0 => \E d \in Calls : AllowedOnce(d, p, w)'
    BY <1>0, <1>1, WindowsHaveASource DEF PermissionsHaveASource, AllowedOnce
  <2> QED
    BY <2>1, <2>2 DEF PermissionsHaveASource, AllowedOnce
<1>7. WindowNeedsAllowOnce'
  BY <1>0, <1>1, LettingThroughHasASource
<1> QED
  BY <1>2, <1>3, <1>4, <1>5, <1>6, <1>7, ConsentStep, CountStep, BroadcastLeavesNone, CapsStay
     DEF ApprovalInv

\* Every reachable state has the invariant: no answer, decision, count, sweep or
\* permission of the registry and the gate is without what it stands on.
THEOREM ApprovalsInvariant == Spec => []ApprovalInv
<1> QED
  BY ApprovalInvInit, ApprovalInvStep, PTL DEF Spec

\* "First decision wins": no click, worker, broadcast or sweep changes an answer or a
\* decision that is there.
THEOREM FirstDecisionStands == Spec => FirstDecisionWins
<1>1. ASSUME ApprovalInv, [Next]_vars
      PROVE  [\A a \in Ids :
                /\ Finalized(a) => approvals'[a].final = approvals[a].final
                /\ EventSet(a) => approvals'[a].answer = approvals[a].answer]_vars
  <2>1. BlankUntilRegistered /\ RowsMove
    BY <1>1, StepMoves DEF ApprovalInv
  <2> QED
    BY <2>1, MovesKeep
<1> QED
  BY <1>1, ApprovalsInvariant, PTL DEF Spec, FirstDecisionWins

\* What a released call was told names the decision: the only releases are the person's
\* yes, a rule's, and an expired read's.
LEMMA ReleaseNamesDecision ==
    ASSUME ApprovalInv, NEW c \in Calls, NEW a \in Cards, ReleasedBy(c, a)
    PROVE  \/ approvals[a].final \in Accepting
           \/ approvals[a].final = "expired" /\ ~IsWrite(a)
<1>1. a \in Ids /\ a # None /\ call[c].id = a /\ call[c].outcome \in Released
  BY KeyAssumption DEF Cards, ReleasedBy
<1>2. call[c].outcome = OutcomeOf(call[c].key, approvals[a].final) /\ Finalized(a)
  BY <1>1 DEF ApprovalInv, OutcomesFollowDecisions
<1>3. approvals[a].key = call[c].key /\ approvals[a].final \in Decisions
  BY <1>1, <1>2 DEF ApprovalInv, OwnershipInv, CallsWellFormed, KeyOf, TypeOK, Approval, Finalized
<1> QED
  BY <1>1, <1>2, <1>3, KeyAssumption DEF OutcomeOf, Released, Accepting, Decisions, IsWrite

\* An approved write runs only on the person's own yes, or on a rule's for a card nobody
\* answered, and never after a deny or an expiry.
THEOREM WritesNeedConsent == Spec => []WriteNeedsConsent
<1>1. ApprovalInv => WriteNeedsConsent
  BY ReleaseNamesDecision
     DEF ApprovalInv, DecisionsHaveConsent, HasConsent, WriteNeedsConsent, Accepting, Accepted, Cards
<1> QED
  BY <1>1, ApprovalsInvariant, PTL

\* So does a read, on every decision but an expiry.
THEOREM ReadsNeedConsent == Spec => []ReadNeedsConsent
<1>1. ApprovalInv => ReadNeedsConsent
  BY ReleaseNamesDecision
     DEF ApprovalInv, DecisionsHaveConsent, HasConsent, ReadNeedsConsent, Accepting, Accepted, Cards
<1> QED
  BY <1>1, ApprovalsInvariant, PTL

\* A request whose scan found personal data is accepted only after its own dialog said
\* yes, and never by a rule.
THEOREM PersonalDataConfirmed == Spec => []PersonalDataIsConfirmed
<1>1. ApprovalInv => PersonalDataIsConfirmed
  BY DEF ApprovalInv, DecisionsHaveConsent, HasConsent, PersonalDataIsConfirmed, Accepting, Cards
<1> QED
  BY <1>1, ApprovalsInvariant, PTL

\* A call that reports accepted_via_accept_all has a rule dialog the person confirmed.
THEOREM AcceptAllConfirmed == Spec => []AcceptAllIsConfirmed
<1>1. ASSUME ApprovalInv, NEW c \in Calls, call[c].outcome = "accepted_via_accept_all"
      PROVE  Confirmed(driver[call[c].id].rule)
  <2>1. /\ call[c].id # None
        /\ OutcomeOf(call[c].key, approvals[call[c].id].final) = "accepted_via_accept_all"
    BY <1>1 DEF ApprovalInv, OutcomesFollowDecisions, Released
  <2>2. approvals[call[c].id].final = "accept_all"
    BY <2>1 DEF OutcomeOf
  <2>3. call[c].id \in Ids
    BY <1>1, <2>1 DEF ApprovalInv, OwnershipInv, TypeOK, Call
  <2> QED
    BY <1>1, <2>2, <2>3 DEF ApprovalInv, DecisionsHaveConsent, HasConsent
<1>2. ApprovalInv => AcceptAllIsConfirmed
  BY <1>1 DEF AcceptAllIsConfirmed
<1> QED
  BY <1>2, ApprovalsInvariant, PTL

\* An "expired" row of a decided approval tells the truth: its outcome reached no call.
THEOREM SweptReachedNobody == Spec => []UncollectedReachedNobody
<1>1. ApprovalInv => UncollectedReachedNobody
  BY KeyAssumption
     DEF ApprovalInv, OutcomesFollowDecisions, SweptIsOver, UncollectedReachedNobody, CollectedBy, Cards
<1> QED
  BY <1>1, ApprovalsInvariant, PTL

\* waiters counts the calls in wait_async: none is leaked or lost, whichever way a call
\* leaves its hold window, and also when the window collapsed at once.
THEOREM WaitersCounted == Spec => []WaitersAreCounted
<1>1. ApprovalInv => WaitersAreCounted
  BY DEF ApprovalInv
<1> QED
  BY <1>1, ApprovalsInvariant, PTL

\* A write no rule covers passes without a card only inside the window an "Allow once" of
\* the same principal on the same file opened.
THEOREM WindowsNeedAllowOnce == Spec => []WindowNeedsAllowOnce
<1>1. ApprovalInv => WindowNeedsAllowOnce
  BY DEF ApprovalInv
<1> QED
  BY <1>1, ApprovalsInvariant, PTL

\* The rules-changed broadcast, and the check before a registration, leave no card open
\* that a rule of its principal covers.
THEOREM BroadcastReachesEveryCard == Spec => []NoCoveredCardStaysOpen
<1>1. ApprovalInv => NoCoveredCardStaysOpen
  BY DEF ApprovalInv
<1> QED
  BY <1>1, ApprovalsInvariant, PTL

\* The open cards stay within both caps, for every value of the caps.
THEOREM CapsRespected == Spec => []CapsHold
<1>1. ApprovalInv => CapsHold
  BY DEF ApprovalInv
<1> QED
  BY <1>1, ApprovalsInvariant, PTL

-----------------------------------------------------------------------------
(* The registry and the gate implement SingleUseConsent: each step asks for,  *)
(* grants, withdraws or takes consents, or changes none of them.             *)

SameConsent(a) == ConsentOf(a)' = ConsentOf(a)
SameTaken == \A c \in Calls : TakenBy(c)' = TakenBy(c)

\* Steps of the contract, by what becomes of each consent.
LEMMA ConsentUntouched ==
    ASSUME SameTaken, \A a \in Ids : SameConsent(a)
    PROVE  UNCHANGED Consent!cvars
  BY DEF SameTaken, SameConsent, Consent!cvars

LEMMA ConsentAsked ==
    ASSUME SameTaken, NEW a \in Ids, ConsentOf(a) = "none", ConsentOf(a)' = "open",
           \A b \in Ids \ {a} : SameConsent(b)
    PROVE  Consent!Next
<1>1. Consent!Ask(a)
  BY DEF SameTaken, SameConsent, Consent!Ask, Consent!Moved
<1> QED
  BY <1>1 DEF Consent!Next

LEMMA ConsentGranted ==
    ASSUME SameTaken,
           \A a \in Ids : SameConsent(a) \/ (ConsentOf(a) = "open" /\ ConsentOf(a)' = "granted")
    PROVE  Consent!Next
<1> DEFINE S == {a \in Ids : ConsentOf(a) = "open" /\ ConsentOf(a)' = "granted"}
<1>1. PICK T \in SUBSET Ids : T = S
  OBVIOUS
<1>2. Consent!Grant(T)
  BY <1>1 DEF SameTaken, SameConsent, Consent!Grant, Consent!Moved
<1> QED
  BY <1>2 DEF Consent!Next

LEMMA ConsentWithdrawn ==
    ASSUME SameTaken,
           \A a \in Ids : \/ SameConsent(a)
                          \/ ConsentOf(a) \in {"open", "granted"} /\ ConsentOf(a)' = "refused"
    PROVE  Consent!Next
<1> DEFINE S == {a \in Ids : ConsentOf(a) \in {"open", "granted"} /\ ConsentOf(a)' = "refused"}
<1>1. PICK T \in SUBSET Ids : T = S
  OBVIOUS
<1>2. Consent!Withdraw(T)
  BY <1>1 DEF SameTaken, SameConsent, Consent!Withdraw, Consent!Moved
<1> QED
  BY <1>2 DEF Consent!Next

LEMMA ConsentTaken ==
    ASSUME NEW c \in Calls, NEW a \in Ids, ConsentOf(a) = "granted", ConsentOf(a)' = "spent",
           \A b \in Ids \ {a} : SameConsent(b),
           TakenBy(c) = None, TakenBy(c)' = a,
           \A d \in Calls \ {c} : TakenBy(d)' = TakenBy(d)
    PROVE  Consent!Next
<1>1. Consent!Take(c, a)
  BY DEF SameConsent, Consent!Take, Consent!Moved
<1> QED
  BY <1>1 DEF Consent!Next

\* What the mapping says of one row.
LEMMA ConsentInRow ==
    ASSUME NEW r \in Approval
    PROVE  /\ ConsentIn(r) = "none" <=> r.key \notin WriteKeys
           /\ r.key \in WriteKeys =>
                /\ r.final = "none" => ConsentIn(r) = "open"
                /\ r.final \in {"deny", "expired"} => ConsentIn(r) = "refused"
                /\ r.final \in Accepting /\ ~r.consumed => ConsentIn(r) = "granted"
                /\ r.final \in Accepting /\ r.consumed /\ r.collected => ConsentIn(r) = "spent"
                /\ r.final \in Accepting /\ r.consumed /\ ~r.collected => ConsentIn(r) = "refused"
<1>1. r.final \in Decisions \cup {"none"} /\ r.consumed \in BOOLEAN
  BY DEF Approval
<1> QED
  BY <1>1 DEF ConsentIn, Decisions, Accepting

\* A call that did not move holds what it held.
LEMMA TakenByStays ==
    ASSUME TypeOK, TypeOK', CallsWellFormed, BlankUntilRegistered, RowsMove,
           NEW c \in Calls, call'[c] = call[c]
    PROVE  TakenBy(c)' = TakenBy(c)
<1>1. CASE call[c].id = None
  BY <1>1 DEF TakenBy
<1>2. CASE call[c].id # None
  <2>1. call[c].id \in Ids /\ approvals[call[c].id].kind = "card"
    BY <1>2 DEF CallsWellFormed, TypeOK, Call
  <2>2. approvals'[call[c].id].key = approvals[call[c].id].key
    BY <2>1, MovesKeep DEF SameRequest
  <2>3. approvals[call[c].id] \in Approval /\ approvals'[call[c].id] \in Approval
    BY <2>1 DEF TypeOK
  <2>4. ConsentIn(approvals[call[c].id]) = "none" <=> ConsentIn(approvals'[call[c].id]) = "none"
    BY <2>2, <2>3, ConsentInRow
  <2> QED
    BY <2>4 DEF TakenBy, ConsentOf
<1> QED
  BY <1>1, <1>2

\* A call that was told nothing, and is told nothing, holds nothing.
LEMMA TakenByNobody ==
    ASSUME NEW c \in Calls,
           call[c].outcome \notin Released \/ call[c].id = None,
           call'[c].outcome \notin Released \/ call'[c].id = None
    PROVE  TakenBy(c) = None /\ TakenBy(c)' = None
  BY DEF TakenBy

-----------------------------------------------------------------------------
(* The steps outside gated_call.                                             *)

\* A step that decides, if anything, in one sense only.
DecidesAs(D) ==
    \A a \in Ids : approvals'[a].final = approvals[a].final \/ approvals'[a].final \in D

\* Quiet steps that say yes grant, those that say no withdraw.
LEMMA QuietIsConsent ==
    ASSUME TypeOK, TypeOK', RowsWellFormed, CallsWellFormed, BlankUntilRegistered, RowsMove, Quiet,
           DecidesAs(Accepting) \/ DecidesAs({"deny", "expired"})
    PROVE  Consent!Next
<1>1. SameTaken
  BY TakenByStays DEF Quiet, SameTaken
<1>2. ASSUME NEW a \in Ids
      PROVE  \/ SameConsent(a)
             \/ /\ ConsentOf(a) = "open"
                /\ approvals'[a].final # approvals[a].final
                /\ approvals'[a].final \in Accepting => ConsentOf(a)' = "granted"
                /\ approvals'[a].final \in {"deny", "expired"} => ConsentOf(a)' = "refused"
  <2> DEFINE r == approvals[a]
             s == approvals'[a]
  <2>1. r \in Approval /\ s \in Approval
    BY DEF TypeOK
  <2>2. CASE Kept(r, s) /\ s.final = r.final
    BY <2>1, <2>2 DEF Kept, SameConsent, ConsentOf, ConsentIn
  <2>3. CASE Kept(r, s) /\ s.final # r.final
    <3>1. r.final = "none" /\ ~s.consumed /\ s.key = r.key
      BY <2>3 DEF Kept, RowsWellFormed, Finalized
    <3>2. CASE r.key \in WriteKeys
      BY <2>1, <2>3, <3>1, <3>2, ConsentInRow DEF ConsentOf
    <3>3. CASE r.key \notin WriteKeys
      BY <3>1, <3>3 DEF SameConsent, ConsentOf, ConsentIn
    <3> QED
      BY <3>2, <3>3
  <2>4. CASE NewDialog(r, s)
    BY <2>4, KeyAssumption
       DEF NewDialog, BlankUntilRegistered, NoApproval, SameConsent, ConsentOf, ConsentIn, Keys
  <2> QED
    BY <2>2, <2>3, <2>4 DEF Quiet
<1>3. CASE DecidesAs(Accepting)
  <2>1. \A a \in Ids : SameConsent(a) \/ (ConsentOf(a) = "open" /\ ConsentOf(a)' = "granted")
    BY <1>2, <1>3 DEF DecidesAs
  <2> QED
    BY <1>1, <2>1, ConsentGranted
<1>4. CASE DecidesAs({"deny", "expired"})
  <2>1. \A a \in Ids : \/ SameConsent(a)
                       \/ ConsentOf(a) \in {"open", "granted"} /\ ConsentOf(a)' = "refused"
    <3>1. ASSUME NEW a \in Ids, ~SameConsent(a)
          PROVE  ConsentOf(a) = "open" /\ ConsentOf(a)' = "refused"
      BY <1>2, <1>4, <3>1 DEF DecidesAs
    <3> QED
      BY <3>1
  <2> QED
    BY <1>1, <2>1, ConsentWithdrawn
<1> QED
  BY <1>3, <1>4

\* finalize() decides in the sense it was given.
LEMMA FinalizeDecidesAs ==
    ASSUME TypeOK, NEW S, NEW d \in Decisions, NEW D, d \in D,
           approvals' = FinalizedAs(approvals, S, d)
    PROVE  DecidesAs(D)
<1>1. approvals \in [Ids -> Approval]
  BY DEF TypeOK
<1>2. ASSUME NEW a \in Ids PROVE approvals'[a] = approvals[a] \/ approvals'[a].final = d
  BY <1>1, FinalizedAsDecides
<1> QED
  BY <1>2 DEF DecidesAs

\* A new dialog decides nothing.
LEMMA DialogDecidesNothing ==
    ASSUME TypeOK, BlankUntilRegistered, NEW b \in Ids, NEW p, RegisterConfirm(b, p), NEW D
    PROVE  DecidesAs(D)
<1>1. Registers(approvals[b], approvals'[b]) /\ \A a \in Ids \ {b} : approvals'[a] = approvals[a]
  BY RegisterConfirmRegisters
<1>2. approvals[b].final = "none" /\ approvals'[b].final = "none"
  BY <1>1 DEF Registers, BlankUntilRegistered, NoApproval
<1> QED
  BY <1>1, <1>2 DEF DecidesAs

\* An interaction says yes or no, and a broadcast within it says yes as well.
LEMMA InteractionDecides ==
    ASSUME TypeOK, BlankUntilRegistered, NEW a \in Ids, Interaction(a)
    PROVE  DecidesAs(Accepting) \/ DecidesAs({"deny", "expired"})
<1>0. /\ {"accept", "accept_all", "auto_accepted"} \subseteq Accepting
      /\ {"deny", "accept", "accept_all", "auto_accepted"} \subseteq Decisions
      /\ approvals \in [Ids -> Approval]
  BY DEF Accepting, Decisions, TypeOK
<1>1. ASSUME Conclude(a, "deny") PROVE DecidesAs({"deny", "expired"})
  BY <1>0, <1>1, FinalizeDecidesAs DEF Conclude
<1>2. ASSUME AfterConsent(a) PROVE DecidesAs(Accepting)
  BY <1>0, <1>2, FinalizeDecidesAs, DialogDecidesNothing DEF AfterConsent, Conclude
<1>3. ASSUME RuleDialogClosed(a) PROVE DecidesAs(Accepting)
  <2>1. PICK S : \/ approvals' = FinalizedAs(FinalizedAs(approvals, S, "auto_accepted"),
                                             {a}, "accept_all")
                 \/ approvals' = FinalizedAs(approvals, {a}, "accept")
    BY <1>3 DEF RuleDialogClosed
  <2> DEFINE once == FinalizedAs(approvals, S, "auto_accepted")
  <2>2. once \in [Ids -> Approval]
    BY <1>0, FinalizedAsType DEF TypeOK
  <2>3. ASSUME NEW b \in Ids, approvals' = FinalizedAs(once, {a}, "accept_all")
        PROVE  approvals'[b].final = approvals[b].final \/ approvals'[b].final \in Accepting
    <3>1. once[b] = approvals[b] \/ once[b].final = "auto_accepted"
      BY <1>0, FinalizedAsDecides
    <3>2. approvals'[b] = once[b] \/ approvals'[b].final = "accept_all"
      BY <1>0, <2>2, <2>3, FinalizedAsDecides
    <3> HIDE DEF once
    <3> QED
      BY <1>0, <3>1, <3>2
  <2> QED
    BY <1>0, <2>1, <2>3, FinalizeDecidesAs DEF DecidesAs
<1> QED
  BY <1>1, <1>2, <1>3, DialogDecidesNothing
     DEF Interaction, CardClosed, PiiDialogClosed, InteractionFails

\* The person's answers decide nothing yet; the Settings page and a proposal say yes.
LEMMA PersonStepDecides ==
    ASSUME TypeOK, BlankUntilRegistered, PersonStep
    PROVE  DecidesAs(Accepting)
<1>0. "auto_accepted" \in Accepting /\ "auto_accepted" \in Decisions
  BY DEF Accepting, Decisions
<1>1. ASSUME NEW a \in Ids, NEW r \in Answers, Answer(a, r) PROVE DecidesAs(Accepting)
  BY <1>1 DEF Answer, DecidesAs, TypeOK, Approval
<1>2. ASSUME NEW p \in Principals, NEW S \in SUBSET Ids, AnswerBatch(p, S)
      PROVE  DecidesAs(Accepting)
  BY <1>2 DEF AnswerBatch, DecidesAs, TypeOK, Approval
<1>3. ASSUME approvals' = approvals PROVE DecidesAs(Accepting)
  BY <1>3 DEF DecidesAs
<1>4. ASSUME NEW S, approvals' = FinalizedAs(approvals, S, "auto_accepted")
      PROVE  DecidesAs(Accepting)
  BY <1>0, <1>4, FinalizeDecidesAs
<1>5. ASSUME NEW p \in Principals, ProposeRule(p) PROVE DecidesAs(Accepting)
  BY <1>5, DialogDecidesNothing DEF ProposeRule
<1> QED
  BY <1>1, <1>2, <1>3, <1>4, <1>5
     DEF PersonStep, SettingsAllow, SettingsRevoke, ChangeRules, ProposalClosed, Tick

-----------------------------------------------------------------------------
(* The steps of a gated_call.                                                *)

\* A step of one call that is not let through on an approval changes no taking.
LEMMA TakenUnserved ==
    ASSUME TypeOK, TypeOK', CallsWellFormed, BlankUntilRegistered, RowsMove, NEW c \in Calls,
           \A d \in Calls \ {c} : call'[d] = call[d], call[c].pc # "done",
           call'[c].outcome \notin Released \/ call'[c].id = None
    PROVE  SameTaken
<1>1. call[c].outcome \notin Released
  BY DEF TypeOK, Call, CallsWellFormed, Released
<1>2. TakenBy(c)' = TakenBy(c)
  BY <1>1, TakenByNobody
<1>3. ASSUME NEW d \in Calls \ {c} PROVE TakenBy(d)' = TakenBy(d)
  BY TakenByStays
<1> QED
  BY <1>2, <1>3 DEF SameTaken

\* A sweep withdraws: a card past its TTL, or a yes nobody came back for.
LEMMA ArriveIsConsent ==
    ASSUME ApprovalInv, TypeOK', NEW c \in Calls, NEW p \in Principals, NEW k \in Keys,
           NEW u \in Unattended, Arrive(c, p, k, u)
    PROVE  Consent!Next
<1>0. /\ TypeOK /\ RowsWellFormed /\ CallsWellFormed /\ BlankUntilRegistered /\ SweptIsOver
  BY DEF ApprovalInv, OwnershipInv
<1>1. RowsMove /\ \A a \in Ids : Sweeps(approvals[a], approvals'[a])
  BY <1>0, ArriveMoves
<1>2. ASSUME NEW a \in Ids, ~SameConsent(a)
      PROVE  ConsentOf(a) \in {"open", "granted"} /\ ConsentOf(a)' = "refused"
  <2> DEFINE r == approvals[a]
             s == approvals'[a]
  <2>1. r \in Approval /\ s \in Approval
    BY <1>0 DEF TypeOK
  <2>2. s.key = r.key /\ s # r
    BY <1>1, <1>2 DEF Sweeps, Decided, SweptAway, SameRequest, SameConsent, ConsentOf
  <2>3. r.key \in WriteKeys
    BY <1>2, <2>2 DEF SameConsent, ConsentOf, ConsentIn
  <2>4. CASE Decided(r, s) /\ s.final = "expired"
    BY <2>1, <2>2, <2>3, <2>4, ConsentInRow DEF Decided, ConsentOf
  <2>5. CASE SweptAway(r, s)
    <3>1. ~r.consumed /\ ~r.collected /\ s.consumed /\ ~s.collected
      BY <1>0, <2>3, <2>5 DEF SweptAway, SweptIsOver, IsWrite
    <3>2. s.final = r.final /\ r.final \in Decisions
      BY <2>1, <2>5 DEF SweptAway, SameVerdict, Approval
    <3>3. CASE r.final \in Accepting
      BY <2>1, <2>2, <2>3, <3>1, <3>2, <3>3, ConsentInRow DEF ConsentOf
    <3>4. CASE r.final \in {"deny", "expired"}
      BY <1>2, <2>1, <2>2, <2>3, <3>2, <3>4, ConsentInRow DEF ConsentOf, SameConsent
    <3> QED
      BY <3>2, <3>3, <3>4 DEF Decisions
  <2> QED
    BY <1>1, <2>2, <2>4, <2>5 DEF Sweeps
<1>3. SameTaken
  <2>1. /\ call[c].pc = "idle" /\ call'[c].outcome = "none"
        /\ \A d \in Calls \ {c} : call'[d] = call[d]
    BY <1>0 DEF Arrive, TypeOK, NoCall
  <2> QED
    BY <1>0, <1>1, <2>1, TakenUnserved DEF Released
<1>4. \A a \in Ids : \/ SameConsent(a)
                     \/ (ConsentOf(a) \in {"open", "granted"} /\ ConsentOf(a)' = "refused")
  BY <1>2
<1> QED
  BY <1>3, <1>4, ConsentWithdrawn

\* Collecting a granted write takes its consent; any other collection takes none.
LEMMA CollectIsConsent ==
    ASSUME ApprovalInv, TypeOK', RowsMove, NEW c \in Calls, NEW a \in Ids, Served(c, a),
           IsWrite(a) => ~approvals[a].consumed,
           \A b \in Ids \ {a} : approvals'[b] = approvals[b],
           \A d \in Calls \ {c} : call'[d] = call[d]
    PROVE  Consent!Next \/ UNCHANGED Consent!cvars
<1>0. /\ TypeOK /\ RowsWellFormed /\ CallsWellFormed /\ BlankUntilRegistered
  BY DEF ApprovalInv, OwnershipInv
<1> DEFINE r == approvals[a]
           s == approvals'[a]
<1>1. /\ r \in Approval /\ s \in Approval /\ s.key = r.key /\ s.final = r.final
      /\ r.final \in Decisions /\ s.collected
      /\ r.key = call[c].key /\ a # None /\ call[c].outcome = "none" /\ call[c].pc # "done"
      /\ call'[c].id = a /\ call'[c].outcome = OutcomeOf(r.key, r.final)
  BY <1>0, KeyAssumption
     DEF Served, HandedOut, SameRequest, SameVerdict, TypeOK, Approval, Finalized, KeyOf
<1>2. \A b \in Ids \ {a} : SameConsent(b)
  BY DEF SameConsent, ConsentOf
<1>3. CASE r.key \in WriteKeys /\ r.final \in Accepting
  <2>1. ~r.consumed /\ s.consumed
    BY <1>3 DEF IsWrite, Served, HandedOut
  <2>2. ConsentOf(a) = "granted" /\ ConsentOf(a)' = "spent"
    BY <1>1, <1>3, <2>1, ConsentInRow DEF ConsentOf
  <2>3. call'[c].outcome \in Released
    BY <1>1, <1>3 DEF OutcomeOf, Released, Accepting
  <2>4. TakenBy(c) = None /\ TakenBy(c)' = a
    BY <1>1, <2>2, <2>3 DEF TakenBy, Released
  <2>5. ASSUME NEW d \in Calls \ {c} PROVE TakenBy(d)' = TakenBy(d)
    BY <1>0, TakenByStays
  <2> QED
    BY <1>2, <2>2, <2>4, <2>5, ConsentTaken
<1>4. CASE r.key \in WriteKeys /\ r.final \in {"deny", "expired"}
  <2>1. SameConsent(a)
    BY <1>1, <1>4, ConsentInRow DEF SameConsent, ConsentOf
  <2>2. call'[c].outcome \notin Released
    BY <1>1, <1>4, KeyAssumption DEF OutcomeOf, Released
  <2>3. SameTaken
    BY <1>0, <1>1, <2>2, TakenUnserved
  <2> QED
    BY <1>2, <2>1, <2>3, ConsentUntouched
<1>5. CASE r.key \notin WriteKeys
  <2>1. ConsentOf(a) = "none" /\ ConsentOf(a)' = "none"
    BY <1>1, <1>5 DEF ConsentOf, ConsentIn
  <2>2. TakenBy(c) = None /\ TakenBy(c)' = None
    BY <1>1, <2>1 DEF TakenBy, Released
  <2>3. ASSUME NEW d \in Calls \ {c} PROVE TakenBy(d)' = TakenBy(d)
    BY <1>0, TakenByStays
  <2> QED
    BY <1>2, <2>1, <2>2, <2>3, ConsentUntouched DEF SameConsent, SameTaken
<1> QED
  BY <1>1, <1>3, <1>4, <1>5 DEF Decisions

\* Waiting, joining and leaving touch no consent; registering a write asks for one.
LEMMA CallIsConsent ==
    ASSUME ApprovalInv, TypeOK', NEW c \in Calls, GatedCall(c)
    PROVE  Consent!Next \/ UNCHANGED Consent!cvars
<1>0. /\ TypeOK /\ RowsWellFormed /\ CallsWellFormed /\ BlankUntilRegistered /\ WriteHasOneOwner
      /\ WaitersAreCounted /\ WaitersAreFinite /\ SweptIsOver
  BY DEF ApprovalInv, OwnershipInv
<1>r. RowsMove
  <2>1. Next
    BY DEF Next
  <2> QED
    BY <2>1, StepMoves
<1>1. CASE \E p \in Principals, k \in Keys, u \in Unattended : Arrive(c, p, k, u)
  BY <1>1, ArriveIsConsent
<1>2. CASE AutoAccept(c) \/ DenyUnattended(c) \/ RefuseIdenticalWrite(c) \/ RefuseCap(c)
  <2>1. call[c].pc = "running" /\ approvals' = approvals
    BY <1>2 DEF AutoAccept, DenyUnattended, RefuseIdenticalWrite, RefuseCap, MustRegister,
                NeedsDecision, Running
  <2>2. \E outcome \in Outcomes : Finish(c, outcome, None)
    BY <1>2 DEF AutoAccept, DenyUnattended, RefuseIdenticalWrite, RefuseCap, Outcomes, Released
  <2>3. (\A d \in Calls \ {c} : call'[d] = call[d]) /\ call'[c].id = None
    BY <1>0, <2>2, FinishLeaves
  <2>4. SameTaken
    BY <1>0, <1>r, <2>1, <2>3, TakenUnserved
  <2> QED
    BY <2>1, <2>4, ConsentUntouched DEF SameConsent, ConsentOf
<1>3. ASSUME NEW a \in Ids, Rejoined(approvals[a], approvals'[a]),
             \A b \in Ids \ {a} : approvals'[b] = approvals[b],
             \A d \in Calls \ {c} : call'[d] = call[d],
             call[c].pc # "done", call'[c].outcome \notin Released
      PROVE  UNCHANGED Consent!cvars
  <2>1. SameTaken
    BY <1>0, <1>r, <1>3, TakenUnserved
  <2>2. SameConsent(a)
    BY <1>3 DEF Rejoined, SameRequest, SameVerdict, SameHistory, SameConsent, ConsentOf, ConsentIn
  <2>3. \A b \in Ids \ {a} : SameConsent(b)
    BY <1>3 DEF SameConsent, ConsentOf
  <2> QED
    BY <2>1, <2>2, <2>3, ConsentUntouched
<1>4. CASE HoldWindowEnds(c) \/ Cancel(c)
  <2>1. PICK a \in Ids :
          /\ Rejoined(approvals[a], approvals'[a])
          /\ \A b \in Ids \ {a} : approvals'[b] = approvals[b]
          /\ call[c].pc = "waiting" /\ call[c].id = a
    BY <1>0, <1>4, StopMoves
  <2>2. PICK outcome \in {"approval_pending", "cancelled"} : Finish(c, outcome, a)
    BY <1>4, <2>1 DEF HoldWindowEnds, Cancel
  <2>3. outcome \in Outcomes /\ outcome \notin Released
    BY <2>2 DEF Outcomes, Released
  <2>4. (\A d \in Calls \ {c} : call'[d] = call[d]) /\ call'[c].outcome = outcome
    BY <1>0, <2>2, <2>3, FinishLeaves
  <2> QED
    BY <1>3, <2>1, <2>3, <2>4
<1>5. ASSUME NEW a \in Ids, StartWait(c, a), call[c].pc = "running"
      PROVE  (\A d \in Calls \ {c} : call'[d] = call[d]) /\ call'[c].outcome \notin Released
  BY <1>0, <1>5, StartWaitLeaves DEF CallsWellFormed, Released
<1>6. CASE Coalesce(c)
  <2>1. PICK a \in Ids :
          /\ Rejoined(approvals[a], approvals'[a])
          /\ \A b \in Ids \ {a} : approvals'[b] = approvals[b]
          /\ StartWait(c, a) /\ call[c].pc = "running"
    BY <1>0, <1>6, CoalesceMoves DEF Coalesce, MustRegister, NeedsDecision, Running
  <2> QED
    BY <1>3, <1>5, <2>1
<1>7. CASE Register(c)
  <2>1. PICK a \in Ids :
          /\ approvals[a].kind = "none" /\ Registers(approvals[a], approvals'[a])
          /\ \A b \in Ids \ {a} : approvals'[b] = approvals[b]
          /\ StartWait(c, a) /\ call[c].pc = "running"
    BY <1>0, <1>7, RegisterMoves DEF Register, MustRegister, NeedsDecision, Running
  <2>2. SameTaken
    BY <1>0, <1>r, <1>5, <2>1, TakenUnserved
  <2>3. \A b \in Ids \ {a} : SameConsent(b)
    BY <2>1 DEF SameConsent, ConsentOf
  <2>4. ConsentOf(a) = "none" /\ approvals'[a].final = "none"
    BY <1>0, <2>1, KeyAssumption
       DEF BlankUntilRegistered, NoApproval, ConsentOf, ConsentIn, Registers, Keys
  <2>5. ConsentOf(a)' \in {"none", "open"}
    BY <2>4, ConsentInRow DEF ConsentOf, TypeOK
  <2> QED
    BY <2>2, <2>3, <2>4, <2>5, ConsentAsked, ConsentUntouched DEF SameConsent
<1>8. CASE CollectFromLedger(c)
  <2>1. PICK a \in Ids :
          /\ approvals[a].kind = "card" /\ KeyOf(a) = <<call[c].principal, call[c].key>>
          /\ Finalized(a) /\ ~approvals[a].consumed /\ HandedOut(approvals[a], approvals'[a])
          /\ \A b \in Ids \ {a} : approvals'[b] = approvals[b]
          /\ call[c].pc = "running" /\ Collect(c, a, FreshKeys)
    BY <1>0, <1>8, LedgerMoves DEF CollectFromLedger, NeedsDecision, Running
  <2>2. Served(c, a) /\ \A d \in Calls \ {c} : call'[d] = call[d]
    BY <1>0, <2>1, CollectServes
  <2> QED
    BY <1>r, <2>1, <2>2, CollectIsConsent
<1>9. CASE CollectInWindow(c)
  <2>1. PICK a \in Ids :
          /\ approvals[a].kind = "card" /\ KeyOf(a) = <<call[c].principal, call[c].key>>
          /\ Finalized(a) /\ HandedOut(approvals[a], approvals'[a])
          /\ \A b \in Ids \ {a} : approvals'[b] = approvals[b]
          /\ call[c].pc = "waiting" /\ call[c].id = a /\ Collect(c, a, byKey)
    BY <1>0, <1>9, WindowMoves DEF CollectInWindow, Waiting
  <2>2. Served(c, a) /\ \A d \in Calls \ {c} : call'[d] = call[d]
    BY <1>0, <2>1, CollectServes
  <2>3. IsWrite(a) => ~approvals[a].consumed
    BY <1>0, <2>1 DEF WriteHasOneOwner
  <2> QED
    BY <1>r, <2>1, <2>2, <2>3, CollectIsConsent
<1> QED
  BY <1>1, <1>2, <1>4, <1>6, <1>7, <1>8, <1>9 DEF GatedCall

\* The registry and the gate start as the contract does ...
LEMMA ConsentInit == Init => Consent!Init
  BY KeyAssumption
     DEF Init, Consent!Init, ConsentOf, ConsentIn, TakenBy, NoApproval, NoCall, Keys

\* ... and take its steps only.
LEMMA ConsentNext == ApprovalInv /\ [Next]_vars => [Consent!Next]_Consent!cvars
<1> SUFFICES ASSUME ApprovalInv, [Next]_vars
             PROVE  Consent!Next \/ UNCHANGED Consent!cvars
  OBVIOUS
<1>0. /\ TypeOK /\ RowsWellFormed /\ CallsWellFormed /\ BlankUntilRegistered
      /\ RowsMove /\ TypeOK'
  BY StepMoves, InvStep DEF ApprovalInv, OwnershipInv
<1>1. ASSUME NEW c \in Calls, GatedCall(c) PROVE Consent!Next \/ UNCHANGED Consent!cvars
  BY <1>0, <1>1, CallIsConsent
<1>2. ASSUME NEW a \in Ids, Interaction(a) PROVE Consent!Next
  BY <1>0, <1>2, InteractionIsQuiet, InteractionDecides, QuietIsConsent
<1>3. ASSUME PersonStep PROVE Consent!Next
  BY <1>0, <1>3, PersonStepIsQuiet, PersonStepDecides, QuietIsConsent
<1>4. ASSUME UNCHANGED vars PROVE UNCHANGED Consent!cvars
  BY <1>4 DEF vars, Consent!cvars, ConsentOf, ConsentIn, TakenBy
<1> QED
  BY <1>1, <1>2, <1>3, <1>4 DEF Next, PersonStep

\* The whole protocol -- calls, keys, ledger, hold windows, sweeps, dialogs and broadcasts --
\* implements the single-use contract on its write cards (ADR 0073).
THEOREM SingleUseImplemented == Spec => ImplementsSingleUseConsent
<1> QED
  BY ConsentInit, ConsentNext, ApprovalsInvariant, PTL
     DEF Spec, ImplementsSingleUseConsent, Consent!Spec
=============================================================================
