----------------------- MODULE SingleUseConsentProofs -----------------------
(* The contract itself is single-use, for any number of calls and consents. *)
EXTENDS SingleUseConsent, TLAPS

\* The types the contract's variables keep (approvals.py's consent states).
THEOREM ConsentTyped == Spec => []ConsentTypeOK
<1>1. Init => ConsentTypeOK
  BY DEF Init, ConsentTypeOK
<1>2. ConsentTypeOK /\ [Next]_cvars => ConsentTypeOK'
  BY DEF ConsentTypeOK, Next, cvars, Ask, Grant, Withdraw, Take, Moved
<1> QED
  BY <1>1, <1>2, PTL DEF Spec

\* One decision lets at most one call through (ADR 0073's single-use write).
THEOREM ConsentIsSingleUse ==
    ASSUME None \notin Ids
    PROVE  Spec => []SingleUse
<1>1. Init => SingleUse
  BY DEF Init, SingleUse
<1>2. ASSUME ConsentTypeOK, SingleUse, [Next]_cvars
      PROVE  SingleUse'
  <2>1. ASSUME NEW a \in Ids, Ask(a) PROVE SingleUse'
    BY <2>1, <1>2 DEF Ask, Moved, SingleUse, ConsentTypeOK
  <2>2. ASSUME NEW S \in SUBSET Ids, Grant(S) PROVE SingleUse'
    BY <2>2, <1>2 DEF Grant, Moved, SingleUse, ConsentTypeOK
  <2>3. ASSUME NEW S \in SUBSET Ids, Withdraw(S) PROVE SingleUse'
    BY <2>3, <1>2 DEF Withdraw, Moved, SingleUse, ConsentTypeOK
  <2>4. ASSUME NEW c \in Calls, NEW a \in Ids, Take(c, a) PROVE SingleUse'
    BY <2>4, <1>2 DEF Take, Moved, SingleUse, ConsentTypeOK
  <2>5. CASE UNCHANGED cvars
    BY <2>5, <1>2 DEF cvars, SingleUse
  <2> QED
    BY <1>2, <2>1, <2>2, <2>3, <2>4, <2>5 DEF Next
<1> QED
  BY <1>1, <1>2, ConsentTyped, PTL DEF Spec
=============================================================================
