-------------------------- MODULE SingleUseConsent --------------------------
(***************************************************************************)
(* What approvals.py promises about a write, without its calls, keys, TTLs *)
(* or hold windows (ADR 0073): a consent is asked for, granted or refused  *)
(* once, and a granted one lets exactly one call through; a consent nobody *)
(* takes is withdrawn and lets nobody through.                             *)
(***************************************************************************)
CONSTANTS Ids, Calls, None

VARIABLES
    consent,   \* id |-> where the question stands
    taken      \* call |-> the consent that let it through, or None

cvars == <<consent, taken>>

ConsentTypeOK ==
    /\ consent \in [Ids -> {"none", "open", "granted", "refused", "spent"}]
    /\ taken \in [Calls -> Ids \cup {None}]

Init ==
    /\ consent = [a \in Ids |-> "none"]
    /\ taken = [c \in Calls |-> None]

Moved(S, to) == consent' = [a \in Ids |-> IF a \in S THEN to ELSE consent[a]]

\* A card is shown.
Ask(a) ==
    /\ consent[a] = "none"
    /\ Moved({a}, "open")
    /\ UNCHANGED taken

\* A person, or a rule covering several open cards at once, says yes.
Grant(S) ==
    /\ \A a \in S : consent[a] = "open"
    /\ Moved(S, "granted")
    /\ UNCHANGED taken

\* A deny, a card past its TTL, or a yes nobody came back for.
Withdraw(S) ==
    /\ \A a \in S : consent[a] \in {"open", "granted"}
    /\ Moved(S, "refused")
    /\ UNCHANGED taken

\* The one call a granted write lets through.
Take(c, a) ==
    /\ consent[a] = "granted" /\ taken[c] = None
    /\ Moved({a}, "spent")
    /\ taken' = [taken EXCEPT ![c] = a]

Next ==
    \/ \E a \in Ids : Ask(a)
    \/ \E S \in SUBSET Ids : Grant(S) \/ Withdraw(S)
    \/ \E c \in Calls, a \in Ids : Take(c, a)

Spec == Init /\ [][Next]_cvars

\* A consent lets at most one call through, and only a spent one lets any.
SingleUse ==
    /\ \A c \in Calls : taken[c] # None => consent[taken[c]] = "spent"
    /\ \A c, d \in Calls : taken[c] # None /\ taken[c] = taken[d] => c = d
=============================================================================
