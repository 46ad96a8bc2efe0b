------------------------- MODULE McpDispatchProofs -------------------------
(***************************************************************************)
(* The safety properties of McpDispatch, proved for any number of calls,   *)
(* callers, tools and ticks.                                               *)
(***************************************************************************)
EXTENDS McpDispatch, TLAPS

\* The entry of a key points at a call that computed that key.
EntriesKeepTheirKey ==
    \A k \in Keys : inflight[k] # None => key[inflight[k]] = k

\* A waiter awaits a future that exists, of a call with its own key.
WaitersKeepTheirKey ==
    \A c \in Calls : pc[c] = "waiting" =>
        /\ joined[c] \in Calls /\ key[c] \in Keys /\ key[joined[c]] = key[c]
        /\ fut[joined[c]] # "none"

\* A running call has a future; it is pending and the entry of the call's key,
\* unless a waiter's cancellation tore that key.
RunnersHoldTheirKey ==
    \A c \in Calls : pc[c] = "running" =>
        /\ key[c] \in Keys
        /\ fut[c] \in {"pending", "cancelled"}
        /\ key[c] \notin tornKeys => fut[c] = "pending" /\ inflight[key[c]] = c

\* What the cache can replay.
EntriesHoldData ==
    \A k \in Keys : inflight[k] # None =>
        \/ fut[inflight[k]] \in {"pending", "data"}
        \/ fut[inflight[k]] = "cancelled" /\ k \in tornKeys

\* An owner that missed an answered write started no later than that write.
WritesAreStamped ==
    \A c \in Calls : (key[c] \in Keys /\ fut[c] # "none") =>
        LET p == PrincipalOfKey(key[c])
        IN  /\ sawWrites[c] <= answeredWrites[p]
            /\ sawWrites[c] # answeredWrites[p] => startedAt[c] <= lastWrite[p]

\* recorded_at was the time when it was written.
StartsInThePast == \A c \in Calls : startedAt[c] <= now

\* A replayed call returned at once.
ReplayedIsOver == \A c \in replayed : pc[c] = "done"

\* A call that has not arrived owns no future.
IdleOwnsNothing == \A c \in Calls : pc[c] = "idle" => fut[c] = "none"

\* The inductive invariant: the checked properties and what they rest on.
Inv ==
    /\ TypeOK /\ PendingHasRunner /\ EntriesKeepTheirKey /\ WaitersKeepTheirKey
    /\ RunnersHoldTheirKey /\ EntriesHoldData /\ WritesAreStamped
    /\ StartsInThePast /\ ReplayedIsOver /\ IdleOwnsNothing /\ OnlyDataIsReplayed

\* One step per action, and under it the conjuncts: the five that any action
\* keeps for its own reasons together, the others one by one.
LEMMA StepKeepsInv ==
    ASSUME Inv, [Next]_vars
    PROVE  Inv'
<1> USE DispatchAssumption DEF Inv, TypeOK, Keys
<1>1. ASSUME NEW c \in Calls, NEW k \in Keys, Own(c, k) PROVE Inv'
  <2>1. TypeOK' /\ PendingHasRunner' /\ StartsInThePast'
        /\ IdleOwnsNothing' /\ ReplayedIsOver'
        BY <1>1 DEF Own, Pruned, Reusable, Done, PrincipalOfKey,
          PendingHasRunner, StartsInThePast, IdleOwnsNothing,
          ReplayedIsOver, Times, FutStates, Results, Outcomes
  <2>2. EntriesKeepTheirKey'
        BY <1>1 DEF Own, Pruned, Reusable, Done,
          EntriesKeepTheirKey, EntriesHoldData, IdleOwnsNothing
  <2>3. WaitersKeepTheirKey'
        BY <1>1 DEF Own, Pruned, Reusable, Done,
          WaitersKeepTheirKey, EntriesKeepTheirKey, EntriesHoldData,
          IdleOwnsNothing
  <2>4. RunnersHoldTheirKey'
        BY <1>1 DEF Own, Pruned, Reusable, Done, RunnersHoldTheirKey
  <2>5. EntriesHoldData'
        BY <1>1 DEF Own, Pruned, Reusable, Done, EntriesHoldData
  <2>6. WritesAreStamped'
        BY <1>1 DEF Own, Pruned, Reusable, Done, PrincipalOfKey,
          Times, WritesAreStamped, StartsInThePast,
          RunnersHoldTheirKey, WaitersKeepTheirKey, IdleOwnsNothing
  <2>7. OnlyDataIsReplayed'
        BY <1>1 DEF Own, Pruned, Reusable, Done, OnlyDataIsReplayed,
          ReplayedIsOver, EntriesHoldData
  <2> QED BY <2>1, <2>2, <2>3, <2>4, <2>5, <2>6, <2>7
<1>2. ASSUME NEW c \in Calls, NEW k \in Keys, Join(c, k) PROVE Inv'
  <2>1. TypeOK' /\ PendingHasRunner' /\ StartsInThePast'
        /\ IdleOwnsNothing' /\ ReplayedIsOver'
        BY <1>2 DEF Join, Pruned, Reusable, Done, history,
          PendingHasRunner, StartsInThePast, IdleOwnsNothing,
          ReplayedIsOver, Times, FutStates, Results, Outcomes
  <2>2. EntriesKeepTheirKey'
        BY <1>2 DEF Join, Pruned, Reusable, Done, history,
          EntriesKeepTheirKey, EntriesHoldData, IdleOwnsNothing
  <2>3. WaitersKeepTheirKey'
        BY <1>2 DEF Join, Pruned, Reusable, Done, history,
          WaitersKeepTheirKey, EntriesKeepTheirKey, EntriesHoldData,
          IdleOwnsNothing
  <2>4. RunnersHoldTheirKey'
        BY <1>2 DEF Join, Pruned, Reusable, Done, history,
          RunnersHoldTheirKey
  <2>5. EntriesHoldData'
        BY <1>2 DEF Join, Pruned, Reusable, Done, history,
          EntriesHoldData
  <2>6. WritesAreStamped'
        BY <1>2 DEF Join, Pruned, Reusable, Done, history,
          PrincipalOfKey, Times, WritesAreStamped, StartsInThePast,
          RunnersHoldTheirKey, WaitersKeepTheirKey, IdleOwnsNothing
  <2>7. OnlyDataIsReplayed'
        BY <1>2 DEF Join, Pruned, Reusable, Done, history,
          OnlyDataIsReplayed, ReplayedIsOver, EntriesHoldData
  <2> QED BY <2>1, <2>2, <2>3, <2>4, <2>5, <2>6, <2>7
<1>3. ASSUME NEW c \in Calls, NEW k \in Keys, Replay(c, k) PROVE Inv'
  <2>1. TypeOK' /\ PendingHasRunner' /\ StartsInThePast'
        /\ IdleOwnsNothing' /\ ReplayedIsOver'
        BY <1>3 DEF Replay, Pruned, Reusable, Done,
          PendingHasRunner, StartsInThePast, IdleOwnsNothing,
          ReplayedIsOver, Times, FutStates, Results, Outcomes
  <2>2. EntriesKeepTheirKey'
        BY <1>3 DEF Replay, Pruned, Reusable, Done,
          EntriesKeepTheirKey, EntriesHoldData, IdleOwnsNothing
  <2>3. WaitersKeepTheirKey'
        BY <1>3 DEF Replay, Pruned, Reusable, Done,
          WaitersKeepTheirKey, EntriesKeepTheirKey, EntriesHoldData,
          IdleOwnsNothing
  <2>4. RunnersHoldTheirKey'
        BY <1>3 DEF Replay, Pruned, Reusable, Done,
          RunnersHoldTheirKey
  <2>5. EntriesHoldData'
        BY <1>3 DEF Replay, Pruned, Reusable, Done, EntriesHoldData
  <2>6. WritesAreStamped'
        BY <1>3 DEF Replay, Pruned, Reusable, Done, PrincipalOfKey,
          Times, WritesAreStamped, StartsInThePast,
          RunnersHoldTheirKey, WaitersKeepTheirKey, IdleOwnsNothing
  <2>7. OnlyDataIsReplayed'
        BY <1>3 DEF Replay, Pruned, Reusable, Done,
          OnlyDataIsReplayed, ReplayedIsOver, EntriesHoldData
  <2> QED BY <2>1, <2>2, <2>3, <2>4, <2>5, <2>6, <2>7
<1>4. ASSUME NEW c \in Calls, NEW what \in {"data", "delivery"}, Succeed(c, what) PROVE Inv'
  <2>1. TypeOK' /\ PendingHasRunner' /\ StartsInThePast'
        /\ IdleOwnsNothing' /\ ReplayedIsOver'
        BY <1>4 DEF Succeed, Popped, Returns, PrincipalOfKey,
          PendingHasRunner, StartsInThePast, IdleOwnsNothing,
          ReplayedIsOver, Times, FutStates, Results, Outcomes,
          RunnersHoldTheirKey, WaitersKeepTheirKey
  <2>2. EntriesKeepTheirKey'
        BY <1>4 DEF Succeed, Popped, Returns, EntriesKeepTheirKey
  <2>3. WaitersKeepTheirKey'
        BY <1>4 DEF Succeed, Popped, Returns, WaitersKeepTheirKey
  <2>4. RunnersHoldTheirKey'
        BY <1>4 DEF Succeed, Popped, Returns, RunnersHoldTheirKey
  <2>5. EntriesHoldData'
        BY <1>4 DEF Succeed, Popped, Returns, EntriesHoldData,
          EntriesKeepTheirKey, WaitersKeepTheirKey,
          RunnersHoldTheirKey
  <2>6. WritesAreStamped'
        BY <1>4 DEF Succeed, Popped, Returns, PrincipalOfKey, Times,
          WritesAreStamped, StartsInThePast, RunnersHoldTheirKey,
          WaitersKeepTheirKey, IdleOwnsNothing
  <2>7. OnlyDataIsReplayed'
        BY <1>4 DEF Succeed, Popped, Returns, OnlyDataIsReplayed,
          ReplayedIsOver, EntriesHoldData
  <2> QED BY <2>1, <2>2, <2>3, <2>4, <2>5, <2>6, <2>7
<1>5. ASSUME NEW c \in Calls, SettleTooLate(c) PROVE Inv'
  <2>1. TypeOK' /\ PendingHasRunner' /\ StartsInThePast'
        /\ IdleOwnsNothing' /\ ReplayedIsOver'
        BY <1>5 DEF SettleTooLate, Raises, Returns, history,
          PendingHasRunner, StartsInThePast, IdleOwnsNothing,
          ReplayedIsOver, Times, FutStates, Results, Outcomes
  <2>2. EntriesKeepTheirKey'
        BY <1>5 DEF SettleTooLate, Raises, Returns, history,
          EntriesKeepTheirKey
  <2>3. WaitersKeepTheirKey'
        BY <1>5 DEF SettleTooLate, Raises, Returns, history,
          WaitersKeepTheirKey
  <2>4. RunnersHoldTheirKey'
        BY <1>5 DEF SettleTooLate, Raises, Returns, history,
          RunnersHoldTheirKey
  <2>5. EntriesHoldData'
        BY <1>5 DEF SettleTooLate, Raises, Returns, history,
          EntriesHoldData
  <2>6. WritesAreStamped'
        BY <1>5 DEF SettleTooLate, Raises, Returns, history,
          WritesAreStamped
  <2>7. OnlyDataIsReplayed'
        BY <1>5 DEF SettleTooLate, Raises, Returns, history,
          OnlyDataIsReplayed, ReplayedIsOver, EntriesHoldData
  <2> QED BY <2>1, <2>2, <2>3, <2>4, <2>5, <2>6, <2>7
<1>6. ASSUME NEW c \in Calls, Pend(c) PROVE Inv'
  <2>1. TypeOK' /\ PendingHasRunner' /\ StartsInThePast'
        /\ IdleOwnsNothing' /\ ReplayedIsOver'
        BY <1>6 DEF Pend, Popped, Returns, history,
          PendingHasRunner, StartsInThePast, IdleOwnsNothing,
          ReplayedIsOver, Times, FutStates, Results, Outcomes
  <2>2. EntriesKeepTheirKey'
        BY <1>6 DEF Pend, Popped, Returns, history,
          EntriesKeepTheirKey
  <2>3. WaitersKeepTheirKey'
        BY <1>6 DEF Pend, Popped, Returns, history,
          WaitersKeepTheirKey
  <2>4. RunnersHoldTheirKey'
        BY <1>6 DEF Pend, Popped, Returns, history,
          RunnersHoldTheirKey
  <2>5. EntriesHoldData'
        BY <1>6 DEF Pend, Popped, Returns, history, EntriesHoldData,
          EntriesKeepTheirKey, WaitersKeepTheirKey,
          RunnersHoldTheirKey
  <2>6. WritesAreStamped'
        BY <1>6 DEF Pend, Popped, Returns, history, WritesAreStamped
  <2>7. OnlyDataIsReplayed'
        BY <1>6 DEF Pend, Popped, Returns, history,
          OnlyDataIsReplayed, ReplayedIsOver, EntriesHoldData
  <2> QED BY <2>1, <2>2, <2>3, <2>4, <2>5, <2>6, <2>7
<1>7. ASSUME NEW c \in Calls, PendTooLate(c) PROVE Inv'
  <2>1. TypeOK' /\ PendingHasRunner' /\ StartsInThePast'
        /\ IdleOwnsNothing' /\ ReplayedIsOver'
        BY <1>7 DEF PendTooLate, Popped, Raises, Returns, history,
          PendingHasRunner, StartsInThePast, IdleOwnsNothing,
          ReplayedIsOver, Times, FutStates, Results, Outcomes
  <2>2. EntriesKeepTheirKey'
        BY <1>7 DEF PendTooLate, Popped, Raises, Returns, history,
          EntriesKeepTheirKey
  <2>3. WaitersKeepTheirKey'
        BY <1>7 DEF PendTooLate, Popped, Raises, Returns, history,
          WaitersKeepTheirKey
  <2>4. RunnersHoldTheirKey'
        BY <1>7 DEF PendTooLate, Popped, Raises, Returns, history,
          RunnersHoldTheirKey
  <2>5. EntriesHoldData'
        BY <1>7 DEF PendTooLate, Popped, Raises, Returns, history,
          EntriesHoldData
  <2>6. WritesAreStamped'
        BY <1>7 DEF PendTooLate, Popped, Raises, Returns, history,
          WritesAreStamped
  <2>7. OnlyDataIsReplayed'
        BY <1>7 DEF PendTooLate, Popped, Raises, Returns, history,
          OnlyDataIsReplayed, ReplayedIsOver, EntriesHoldData
  <2> QED BY <2>1, <2>2, <2>3, <2>4, <2>5, <2>6, <2>7
<1>8. ASSUME NEW c \in Calls, Fail(c) PROVE Inv'
  <2>1. TypeOK' /\ PendingHasRunner' /\ StartsInThePast'
        /\ IdleOwnsNothing' /\ ReplayedIsOver'
        BY <1>8 DEF Fail, Popped, Returns, history,
          PendingHasRunner, StartsInThePast, IdleOwnsNothing,
          ReplayedIsOver, Times, FutStates, Results, Outcomes
  <2>2. EntriesKeepTheirKey'
        BY <1>8 DEF Fail, Popped, Returns, history,
          EntriesKeepTheirKey
  <2>3. WaitersKeepTheirKey'
        BY <1>8 DEF Fail, Popped, Returns, history,
          WaitersKeepTheirKey
  <2>4. RunnersHoldTheirKey'
        BY <1>8 DEF Fail, Popped, Returns, history,
          RunnersHoldTheirKey
  <2>5. EntriesHoldData'
        BY <1>8 DEF Fail, Popped, Returns, history, EntriesHoldData,
          EntriesKeepTheirKey, WaitersKeepTheirKey,
          RunnersHoldTheirKey
  <2>6. WritesAreStamped'
        BY <1>8 DEF Fail, Popped, Returns, history, WritesAreStamped
  <2>7. OnlyDataIsReplayed'
        BY <1>8 DEF Fail, Popped, Returns, history,
          OnlyDataIsReplayed, ReplayedIsOver, EntriesHoldData
  <2> QED BY <2>1, <2>2, <2>3, <2>4, <2>5, <2>6, <2>7
<1>9. ASSUME NEW c \in Calls, CancelOwner(c) PROVE Inv'
  <2>1. TypeOK' /\ PendingHasRunner' /\ StartsInThePast'
        /\ IdleOwnsNothing' /\ ReplayedIsOver'
        BY <1>9 DEF CancelOwner, Popped, Returns, history,
          PendingHasRunner, StartsInThePast, IdleOwnsNothing,
          ReplayedIsOver, Times, FutStates, Results, Outcomes
  <2>2. EntriesKeepTheirKey'
        BY <1>9 DEF CancelOwner, Popped, Returns, history,
          EntriesKeepTheirKey
  <2>3. WaitersKeepTheirKey'
        BY <1>9 DEF CancelOwner, Popped, Returns, history,
          WaitersKeepTheirKey
  <2>4. RunnersHoldTheirKey'
        BY <1>9 DEF CancelOwner, Popped, Returns, history,
          RunnersHoldTheirKey
  <2>5. EntriesHoldData'
        BY <1>9 DEF CancelOwner, Popped, Returns, history,
          EntriesHoldData, EntriesKeepTheirKey, WaitersKeepTheirKey,
          RunnersHoldTheirKey
  <2>6. WritesAreStamped'
        BY <1>9 DEF CancelOwner, Popped, Returns, history,
          PrincipalOfKey, Times, WritesAreStamped, StartsInThePast,
          RunnersHoldTheirKey, WaitersKeepTheirKey, IdleOwnsNothing
  <2>7. OnlyDataIsReplayed'
        BY <1>9 DEF CancelOwner, Popped, Returns, history,
          OnlyDataIsReplayed, ReplayedIsOver, EntriesHoldData
  <2> QED BY <2>1, <2>2, <2>3, <2>4, <2>5, <2>6, <2>7
<1>10. ASSUME NEW c \in Calls, Wake(c) PROVE Inv'
  <2>1. TypeOK' /\ PendingHasRunner' /\ StartsInThePast'
        /\ IdleOwnsNothing' /\ ReplayedIsOver'
        BY <1>10 DEF Wake, Done, Returns, history, PendingHasRunner,
          StartsInThePast, IdleOwnsNothing, ReplayedIsOver, Times,
          FutStates, Results, Outcomes, RunnersHoldTheirKey,
          WaitersKeepTheirKey
  <2>2. EntriesKeepTheirKey'
        BY <1>10 DEF Wake, Done, Returns, history,
          EntriesKeepTheirKey
  <2>3. WaitersKeepTheirKey'
        BY <1>10 DEF Wake, Done, Returns, history,
          WaitersKeepTheirKey
  <2>4. RunnersHoldTheirKey'
        BY <1>10 DEF Wake, Done, Returns, history,
          RunnersHoldTheirKey
  <2>5. EntriesHoldData'
        BY <1>10 DEF Wake, Done, Returns, history, EntriesHoldData
  <2>6. WritesAreStamped'
        BY <1>10 DEF Wake, Done, Returns, history, WritesAreStamped
  <2>7. OnlyDataIsReplayed'
        BY <1>10 DEF Wake, Done, Returns, history,
          OnlyDataIsReplayed, ReplayedIsOver, EntriesHoldData
  <2> QED BY <2>1, <2>2, <2>3, <2>4, <2>5, <2>6, <2>7
<1>11. ASSUME NEW c \in Calls, CancelWaiter(c) PROVE Inv'
  <2>1. TypeOK' /\ PendingHasRunner' /\ StartsInThePast'
        /\ IdleOwnsNothing' /\ ReplayedIsOver'
        BY <1>11 DEF CancelWaiter, Done, Returns, PendingHasRunner,
          StartsInThePast, IdleOwnsNothing, ReplayedIsOver, Times,
          FutStates, Results, Outcomes, RunnersHoldTheirKey,
          WaitersKeepTheirKey
  <2>2. EntriesKeepTheirKey'
        BY <1>11 DEF CancelWaiter, Done, Returns,
          EntriesKeepTheirKey
  <2>3. WaitersKeepTheirKey'
        BY <1>11 DEF CancelWaiter, Done, Returns,
          WaitersKeepTheirKey
  <2>4. RunnersHoldTheirKey'
        BY <1>11 DEF CancelWaiter, Done, Returns,
          RunnersHoldTheirKey, WaitersKeepTheirKey
  <2>5. EntriesHoldData'
        BY <1>11 DEF CancelWaiter, Done, Returns, EntriesHoldData,
          EntriesKeepTheirKey, WaitersKeepTheirKey,
          RunnersHoldTheirKey
  <2>6. WritesAreStamped'
        BY <1>11 DEF CancelWaiter, Done, Returns, PrincipalOfKey,
          Times, WritesAreStamped, StartsInThePast,
          RunnersHoldTheirKey, WaitersKeepTheirKey, IdleOwnsNothing
  <2>7. OnlyDataIsReplayed'
        BY <1>11 DEF CancelWaiter, Done, Returns,
          OnlyDataIsReplayed, ReplayedIsOver, EntriesHoldData
  <2> QED BY <2>1, <2>2, <2>3, <2>4, <2>5, <2>6, <2>7
<1>12. ASSUME Tick PROVE Inv'
  <2>1. TypeOK' /\ PendingHasRunner' /\ StartsInThePast'
        /\ IdleOwnsNothing' /\ ReplayedIsOver'
        BY <1>12 DEF Tick, history, PendingHasRunner,
          StartsInThePast, IdleOwnsNothing, ReplayedIsOver, Times,
          FutStates, Results, Outcomes
  <2>2. EntriesKeepTheirKey'
        BY <1>12 DEF Tick, history, EntriesKeepTheirKey
  <2>3. WaitersKeepTheirKey'
        BY <1>12 DEF Tick, history, WaitersKeepTheirKey
  <2>4. RunnersHoldTheirKey'
        BY <1>12 DEF Tick, history, RunnersHoldTheirKey
  <2>5. EntriesHoldData'
        BY <1>12 DEF Tick, history, EntriesHoldData
  <2>6. WritesAreStamped'
        BY <1>12 DEF Tick, history, WritesAreStamped
  <2>7. OnlyDataIsReplayed'
        BY <1>12 DEF Tick, history, OnlyDataIsReplayed
  <2> QED BY <2>1, <2>2, <2>3, <2>4, <2>5, <2>6, <2>7
<1>13. ASSUME NEW c \in Calls, Refuse(c) PROVE Inv'
  <2>1. TypeOK' /\ PendingHasRunner' /\ StartsInThePast'
        /\ IdleOwnsNothing' /\ ReplayedIsOver'
        BY <1>13 DEF Refuse, history, PendingHasRunner,
          StartsInThePast, IdleOwnsNothing, ReplayedIsOver, Times,
          FutStates, Results, Outcomes
  <2>2. EntriesKeepTheirKey'
        BY <1>13 DEF Refuse, history, EntriesKeepTheirKey
  <2>3. WaitersKeepTheirKey'
        BY <1>13 DEF Refuse, history, WaitersKeepTheirKey
  <2>4. RunnersHoldTheirKey'
        BY <1>13 DEF Refuse, history, RunnersHoldTheirKey
  <2>5. EntriesHoldData'
        BY <1>13 DEF Refuse, history, EntriesHoldData
  <2>6. WritesAreStamped'
        BY <1>13 DEF Refuse, history, WritesAreStamped
  <2>7. OnlyDataIsReplayed'
        BY <1>13 DEF Refuse, history, OnlyDataIsReplayed,
          ReplayedIsOver, EntriesHoldData
  <2> QED BY <2>1, <2>2, <2>3, <2>4, <2>5, <2>6, <2>7
<1>14. CASE UNCHANGED vars
  BY <1>14 DEF vars, history, PendingHasRunner, StartsInThePast,
    IdleOwnsNothing, ReplayedIsOver, EntriesKeepTheirKey,
    WaitersKeepTheirKey, RunnersHoldTheirKey, EntriesHoldData,
    WritesAreStamped, OnlyDataIsReplayed
<1>15. ASSUME NEW c \in Calls, Settle(c) PROVE Inv'
  BY <1>4, <1>5, <1>6, <1>7, <1>8, <1>15 DEF Settle
<1>16. ASSUME NEW c \in Calls, Arrive(c) PROVE Inv'
  BY <1>1, <1>2, <1>3, <1>13, <1>16 DEF Arrive
<1> QED BY <1>9, <1>10, <1>11, <1>12, <1>14, <1>15, <1>16 DEF Next

\* The inductive invariant holds of every reachable state.
LEMMA InvHolds == Spec => []Inv
<1>1. Init => Inv
  BY DispatchAssumption
     DEF Init, Inv, TypeOK, Keys, Times, FutStates, Results, PendingHasRunner,
         EntriesKeepTheirKey, WaitersKeepTheirKey, RunnersHoldTheirKey,
         EntriesHoldData, WritesAreStamped, StartsInThePast, ReplayedIsOver,
         IdleOwnsNothing, OnlyDataIsReplayed
<1>2. Inv /\ [Next]_vars => Inv'
  BY StepKeepsInv
<1> QED BY <1>1, <1>2, PTL DEF Spec

\* Type correctness of the dispatcher's tables and futures.
THEOREM DispatchTyped == Spec => []TypeOK
<1>1. Inv => TypeOK
  BY DEF Inv
<1> QED BY <1>1, InvHolds, PTL

\* No way out of call() leaves a future pending behind a task that is over.
THEOREM NoFutureIsOrphaned == Spec => []PendingHasRunner
<1>1. Inv => PendingHasRunner
  BY DEF Inv
<1> QED BY <1>1, InvHolds, PTL

\* Retries alone never run a call twice at once: two runners of an untorn key
\* would both own its one entry.
THEOREM RetriesRunOnce == Spec => []OneRunnerPerKey
<1>1. Inv => OneRunnerPerKey
  BY DEF Inv, RunnersHoldTheirKey, OneRunnerPerKey
<1> QED BY <1>1, InvHolds, PTL

\* A pending blob, a failure or a download token never reaches a later call.
THEOREM NothingElseIsReplayed == Spec => []OnlyDataIsReplayed
<1>1. Inv => OnlyDataIsReplayed
  BY DEF Inv
<1> QED BY <1>1, InvHolds, PTL

\* A read from the cache is as young as the last write its principal had
\* answered: the tie on the clock is why `recorded_at <= last write` is stale.
THEOREM CachedReadsAreCurrent == Spec => ReplayedReadIsCurrent
<1> DEFINE Current == \A c \in Calls :
        (c \in replayed' /\ c \notin replayed /\ key'[c][2] \in ReadTools)
        => sawWrites[joined'[c]] = answeredWrites[PrincipalOfKey(key'[c])]
<1>1. Inv /\ [Next]_vars => Current
  <2> SUFFICES ASSUME Inv, [Next]_vars, NEW c \in Calls,
                      c \in replayed', c \notin replayed, key'[c][2] \in ReadTools
               PROVE  sawWrites[joined'[c]] = answeredWrites[PrincipalOfKey(key'[c])]
    OBVIOUS
  <2>1. PICK k \in Keys : Replay(c, k)
    <3>1. \A d \in Calls : Settle(d) \/ CancelOwner(d) \/ Wake(d) \/ CancelWaiter(d)
                           => replayed' = replayed
      BY DEF Settle, Succeed, SettleTooLate, Pend, PendTooLate, Fail, CancelOwner,
             Wake, CancelWaiter, Raises, history
    <3>2. \A d \in Calls, k \in Keys : Own(d, k) \/ Join(d, k) => replayed' = replayed
      BY DEF Own, Join, history
    <3>3. Tick \/ UNCHANGED vars \/ (\E d \in Calls : Refuse(d)) => replayed' = replayed
      BY DEF Tick, Refuse, vars, history
    <3>4. \A d \in Calls, k \in Keys : Replay(d, k) => replayed' = replayed \cup {d}
      BY DEF Replay
    <3> QED BY <3>1, <3>2, <3>3, <3>4 DEF Next, Arrive
  <2> DEFINE owner == inflight[k]
             p == PrincipalOfKey(k)
  <2>2. owner # None /\ owner \in Calls /\ Done(owner) /\ ~ReadIsStale(k, owner)
        /\ Pruned[k] = owner
    BY <2>1, DispatchAssumption
       DEF Replay, Reusable, ReusableWhenDone, Pruned, Inv, TypeOK
  <2>3. joined'[c] = owner /\ key'[c] = k
    BY <2>1, <2>2 DEF Replay, Inv, TypeOK
  <2>4. key[owner] = k /\ fut[owner] # "none"
    BY <2>2 DEF Inv, EntriesKeepTheirKey, Done
  <2>5. sawWrites[owner] # answeredWrites[p] => startedAt[owner] <= lastWrite[p]
    BY <2>2, <2>4 DEF Inv, WritesAreStamped
  <2> QED BY <2>2, <2>3, <2>5 DEF ReadIsStale
<1> QED BY <1>1, InvHolds, PTL DEF Spec, ReplayedReadIsCurrent
=============================================================================
