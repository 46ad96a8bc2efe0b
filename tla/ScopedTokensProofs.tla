------------------------- MODULE ScopedTokensProofs -------------------------
(* What ScopedTokens promises, for any number of tokens and proposals.      *)
EXTENDS ScopedTokens, TLAPS

----------------------------------------------------------------------------
(* The inductive invariant.                                                 *)

\* What memory will say once nobody is writing.
Held == IF Unlocked THEN Refreshed ELSE known

Creating(t) == op.kind = "create" /\ t \in op.tokens

\* The writing operation, and what the file holds beside it.
LockInv ==
    /\ op = NoOp <=> op.phase = "free"
    /\ op.kind = "none" => op = NoOp
    /\ \A t \in op.tokens : /\ op.kind = "create" => request[t].stage = "asked"
                            /\ op.kind = "cleanup" => request[t].stage = "unwanted"
                            /\ op.kind = "revoke" => request[t].stage \notin {"new", "asked"}
                            /\ op.kind \in {"revoke", "cleanup"} => t \notin known
    /\ op.phase = "replaced" => stored \subseteq known
    /\ ~noticed => stored = {} \/ op.phase = "replaced"

\* A token that is yet to be made is nowhere; one that was taken back is not in memory.
FreshInv ==
    \A t \in ScopedIds :
        /\ request[t].stage = "new" => request[t].offer = None
        /\ request[t].stage \in {"new", "asked"} /\ ~Creating(t) => t \notin known \union stored \union cli \union revoked
        /\ request[t].stage = "failed" => t \notin Held

RevokedInv == \A t \in revoked \ crossed : t \notin stored /\ t \notin Held

\* A proposal's claimants: its confirmation under way, or the token it gave.
Pending(t) == request[t].stage \in {"asked", "made", "unwanted", "failed"}
ClaimedBy(t, p) == request[t].offer = p /\ (Pending(t) \/ t \in Held)
OfferInv ==
    \A p \in Offers :
        /\ offer[p].stage = "new" => \A t \in ScopedIds : request[t].offer # p
        /\ offer[p].stage = "open" => \A t \in ScopedIds : ~ClaimedBy(t, p)
        /\ \A s, t \in ScopedIds : ClaimedBy(s, p) /\ ClaimedBy(t, p) => s = t
        /\ \A s, t \in ScopedIds : request[s].offer = p /\ request[t].offer = p /\ {s, t} \subseteq stored => s = t

Inv == ScopedTypeOK /\ LockInv /\ FreshInv /\ RevokedInv /\ OfferInv

LEMMA InitInv ==
    ASSUME ScopedConstants, ScopedInit
    PROVE  Inv
BY DEF ScopedConstants, ScopedInit, Inv, ScopedTypeOK, LockInv, FreshInv, RevokedInv, OfferInv, Held, Unlocked, Refreshed,
       NoOp, Creating, Pending, ClaimedBy

----------------------------------------------------------------------------
(* Every step keeps each part of it.                                        *)

LEMMA StepKeepsType ==
    ASSUME ScopedConstants, Inv, ScopedNext
    PROVE  ScopedTypeOK'
<1> USE DEF Inv, ScopedTypeOK
<1>1. ASSUME NEW p \in Offers, Propose(p) PROVE ScopedTypeOK'
      BY <1>1 DEF Propose, memory
<1>2. ASSUME NEW p \in Offers, Decline(p) PROVE ScopedTypeOK'
      BY <1>2 DEF Decline, OfferIs, memory
<1>3. ASSUME NEW t \in ScopedIds, NEW p \in Offers, Accept(t, p) PROVE ScopedTypeOK'
      BY <1>3 DEF Accept, TakenOut, memory
<1>4. ASSUME NEW t \in ScopedIds, BeginCreate(t) PROVE ScopedTypeOK'
  <2>1. request' \in [ScopedIds -> [stage : {"new", "asked", "made", "unwanted", "failed", "closed"},
                                   offer : Offers \union {None}]]
        BY <1>4 DEF BeginCreate, RequestIs
  <2>2. op' \in [kind : {"none", "create", "rewrite", "revoke", "cleanup"}, tokens : SUBSET ScopedIds,
                phase : {"free", "begun", "replaced"}]
        BY <1>4 DEF BeginCreate, Begins
  <2> QED BY <1>4, <2>1, <2>2 DEF BeginCreate, MemoryIs, Refreshed, RefreshedIndex
<1>5. ASSUME NEW t \in ScopedIds, RefuseCreate(t) PROVE ScopedTypeOK'
      BY <1>5 DEF RefuseCreate, MemoryIs, RequestIs, Refreshed, RefreshedIndex
<1>6. ASSUME NEW t \in ScopedIds, Deliver(t) PROVE ScopedTypeOK'
      BY <1>6 DEF Deliver, RequestIs, memory
<1>7. ASSUME NEW t \in ScopedIds, DeliveryFails(t) PROVE ScopedTypeOK'
      BY <1>7 DEF DeliveryFails, RequestIs, memory
<1>8. ASSUME NEW t \in ScopedIds, CleanUp(t) PROVE ScopedTypeOK'
      BY <1>8 DEF CleanUp, BeginRevoke, MemoryIs, Begins, people, Refreshed, RefreshedIndex
<1>9. ASSUME NEW t \in ScopedIds, NothingToCleanUp(t) PROVE ScopedTypeOK'
      BY <1>9 DEF NothingToCleanUp, MemoryIs, RequestIs, Refreshed, RefreshedIndex
<1>10. ASSUME NEW t \in ScopedIds, AnswerFailure(t) PROVE ScopedTypeOK'
      BY <1>10 DEF AnswerFailure, RequestIs, OfferIs, memory
<1>11. ASSUME NEW gone, BeginRevoke("revoke", gone) PROVE ScopedTypeOK'
      BY <1>11 DEF BeginRevoke, MemoryIs, Begins, people, Refreshed, RefreshedIndex
<1>12. ASSUME BeginRewrite PROVE ScopedTypeOK'
      BY <1>12 DEF BeginRewrite, MemoryIs, Begins, people, Refreshed, RefreshedIndex
<1>13. ASSUME ReadTokens PROVE ScopedTypeOK'
      BY <1>13 DEF ReadTokens, MemoryIs, people, Refreshed, RefreshedIndex
<1>14. ASSUME Replace PROVE ScopedTypeOK'
  <2>1. op' \in [kind : {"none", "create", "rewrite", "revoke", "cleanup"}, tokens : SUBSET ScopedIds,
                phase : {"free", "begun", "replaced"}]
        BY <1>14 DEF Replace
  <2>2. {stored, known, index, cli, revoked, crossed}' \subseteq SUBSET ScopedIds
        BY <1>14 DEF Replace
  <2>3. noticed' = FALSE /\ UNCHANGED <<now, offer, request>>
        BY <1>14 DEF Replace, people
  <2> QED BY <2>1, <2>2, <2>3
<1>15. ASSUME ReplaceFails PROVE ScopedTypeOK'
      BY <1>15 DEF ReplaceFails, memory, NoOp
<1>16. ASSUME RecordStamp PROVE ScopedTypeOK'
      BY <1>16 DEF RecordStamp, Finished, ScopedConstants, memory, people, NoOp, Unlocked, Refreshed, RefreshedIndex
<1>17. ASSUME CliRead PROVE ScopedTypeOK'
      BY <1>17 DEF CliRead, memory, people
<1>18. ASSUME CliWrite PROVE ScopedTypeOK'
  <2>1. stored' = {} /\ noticed' = FALSE /\ cli' = {} /\ UNCHANGED <<now, known, index, op, offer, request>>
        BY <1>18 DEF CliWrite, people
  <2>2. revoked' \subseteq ScopedIds /\ crossed' \subseteq ScopedIds
        BY <1>18 DEF CliWrite
  <2>3. {stored, known, index, cli, revoked, crossed}' \subseteq SUBSET ScopedIds
        BY <2>1, <2>2
  <2> QED BY <2>1, <2>3
<1>19. ASSUME ScopedRestart PROVE ScopedTypeOK'
  <2>1. /\ known' = stored /\ index' = stored /\ noticed' = TRUE /\ op' = NoOp
        /\ UNCHANGED <<now, stored, cli, revoked, crossed>>
        BY <1>19 DEF ScopedRestart
  <2>2. offer' \in [Offers -> [stage : {"new", "open", "taken", "declined"}, since : 0 .. LastTick]]
        BY <1>19 DEF ScopedRestart
  <2>3. request' \in [ScopedIds -> [stage : {"new", "asked", "made", "unwanted", "failed", "closed"},
                                   offer : Offers \union {None}]]
        BY <1>19 DEF ScopedRestart
  <2> QED BY <2>1, <2>2, <2>3 DEF NoOp
<1>20. ASSUME ScopedTick PROVE ScopedTypeOK'
      BY <1>20 DEF ScopedTick, ScopedConstants, memory, people
<1> QED BY <1>1, <1>2, <1>3, <1>4, <1>5, <1>6, <1>7, <1>8, <1>9, <1>10, <1>11, <1>12, <1>13, <1>14, <1>15, <1>16, <1>17, <1>18, <1>19, <1>20 DEF ScopedNext

LEMMA StepKeepsLock ==
    ASSUME ScopedConstants, Inv, ScopedNext
    PROVE  LockInv'
<1> USE DEF Inv, ScopedTypeOK
<1>1. ASSUME NEW p \in Offers, Propose(p) PROVE LockInv'
      BY <1>1 DEF Propose, memory, LockInv
<1>2. ASSUME NEW p \in Offers, Decline(p) PROVE LockInv'
      BY <1>2 DEF Decline, memory, LockInv
<1>3. ASSUME NEW t \in ScopedIds, NEW p \in Offers, Accept(t, p) PROVE LockInv'
      BY <1>3 DEF Accept, memory, LockInv
<1>4. ASSUME NEW t \in ScopedIds, BeginCreate(t) PROVE LockInv'
      BY <1>4 DEF BeginCreate, MemoryIs, Begins, RequestIs, NoOp, LockInv
<1>5. ASSUME NEW t \in ScopedIds, RefuseCreate(t) PROVE LockInv'
      BY <1>5 DEF RefuseCreate, MemoryIs, NoOp, Unlocked, LockInv
<1>6. ASSUME NEW t \in ScopedIds, Deliver(t) PROVE LockInv'
      BY <1>6 DEF Deliver, RequestIs, memory, LockInv
<1>7. ASSUME NEW t \in ScopedIds, DeliveryFails(t) PROVE LockInv'
      BY <1>7 DEF DeliveryFails, RequestIs, memory, LockInv
<1>8. ASSUME NEW t \in ScopedIds, CleanUp(t) PROVE LockInv'
      BY <1>8 DEF CleanUp, BeginRevoke, MemoryIs, Begins, people, NoOp, LockInv
<1>9. ASSUME NEW t \in ScopedIds, NothingToCleanUp(t) PROVE LockInv'
      BY <1>9 DEF NothingToCleanUp, MemoryIs, NoOp, Unlocked, LockInv
<1>10. ASSUME NEW t \in ScopedIds, AnswerFailure(t) PROVE LockInv'
      BY <1>10 DEF AnswerFailure, RequestIs, memory, LockInv
<1>11. ASSUME NEW gone, BeginRevoke("revoke", gone) PROVE LockInv'
      BY <1>11 DEF BeginRevoke, MemoryIs, Begins, people, NoOp, Unlocked, Refreshed, LockInv, FreshInv, Creating
<1>12. ASSUME BeginRewrite PROVE LockInv'
      BY <1>12 DEF BeginRewrite, MemoryIs, Begins, NoOp, LockInv
<1>13. ASSUME ReadTokens PROVE LockInv'
      BY <1>13 DEF ReadTokens, MemoryIs, NoOp, Unlocked, LockInv
<1>14. ASSUME Replace PROVE LockInv'
      BY <1>14 DEF Replace, people, NoOp, LockInv
<1>15. ASSUME ReplaceFails PROVE LockInv'
      BY <1>15 DEF ReplaceFails, memory, NoOp, LockInv
<1>16. ASSUME RecordStamp PROVE LockInv'
      BY <1>16 DEF RecordStamp, NoOp, LockInv
<1>17. ASSUME CliRead PROVE LockInv'
      BY <1>17 DEF CliRead, memory, people, LockInv
<1>18. ASSUME CliWrite PROVE LockInv'
      BY <1>18 DEF CliWrite, people, LockInv
<1>19. ASSUME ScopedRestart PROVE LockInv'
      BY <1>19 DEF ScopedRestart, NoOp, LockInv
<1>20. ASSUME ScopedTick PROVE LockInv'
      BY <1>20 DEF ScopedTick, memory, people, LockInv
<1> QED BY <1>1, <1>2, <1>3, <1>4, <1>5, <1>6, <1>7, <1>8, <1>9, <1>10, <1>11, <1>12, <1>13, <1>14, <1>15, <1>16, <1>17, <1>18, <1>19, <1>20 DEF ScopedNext

LEMMA StepKeepsFresh ==
    ASSUME ScopedConstants, Inv, ScopedNext
    PROVE  FreshInv'
<1> USE DEF Inv, ScopedTypeOK
<1>1. ASSUME NEW p \in Offers, Propose(p) PROVE FreshInv'
      BY <1>1 DEF Propose, memory, Unlocked, Refreshed, FreshInv, Creating, Held
<1>2. ASSUME NEW p \in Offers, Decline(p) PROVE FreshInv'
      BY <1>2 DEF Decline, memory, Unlocked, Refreshed, FreshInv, Creating, Held
<1>3. ASSUME NEW t \in ScopedIds, NEW p \in Offers, Accept(t, p) PROVE FreshInv'
      BY <1>3 DEF Accept, memory, Unlocked, Refreshed, FreshInv, Creating, Held
<1>4. ASSUME NEW t \in ScopedIds, BeginCreate(t) PROVE FreshInv'
      BY <1>4 DEF BeginCreate, MemoryIs, Begins, RequestIs, NoOp, Unlocked, Refreshed, FreshInv, Creating, Held
<1>5. ASSUME NEW t \in ScopedIds, RefuseCreate(t) PROVE FreshInv'
      BY <1>5 DEF RefuseCreate, MemoryIs, RequestIs, NoOp, Unlocked, Refreshed, FreshInv, Creating, Held
<1>6. ASSUME NEW t \in ScopedIds, Deliver(t) PROVE FreshInv'
      BY <1>6 DEF Deliver, RequestIs, memory, Unlocked, Refreshed, FreshInv, Creating, Held
<1>7. ASSUME NEW t \in ScopedIds, DeliveryFails(t) PROVE FreshInv'
      BY <1>7 DEF DeliveryFails, RequestIs, memory, Unlocked, Refreshed, FreshInv, Creating, Held
<1>8. ASSUME NEW t \in ScopedIds, CleanUp(t) PROVE FreshInv'
      BY <1>8 DEF CleanUp, BeginRevoke, MemoryIs, people, NoOp, Unlocked, Refreshed, FreshInv, Creating, Held
<1>9. ASSUME NEW t \in ScopedIds, NothingToCleanUp(t) PROVE FreshInv'
      BY <1>9 DEF NothingToCleanUp, MemoryIs, RequestIs, Refreshed, FreshInv, Creating, Held
<1>10. ASSUME NEW t \in ScopedIds, AnswerFailure(t) PROVE FreshInv'
      BY <1>10 DEF AnswerFailure, RequestIs, memory, Unlocked, Refreshed, FreshInv, Creating, Held
<1>11. ASSUME NEW gone, BeginRevoke("revoke", gone) PROVE FreshInv'
      BY <1>11 DEF BeginRevoke, MemoryIs, people, NoOp, Unlocked, Refreshed, FreshInv, Creating, Held
<1>12. ASSUME BeginRewrite PROVE FreshInv'
      BY <1>12 DEF BeginRewrite, MemoryIs, people, NoOp, Unlocked, Refreshed, FreshInv, Creating, Held
<1>13. ASSUME ReadTokens PROVE FreshInv'
      BY <1>13 DEF ReadTokens, MemoryIs, people, Refreshed, FreshInv, Creating, Held
<1>14. ASSUME Replace PROVE FreshInv'
      BY <1>14 DEF Replace, people, NoOp, Unlocked, FreshInv, Creating, Held
<1>15. ASSUME ReplaceFails PROVE FreshInv'
      BY <1>15 DEF ReplaceFails, memory, Unlocked, Refreshed, LockInv, FreshInv, Creating, Held
<1>16. ASSUME RecordStamp PROVE FreshInv'
  <2> SUFFICES ASSUME NEW t \in ScopedIds
               PROVE  /\ request'[t].stage = "new" => request'[t].offer = None
                      /\ request'[t].stage \in {"new", "asked"} => t \notin (known \union stored \union cli \union revoked)'
                      /\ request'[t].stage = "failed" => t \notin known'
      BY <1>16 DEF RecordStamp, FreshInv, Held, Refreshed
  <2>1. request'[t] = IF t \in op.tokens THEN [request[t] EXCEPT !.stage = Finished(t)] ELSE request[t]
        BY <1>16 DEF RecordStamp
  <2>2. op # NoOp /\ UNCHANGED <<known, stored, cli>>
        BY <1>16 DEF RecordStamp, NoOp
  <2>3. CASE t \in op.tokens
    <3>1. request'[t].stage = Finished(t) /\ request'[t].offer = request[t].offer
          BY <2>1, <2>3
    <3>2. op.kind = "create" => request'[t].stage = "made"
          BY <3>1 DEF Finished
    <3>3. op.kind = "cleanup" => request'[t].stage = "failed" /\ t \notin known
          BY <2>3, <3>1 DEF Finished, LockInv
    <3>4. op.kind = "revoke" => request'[t].stage = request[t].stage /\ t \notin known
          BY <2>3, <3>1 DEF Finished, LockInv
    <3>5. op.kind \notin {"create", "cleanup", "revoke"} => request'[t].stage = request[t].stage /\ revoked' = revoked
          BY <1>16, <2>3, <3>1 DEF Finished, RecordStamp
    <3>6. request[t].stage = "new" => request[t].offer = None
          BY DEF FreshInv
    <3>7. op.kind \in {"none", "create", "rewrite", "revoke", "cleanup"}
          OBVIOUS
    <3>8. CASE op.kind \in {"create", "cleanup"}
          BY <2>2, <3>1, <3>2, <3>3, <3>8
    <3>9. CASE op.kind = "revoke"
      <4>1. request[t].stage \notin {"new", "asked"}
            BY <2>3, <3>9 DEF LockInv
      <4> QED BY <3>4, <3>9, <4>1, <2>2
    <3>10. CASE op.kind \notin {"create", "cleanup", "revoke"}
           BY <2>2, <3>1, <3>5, <3>10 DEF FreshInv, Creating, Held, Unlocked
    <3> QED BY <3>8, <3>9, <3>10
  <2> QED BY <1>16, <2>1, <2>2, <2>3 DEF RecordStamp, FreshInv, Creating, Held, Unlocked
<1>17. ASSUME CliRead PROVE FreshInv'
      BY <1>17 DEF CliRead, memory, people, Unlocked, Refreshed, FreshInv, Creating, Held
<1>18. ASSUME CliWrite PROVE FreshInv'
      BY <1>18 DEF CliWrite, people, Unlocked, Refreshed, FreshInv, Creating, Held
<1>19. ASSUME ScopedRestart PROVE FreshInv'
      BY <1>19 DEF ScopedRestart, LockInv, FreshInv, Creating
<1>20. ASSUME ScopedTick PROVE FreshInv'
      BY <1>20 DEF ScopedTick, memory, people, Unlocked, Refreshed, FreshInv, Creating, Held
<1> QED BY <1>1, <1>2, <1>3, <1>4, <1>5, <1>6, <1>7, <1>8, <1>9, <1>10, <1>11, <1>12, <1>13, <1>14, <1>15, <1>16, <1>17, <1>18, <1>19, <1>20 DEF ScopedNext

LEMMA StepKeepsRevoked ==
    ASSUME ScopedConstants, Inv, ScopedNext
    PROVE  RevokedInv'
<1> USE DEF Inv, ScopedTypeOK
<1>1. ASSUME NEW p \in Offers, Propose(p) PROVE RevokedInv'
      BY <1>1 DEF Propose, memory, Unlocked, Refreshed, Held, RevokedInv
<1>2. ASSUME NEW p \in Offers, Decline(p) PROVE RevokedInv'
      BY <1>2 DEF Decline, memory, Unlocked, Refreshed, Held, RevokedInv
<1>3. ASSUME NEW t \in ScopedIds, NEW p \in Offers, Accept(t, p) PROVE RevokedInv'
      BY <1>3 DEF Accept, memory, Unlocked, Refreshed, Held, RevokedInv
<1>4. ASSUME NEW t \in ScopedIds, BeginCreate(t) PROVE RevokedInv'
      BY <1>4 DEF BeginCreate, MemoryIs, Begins, NoOp, Unlocked, FreshInv, Creating, Held, RevokedInv
<1>5. ASSUME NEW t \in ScopedIds, RefuseCreate(t) PROVE RevokedInv'
      BY <1>5 DEF RefuseCreate, MemoryIs, Refreshed, Held, RevokedInv
<1>6. ASSUME NEW t \in ScopedIds, Deliver(t) PROVE RevokedInv'
      BY <1>6 DEF Deliver, memory, Unlocked, Refreshed, Held, RevokedInv
<1>7. ASSUME NEW t \in ScopedIds, DeliveryFails(t) PROVE RevokedInv'
      BY <1>7 DEF DeliveryFails, memory, Unlocked, Refreshed, Held, RevokedInv
<1>8. ASSUME NEW t \in ScopedIds, CleanUp(t) PROVE RevokedInv'
      BY <1>8 DEF CleanUp, BeginRevoke, MemoryIs, Begins, NoOp, Unlocked, Held, RevokedInv
<1>9. ASSUME NEW t \in ScopedIds, NothingToCleanUp(t) PROVE RevokedInv'
      BY <1>9 DEF NothingToCleanUp, MemoryIs, Refreshed, Held, RevokedInv
<1>10. ASSUME NEW t \in ScopedIds, AnswerFailure(t) PROVE RevokedInv'
      BY <1>10 DEF AnswerFailure, memory, Unlocked, Refreshed, Held, RevokedInv
<1>11. ASSUME NEW gone, BeginRevoke("revoke", gone) PROVE RevokedInv'
      BY <1>11 DEF BeginRevoke, MemoryIs, Begins, NoOp, Unlocked, Held, RevokedInv
<1>12. ASSUME BeginRewrite PROVE RevokedInv'
      BY <1>12 DEF BeginRewrite, MemoryIs, Begins, NoOp, Unlocked, Held, RevokedInv
<1>13. ASSUME ReadTokens PROVE RevokedInv'
      BY <1>13 DEF ReadTokens, MemoryIs, Refreshed, Held, RevokedInv
<1>14. ASSUME Replace PROVE RevokedInv'
      BY <1>14 DEF Replace, NoOp, Unlocked, Held, RevokedInv
<1>15. ASSUME ReplaceFails PROVE RevokedInv'
      BY <1>15 DEF ReplaceFails, memory, Unlocked, Refreshed, Held, RevokedInv
<1>16. ASSUME RecordStamp PROVE RevokedInv'
      BY <1>16 DEF RecordStamp, Unlocked, Refreshed, LockInv, Held, RevokedInv
<1>17. ASSUME CliRead PROVE RevokedInv'
      BY <1>17 DEF CliRead, memory, Unlocked, Refreshed, Held, RevokedInv
<1>18. ASSUME CliWrite PROVE RevokedInv'
      BY <1>18 DEF CliWrite, Unlocked, Refreshed, Held, RevokedInv
<1>19. ASSUME ScopedRestart PROVE RevokedInv'
      BY <1>19 DEF ScopedRestart, Refreshed, Held, RevokedInv
<1>20. ASSUME ScopedTick PROVE RevokedInv'
      BY <1>20 DEF ScopedTick, memory, Unlocked, Refreshed, Held, RevokedInv
<1> QED BY <1>1, <1>2, <1>3, <1>4, <1>5, <1>6, <1>7, <1>8, <1>9, <1>10, <1>11, <1>12, <1>13, <1>14, <1>15, <1>16, <1>17, <1>18, <1>19, <1>20 DEF ScopedNext

LEMMA StepKeepsOffers ==
    ASSUME ScopedConstants, Inv, ScopedNext
    PROVE  OfferInv'
<1> USE DEF Inv, ScopedTypeOK
<1>1. ASSUME NEW p \in Offers, Propose(p) PROVE OfferInv'
      BY <1>1 DEF Propose, memory, Unlocked, Refreshed, Held, OfferInv, ClaimedBy, Pending
<1>2. ASSUME NEW p \in Offers, Decline(p) PROVE OfferInv'
      BY <1>2 DEF Decline, OfferIs, memory, Unlocked, Refreshed, Held, OfferInv, ClaimedBy, Pending
<1>3. ASSUME NEW t \in ScopedIds, NEW p \in Offers, Accept(t, p) PROVE OfferInv'
      BY <1>3 DEF Accept, TakenOut, OpenOffers, memory, Unlocked, Refreshed, LockInv, FreshInv, Creating, Held, OfferInv, ClaimedBy, Pending
<1>4. ASSUME NEW t \in ScopedIds, BeginCreate(t) PROVE OfferInv'
      BY <1>4 DEF BeginCreate, MemoryIs, Begins, RequestIs, NoOp, Unlocked, FreshInv, Held, OfferInv, ClaimedBy, Pending, ScopedConstants
<1>5. ASSUME NEW t \in ScopedIds, RefuseCreate(t) PROVE OfferInv'
      BY <1>5 DEF RefuseCreate, MemoryIs, RequestIs, Refreshed, Held, OfferInv, ClaimedBy, Pending
<1>6. ASSUME NEW t \in ScopedIds, Deliver(t) PROVE OfferInv'
      BY <1>6 DEF Deliver, RequestIs, memory, Unlocked, Refreshed, Held, OfferInv, ClaimedBy, Pending
<1>7. ASSUME NEW t \in ScopedIds, DeliveryFails(t) PROVE OfferInv'
      BY <1>7 DEF DeliveryFails, RequestIs, memory, Unlocked, Refreshed, Held, OfferInv, ClaimedBy, Pending
<1>8. ASSUME NEW t \in ScopedIds, CleanUp(t) PROVE OfferInv'
      BY <1>8 DEF CleanUp, BeginRevoke, MemoryIs, Begins, people, NoOp, Unlocked, Held, OfferInv, ClaimedBy, Pending
<1>9. ASSUME NEW t \in ScopedIds, NothingToCleanUp(t) PROVE OfferInv'
      BY <1>9 DEF NothingToCleanUp, MemoryIs, RequestIs, Refreshed, Held, OfferInv, ClaimedBy, Pending
<1>10. ASSUME NEW t \in ScopedIds, AnswerFailure(t) PROVE OfferInv'
      BY <1>10 DEF AnswerFailure, RequestIs, OfferIs, memory, Unlocked, Refreshed, FreshInv, Held, OfferInv, ClaimedBy, Pending
<1>11. ASSUME NEW gone, BeginRevoke("revoke", gone) PROVE OfferInv'
      BY <1>11 DEF BeginRevoke, MemoryIs, Begins, people, NoOp, Unlocked, Held, OfferInv, ClaimedBy, Pending
<1>12. ASSUME BeginRewrite PROVE OfferInv'
      BY <1>12 DEF BeginRewrite, MemoryIs, Begins, people, NoOp, Unlocked, Held, OfferInv, ClaimedBy, Pending
<1>13. ASSUME ReadTokens PROVE OfferInv'
      BY <1>13 DEF ReadTokens, MemoryIs, people, Refreshed, Held, OfferInv, ClaimedBy, Pending
<1>14. ASSUME Replace PROVE OfferInv'
      BY <1>14 DEF Replace, people, NoOp, Unlocked, Held, OfferInv, ClaimedBy, Pending
<1>15. ASSUME ReplaceFails PROVE OfferInv'
      BY <1>15 DEF ReplaceFails, memory, Unlocked, Refreshed, LockInv, Held, OfferInv, ClaimedBy, Pending
<1>16. ASSUME RecordStamp PROVE OfferInv'
      BY <1>16 DEF RecordStamp, Finished, Unlocked, Refreshed, LockInv, Held, OfferInv, ClaimedBy, Pending
<1>17. ASSUME CliRead PROVE OfferInv'
      BY <1>17 DEF CliRead, memory, people, Unlocked, Refreshed, Held, OfferInv, ClaimedBy, Pending
<1>18. ASSUME CliWrite PROVE OfferInv'
      BY <1>18 DEF CliWrite, people, Unlocked, Refreshed, Held, OfferInv, ClaimedBy, Pending
<1>19. ASSUME ScopedRestart PROVE OfferInv'
      BY <1>19 DEF ScopedRestart, Unlocked, Refreshed, Held, OfferInv, ClaimedBy, Pending
<1>20. ASSUME ScopedTick PROVE OfferInv'
      BY <1>20 DEF ScopedTick, memory, people, Unlocked, Refreshed, Held, OfferInv, ClaimedBy, Pending
<1> QED BY <1>1, <1>2, <1>3, <1>4, <1>5, <1>6, <1>7, <1>8, <1>9, <1>10, <1>11, <1>12, <1>13, <1>14, <1>15, <1>16, <1>17, <1>18, <1>19, <1>20 DEF ScopedNext

LEMMA StutterKeepsInv ==
    ASSUME Inv, UNCHANGED scopedVars
    PROVE  Inv'
BY DEF Inv, ScopedTypeOK, LockInv, FreshInv, RevokedInv, OfferInv, Held, Unlocked, Refreshed, Creating, Pending, ClaimedBy,
       scopedVars

LEMMA InvHolds == ScopedSpec => []Inv
<1>1. ScopedInit => Inv
      BY ScopedAssumption, InitInv
<1>2. Inv /\ [ScopedNext]_scopedVars => Inv'
  <2> SUFFICES ASSUME Inv, [ScopedNext]_scopedVars PROVE Inv'
      OBVIOUS
  <2>1. CASE ScopedNext
        BY <2>1, ScopedAssumption, StepKeepsType, StepKeepsLock, StepKeepsFresh, StepKeepsRevoked, StepKeepsOffers DEF Inv
  <2>2. CASE UNCHANGED scopedVars
        BY <2>2, StutterKeepsInv
  <2> QED BY <2>1, <2>2
<1> QED BY <1>1, <1>2, PTL DEF ScopedSpec

----------------------------------------------------------------------------
(* The theorems.                                                            *)

\* Every variable keeps its type.
THEOREM ScopedTyped == ScopedSpec => []ScopedTypeOK
<1>1. Inv => ScopedTypeOK
      BY DEF Inv
<1> QED BY <1>1, InvHolds, PTL

\* However the store's operations, the command line, failed writes and restarts fall, a revocation
\* that was reported holds, for calls that present the token and for calls verified before.
THEOREM RevokedStayOut == ScopedSpec => []RevokedIsRefused
<1>1. Inv => RevokedIsRefused
      BY DEF Inv, RevokedInv, RevokedIsRefused, Held, Found, HasScope
<1> QED BY <1>1, InvHolds, PTL

\* A proposal gives one token, however many confirm it at once, whatever becomes of the secret's
\* delivery and of the write that takes the token back.
THEOREM ProposalsGiveOneToken == ScopedSpec => []ProposalGivesOneToken
<1>1. Inv => ProposalGivesOneToken
  <2> SUFFICES ASSUME Inv PROVE ProposalGivesOneToken
      OBVIOUS
  <2>1. Refreshed \subseteq Held
        BY DEF Inv, LockInv, Held, Unlocked, Refreshed, ScopedTypeOK, NoOp
  <2>2. \A t \in ScopedIds, p \in Offers : request[t].offer = p /\ Found(t) => ClaimedBy(t, p)
        BY <2>1 DEF Found, ClaimedBy
  <2> QED BY <2>2 DEF Inv, OfferInv, ProposalGivesOneToken
<1> QED BY <1>1, InvHolds, PTL
=============================================================================
