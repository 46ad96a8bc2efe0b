------------------------- MODULE OAuthTokensProofs -------------------------
(* What OAuthTokens promises, for any number of clients, people, sign-ins   *)
(* and tokens, any lifetimes and any failure of the store's writes.         *)
EXTENDS OAuthTokens, TLAPS


----------------------------------------------------------------------------
(* The inductive invariant.                                                 *)

\* A sign-in that reached its consent page has a person, and a code their consent.
FlowsKnow ==
    \A f \in Flows :
        /\ flow[f].stage # "new" => flow[f].client \in Clients
        /\ flow[f].stage \in {"consent", "code"} => flow[f].principal \in Principals
        /\ flow[f].stage = "code" => <<flow[f].principal, flow[f].client>> \in consents

\* A grant, minted or about to be, is of a spent code, from the moment that was exchanged,
\* and its client was seen since then unless its chain is over.
Rested(g) ==
    /\ g.chain \in Flows /\ g.client \in Clients /\ g.principal \in Principals /\ g.issued \in 1 .. now
    /\ flow[g.chain].stage = "spent" /\ flow[g.chain].since = g.issued
    /\ <<g.principal, g.client>> \in consents
    /\ g.issued + ChainTTL <= now \/ g.issued <= clients[g.client]

PairsKnow ==
    \A t \in Tokens :
        /\ Minted(t) => Rested(tok[t]) /\ tok[t].expires <= tok[t].issued + ChainTTL + AccessTTL
        /\ ~Minted(t) => tok[t].principal = None
MintingKnows == minting # None => Rested(minting) /\ now <= minting.issued + ChainTTL

\* The stores hold minted pairs, one of each chain, and none of the chain being minted for.
Stored == refresh \union sealed
StoresAreMinted == \A t \in Stored \union disk \union ended : Minted(t)
OneEach(S) == \A t, u \in S : tok[t].chain = tok[u].chain => t = u
ChainsAreSingle ==
    /\ OneEach(Stored) /\ OneEach(disk)
    /\ minting # None => \A t \in Stored : tok[t].chain # minting.chain

\* What ended left memory and the store; the file has more than the store only when its last
\* write failed, or for chains that are over.
EndedIsGone ==
    /\ \A t \in ended : t \in Stored => t \in revived
    /\ \A t \in disk \ sealed : unsaved \/ ChainLapsed(t)

\* What memory accepts was sealed, and what is sealed was written.
SealedIsKept ==
    /\ refresh \subseteq sealed \union evicted
    /\ ~unsaved => sealed \subseteq disk

StoreInv == StoresAreMinted /\ ChainsAreSingle /\ EndedIsGone /\ SealedIsKept
Inv == OAuthTypeOK /\ FlowsKnow /\ PairsKnow /\ MintingKnows /\ StoreInv

----------------------------------------------------------------------------
(* Steps that leave the tokens alone.                                       *)

\* What the clients' and the sign-ins' actions do, seen from the pairs.
ClientsMoveOn ==
    /\ clients' \in [Clients -> 0 .. LastTick]
    /\ \A c \in Clients : \/ clients'[c] = clients[c] \/ clients'[c] = now
                          \/ clients'[c] = 0 /\ Outlived(clients[c], StaleClientTTL)
FlowRecords == [stage : Stages, client : Clients \union {None}, principal : Principals \union {None},
                since : 0 .. LastTick]
FlowsMoveOn ==
    /\ flow' \in [Flows -> FlowRecords]
    /\ \A f \in Flows : flow[f].stage = "spent" => flow'[f] = flow[f]

LEMMA PrunedIsTyped ==
    ASSUME OAuthConstants, OAuthTypeOK
    PROVE  /\ PrunedClients \in [Clients -> 0 .. LastTick]
           /\ PrunedFlows \in [Flows -> FlowRecords]
           /\ \A f \in Flows : \/ PrunedFlows[f] = flow[f]
                               \/ PrunedFlows[f] = [flow[f] EXCEPT !.stage = "gone"] /\ flow[f].stage \in {"parked", "consent"}
<1>1. PrunedClients \in [Clients -> 0 .. LastTick]
      BY DEF PrunedClients, OAuthTypeOK, OAuthConstants
<1>2. \A f \in Flows : flow[f] \in FlowRecords
      BY DEF OAuthTypeOK, FlowRecords
<1>3. \A f \in Flows : \/ PrunedFlows[f] = flow[f]
                       \/ PrunedFlows[f] = [flow[f] EXCEPT !.stage = "gone"] /\ flow[f].stage \in {"parked", "consent"}
      BY DEF PrunedFlows, Unpruned
<1>4. \A f \in Flows : PrunedFlows[f] \in FlowRecords
  <2> SUFFICES ASSUME NEW f \in Flows PROVE PrunedFlows[f] \in FlowRecords
      OBVIOUS
  <2>1. "gone" \in Stages /\ flow[f] \in FlowRecords
        BY <1>2 DEF Stages
  <2>2. [flow[f] EXCEPT !.stage = "gone"] \in FlowRecords
        BY <2>1 DEF FlowRecords
  <2> QED BY <2>1, <2>2, <1>3
<1> QED BY <1>1, <1>3, <1>4 DEF PrunedFlows

\* A grant rests on what it rested on before, while time stands still.
LEMMA RestsOn ==
    ASSUME OAuthConstants, OAuthTypeOK, ClientsMoveOn, FlowsMoveOn, consents \subseteq consents', now' = now,
           NEW g, Rested(g)
    PROVE  /\ g.chain \in Flows /\ g.client \in Clients /\ g.principal \in Principals /\ g.issued \in 1 .. now
           /\ flow'[g.chain].stage = "spent" /\ flow'[g.chain].since = g.issued
           /\ <<g.principal, g.client>> \in consents'
           /\ g.issued + ChainTTL <= now' \/ g.issued <= clients'[g.client]
<1>1. /\ g.chain \in Flows /\ g.client \in Clients /\ g.principal \in Principals /\ g.issued \in 1 .. now
      /\ flow'[g.chain].stage = "spent" /\ flow'[g.chain].since = g.issued
      /\ <<g.principal, g.client>> \in consents'
      BY DEF Rested, FlowsMoveOn
<1>2. g.issued + ChainTTL <= now \/ g.issued <= clients[g.client]
      BY DEF Rested
<1>3. clients[g.client] \in Nat /\ clients'[g.client] \in Nat /\ now \in Nat /\ now >= 1 /\ LastTick \in Nat
      BY <1>1 DEF OAuthTypeOK, ClientsMoveOn, OAuthConstants
<1>4. g.issued + ChainTTL <= now' \/ g.issued <= clients'[g.client]
  <2>1. CASE clients'[g.client] = clients[g.client]
        BY <1>2, <2>1
  <2>2. CASE clients'[g.client] = 0 /\ now - clients[g.client] > StaleClientTTL
        BY <1>1, <1>2, <1>3, <2>2 DEF OAuthConstants
  <2>3. CASE clients'[g.client] = now
        BY <1>1, <2>3, <1>3
  <2> QED BY <1>1, <2>1, <2>2, <2>3 DEF ClientsMoveOn, Outlived
<1> QED BY <1>1, <1>4

\* One sign-in moves to a stage that its client, person and consent allow.
LEMMA OneFlowMoves ==
    ASSUME OAuthConstants, OAuthTypeOK, FlowsKnow, consents \subseteq consents',
           NEW f \in Flows, flow[f].stage # "spent",
           NEW g, g \in FlowRecords, flow' = [flow EXCEPT ![f] = g],
           g.stage # "new" => g.client \in Clients,
           g.stage \in {"consent", "code"} => g.principal \in Principals,
           g.stage = "code" => <<g.principal, g.client>> \in consents'
    PROVE  FlowsMoveOn /\ FlowsKnow'
<1>1. \A e \in Flows : flow'[e] = IF e = f THEN g ELSE flow[e]
      BY DEF OAuthTypeOK
<1>2. flow' \in [Flows -> FlowRecords]
      BY DEF OAuthTypeOK, FlowRecords
<1>3. FlowsMoveOn
      BY <1>1, <1>2 DEF FlowsMoveOn
<1>4. FlowsKnow'
      BY <1>1 DEF FlowsKnow
<1> QED BY <1>3, <1>4

LEMMA SignInMoves ==
    ASSUME OAuthConstants, OAuthTypeOK, FlowsKnow, SignIn
    PROVE  /\ ClientsMoveOn /\ FlowsMoveOn /\ FlowsKnow'
           /\ consents \subseteq consents' /\ consents' \subseteq Principals \X Clients
           /\ UNCHANGED <<now, tok, minting, held, stores>>
<1>0. /\ now \in 1 .. LastTick /\ LastTick \in Nat /\ \A c \in Clients : clients[c] \in 0 .. LastTick
      /\ consents \subseteq Principals \X Clients
      BY DEF OAuthTypeOK, OAuthConstants
<1>a. ASSUME UNCHANGED flow, UNCHANGED consents PROVE FlowsMoveOn /\ FlowsKnow'
      BY <1>a DEF FlowsMoveOn, FlowsKnow, OAuthTypeOK, FlowRecords
<1>b. ASSUME UNCHANGED clients PROVE ClientsMoveOn
      BY <1>b DEF ClientsMoveOn, OAuthTypeOK
<1>c. ASSUME NEW c \in Clients, Authenticates(c) PROVE ClientsMoveOn
      BY <1>0, <1>c DEF Authenticates, Seen, ClientsMoveOn, OAuthTypeOK
<1>d. ASSUME NEW f \in Flows PROVE flow[f] \in FlowRecords
      BY DEF OAuthTypeOK, FlowRecords
<1>1. ASSUME NEW c \in Clients, RegisterClient(c) \/ RefuseClient(c)
      PROVE  ClientsMoveOn /\ UNCHANGED <<flow, consents, now, tok, minting, held, stores>>
  <2>1. clients' = PrunedClients \/ clients' = [PrunedClients EXCEPT ![c] = now]
        BY <1>1 DEF RegisterClient, RefuseClient
  <2>2. \A d \in Clients : PrunedClients[d] = clients[d] \/ (PrunedClients[d] = 0 /\ Outlived(clients[d], StaleClientTTL))
        BY DEF PrunedClients
  <2> QED BY <1>0, <1>1, <2>1, <2>2, PrunedIsTyped DEF RegisterClient, RefuseClient, ClientsMoveOn
<1>2. ASSUME NEW f \in Flows, NEW c \in Clients, Authorize(f, c)
      PROVE  FlowsMoveOn /\ FlowsKnow'
  <2> DEFINE g == [stage |-> "parked", client |-> c, principal |-> None, since |-> now]
  <2>1. flow' = [PrunedFlows EXCEPT ![f] = g] /\ consents' = consents /\ flow[f].stage = "new"
        BY <1>2 DEF Authorize
  <2>2. g \in FlowRecords
        BY <1>0 DEF FlowRecords, Stages
  <2>3. g.stage = "parked" /\ g.client = c
        OBVIOUS
  <2> HIDE DEF g
  <2>4. \A e \in Flows : flow'[e] = IF e = f THEN g ELSE PrunedFlows[e]
        BY <2>1, PrunedIsTyped
  <2>5. flow' \in [Flows -> FlowRecords]
        BY <2>1, <2>2, PrunedIsTyped
  <2>6. \A e \in Flows : \/ PrunedFlows[e] = flow[e]
                         \/ /\ PrunedFlows[e].stage = "gone" /\ PrunedFlows[e].client = flow[e].client
                            /\ flow[e].stage \in {"parked", "consent"}
        BY <1>d, PrunedIsTyped DEF FlowRecords
  <2>7. FlowsMoveOn
        BY <2>1, <2>4, <2>5, <2>6 DEF FlowsMoveOn
  <2>8. FlowsKnow'
    <3> SUFFICES ASSUME NEW e \in Flows
                 PROVE  /\ flow'[e].stage # "new" => flow'[e].client \in Clients
                        /\ flow'[e].stage \in {"consent", "code"} => flow'[e].principal \in Principals
                        /\ flow'[e].stage = "code" => <<flow'[e].principal, flow'[e].client>> \in consents'
        BY DEF FlowsKnow
    <3>1. CASE e = f
          BY <2>3, <2>4, <3>1
    <3>2. CASE e # f /\ flow'[e] = flow[e]
          BY <2>1, <3>2 DEF FlowsKnow
    <3>3. CASE e # f /\ flow'[e].stage = "gone" /\ flow'[e].client = flow[e].client /\ flow[e].stage # "new"
          BY <3>3 DEF FlowsKnow
    <3> QED BY <3>1, <3>2, <3>3, <2>4, <2>6
  <2> QED BY <2>7, <2>8
<1>3. ASSUME NEW c \in Clients, RefuseAuthorize(c)
      PROVE  FlowsMoveOn /\ FlowsKnow'
  <2>1. flow' = PrunedFlows /\ consents' = consents
        BY <1>3 DEF RefuseAuthorize
  <2>2. \A e \in Flows : \/ PrunedFlows[e] = flow[e]
                         \/ /\ PrunedFlows[e].stage = "gone" /\ PrunedFlows[e].client = flow[e].client
                            /\ flow[e].stage \in {"parked", "consent"}
        BY <1>d, PrunedIsTyped DEF FlowRecords
  <2>3. FlowsMoveOn
        BY <2>1, <2>2, PrunedIsTyped DEF FlowsMoveOn
  <2>4. FlowsKnow'
        BY <2>1, <2>2 DEF FlowsKnow
  <2> QED BY <2>3, <2>4
<1>4. ASSUME NEW f \in Flows, IdpReturns(f) \/ IdpFails(f) \/ ConsentFails(f)
      PROVE  FlowsMoveOn /\ FlowsKnow'
  <2>1. PICK stage \in {"gone", "atIdp"} : /\ flow' = [flow EXCEPT ![f] = [flow[f] EXCEPT !.stage = stage]]
                                           /\ flow[f].stage \in {"parked", "atIdp", "consent"}
                                           /\ consents' = consents
        BY <1>4 DEF IdpReturns, IdpFails, ConsentFails, Moved, OAuthTypeOK
  <2> DEFINE g == [flow[f] EXCEPT !.stage = stage]
  <2>2. g \in FlowRecords /\ g.stage = stage /\ g.client = flow[f].client
        BY <1>d DEF FlowRecords, Stages
  <2>3. flow[f].client \in Clients
        BY <2>1 DEF FlowsKnow
  <2>4. flow' = [flow EXCEPT ![f] = g] /\ flow[f].stage # "spent"
        BY <2>1
  <2> HIDE DEF g
  <2> QED BY <2>1, <2>2, <2>3, <2>4, OneFlowMoves
<1>5. ASSUME NEW f \in Flows, ConsentGiven(f)
      PROVE  FlowsMoveOn /\ FlowsKnow' /\ consents \subseteq consents' /\ consents' \subseteq Principals \X Clients
  <2> DEFINE g == [flow[f] EXCEPT !.stage = "code", !.since = now]
  <2>1. /\ flow' = [flow EXCEPT ![f] = g] /\ flow[f].stage = "consent"
        /\ consents' = consents \union {<<flow[f].principal, flow[f].client>>}
        BY <1>5 DEF ConsentGiven
  <2>2. g \in FlowRecords /\ g.stage = "code" /\ g.client = flow[f].client /\ g.principal = flow[f].principal
    <3>1. now \in 0 .. LastTick /\ "code" \in Stages /\ flow[f] \in FlowRecords
          BY <1>0, <1>d DEF Stages
    <3> QED BY <3>1 DEF FlowRecords
  <2>3. flow[f].client \in Clients /\ flow[f].principal \in Principals
        BY <2>1 DEF FlowsKnow
  <2>4. consents \subseteq consents' /\ consents' \subseteq Principals \X Clients /\ <<g.principal, g.client>> \in consents'
        BY <1>0, <2>1, <2>2, <2>3
  <2> HIDE DEF g
  <2> QED BY <2>1, <2>2, <2>3, <2>4, OneFlowMoves
<1>6. ASSUME NEW f \in Flows, NEW p \in Principals, IdpConfirms(f, p)
      PROVE  FlowsMoveOn /\ FlowsKnow'
  <2> DEFINE g == [flow[f] EXCEPT !.stage = AfterSignIn(f, p), !.principal = p, !.since = now]
  <2>1. flow' = [flow EXCEPT ![f] = g] /\ flow[f].stage = "atIdp" /\ consents' = consents
        BY <1>6 DEF IdpConfirms
  <2>2. AfterSignIn(f, p) \in {"code", "consent"} /\ (AfterSignIn(f, p) = "code" => <<p, flow[f].client>> \in consents)
        BY DEF AfterSignIn
  <2>3. g \in FlowRecords /\ g.stage = AfterSignIn(f, p) /\ g.client = flow[f].client /\ g.principal = p
    <3>1. now \in 0 .. LastTick /\ AfterSignIn(f, p) \in Stages /\ flow[f] \in FlowRecords
          BY <1>0, <1>d, <2>2 DEF Stages
    <3> HIDE DEF AfterSignIn
    <3> QED BY <3>1 DEF FlowRecords
  <2>4. flow[f].client \in Clients
        BY <2>1 DEF FlowsKnow
  <2> HIDE DEF g
  <2> QED BY <2>1, <2>2, <2>3, <2>4, OneFlowMoves
<1>7. ASSUME NEW c \in Clients, RegisterClient(c) \/ RefuseClient(c) PROVE FlowsMoveOn /\ FlowsKnow'
      BY <1>1, <1>7, <1>a
<1>8. ASSUME NEW f \in Flows,
             \/ IdpReturns(f) \/ IdpFails(f) \/ ConsentFails(f) \/ ConsentGiven(f) \/ \E p \in Principals : IdpConfirms(f, p)
      PROVE  UNCHANGED <<clients, now, tok, minting, held, stores>>
      BY <1>8 DEF IdpReturns, IdpFails, ConsentFails, ConsentGiven, IdpConfirms
<1>9. ASSUME NEW f \in Flows, IdpReturns(f) \/ IdpFails(f) \/ ConsentFails(f) \/ \E p \in Principals : IdpConfirms(f, p)
      PROVE  UNCHANGED consents
      BY <1>9 DEF IdpReturns, IdpFails, ConsentFails, IdpConfirms
<1>10. ASSUME NEW c \in Clients, RefuseAuthorize(c) \/ \E f \in Flows : Authorize(f, c)
       PROVE  Authenticates(c) /\ UNCHANGED <<consents, now, tok, minting, held, stores>>
       BY <1>10 DEF RefuseAuthorize, Authorize
<1> QED BY <1>0, <1>b, <1>c, <1>1, <1>2, <1>3, <1>4, <1>5, <1>6, <1>7, <1>8, <1>9, <1>10 DEF SignIn

\* Minted pairs rest on what they did.
LEMMA PairsRest ==
    ASSUME OAuthConstants, OAuthTypeOK, PairsKnow, ClientsMoveOn, FlowsMoveOn, consents \subseteq consents', now' = now, tok' = tok
    PROVE  PairsKnow'
<1> SUFFICES ASSUME NEW t \in Tokens
             PROVE  /\ Minted(t)' => Rested(tok[t])' /\ tok[t].expires <= tok[t].issued + ChainTTL + AccessTTL
                    /\ ~Minted(t)' => tok[t].principal = None
    BY DEF PairsKnow
<1>1. Minted(t)' <=> Minted(t)
      BY DEF Minted
<1>2. ASSUME Minted(t) PROVE Rested(tok[t])' /\ tok[t].expires <= tok[t].issued + ChainTTL + AccessTTL
  <2>1. Rested(tok[t])
        BY <1>2 DEF PairsKnow
  <2>2. Rested(tok[t])'
        BY <2>1, RestsOn DEF Rested
  <2> QED BY <1>2, <2>2 DEF PairsKnow
<1>3. ASSUME ~Minted(t) PROVE tok[t].principal = None
      BY <1>3 DEF PairsKnow
<1> QED BY <1>1, <1>2, <1>3

LEMMA SignInKeepsInv ==
    ASSUME OAuthConstants, Inv, Idle, SignIn
    PROVE  Inv'
<1>1. /\ ClientsMoveOn /\ FlowsMoveOn /\ FlowsKnow'
      /\ consents \subseteq consents' /\ consents' \subseteq Principals \X Clients
      /\ UNCHANGED <<now, tok, minting, held, stores>>
      BY SignInMoves DEF Inv
<1>2. PairsKnow'
      BY <1>1, PairsRest DEF Inv
<1>3. MintingKnows'
      BY <1>1 DEF Idle, MintingKnows
<1>4. OAuthTypeOK'
      BY <1>1 DEF Inv, OAuthTypeOK, ClientsMoveOn, FlowsMoveOn, FlowRecords, stores
<1>5. StoreInv'
      BY <1>1 DEF Inv, StoreInv, StoresAreMinted, Stored, ChainsAreSingle, OneEach, EndedIsGone, SealedIsKept, Minted,
                  ChainLapsed, stores
<1> QED BY <1>1, <1>2, <1>3, <1>4, <1>5 DEF Inv

----------------------------------------------------------------------------
(* Steps that end pairs, and the one that mints.                            *)

LEMMA RevokedAreGone ==
    ASSUME OAuthConstants, Inv, NEW gone, gone \subseteq Tokens, RevokePairs(gone),
           NEW over, over \subseteq gone, ended' = ended \union over, \A t \in over : Minted(t),
           tok' = tok, now' = now
    PROVE  /\ {access, refresh, sealed, disk, ended, evicted, revived}' \subseteq SUBSET Tokens /\ unsaved' \in BOOLEAN
           /\ Stored' = Stored \ gone
           /\ StoresAreMinted' /\ OneEach(Stored)' /\ OneEach(disk)' /\ EndedIsGone' /\ SealedIsKept'
<1>0. /\ refresh \subseteq Tokens /\ sealed \subseteq Tokens /\ disk \subseteq Tokens /\ ended \subseteq Tokens
      /\ access \subseteq Tokens /\ evicted \subseteq Tokens /\ revived \subseteq Tokens /\ unsaved \in BOOLEAN
      BY DEF Inv, OAuthTypeOK
<1>1. /\ access' = access \ gone /\ refresh' = refresh \ gone /\ sealed' = sealed \ gone
      /\ evicted' = evicted /\ revived' = revived
      BY DEF RevokePairs, Discarded
<1>2. \/ gone \intersect sealed = {} /\ disk' = disk /\ unsaved' = unsaved
      \/ disk' = sealed' /\ unsaved' = FALSE
      \/ disk' = disk /\ unsaved' = TRUE
      BY DEF RevokePairs, Discarded, Saved
<1>3. Stored' = Stored \ gone
      BY <1>1 DEF Stored
<1>4. \A t : (Minted(t)' <=> Minted(t)) /\ (ChainLapsed(t)' <=> ChainLapsed(t))
      BY DEF Minted, ChainLapsed
<1>5. StoresAreMinted'
      BY <1>1, <1>2, <1>3, <1>4 DEF Inv, StoreInv, StoresAreMinted, Stored
<1>6. OneEach(Stored)' /\ OneEach(disk)'
  <2>1. OneEach(Stored) /\ OneEach(disk)
        BY DEF Inv, StoreInv, ChainsAreSingle
  <2>2. disk' \subseteq disk \/ disk' \subseteq Stored
        BY <1>1, <1>2 DEF Stored
  <2> QED BY <1>3, <2>1, <2>2 DEF OneEach
<1>7. EndedIsGone'
  <2>1. \A t \in ended' : t \in Stored' => t \in revived'
        BY <1>1, <1>3 DEF Inv, StoreInv, EndedIsGone
  <2>2. \A t \in disk' \ sealed' : unsaved' \/ ChainLapsed(t)'
        BY <1>1, <1>2, <1>4 DEF Inv, StoreInv, EndedIsGone
  <2> QED BY <2>1, <2>2 DEF EndedIsGone
<1>8. SealedIsKept'
      BY <1>1, <1>2 DEF Inv, StoreInv, SealedIsKept
<1>9. {access, refresh, sealed, disk, ended, evicted, revived}' \subseteq SUBSET Tokens /\ unsaved' \in BOOLEAN
      BY <1>0, <1>1, <1>2
<1> QED BY <1>3, <1>5, <1>6, <1>7, <1>8, <1>9

\* The requests that only end pairs.
LEMMA RevokingKeepsInv ==
    ASSUME OAuthConstants, Inv, Idle, ClientsMoveOn, UNCHANGED <<now, flow, consents, tok, minting, held>>,
           NEW gone, gone \subseteq Tokens, RevokePairs(gone),
           NEW over, over \subseteq gone, ended' = ended \union over, \A t \in over : Minted(t)
    PROVE  Inv'
<1>1. FlowsMoveOn /\ FlowsKnow'
      BY DEF Inv, OAuthTypeOK, FlowsMoveOn, FlowRecords, FlowsKnow
<1>2. PairsKnow'
      BY <1>1, PairsRest DEF Inv
<1>3. MintingKnows'
      BY DEF Idle, MintingKnows
<1>4. /\ {access, refresh, sealed, disk, ended, evicted, revived}' \subseteq SUBSET Tokens /\ unsaved' \in BOOLEAN
      /\ StoresAreMinted' /\ OneEach(Stored)' /\ OneEach(disk)' /\ EndedIsGone' /\ SealedIsKept'
      BY RevokedAreGone
<1>5. OAuthTypeOK'
      BY <1>4 DEF Inv, OAuthTypeOK, ClientsMoveOn
<1>6. StoreInv'
      BY <1>4 DEF StoreInv, ChainsAreSingle, Idle
<1> QED BY <1>1, <1>2, <1>3, <1>5, <1>6 DEF Inv

LEMMA AuthenticatingMovesOn ==
    ASSUME OAuthConstants, OAuthTypeOK, NEW c \in Clients, Authenticates(c)
    PROVE  ClientsMoveOn /\ clients'[c] = now
<1> now \in 0 .. LastTick
    BY DEF OAuthTypeOK, OAuthConstants
<1> QED BY DEF Authenticates, Seen, ClientsMoveOn, OAuthTypeOK

LEMMA ExchangeCodeKeepsInv ==
    ASSUME OAuthConstants, Inv, NEW f \in Flows, ExchangeCode(f)
    PROVE  Inv'
<1> DEFINE c == flow[f].client
<1> DEFINE g == [flow[f] EXCEPT !.stage = "spent", !.since = now]
<1>0. /\ flow[f].stage = "code" /\ c \in Clients /\ flow[f].principal \in Principals
      /\ <<flow[f].principal, c>> \in consents
      BY DEF ExchangeCode, Inv, FlowsKnow
<1>1. /\ flow' = [flow EXCEPT ![f] = g]
      /\ minting' = [chain |-> f, client |-> c, principal |-> flow[f].principal, issued |-> now]
      /\ UNCHANGED <<now, consents, tok, held, stores>>
      BY DEF ExchangeCode, CodePopped
<1>2. ClientsMoveOn /\ clients'[c] = now
      BY <1>0, AuthenticatingMovesOn DEF ExchangeCode, Inv
<1>3. now \in 1 .. LastTick /\ LastTick \in Nat
      BY DEF Inv, OAuthTypeOK, OAuthConstants
<1>4. g \in FlowRecords /\ g.stage = "spent" /\ g.since = now /\ g.client = c
  <2>1. now \in 0 .. LastTick /\ "spent" \in Stages /\ flow[f] \in FlowRecords
        BY <1>3 DEF Inv, OAuthTypeOK, FlowRecords, Stages
  <2> QED BY <2>1 DEF FlowRecords
<1> HIDE DEF g
<1>5. FlowsMoveOn /\ FlowsKnow'
  <2>1. "spent" # "code" /\ "spent" \notin {"consent", "code"}
        OBVIOUS
  <2> QED BY <1>0, <1>1, <1>4, <2>1, OneFlowMoves DEF Inv
<1>6. PairsKnow'
      BY <1>1, <1>2, <1>5, PairsRest DEF Inv
<1>7. flow'[f] = g /\ minting' # None => MintingKnows'
      BY <1>0, <1>1, <1>2, <1>3, <1>4 DEF MintingKnows, Rested, OAuthConstants
<1>8. flow'[f] = g
      BY <1>1 DEF Inv, OAuthTypeOK
<1>9. MintingKnows'
      BY <1>7, <1>8 DEF MintingKnows
<1>10. OAuthTypeOK'
      BY <1>0, <1>1, <1>2, <1>3, <1>5 DEF Inv, OAuthTypeOK, ClientsMoveOn, FlowsMoveOn, FlowRecords, stores
<1>11. StoreInv'
  <2>1. \A t \in Stored : tok[t].chain # f
        BY <1>0 DEF Inv, OAuthTypeOK, Stored, StoreInv, StoresAreMinted, PairsKnow, Rested
  <2>2. UNCHANGED <<refresh, sealed, disk, ended, evicted, unsaved, revived, tok, now>> /\ minting'.chain = f
        BY <1>1 DEF stores
  <2> QED BY <2>1, <2>2 DEF Inv, StoreInv, StoresAreMinted, Stored, ChainsAreSingle, OneEach, EndedIsGone, SealedIsKept,
             Minted, ChainLapsed
<1> QED BY <1>5, <1>6, <1>9, <1>10, <1>11 DEF Inv

\* A rotation ends the pair it was given, and mints for the same chain, from its start.
LEMMA RotateKeepsInv ==
    ASSUME OAuthConstants, Inv, NEW t \in Tokens, Rotate(t)
    PROVE  Inv'
<1>0. Minted(t) /\ Rested(tok[t]) /\ t \in Stored
      BY DEF Rotate, Presents, Loads, Stored, Inv, PairsKnow
<1>1. /\ RevokePairs({t}) /\ ended' = ended \union {t}
      /\ minting' = [chain |-> tok[t].chain, client |-> tok[t].client, principal |-> tok[t].principal,
                     issued |-> tok[t].issued]
      /\ UNCHANGED <<now, flow, consents, tok, held>>
      BY DEF Rotate, ChainStart
<1>2. ClientsMoveOn
      BY <1>0, AuthenticatingMovesOn DEF Rotate, Presents, Inv, Rested
<1>3. FlowsMoveOn /\ FlowsKnow'
      BY <1>1 DEF Inv, OAuthTypeOK, FlowsMoveOn, FlowRecords, FlowsKnow
<1>4. PairsKnow'
      BY <1>1, <1>2, <1>3, PairsRest DEF Inv
<1>5. /\ {access, refresh, sealed, disk, ended, evicted, revived}' \subseteq SUBSET Tokens /\ unsaved' \in BOOLEAN
      /\ Stored' = Stored \ {t}
      /\ StoresAreMinted' /\ OneEach(Stored)' /\ OneEach(disk)' /\ EndedIsGone' /\ SealedIsKept'
  <2>1. \A u \in {t} : Minted(u)
        BY <1>0
  <2> QED BY <1>1, <2>1, RevokedAreGone
<1>6. now \in Nat /\ LastTick \in Nat /\ now <= LastTick /\ ChainTTL \in Nat /\ tok[t].issued \in Nat
      BY DEF Inv, OAuthTypeOK, OAuthConstants
<1>7. now <= tok[t].issued + ChainTTL
      BY <1>6 DEF Rotate, Loads, Outlived, ChainLapsed
<1>8. Rested(minting)'
  <2>1. Rested(tok[t])'
        BY <1>1, <1>0, <1>4, <1>2, <1>3, RestsOn DEF Rested, Inv
  <2>2. /\ minting'.chain = tok'[t].chain /\ minting'.client = tok'[t].client
        /\ minting'.principal = tok'[t].principal /\ minting'.issued = tok'[t].issued
        BY <1>1
  <2> QED BY <2>1, <2>2 DEF Rested
<1>9. MintingKnows'
      BY <1>1, <1>7, <1>8 DEF MintingKnows
<1>10. OAuthTypeOK'
      BY <1>0, <1>1, <1>2, <1>5, <1>6 DEF Inv, OAuthTypeOK, ClientsMoveOn, Rested
<1>11. StoreInv'
  <2>1. \A u \in Stored' : tok'[u].chain # minting'.chain
        BY <1>0, <1>1, <1>5 DEF Inv, StoreInv, ChainsAreSingle, OneEach
  <2> QED BY <1>5, <2>1 DEF StoreInv, ChainsAreSingle
<1> QED BY <1>3, <1>4, <1>9, <1>10, <1>11 DEF Inv

LEMMA MintKeepsInv ==
    ASSUME OAuthConstants, Inv, NEW t \in Tokens, Mint(t)
    PROVE  Inv'
<1> DEFINE new == [chain |-> minting.chain, client |-> minting.client, principal |-> minting.principal,
                   issued |-> minting.issued, expires |-> now + AccessTTL]
<1>0. /\ minting # None /\ ~Minted(t) /\ Rested(minting) /\ now <= minting.issued + ChainTTL
      BY DEF Mint, Idle, Inv, MintingKnows
<1>1. /\ tok' = [tok EXCEPT ![t] = new] /\ access' = access \union {t} /\ refresh' = refresh \union {t}
      /\ minting' = None /\ held' \in {held, held \union {t}}
      /\ UNCHANGED <<now, clients, flow, consents, ended, revived>>
      BY DEF Mint
<1>2. now \in Nat /\ now <= LastTick /\ LastTick \in Nat /\ AccessTTL \in Nat /\ ChainTTL \in Nat
      BY DEF Inv, OAuthTypeOK, OAuthConstants
<1>3. tok'[t] = new /\ \A u \in Tokens \ {t} : tok'[u] = tok[u]
      BY <1>1 DEF Inv, OAuthTypeOK
<1>4. PICK K \in SUBSET (sealed \union {t}) :
          /\ sealed' = K /\ evicted' = evicted \union ((sealed \union {t}) \ K)
          /\ \/ disk' = K /\ unsaved' = FALSE
             \/ disk' = disk /\ unsaved' = TRUE
      BY DEF Mint, Put, Keepable, Saved
<1>5. t \notin Stored \union disk \union ended
      BY <1>0 DEF Inv, StoreInv, StoresAreMinted
<1>6. \A u \in Tokens \ {t} : (Minted(u)' <=> Minted(u)) /\ (ChainLapsed(u)' <=> ChainLapsed(u))
      BY <1>1, <1>3 DEF Minted, ChainLapsed
<1>7. Minted(t)'
      BY <1>0, <1>3 DEF Minted, Rested, OAuthConstants
<1>8. /\ refresh \subseteq Tokens /\ sealed \subseteq Tokens /\ disk \subseteq Tokens /\ ended \subseteq Tokens
      BY DEF Inv, OAuthTypeOK
<1>9. OAuthTypeOK'
  <2>1. tok' \in [Tokens -> [chain : Flows \union {None}, client : Clients \union {None},
                             principal : Principals \union {None}, issued : 0 .. LastTick,
                             expires : 0 .. LastTick + AccessTTL]]
        BY <1>0, <1>1, <1>2 DEF Inv, OAuthTypeOK, Rested
  <2>2. {access, refresh, sealed, disk, held, ended, evicted, revived} \subseteq SUBSET Tokens /\ unsaved \in BOOLEAN
        BY DEF Inv, OAuthTypeOK
  <2>3. {access, refresh, sealed, disk, held, ended, evicted, revived}' \subseteq SUBSET Tokens /\ unsaved' \in BOOLEAN
        BY <1>1, <1>4, <2>2
  <2>4. /\ now' \in 1 .. LastTick /\ clients' \in [Clients -> 0 .. LastTick] /\ consents' \subseteq Principals \X Clients
        /\ minting' = None /\ flow' = flow
        BY <1>1 DEF Inv, OAuthTypeOK
  <2> QED BY <2>1, <2>3, <2>4 DEF Inv, OAuthTypeOK
<1>10. PairsKnow' /\ FlowsKnow'
  <2>1. Rested(tok[t])' /\ tok'[t].expires <= tok'[t].issued + ChainTTL + AccessTTL
        BY <1>0, <1>1, <1>2, <1>3 DEF Rested
  <2>2. ASSUME NEW u \in Tokens \ {t}, Minted(u)'
        PROVE  Rested(tok[u])' /\ tok'[u].expires <= tok'[u].issued + ChainTTL + AccessTTL
        BY <1>1, <1>3, <1>6, <2>2 DEF Inv, PairsKnow, Rested
  <2>3. ASSUME NEW u \in Tokens, ~Minted(u)' PROVE tok'[u].principal = None
        BY <1>3, <1>6, <1>7, <2>3 DEF Inv, PairsKnow
  <2>4. FlowsKnow'
        BY <1>1 DEF Inv, FlowsKnow
  <2> QED BY <2>1, <2>2, <2>3, <2>4 DEF PairsKnow
<1>11. StoresAreMinted'
  <2>1. \A u \in (Stored \union disk \union ended)' : u = t \/ u \in Stored \union disk \union ended
        BY <1>1, <1>4 DEF Stored
  <2> QED BY <1>6, <1>7, <1>8, <2>1 DEF Inv, StoreInv, StoresAreMinted, Stored
<1>12. ChainsAreSingle'
  <2>1. \A u \in Stored : tok[u].chain # minting.chain
        BY <1>0 DEF Inv, StoreInv, ChainsAreSingle
  <2>2. \A u \in Stored' : u = t \/ u \in Stored
        BY <1>1, <1>4 DEF Stored
  <2>3. OneEach(Stored)'
        BY <1>3, <1>8, <2>1, <2>2 DEF Inv, StoreInv, ChainsAreSingle, OneEach, Stored
  <2>4. disk' \subseteq Stored' \/ disk' = disk
        BY <1>4 DEF Stored
  <2>5. OneEach(disk)'
        BY <1>3, <1>5, <1>8, <2>3, <2>4 DEF Inv, StoreInv, ChainsAreSingle, OneEach
  <2> QED BY <1>1, <2>3, <2>5 DEF ChainsAreSingle
<1>13. EndedIsGone'
  <2>1. \A u \in ended' : u \in Stored' => u \in revived'
        BY <1>1, <1>4, <1>5 DEF Inv, StoreInv, EndedIsGone, Stored
  <2>2. \A u \in disk' \ sealed' : unsaved' \/ ChainLapsed(u)'
        BY <1>4
  <2> QED BY <2>1, <2>2 DEF EndedIsGone
<1>14. SealedIsKept'
      BY <1>1, <1>4 DEF Inv, StoreInv, SealedIsKept
<1>15. MintingKnows'
      BY <1>1 DEF MintingKnows
<1> QED BY <1>9, <1>10, <1>11, <1>12, <1>13, <1>14, <1>15 DEF Inv, StoreInv

LEMMA RestartKeepsInv ==
    ASSUME OAuthConstants, Inv, OAuthRestart
    PROVE  Inv'
<1>0. /\ access' = {} /\ refresh' = {} /\ sealed' = {t \in disk : ~ChainLapsed(t)} /\ minting' = None
      /\ flow' = [f \in Flows |-> IF flow[f].stage \in {"parked", "atIdp", "consent", "code"}
                                  THEN [flow[f] EXCEPT !.stage = "gone"] ELSE flow[f]]
      /\ revived' = (IF unsaved THEN revived \union (ended \intersect disk) ELSE revived) /\ unsaved' = FALSE
      /\ UNCHANGED <<now, clients, consents, tok, disk, held, ended, evicted>>
      BY DEF OAuthRestart
<1>1. \A f \in Flows : flow[f] \in FlowRecords /\ "gone" \in Stages
      BY DEF Inv, OAuthTypeOK, FlowRecords, Stages
<1>2. \A f \in Flows : [flow[f] EXCEPT !.stage = "gone"] \in FlowRecords
      BY <1>1 DEF FlowRecords
<1>3. \A f \in Flows : \/ flow'[f] = flow[f] /\ flow[f].stage \notin {"parked", "atIdp", "consent", "code"}
                       \/ /\ flow'[f].stage = "gone" /\ flow'[f].client = flow[f].client
                          /\ flow[f].stage \in {"parked", "atIdp", "consent", "code"}
      BY <1>0, <1>1 DEF FlowRecords
<1>4. FlowsMoveOn /\ FlowsKnow'
  <2>1. flow' \in [Flows -> FlowRecords]
        BY <1>0, <1>1, <1>2
  <2> QED BY <1>3, <2>1 DEF FlowsMoveOn, FlowsKnow, Inv
<1>5. ClientsMoveOn
      BY <1>0 DEF ClientsMoveOn, Inv, OAuthTypeOK
<1>6. PairsKnow'
      BY <1>0, <1>4, <1>5, PairsRest DEF Inv
<1>7. OAuthTypeOK'
  <2>1. {access, refresh, sealed, disk, held, ended, evicted, revived} \subseteq SUBSET Tokens /\ unsaved \in BOOLEAN
        BY DEF Inv, OAuthTypeOK
  <2>2. {access, refresh, sealed, disk, held, ended, evicted, revived}' \subseteq SUBSET Tokens /\ unsaved' \in BOOLEAN
        BY <1>0, <2>1
  <2>3. UNCHANGED <<now, clients, consents, tok>> /\ minting' = None
        BY <1>0
  <2> QED BY <1>4, <2>2, <2>3 DEF Inv, OAuthTypeOK, FlowsMoveOn, FlowRecords
<1>8. \A t : (Minted(t)' <=> Minted(t)) /\ (ChainLapsed(t)' <=> ChainLapsed(t))
      BY <1>0 DEF Minted, ChainLapsed
<1>9. StoresAreMinted'
      BY <1>0, <1>8 DEF Inv, StoreInv, StoresAreMinted, Stored
<1>10. ChainsAreSingle'
      BY <1>0 DEF Inv, StoreInv, ChainsAreSingle, OneEach, Stored
<1>11. EndedIsGone'
  <2>1. ASSUME NEW t \in ended, t \in sealed' PROVE t \in revived'
        BY <1>0, <2>1 DEF Inv, StoreInv, EndedIsGone, Stored
  <2> QED BY <1>0, <1>8, <2>1 DEF EndedIsGone, Stored
<1>12. SealedIsKept' /\ MintingKnows'
      BY <1>0 DEF SealedIsKept, MintingKnows
<1> QED BY <1>4, <1>6, <1>7, <1>9, <1>10, <1>11, <1>12 DEF Inv, StoreInv

LEMMA TickKeepsInv ==
    ASSUME OAuthConstants, Inv, OAuthTick
    PROVE  Inv'
<1>0. /\ minting = None /\ now \in Nat /\ now' = now + 1 /\ now < LastTick /\ LastTick \in Nat /\ now >= 1
      /\ UNCHANGED <<clients, flow, consents, tok, minting, held, stores>>
      BY DEF OAuthTick, Idle, Inv, OAuthTypeOK, OAuthConstants
<1>1. OAuthTypeOK' /\ FlowsKnow' /\ MintingKnows'
      BY <1>0 DEF Inv, OAuthTypeOK, FlowsKnow, MintingKnows, stores
<1>2. PairsKnow'
  <2>1. ASSUME NEW t \in Tokens, Rested(tok[t]) PROVE Rested(tok[t])'
        BY <1>0, <2>1 DEF Rested, OAuthConstants
  <2> QED BY <1>0, <2>1 DEF Inv, PairsKnow, Minted
<1>3. ASSUME NEW t \in Tokens, ChainLapsed(t) PROVE ChainLapsed(t)'
  <2>1. tok[t].issued \in Nat
        BY DEF Inv, OAuthTypeOK
  <2> QED BY <1>0, <1>3, <2>1 DEF ChainLapsed, OAuthConstants
<1>4. disk \subseteq Tokens
      BY DEF Inv, OAuthTypeOK
<1>5. EndedIsGone'
      BY <1>0, <1>3, <1>4 DEF Inv, StoreInv, EndedIsGone, Stored, stores
<1>6. StoreInv'
      BY <1>0, <1>5 DEF Inv, StoreInv, StoresAreMinted, Stored, ChainsAreSingle, OneEach, SealedIsKept, Minted, stores
<1> QED BY <1>1, <1>2, <1>6 DEF Inv

\* Reading a record back changes what memory holds, and nothing of what is usable.
LEMMA RehydrateKeepsInv ==
    ASSUME OAuthConstants, Inv, NEW t \in Tokens, Rehydrate(t)
    PROVE  Inv'
<1>1. /\ refresh' = refresh \union {t} /\ t \in Stored /\ (t \in refresh \/ t \in sealed)
      /\ UNCHANGED <<now, flow, consents, tok, minting, held, access, sealed, disk, ended, evicted, unsaved, revived>>
      BY DEF Rehydrate, Loads, Stored
<1>2. Stored' = Stored
      BY <1>1 DEF Stored
<1>3. ClientsMoveOn
  <2>1. tok[t].client \in Clients
        BY DEF Rehydrate, Presents, Inv, PairsKnow, Rested
  <2> QED BY <2>1, AuthenticatingMovesOn DEF Rehydrate, Presents, Inv
<1>4. FlowsMoveOn /\ FlowsKnow'
      BY <1>1 DEF Inv, OAuthTypeOK, FlowsMoveOn, FlowRecords, FlowsKnow
<1>5. PairsKnow'
      BY <1>1, <1>3, <1>4, PairsRest DEF Inv
<1>6. MintingKnows'
      BY <1>1 DEF Rehydrate, Idle, MintingKnows
<1>7. OAuthTypeOK'
  <2>1. {access, refresh, sealed, disk, held, ended, evicted, revived} \subseteq SUBSET Tokens /\ unsaved \in BOOLEAN
        BY DEF Inv, OAuthTypeOK
  <2>2. {access, refresh, sealed, disk, held, ended, evicted, revived}' \subseteq SUBSET Tokens /\ unsaved' \in BOOLEAN
        BY <1>1, <2>1
  <2> QED BY <1>1, <1>3, <2>2 DEF Inv, OAuthTypeOK, ClientsMoveOn
<1>8. StoreInv'
  <2>1. StoresAreMinted' /\ ChainsAreSingle'
        BY <1>1, <1>2 DEF Inv, StoreInv, StoresAreMinted, ChainsAreSingle, OneEach, Minted
  <2>2. EndedIsGone' /\ SealedIsKept'
        BY <1>1, <1>2 DEF Inv, StoreInv, EndedIsGone, SealedIsKept, ChainLapsed
  <2> QED BY <2>1, <2>2 DEF StoreInv
<1> QED BY <1>4, <1>5, <1>6, <1>7, <1>8 DEF Inv

LEMMA StepKeepsInv ==
    ASSUME OAuthConstants, Inv, OAuthNext
    PROVE  Inv'
<1>0. ClientsMoveOn \/ clients' # clients
      BY DEF ClientsMoveOn, Inv, OAuthTypeOK
<1>1. CASE Idle /\ SignIn
      BY <1>1, SignInKeepsInv
<1>2. ASSUME NEW f \in Flows, ExchangeCode(f) PROVE Inv'
      BY <1>2, ExchangeCodeKeepsInv
<1>3. ASSUME NEW t \in Tokens, PresentLapsed(t) \/ Revoke(t) PROVE Inv'
  <2>1. /\ Idle /\ Minted(t) /\ Authenticates(tok[t].client) /\ RevokePairs({t}) /\ ended' = ended \union {t}
        /\ UNCHANGED <<now, flow, consents, tok, minting, held>>
        BY <1>3 DEF PresentLapsed, Revoke, Presents
  <2>2. ClientsMoveOn
        BY <2>1, AuthenticatingMovesOn DEF Inv, PairsKnow, Rested
  <2>3. {t} \subseteq Tokens /\ \A u \in {t} : Minted(u)
        BY <2>1
  <2> QED BY <2>1, <2>2, <2>3, RevokingKeepsInv
<1>4. ASSUME NEW t \in Tokens, PresentExpiredAccess(t) PROVE Inv'
  <2>1. /\ Idle /\ RevokePairs({t}) /\ ended' = ended \union {} /\ clients' = clients
        /\ UNCHANGED <<now, flow, consents, tok, minting, held>>
        BY <1>4 DEF PresentExpiredAccess
  <2>2. {t} \subseteq Tokens /\ {} \subseteq {t} /\ \A u \in {} : Minted(u)
        OBVIOUS
  <2> DEFINE none == {}
  <2>3. none \subseteq {t} /\ ended' = ended \union none /\ \A u \in none : Minted(u)
        BY <2>1
  <2> HIDE DEF none
  <2>4. ClientsMoveOn
        BY <1>0, <2>1
  <2> QED BY <2>1, <2>2, <2>3, <2>4, RevokingKeepsInv
<1>5. ASSUME NEW p \in Principals, SignOutEverywhere(p) PROVE Inv'
  <2> DEFINE mine == {t \in Tokens : tok[t].principal = p}
  <2>1. /\ Idle /\ RevokePairs(mine) /\ ended' = ended \union mine /\ clients' = clients
        /\ UNCHANGED <<now, flow, consents, tok, minting, held>>
        BY <1>5 DEF SignOutEverywhere
  <2>2. mine \subseteq Tokens /\ mine \subseteq mine /\ \A t \in mine : Minted(t)
        BY DEF Inv, PairsKnow, OAuthConstants
  <2> HIDE DEF mine
  <2> QED BY <1>0, <2>1, <2>2, RevokingKeepsInv
<1> QED BY <1>1, <1>2, <1>3, <1>4, <1>5, RehydrateKeepsInv, RotateKeepsInv, MintKeepsInv, RestartKeepsInv, TickKeepsInv DEF OAuthNext

LEMMA StutterKeepsInv ==
    ASSUME Inv, UNCHANGED oauthVars
    PROVE  Inv'
<1>1. OAuthTypeOK' /\ FlowsKnow' /\ PairsKnow' /\ MintingKnows'
      BY DEF Inv, oauthVars, OAuthTypeOK, FlowsKnow, PairsKnow, MintingKnows, Rested, Minted
<1>2. StoreInv'
      BY DEF Inv, oauthVars, StoreInv, StoresAreMinted, Stored, ChainsAreSingle, OneEach, EndedIsGone, SealedIsKept, Minted,
             ChainLapsed
<1> QED BY <1>1, <1>2 DEF Inv

LEMMA InitInv ==
    ASSUME OAuthConstants, OAuthInit
    PROVE  Inv
<1>1. OAuthTypeOK
  <2>1. now \in 1 .. LastTick /\ 0 \in 0 .. LastTick /\ 0 \in 0 .. LastTick + AccessTTL
        BY DEF OAuthConstants, OAuthInit
  <2>2. NewFlow \in FlowRecords
        BY <2>1 DEF NewFlow, FlowRecords, Stages
  <2>3. NoToken \in [chain : Flows \union {None}, client : Clients \union {None}, principal : Principals \union {None},
                     issued : 0 .. LastTick, expires : 0 .. LastTick + AccessTTL]
        BY <2>1 DEF NoToken
  <2> HIDE DEF NewFlow, NoToken
  <2>4. flow \in [Flows -> FlowRecords] /\ clients \in [Clients -> 0 .. LastTick]
        BY <2>1, <2>2 DEF OAuthInit
  <2>5. tok \in [Tokens -> [chain : Flows \union {None}, client : Clients \union {None}, principal : Principals \union {None},
                           issued : 0 .. LastTick, expires : 0 .. LastTick + AccessTTL]]
        BY <2>3 DEF OAuthInit
  <2>6. /\ {access, refresh, sealed, disk, held, ended, evicted, revived} \subseteq SUBSET Tokens /\ unsaved \in BOOLEAN
        /\ consents \subseteq Principals \X Clients /\ minting = None
        BY DEF OAuthInit
  <2> QED BY <2>1, <2>4, <2>5, <2>6 DEF OAuthTypeOK, FlowRecords
<1>2. FlowsKnow /\ PairsKnow /\ MintingKnows
      BY DEF OAuthInit, FlowsKnow, PairsKnow, MintingKnows, NewFlow, NoToken, Minted
<1>3. StoreInv
      BY DEF OAuthInit, StoreInv, StoresAreMinted, Stored, ChainsAreSingle, OneEach, EndedIsGone, SealedIsKept
<1> QED BY <1>1, <1>2, <1>3 DEF Inv

LEMMA InvHolds == OAuthSpec => []Inv
<1> USE OAuthAssumption
<1>1. OAuthInit => Inv
      BY InitInv
<1>2. Inv /\ [OAuthNext]_oauthVars => Inv'
      BY StepKeepsInv, StutterKeepsInv
<1> QED BY <1>1, <1>2, PTL DEF OAuthSpec

----------------------------------------------------------------------------
(* What follows.                                                            *)

\* Every variable keeps its type.
THEOREM TokensTyped == OAuthSpec => []OAuthTypeOK
<1>1. Inv => OAuthTypeOK
      BY DEF Inv
<1> QED BY <1>1, InvHolds, PTL

\* A chain has one usable refresh token, through every crash, failed write and restart.
THEOREM ChainsHaveOneToken == OAuthSpec => []OneTokenPerChain
<1>1. Inv => OneTokenPerChain
      BY DEF Inv, StoreInv, ChainsAreSingle, OneEach, Stored, OneTokenPerChain, Usable
<1> QED BY <1>1, InvHolds, PTL

\* What ended is never accepted again, unless the write that said so failed and a restart read the old file.
THEOREM EndedTokensStayEnded == OAuthSpec => []EndedStaysEnded
<1>1. Inv => EndedStaysEnded
      BY DEF Inv, StoreInv, EndedIsGone, EndedStaysEnded, Usable, Stored
<1> QED BY <1>1, InvHolds, PTL

\* What the provider accepts now it accepts after a restart.
THEOREM RestartsKeepChains == OAuthSpec => []RestartKeepsChains
<1>1. Inv => RestartKeepsChains
      BY DEF Inv, StoreInv, SealedIsKept, RestartKeepsChains
<1> QED BY <1>1, InvHolds, PTL

\* A chain ends ChainTTL after its code was exchanged, however often it was rotated.
THEOREM ChainsEndOnTime == OAuthSpec => []ChainEndsOnTime
<1> USE OAuthAssumption
<1>1. Inv => ChainEndsOnTime
  <2> SUFFICES ASSUME Inv, NEW t \in Tokens, Minted(t)
               PROVE  tok[t].expires - AccessTTL <= flow[tok[t].chain].since + ChainTTL
      BY DEF ChainEndsOnTime
  <2>1. tok[t].expires <= tok[t].issued + ChainTTL + AccessTTL /\ flow[tok[t].chain].since = tok[t].issued
        BY DEF Inv, PairsKnow, Rested
  <2>2. tok[t].expires \in Int /\ tok[t].issued \in Int /\ AccessTTL \in Int /\ ChainTTL \in Int
        BY DEF Inv, OAuthTypeOK, OAuthConstants
  <2> QED BY <2>1, <2>2
<1> QED BY <1>1, InvHolds, PTL

\* No pair without its person's consent to its client.
THEOREM TokensNeedConsent == OAuthSpec => []TokensRestOnConsent
<1>1. Inv => TokensRestOnConsent
      BY DEF Inv, PairsKnow, Rested, TokensRestOnConsent
<1> QED BY <1>1, InvHolds, PTL

\* A live chain's client is registered, as long as clients may idle for a chain's lifetime.
THEOREM LiveChainsKeepTheirClient == OAuthSpec => []LiveChainKeepsItsClient
<1>1. Inv => LiveChainKeepsItsClient
  <2> SUFFICES ASSUME Inv, NEW t \in Tokens, Usable(t), ~ChainLapsed(t)
               PROVE  clients[tok[t].client] # 0
      BY DEF LiveChainKeepsItsClient
  <2>1. Rested(tok[t]) /\ clients[tok[t].client] \in Int /\ tok[t].issued \in Int /\ 0 < 1
        BY DEF Inv, StoreInv, StoresAreMinted, Stored, Usable, PairsKnow, Rested, OAuthTypeOK
  <2>2. tok[t].issued <= clients[tok[t].client] /\ tok[t].issued >= 1
        BY <2>1 DEF Rested, ChainLapsed, Inv, OAuthTypeOK
  <2> QED BY <2>1, <2>2
<1> QED BY <1>1, InvHolds, PTL
=============================================================================
