---------------------------- MODULE ScopedTokens ----------------------------
(* One person's scoped tokens: the store behind them (scoped_tokens.py),    *)
(* the proposals they are made from (scoped_token_proposals.py), the        *)
(* Settings page's handlers (web/routes_settings.py, web/server.py) and the *)
(* calls that present them (web/mcp_auth.py).                               *)
(*                                                                          *)
(* Every operation of the store holds its lock, so a step below stands for  *)
(* one that writes nothing; one that writes has three: it refreshes and     *)
(* changes memory, it replaces the file, it records the file's stamp. The   *)
(* command line's --revoke-scoped-tokens is another process with a store of *)
(* its own: it reads and replaces the same file and takes no lock.          *)
(*                                                                          *)
(* A token's days are left out: an expired one opens less than it does here.*)
EXTENDS Service

CONSTANTS ScopedIds,  \* one per create request: the token it would make
          Offers,     \* proposals
          MaxScoped,  \* MAX_TOKENS_PER_PRINCIPAL
          MaxOffers,  \* MAX_PENDING_PER_PRINCIPAL
          OfferTTL,   \* PROPOSAL_TTL_SECONDS
          ReplaceMayFail   \* whether replacing scoped_tokens.json can meet an OSError

ScopedConstants == None \notin ScopedIds \union Offers /\ OfferTTL \in Nat /\ LastTick \in Nat \ {0}
ASSUME ScopedAssumption == ScopedConstants

VARIABLES stored,   \* the ids in scoped_tokens.json
          known,    \* _tokens
          index,    \* _index
          noticed,  \* _stamps is the file's stamp: a refresh would not reload
          op,       \* the writing operation that holds the lock
          cli,      \* what --revoke-scoped-tokens read and is about to remove
          offer,    \* ProposalRegistry._items, and what became of the others
          request,  \* create requests
          revoked,  \* tokens somebody was told are revoked, or that were taken back
          crossed   \* those revoked at the command line while an operation of the daemon was open

scopedVars == <<now, stored, known, index, noticed, op, cli, offer, request, revoked, crossed>>
memory == <<known, index, noticed>>
people == <<offer, request>>

NoOp == [kind |-> "none", tokens |-> {}, phase |-> "free"]

ScopedTypeOK ==
    /\ now \in 1 .. LastTick
    /\ {stored, known, index, cli, revoked, crossed} \subseteq SUBSET ScopedIds
    /\ noticed \in BOOLEAN
    /\ op \in [kind : {"none", "create", "rewrite", "revoke", "cleanup"}, tokens : SUBSET ScopedIds,
               phase : {"free", "begun", "replaced"}]
    /\ offer \in [Offers -> [stage : {"new", "open", "taken", "declined"}, since : 0 .. LastTick]]
    /\ request \in [ScopedIds -> [stage : {"new", "asked", "made", "unwanted", "failed", "closed"},
                                 offer : Offers \union {None}]]

ScopedInit ==
    /\ now = 1
    /\ stored = {} /\ known = {} /\ index = {} /\ noticed = TRUE
    /\ op = NoOp /\ cli = {}
    /\ offer = [p \in Offers |-> [stage |-> "new", since |-> 0]]
    /\ request = [t \in ScopedIds |-> [stage |-> "new", offer |-> None]]
    /\ revoked = {} /\ crossed = {}

----------------------------------------------------------------------------
(* Proposals. Every call of the registry first drops what has expired: an   *)
(* expired proposal is as good as gone.                                     *)

InTime(p) == offer[p].since + OfferTTL > now
OpenOffers == {p \in Offers : offer[p].stage = "open" /\ InTime(p)}
OfferIs(p, stage) == offer' = [offer EXCEPT ![p].stage = stage]

Propose(p) ==
    /\ offer[p].stage = "new"
    /\ Cardinality(OpenOffers) < MaxOffers
    /\ offer' = [offer EXCEPT ![p] = [stage |-> "open", since |-> now]]
    /\ UNCHANGED <<now, stored, memory, op, cli, request, revoked, crossed>>

Decline(p) ==
    /\ p \in OpenOffers
    /\ OfferIs(p, "declined")
    /\ UNCHANGED <<now, stored, memory, op, cli, request, revoked, crossed>>

\* take: of two confirmations of one proposal, one gets it.
OnlyLookedUp(p) == offer
TakenOut(p) == [offer EXCEPT ![p].stage = "taken"]
Accept(t, p) ==
    /\ request[t].stage = "new"
    /\ p \in OpenOffers
    /\ offer' = TakenOut(p)
    /\ request' = [request EXCEPT ![t] = [stage |-> "asked", offer |-> p]]
    /\ UNCHANGED <<now, stored, memory, op, cli, revoked, crossed>>

----------------------------------------------------------------------------
(* The store. An operation that starts has the lock and has refreshed.      *)

Unlocked == op = NoOp
ReadAtStart == known
Refreshed == IF noticed THEN known ELSE stored
RefreshedIndex == IF noticed THEN index ELSE stored
MemoryIs(tokens, digests) == known' = tokens /\ index' = digests /\ noticed' = TRUE
RequestIs(t, stage) == request' = [request EXCEPT ![t].stage = stage]
Begins(kind, tokens) == op' = [kind |-> kind, tokens |-> tokens, phase |-> "begun"]

\* For a proposal, or for a form of the person's own.
BeginCreate(t) ==
    /\ Unlocked
    /\ request[t].stage \in {"new", "asked"}
    /\ Cardinality(Refreshed) < MaxScoped
    /\ MemoryIs(Refreshed \union {t}, RefreshedIndex)
    /\ Begins("create", {t})
    /\ RequestIs(t, "asked")
    /\ UNCHANGED <<now, stored, cli, offer, revoked, crossed>>

\* A token too many, a name in use, a rule that no longer exists.
RefuseCreate(t) ==
    /\ Unlocked
    /\ request[t].stage = "asked"
    /\ MemoryIs(Refreshed, RefreshedIndex)
    /\ RequestIs(t, "failed")
    /\ UNCHANGED <<now, stored, op, cli, offer, revoked, crossed>>

\* rename, and at a start the conversion of tokens made before they held their rules.
BeginRewrite ==
    /\ Unlocked
    /\ Refreshed # {}
    /\ MemoryIs(Refreshed, RefreshedIndex)
    /\ Begins("rewrite", {})
    /\ UNCHANGED <<now, stored, cli, people, revoked, crossed>>

\* revoke and revoke_all.
BeginRevoke(kind, gone) ==
    /\ Unlocked
    /\ gone # {} /\ gone \subseteq Refreshed
    /\ MemoryIs(Refreshed \ gone, RefreshedIndex \ gone)
    /\ Begins(kind, gone)
    /\ UNCHANGED <<now, stored, cli, people, revoked, crossed>>

\* find, for a secret the index knows, get, tokens_for and the page's checks: each may reload.
ReadTokens ==
    /\ Unlocked
    /\ MemoryIs(Refreshed, RefreshedIndex)
    /\ UNCHANGED <<now, stored, op, cli, people, revoked, crossed>>

Replace ==
    /\ op.phase = "begun"
    /\ stored' = known
    /\ noticed' = FALSE
    /\ op' = [op EXCEPT !.phase = "replaced"]
    /\ UNCHANGED <<now, known, index, cli, people, revoked, crossed>>

\* The OSError leaves memory as it is; a create's proposal is not put back.
ReplaceFails ==
    /\ ReplaceMayFail
    /\ op.phase = "begun"
    /\ op' = NoOp
    /\ request' = [t \in ScopedIds |-> IF op.kind \in {"create", "cleanup"} /\ t \in op.tokens
                                       THEN [request[t] EXCEPT !.stage = "closed"] ELSE request[t]]
    /\ UNCHANGED <<now, stored, memory, cli, offer, revoked, crossed>>

Finished(t) == CASE op.kind = "create" -> "made" [] op.kind = "cleanup" -> "failed" [] OTHER -> request[t].stage
RecordStamp ==
    /\ op.phase = "replaced"
    /\ noticed' = TRUE
    /\ op' = NoOp
    /\ index' = IF op.kind = "create" THEN index \union op.tokens ELSE index
    /\ revoked' = IF op.kind \in {"revoke", "cleanup"} THEN revoked \union op.tokens ELSE revoked
    /\ request' = [t \in ScopedIds |-> IF t \in op.tokens THEN [request[t] EXCEPT !.stage = Finished(t)] ELSE request[t]]
    /\ UNCHANGED <<now, stored, known, cli, offer, crossed>>

----------------------------------------------------------------------------
(* The secret is on its way to its owner.                                   *)

Deliver(t) ==
    /\ request[t].stage = "made"
    /\ RequestIs(t, "closed")
    /\ UNCHANGED <<now, stored, memory, op, cli, offer, revoked, crossed>>

\* The companion said no, or nothing in time: it may have the secret all the same.
DeliveryFails(t) ==
    /\ request[t].stage = "made"
    /\ RequestIs(t, "unwanted")
    /\ UNCHANGED <<now, stored, memory, op, cli, offer, revoked, crossed>>

CleanUp(t) == request[t].stage = "unwanted" /\ BeginRevoke("cleanup", {t})

\* Somebody else revoked it meanwhile.
NothingToCleanUp(t) ==
    /\ Unlocked
    /\ request[t].stage = "unwanted"
    /\ t \notin Refreshed
    /\ MemoryIs(Refreshed, RefreshedIndex)
    /\ RequestIs(t, "failed")
    /\ UNCHANGED <<now, stored, op, cli, offer, revoked, crossed>>

\* "The token was not created": restore puts the proposal back, whatever else is open by now.
AnswerFailure(t) ==
    /\ request[t].stage = "failed"
    /\ request[t].offer # None
    /\ RequestIs(t, "closed")
    /\ OfferIs(request[t].offer, "open")
    /\ UNCHANGED <<now, stored, memory, op, cli, revoked, crossed>>

----------------------------------------------------------------------------
(* The command line.                                                        *)

CliRead ==
    /\ cli = {}
    /\ cli' = stored
    /\ UNCHANGED <<now, stored, memory, op, people, revoked, crossed>>

CliWrite ==
    /\ cli # {}
    /\ stored' = {}
    /\ noticed' = FALSE
    /\ revoked' = revoked \union cli
    /\ crossed' = IF Unlocked THEN crossed ELSE crossed \union cli
    /\ cli' = {}
    /\ UNCHANGED <<now, known, index, op, people>>

----------------------------------------------------------------------------
(* What a call meets.                                                       *)

\* verify_token: find looks in the index, refreshes, and looks again.
Found(t) == t \in index /\ t \in RefreshedIndex /\ t \in Refreshed
\* A verified call's scope is read afresh: REVOKED_SCOPE when the token is gone by now.
HasScope(t) == t \in Refreshed

----------------------------------------------------------------------------
\* A new daemon reads the file; proposals, requests and calls of the old one are gone.
ScopedRestart ==
    /\ known' = stored /\ index' = stored /\ noticed' = TRUE
    /\ op' = NoOp
    /\ offer' = [p \in Offers |-> [offer[p] EXCEPT !.stage = IF @ = "open" THEN "taken" ELSE @]]
    /\ request' = [t \in ScopedIds |-> [request[t] EXCEPT !.stage = IF @ = "new" THEN @ ELSE "closed"]]
    /\ UNCHANGED <<now, stored, cli, revoked, crossed>>

ScopedTick ==
    /\ now < LastTick
    /\ now' = now + 1
    /\ UNCHANGED <<stored, memory, op, cli, people, revoked, crossed>>

ScopedNext ==
    \/ \E p \in Offers : Propose(p) \/ Decline(p)
    \/ \E t \in ScopedIds, p \in Offers : Accept(t, p)
    \/ \E t \in ScopedIds : \/ BeginCreate(t) \/ RefuseCreate(t) \/ Deliver(t) \/ DeliveryFails(t)
                            \/ CleanUp(t) \/ NothingToCleanUp(t) \/ AnswerFailure(t)
    \/ \E gone \in {{t} : t \in ScopedIds} \union {Refreshed} : BeginRevoke("revoke", gone)
    \/ BeginRewrite \/ ReadTokens \/ Replace \/ ReplaceFails \/ RecordStamp
    \/ CliRead \/ CliWrite \/ ScopedRestart \/ ScopedTick

ScopedSpec == ScopedInit /\ [][ScopedNext]_scopedVars

----------------------------------------------------------------------------
\* Once a revocation is reported no call gets past the token, neither one that presents it nor one
\* verified before; and a token whose secret could not be delivered opens nothing once it was taken
\* back. A revocation at the command line is held to it unless it met an operation the daemon had
\* begun, which puts the tokens back or overlooks the change.
RevokedIsRefused ==
    Unlocked => \A t \in revoked \ crossed : ~Found(t) /\ ~HasScope(t)

\* A proposal gives one person one token: no two of its confirmations each leave one that opens
\* something, and while it is open, or open again, none does.
ProposalGivesOneToken ==
    \A p \in Offers :
        LET opening == {t \in ScopedIds : request[t].offer = p /\ Found(t)}
        IN /\ \A s, t \in opening : s = t
           /\ offer[p].stage = "open" => opening = {}
=============================================================================
