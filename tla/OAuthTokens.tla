----------------------------- MODULE OAuthTokens -----------------------------
(* Organization mode's authorization server: registered clients, sign-ins,  *)
(* the consent page, codes, token pairs and the sealed refresh store        *)
(* (web/oauth_provider.py, web/sealed_refresh_store.py, web/oauth_consent). *)
(*                                                                          *)
(* Handlers run on one event loop; the one await that lets others in is the *)
(* identity provider's answer. A crash may come anywhere, so the two disk   *)
(* writes of a token request are two steps, with `minting` set between.     *)
EXTENDS Service

CONSTANTS Clients, Principals, Flows, Tokens,
          SignInTTL,      \* _PENDING_AUTHORIZATION_TTL_SECONDS, and the consent's
          CodeTTL,        \* _AUTHORIZATION_CODE_TTL_SECONDS
          AccessTTL,      \* _ACCESS_TOKEN_TTL_SECONDS
          ChainTTL,       \* _REFRESH_TOKEN_ABSOLUTE_LIFETIME_SECONDS
          StaleClientTTL, \* _STALE_CLIENT_TTL_SECONDS
          MaxClients,     \* _MAX_REGISTERED_CLIENTS
          MaxPending,     \* _MAX_PENDING_AUTHORIZATIONS
          MaxRecords,     \* _MAX_RECORDS of the sealed store
          SaveMayFail     \* whether writing the sealed store can meet an OSError

\* A client stays registered unused for at least as long as a chain lives (180 and 30 days).
OAuthConstants ==
    /\ None \notin Clients \union Principals \union Flows \union Tokens
    /\ SignInTTL \in Nat /\ CodeTTL \in Nat /\ AccessTTL \in Nat /\ ChainTTL \in Nat /\ StaleClientTTL \in Nat
    /\ ChainTTL <= StaleClientTTL
    /\ LastTick \in Nat \ {0}
ASSUME OAuthAssumption == OAuthConstants

VARIABLES clients,   \* oauth_clients.json: last_used_at, 0 when not registered
          flow,      \* one /authorize request each: parked, at the IdP, at the consent page, a code
          consents,  \* oauth_consents.json
          tok,       \* what a minted pair is bound to
          access,    \* _access_tokens, and both pairing indices
          refresh,   \* _refresh_tokens
          sealed,    \* SealedRefreshStore._entries
          disk,      \* oauth_refresh.json
          minting,   \* the token request between its single-use pop and its mint
          held,      \* pairs whose reply reached the client
          ended,     \* pairs rotated, revoked or past their chain's lifetime
          evicted,   \* pairs the store's cap dropped
          unsaved,   \* the store's last write failed
          revived    \* ended pairs a restart read back from a file that was not written

oauthVars == <<now, clients, flow, consents, tok, access, refresh, sealed, disk, minting, held, ended, evicted, unsaved, revived>>
stores == <<access, refresh, sealed, disk, ended, evicted, unsaved, revived>>

Stages == {"new", "parked", "atIdp", "consent", "code", "spent", "gone"}
NewFlow == [stage |-> "new", client |-> None, principal |-> None, since |-> 0]
NoToken == [chain |-> None, client |-> None, principal |-> None, issued |-> 0, expires |-> 0]

OAuthTypeOK ==
    /\ now \in 1 .. LastTick
    /\ clients \in [Clients -> 0 .. LastTick]
    /\ flow \in [Flows -> [stage : Stages, client : Clients \union {None}, principal : Principals \union {None},
                           since : 0 .. LastTick]]
    /\ consents \subseteq Principals \X Clients
    /\ tok \in [Tokens -> [chain : Flows \union {None}, client : Clients \union {None},
                           principal : Principals \union {None}, issued : 0 .. LastTick, expires : 0 .. LastTick + AccessTTL]]
    /\ minting \in {None} \union [chain : Flows, client : Clients, principal : Principals, issued : 1 .. LastTick]
    /\ {access, refresh, sealed, disk, held, ended, evicted, revived} \subseteq SUBSET Tokens
    /\ unsaved \in BOOLEAN

OAuthInit ==
    /\ now = 1
    /\ clients = [c \in Clients |-> 0]
    /\ flow = [f \in Flows |-> NewFlow]
    /\ consents = {}
    /\ tok = [t \in Tokens |-> NoToken]
    /\ access = {} /\ refresh = {} /\ sealed = {} /\ disk = {}
    /\ held = {} /\ ended = {} /\ evicted = {} /\ revived = {}
    /\ minting = None
    /\ unsaved = FALSE

Minted(t) == tok[t].chain # None
\* No token request is between its pop and its mint; and one more pair fits the bound.
Idle == minting = None
Room == \E t \in Tokens : ~Minted(t)
\* Outlived(since, ttl): the code's (time.time() - since) > ttl.
Outlived(since, ttl) == now - since > ttl
ChainLapsed(t) == tok[t].issued + ChainTTL <= now

----------------------------------------------------------------------------
(* Registered clients.                                                      *)

\* Clients nobody authenticated as for StaleClientTTL leave with the next registration.
PrunedClients == [c \in Clients |-> IF Outlived(clients[c], StaleClientTTL) THEN 0 ELSE clients[c]]
Registered(known) == {c \in Clients : known[c] # 0}

RegisterClient(c) ==
    /\ \/ PrunedClients[c] # 0
       \/ Cardinality(Registered(PrunedClients)) < MaxClients
    /\ clients' = [PrunedClients EXCEPT ![c] = now]
    /\ UNCHANGED <<now, flow, consents, tok, minting, held, stores>>

\* The cap is reached, but what was pruned stays pruned.
RefuseClient(c) ==
    /\ PrunedClients[c] = 0
    /\ Cardinality(Registered(PrunedClients)) >= MaxClients
    /\ clients' = PrunedClients
    /\ UNCHANGED <<now, flow, consents, tok, minting, held, stores>>

\* get_client: every request that names a client moves its last_used_at.
SeenAtRegistrationOnly(c) == clients
Seen(c) == [clients EXCEPT ![c] = now]
Authenticates(c) == clients[c] # 0 /\ clients' = Seen(c)

----------------------------------------------------------------------------
(* From /authorize to a code.                                               *)

Unpruned(g) ==
    IF g.stage \in {"parked", "consent"} /\ Outlived(g.since, SignInTTL) THEN [g EXCEPT !.stage = "gone"] ELSE g
PrunedFlows == [f \in Flows |-> Unpruned(flow[f])]
InStage(flows, stage) == {f \in Flows : flows[f].stage = stage}

Authorize(f, c) ==
    /\ flow[f].stage = "new"
    /\ Authenticates(c)
    /\ Cardinality(InStage(PrunedFlows, "parked")) < MaxPending
    /\ flow' = [PrunedFlows EXCEPT ![f] = [stage |-> "parked", client |-> c, principal |-> None, since |-> now]]
    /\ UNCHANGED <<now, consents, tok, minting, held, stores>>

RefuseAuthorize(c) ==
    /\ Authenticates(c)
    /\ Cardinality(InStage(PrunedFlows, "parked")) >= MaxPending
    /\ flow' = PrunedFlows
    /\ UNCHANGED <<now, consents, tok, minting, held, stores>>

Moved(f, stage) == flow' = [flow EXCEPT ![f].stage = stage]

\* _pop_pending consumes the parked request whether or not it is still valid.
IdpReturns(f) ==
    /\ flow[f].stage = "parked"
    /\ Moved(f, IF Outlived(flow[f].since, SignInTTL) THEN "gone" ELSE "atIdp")
    /\ UNCHANGED <<now, clients, consents, tok, minting, held, stores>>

\* A code, when this person has allowed this client before; else the consent page.
AfterSignInUnasked(f, p) == "code"
AfterSignIn(f, p) == IF <<p, flow[f].client>> \in consents THEN "code" ELSE "consent"

IdpConfirms(f, p) ==
    /\ flow[f].stage = "atIdp"
    /\ \/ AfterSignIn(f, p) = "code"
       \/ Cardinality(InStage(flow, "consent")) < MaxPending
    /\ flow' = [flow EXCEPT ![f] = [@ EXCEPT !.stage = AfterSignIn(f, p), !.principal = p, !.since = now]]
    /\ UNCHANGED <<now, clients, consents, tok, minting, held, stores>>

\* No token, no id_token, a nonce of another attempt, the org's policy, or too many consent pages.
IdpFails(f) ==
    /\ flow[f].stage = "atIdp"
    /\ Moved(f, "gone")
    /\ UNCHANGED <<now, clients, consents, tok, minting, held, stores>>

\* The pending consent is consumed by any answer; a late one, or one with a wrong csrf, gives nothing.
ConsentFails(f) ==
    /\ flow[f].stage = "consent"
    /\ Moved(f, "gone")
    /\ UNCHANGED <<now, clients, consents, tok, minting, held, stores>>

ConsentGiven(f) ==
    /\ flow[f].stage = "consent"
    /\ ~Outlived(flow[f].since, SignInTTL)
    /\ consents' = consents \union {<<flow[f].principal, flow[f].client>>}
    /\ flow' = [flow EXCEPT ![f] = [@ EXCEPT !.stage = "code", !.since = now]]
    /\ UNCHANGED <<now, clients, tok, minting, held, stores>>

----------------------------------------------------------------------------
(* The sealed store: the whole map is rewritten after every change.         *)

\* _save_locked: an OSError leaves the file as it was.
Saved(entries) ==
    \/ disk' = entries /\ unsaved' = FALSE
    \/ SaveMayFail /\ disk' = disk /\ unsaved' = TRUE
DiscardedInMemory(gone) == sealed' = sealed \ gone /\ UNCHANGED <<disk, unsaved>>
Discarded(gone) ==
    /\ sealed' = sealed \ gone
    /\ IF gone \intersect sealed = {} THEN UNCHANGED <<disk, unsaved>> ELSE Saved(sealed')

\* put: expired chains go first, then those closest to expiry, down to the cap.
Keepable(entries) ==
    LET live == {t \in entries : tok'[t].issued + ChainTTL > now}
    IN  {K \in SUBSET live :
            /\ Cardinality(K) = IF Cardinality(live) > MaxRecords THEN MaxRecords ELSE Cardinality(live)
            /\ \A kept \in K, dropped \in live \ K : tok'[dropped].issued <= tok'[kept].issued}
PutUnwritten(t) == sealed' = sealed \union {t} /\ UNCHANGED <<disk, unsaved, evicted>>
Put(t) ==
    \E K \in Keepable(sealed \union {t}) :
        /\ sealed' = K
        /\ Saved(K)
        /\ evicted' = evicted \union ((sealed \union {t}) \ K)

----------------------------------------------------------------------------
(* Tokens.                                                                  *)

\* _revoke_pair_locked: both halves, in memory and on disk.
RevokePairs(gone) ==
    /\ access' = access \ gone
    /\ refresh' = refresh \ gone
    /\ Discarded(gone)
    /\ UNCHANGED <<evicted, revived>>

\* exchange_authorization_code, up to its mint: the code is popped, so it is exchanged once.
\* That an expired code is refused is the SDK's own check.
CodeKept(f) == flow
CodePopped(f) == [flow EXCEPT ![f] = [@ EXCEPT !.stage = "spent", !.since = now]]
ExchangeCode(f) ==
    /\ Idle /\ Room
    /\ flow[f].stage = "code"
    /\ ~Outlived(flow[f].since, CodeTTL)
    /\ Authenticates(flow[f].client)
    /\ flow' = CodePopped(f)
    /\ minting' = [chain |-> f, client |-> flow[f].client, principal |-> flow[f].principal, issued |-> now]
    /\ UNCHANGED <<now, consents, tok, held, stores>>

\* load_refresh_token: from memory, or rehydrated from the store.
Loads(t) ==
    \/ t \in refresh /\ ~Outlived(tok[t].issued, ChainTTL)
    \/ t \notin refresh /\ t \in sealed /\ ~ChainLapsed(t)
Presents(t) == Minted(t) /\ t \in held /\ Authenticates(tok[t].client)

\* A record the store gave back stays in memory when its request is refused afterwards.
Rehydrate(t) ==
    /\ Idle
    /\ Presents(t)
    /\ Loads(t)
    /\ refresh' = refresh \union {t}
    /\ UNCHANGED <<now, flow, consents, tok, minting, held, access, sealed, disk, ended, evicted, unsaved, revived>>

\* A chain past its lifetime is revoked by the request that presents it.
PresentLapsed(t) ==
    /\ Idle
    /\ Presents(t)
    /\ ~Loads(t)
    /\ t \in refresh \union sealed
    /\ RevokePairs({t})
    /\ ended' = ended \union {t}
    /\ UNCHANGED <<now, flow, consents, tok, minting, held>>

\* exchange_refresh_token, up to its mint: the rotation ends the pair and carries issued_at on.
ChainStartNow(t) == now
ChainStart(t) == tok[t].issued
Rotate(t) ==
    /\ Idle /\ Room
    /\ Presents(t)
    /\ Loads(t)
    /\ RevokePairs({t})
    /\ ended' = ended \union {t}
    /\ minting' = [chain |-> tok[t].chain, client |-> tok[t].client, principal |-> tok[t].principal,
                   issued |-> ChainStart(t)]
    /\ UNCHANGED <<now, flow, consents, tok, held>>

\* _mint_tokens. The reply may be lost on its way.
Mint(t) ==
    /\ ~Idle
    /\ ~Minted(t)
    /\ tok' = [tok EXCEPT ![t] = [chain |-> minting.chain, client |-> minting.client, principal |-> minting.principal,
                                  issued |-> minting.issued, expires |-> now + AccessTTL]]
    /\ access' = access \union {t}
    /\ refresh' = refresh \union {t}
    /\ Put(t)
    /\ minting' = None
    /\ held' \in {held, held \union {t}}
    /\ UNCHANGED <<now, clients, flow, consents, ended, revived>>

\* load_access_token finds the token expired, and revokes the pair it belongs to.
PresentExpiredAccess(t) ==
    /\ Idle
    /\ t \in held \intersect access
    /\ tok[t].expires < now
    /\ RevokePairs({t})
    /\ UNCHANGED <<now, clients, flow, consents, tok, minting, held, ended>>

\* /revoke with either half of a pair.
Revoke(t) ==
    /\ Idle
    /\ Presents(t)
    /\ Loads(t) \/ (t \in access /\ tok[t].expires >= now)
    /\ RevokePairs({t})
    /\ ended' = ended \union {t}
    /\ UNCHANGED <<now, flow, consents, tok, minting, held>>

\* revoke_all_for_principal: the chains in memory, then what only the store knows.
SignOutEverywhere(p) ==
    /\ Idle
    /\ LET mine == {t \in Tokens : tok[t].principal = p}
       IN  RevokePairs(mine) /\ ended' = ended \union mine
    /\ UNCHANGED <<now, clients, flow, consents, tok, minting, held>>

\* The process dies and starts again: what is not on disk is gone, lapsed records are not read.
\* A request that was between its two writes leaves its client without a token.
OAuthRestart ==
    /\ access' = {}
    /\ refresh' = {}
    /\ sealed' = {t \in disk : ~ChainLapsed(t)}
    /\ minting' = None
    /\ flow' = [f \in Flows |-> IF flow[f].stage \in {"parked", "atIdp", "consent", "code"}
                                THEN [flow[f] EXCEPT !.stage = "gone"] ELSE flow[f]]
    /\ revived' = IF unsaved THEN revived \union (ended \intersect disk) ELSE revived
    /\ unsaved' = FALSE
    /\ UNCHANGED <<now, clients, consents, tok, disk, held, ended, evicted>>

OAuthTick ==
    /\ Idle
    /\ now < LastTick
    /\ now' = now + 1
    /\ UNCHANGED <<clients, flow, consents, tok, minting, held, stores>>

SignIn ==
    \/ \E c \in Clients : RegisterClient(c) \/ RefuseClient(c) \/ RefuseAuthorize(c)
    \/ \E f \in Flows, c \in Clients : Authorize(f, c)
    \/ \E f \in Flows : IdpReturns(f) \/ IdpFails(f) \/ ConsentFails(f) \/ ConsentGiven(f)
    \/ \E f \in Flows, p \in Principals : IdpConfirms(f, p)
OAuthNext ==
    \/ Idle /\ SignIn
    \/ \E f \in Flows : ExchangeCode(f)
    \/ \E t \in Tokens : Rehydrate(t) \/ PresentLapsed(t) \/ Rotate(t) \/ Mint(t) \/ PresentExpiredAccess(t) \/ Revoke(t)
    \/ \E p \in Principals : SignOutEverywhere(p)
    \/ OAuthRestart
    \/ OAuthTick

OAuthSpec == OAuthInit /\ [][OAuthNext]_oauthVars

----------------------------------------------------------------------------
(* What must hold.                                                          *)

Usable(t) == t \in refresh \union sealed

\* Rotation leaves one usable refresh token per chain, whatever a crash between its two
\* writes, a failed write or a restart does (exchange_refresh_token, SealedRefreshStore).
OneTokenPerChain ==
    \A t, u \in Tokens : Usable(t) /\ Usable(u) /\ tok[t].chain = tok[u].chain => t = u

\* A rotated, revoked or lapsed refresh token is never accepted again, in this process or
\* the next, unless the write that said so failed (_revoke_pair_locked, _save_locked).
EndedStaysEnded == \A t \in ended : Usable(t) => t \in revived

\* A token the provider accepts now is accepted after a restart too: it is on disk unless the
\* write failed, the cap dropped it or its chain is over (ADR 0072).
RestartKeepsChains ==
    \A t \in refresh : Idle /\ ~unsaved => t \in disk \/ t \in evicted \/ ChainLapsed(t)

\* Rotating never stretches a chain: no pair is minted later than its code exchange allows
\* (_REFRESH_TOKEN_ABSOLUTE_LIFETIME_SECONDS, carried through every rotation).
ChainEndsOnTime ==
    \A t \in Tokens : Minted(t) => tok[t].expires - AccessTTL <= flow[tok[t].chain].since + ChainTTL

\* Every pair was minted for a client its person said yes to (ADR 0177).
TokensRestOnConsent ==
    \A t \in Tokens : Minted(t) => <<tok[t].principal, tok[t].client>> \in consents

\* Pruning stale clients never takes the registration from under a live chain.
LiveChainKeepsItsClient ==
    \A t \in Tokens : Usable(t) /\ ~ChainLapsed(t) => clients[tok[t].client] # 0

\* "the refresh path re-mints them without anyone's involvement" (sealed_refresh_store.py):
\* a pair whose client did nothing but use it can still be refreshed.
AccessIsRemintedSilently ==
    \A t \in held : Minted(t) /\ ~ChainLapsed(t) /\ ~unsaved =>
        Usable(t) \/ t \in ended \union evicted
=============================================================================
