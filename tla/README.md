# PrivacyFence: formal model and proofs

PrivacyFence is a local daemon (or, in organization mode, a server) between an AI
client and a person's accounts. The client calls a tool over MCP; the tool's
*connector* fetches or prepares the data and awaits `gated_call` (`gate.py`) before
it returns anything or acts. The gate decides with the person's rules, or puts a
card on the person's approvals page and waits a little for the answer; after the
hold window the client gets `approval_pending`, re-issues the identical call later,
and collects the decision from a ledger. Around that protocol stand services that
must hold up through crashes, failed writes and other processes: the authorization
server of organization mode, the staging of uploads, the audit log, scoped tokens.
This directory models the protocol and these services in TLA+, checks them with TLC
on small instances, and proves their main invariants with TLAPS for every instance.

Paths below are relative to `src/src/privacyfence/` unless they start with `src/`.

## 1. Inventory

| Component | State it keeps | Operations | Talks to | What is hard | What makes it correct |
|---|---|---|---|---|---|
| Deferred-approval registry (`approvals.py`, `web_prompt.py`, `web_approval_ui.py`) | `_pending` rows, `_by_key` index, and per row: UI answer, final decision, ledger TTL, consumed/collected flags, waiters | register or coalesce, register confirm, answer, answer batch, finalize, consume ledger, wait, mark collected, release waiter, re-evaluate, two TTL sweeps | the gate, the approvals page, popup worker threads | five parties resolve one row in any order; a write's decision is single-use; TTLs lapse under waiting calls | one decision releases one write; the first decision wins; expiry never releases; a decision stays with its principal and request |
| Gate (`gate.py`) | one coroutine per call, one interaction task per card, the popup thread pool | gated_call, _resolve_decision, _drive_interaction, the two _interact, propose_policy_change, _on_rules_changed | registry, rules, audit log, dispatcher | the interaction outlives its call; cancellation; rules change between two tests | a release rests on a yes that stands; personal data needs its second dialog; exactly one audit outcome per call |
| Rules and the temp-accept window (`auto_accept.py`, `policy/`) | per principal: YAML rows, the compiled cache, in-memory windows | add, remove, update rules, set verbs, notify, arm window | gate, Settings, proposal tool | the broadcast against calls in progress; merging rows | no open card stays covered; the window opens only on an Allow once for that file |
| Settings page (`settings_controller.py`, `web/routes_settings.py`) | YAML configuration | edit rules and connectors | rules, control channel | save, reload, broadcast order | the cache is reloaded before the broadcast |
| Approvals page (`web/routes_approvals.py`, `web/approval_step_up.py`, `web/step_up_decide.py`, `webauthn_stepup.py`) | passkey challenges, batches | decide, batch decide, step-up | registry, sessions | a click, a passkey ceremony and an expiry race | a sensitive answer lands only after its ceremony |
| MCP dispatch (`web/mcp_dispatch.py`, `web/routes_mcp.py`) | in-flight futures, a 30 s result cache, cancelled calls | call, join, prune, await_approval | connectors, gate | a retry joins the call it repeats; cancellation of a joiner | a write runs once per dispatch; a cancelled caller never takes another's result away |
| Audit log (`audit_log.py`, `audit_forwarding.py`, `src/scripts/verify_audit_log.py`) | weekly JSONL files, the chain state, the chain key, the forwarder's queue | record, persist the state, verify a week, verify the whole log, forward | gate, disk, collector | threads record at once; a crash or an OSError between any two writes; a week that ends meanwhile | a sound log passes; one that passes lost, moved or changed nothing since its newest segment began; the collector never knows more than the file |
| Upload staging and the file bridge (`upload_staging.py`, `local_files.py`, `web/routes_file_bridge.py`) | slots, ciphertexts, each call's held uploads | create a slot, PUT by two routes, peek with a hold, commit, sweep | the tools that take files, the gate, the shim | two PUTs for one slot; a slot read before a card and used after it; a sweep between | an upload backs one write; the bytes written are the bytes the card showed; a read upload outlives its approval |
| Download staging (`download_staging.py`, `web/routes_downloads.py`) | staged files, one-time tokens | stage, claim, sweep | connectors, browser | a link retried; a sweep during a claim | a link serves once |
| OAuth server (`web/oauth_provider.py`, `web/sealed_refresh_store.py`, `web/oauth_consent.py`) | registered clients, parked sign-ins, consents, codes, access and refresh tokens, the sealed file | register, authorize, IdP callback, consent, exchange, refresh, revoke, sign out everywhere | MCP clients, the identity provider | rotation with a lost reply or a crash between its two writes; a failed save; a restart; caps | a chain has one usable token; an ended token stays ended; no chain outlives its lifetime; every pair rests on a consent |
| Scoped tokens (`scoped_tokens.py`, `scoped_token_proposals.py`, `web/mcp_auth.py`) | the token file, its copy in memory with index and stamp, open proposals | propose, confirm, decline, create and deliver, rename, revoke, revoke all, find | Settings, the companion, the MCP bearer check, `--revoke-scoped-tokens` | another process rewrites the file; a write or a delivery fails half way; two confirmations | a revoked token opens nothing; a proposal gives one token |
| Sessions, state stream, control channel (`web/session_auth.py`, `web/org_session.py`, `web/state_stream.py`, `web/control_channel.py`) | cookies, subscriber queues, snapshots | login, expire, subscribe, push | browser pages, companion | a slow subscriber; a snapshot older than the page | a subscriber ends on the latest snapshot |
| Organization mode and provisioning (`org_mode.py`, `org_bundle_signing.py`, `admin_config.py`, `grist_provisioning.py`, ...) | signed bundle, users, provisioned documents | verify, apply, provision | identity provider, services | an older bundle re-applied; one step of several failing | the bundle never goes backwards |
| Connectors (`connectors/`, `*_client.py`) | service clients, tokens | one method per tool | gate, REST services | none beyond the gate | each acts only after gated_call returned |
| Privacy filter, PII detector, extraction | none | text to text | gate, connectors | parsing | their verdict is an input here |
| Rendering, daemon, companion, installers, shim, Cloudflare workers, sync agent | process and UI state | start-up, pages, transport | the operating system | platform APIs | outside this model |

`PROJECT.json` lists every component with its status, and every hazard at its line.

## 2. Plan

The order is by how much rests on a part: the approval protocol decides whether data
is released at all, so it came first; then the services whose state must survive
crashes, other processes or people who come back late.

| Step | Module | State |
|---|---|---|
| 1 | `SingleUseConsent`, `PendingApprovals` (with the batch answers), `McpDispatch` | modelled, checked, proved |
| 2 | `OAuthTokens`: sign-ins, rotation, the sealed store across restarts | modelled, checked, proved |
| 3 | `UploadStaging`: slots, holds, commits behind a gate | modelled, checked, proved |
| 4 | `AuditChain`: chain, crashes, verification | modelled, checked, proved |
| 5 | `ScopedTokens`: the store beside a command line, proposals | modelled, checked, proved |
| 6 | `StepUp`: the passkey ceremony between a click and its answer, composed with the registry | planned |
| 7 | `DownloadStaging`: one-time links, claim, sweep | planned |
| 8 | `SessionStream`: session expiry and the snapshot stream | planned |
| 9 | `OrgBundle`: the signed bundle never goes backwards; `SyncRun`: a sync over a scoped token | planned |
| 10 | `PolicyRows`: merging rules as pure operators against a reference definition | planned |

Every safety property of a passing run is a theorem now (section 6). Theorems still worth
proving come with the modules that are planned, and one across modules: that the gate
`UploadStaging` assumes is the one `PendingApprovals` keeps.

## 3. Modules

| Module | Extends | Holds |
|---|---|---|
| `SingleUseConsent` | | the contract of a write's consent |
| `PendingApprovals` | | registry, gate, dialogs, rules, sweeps |
| `McpDispatch` | | `McpDispatcher.call` |
| `Service` | | the clock and the one non-value the services share |
| `OAuthTokens`, `UploadStaging`, `ScopedTokens` | `Service` | one service each |
| `AuditChain` | | the audit log, its forwarder and its check |
| `*Proofs` | its module, `TLAPS` | the theorems of section 6 |
| `ApprovalConsentProofs` | `PendingApprovalsProofs` | the theorems about consent, and the refinement of `SingleUseConsent` |
| `MCPendingApprovals`, `MCMcpDispatch`, `MCServices` | what they instantiate, `TLC` | instances, symmetry |

### `SingleUseConsent`

The contract of a write without calls, keys, TTLs or hold windows: a consent is
asked for, granted or refused once, and a granted one lets exactly one call through.
`SingleUseConsentProofs` proves `SingleUse` for it, and `PendingApprovals` instantiates it
as `Consent`: an approval of a write is a consent, and `ImplementsSingleUseConsent` is
the refinement that `Approvals_Writes` checks and `SingleUseImplemented` proves.

### `PendingApprovals`

The registry, the gate, the dialogs, the rules and the sweeps.

| In the model | In the code |
|---|---|
| `approvals[a]` | a `PendingApproval` object; it outlives its row |
| `pending`, `byKey` | `registry._pending`, `registry._by_key` |
| `answer`, `final` | `result` with `event`, `final_decision` with `finalize_event` |
| `ledgerExpires`, `consumed`, `collected`, `waiters` | the fields `ledger_expires_at`, `ledger_consumed`, `ledger_collected`, `waiters` |
| `expiredRow` | the "expired" audit row `_pop_registry_expirations` writes |
| `rules[p]`, `grace[p]` | the principal's compiled rules, as the requests they cover; the temp-accept expiries |
| `driver[a]` | `_drive_interaction` of card `a`: on the card, the personal-data dialog, the rule dialog, done; `proposal` for propose_policy_change |
| `call[c]` | one `gated_call` |
| `turn` | which call holds the event loop between its sweep and its wait |

**Grain.** All tasks run on one event loop; only the popup workers are threads, and
they block on an event. What lies between two awaits is one step. A `gated_call` has
no await between `_pop_registry_expirations` (`gate.py:1178`) and the first poll of
`wait_async`, but the clock may pass a TTL there, so that stretch is two steps with
`turn` set: `Arrive` sweeps, then exactly one of `AutoAccept`, `DenyUnattended`,
`CollectFromLedger`, `RefuseIdenticalWrite`, `RefuseCap`, `Coalesce`, `Register` ends it,
and `Tick` may come once between. A worker's registration of the next dialog is
folded into the step that hands it the dialog. `Answer` is one click, `AnswerBatch` a
batch decision (`answer_batch`): it skips what is gone, answered or not batchable and
answers the rest in one go.

**Data.** A request is its binding key: principal, whole request, policy arguments and
card digest are told apart only as far as "same" and "other". A rule is the set of
keys it covers. A scan's verdict is `PIIKeys`. "approved" also stands for
"accepted_via_temp_session". A scoped token's denial takes the path of
`DenyUnattended`. A rule that allows personal data (`gate.py:1211`) ends a call before
its card; `PersonalDataIsConfirmed` is about cards.

### `McpDispatch`

`McpDispatcher.call`: `inflight` is `_inflight`, `lastWrite` is `_last_write_at`, `fut[c]` is
the future call `c` created, `pc[c]` says whether its task runs the connector, waits on
another call's future or is over. A key is a caller (principal, scope, session and agent
together) and a tool with its arguments. `Own`, `Join` and `Replay` are the three ways
through the lookup, `Succeed`, `Pend`, `Fail` and `CancelOwner` the four ways out of the
`try`, `Wake` and `CancelWaiter` what can happen at `return await existing`. That await
is not shielded: cancelling a waiter cancels the future, and the owner's `set_result`
then raises (`SettleTooLate`, `PendTooLate`); `tornKeys` remembers the keys this
happened to. How the connector call ends is free: the gate behind it is
`PendingApprovals`.

### `OAuthTokens`

`clients` is `oauth_clients.json`, `flow[f]` one `/authorize` request on its way (parked, at the
identity provider, at the consent page, a code), `consents` is `oauth_consents.json`,
`access` and `refresh` are the tokens in memory, `sealed` the records of
`SealedRefreshStore`, `disk` its file. A token stands for a pair: `_pair` links its access
and refresh halves, and every revocation takes both.

**Grain.** Handlers run on the event loop without an await, except the callback, which
awaits the provider (`IdpReturns`, then `IdpConfirms` or `IdpFails`). A code exchange and a
rotation pop what is presented, which writes the store, and then mint, which writes it
again: `minting` is set between the two, and only a restart may come there. A failed
save leaves the file as it was and memory goes on (`unsaved`); a restart then reads back
what memory had revoked (`revived`). `held` says the client got its reply.

### `UploadStaging`

`slot[s]` is a `_PendingSlot` (which outlives its entry while something refers to it),
`files` the ciphertexts, `put[u]` the slot a PUT looked up before it awaits its body,
`call[c]` one attempt of a tool call: `ReadUploads` peeks its files and holds them,
`EnterGate` asks, `CommitAndWrite` consumes the slots and the decision in one step, as
`commit_uploads` and the write after it do without an await between. The registry
appears as its contract, one approval per key, answered at any time, given to one call;
`PendingApprovals` is the detailed one, and keeps it but for the duplicate card that
`Approvals_KeyTheft` is about. A call that was answered by `need_uploads` starts
again as a new attempt.

### `AuditChain`

`file[w]` is a week's file, a line is its kind, its number, the number of the line it
names and the key it was hashed with; `stateFile` is `.audit_chain_state.json`. `record` is
cut at each of its writes: `Stamp`, `AppendLine` or `AppendFails`, `Persist`, `Submit`, under
the lock up to the last. `Alter`, `LoseState` and `LoseKey` are what a backup, an editor or
a disk does between writes; `AuditRestart` may come anywhere and tears a line that is
being written. `WeekOk` is `verify_chain`, `WeeksMeet` and `TailOk` are the checking script's
own comparisons.

### `ScopedTokens`

`stored` is one person's `scoped_tokens.json`, `known` and `index` the daemon's `_tokens` and
`_index`, `noticed` says that the recorded stamp is the file's, so that a refresh would
not reload. An operation of the store that writes is three steps under its lock, `op`:
refresh and change memory, replace the file, record the stamp. `CliRead` and `CliWrite` are
`--revoke-scoped-tokens`, another process that takes no lock. `request[t]` is a create
request from its form or its proposal to the answer, with the companion's delivery in
between; `offer[p]` is an entry of the proposal registry. `Found` is what `verify_token` gets,
`HasScope` what a call verified earlier gets from `scope_from_access_token`.

### `MCServices`

Four state machines that share no state but the clock. `part` says which of them a
behaviour belongs to; the others stay as they started, so the run explores the four
one after another, not their product, which no property speaks of. They share model
values (a token of one is a slot of another), so that one symmetry group of twenty-four
permutations serves all four.

## 4. Runs

| Run | What it asks | Bounds that make it happen |
|---|---|---|
| `Approvals_Writes` | can one decision release two writes, on whose yes, are waiters counted, does the protocol refine the contract | three calls of one write, three ids, card TTL 1, ledger TTL 1, hold window 1, arrivals until 2: a card and a decision can both lapse while a call waits |
| `Approvals_Reads` | on whose yes is a read released, does a broadcast miss a card, is "expired" audited only when nobody collected | three calls of one read, attended or not; Settings adds and removes its rule |
| `Approvals_Dialogs` | does an acceptance skip its second confirmation, who opened the window a write went through, does the invariant of the proofs hold (`ApprovalInv`) | two calls, three ids: a card and both its dialogs; two writes to one file |
| `Approvals_Principals` | do decisions cross, do the caps bound the cards | two principals, the same two reads for both, a per-person cap of 1, one of them proposing a rule; all arrive within one tick, since a crossing or an excess needs no TTL to lapse |
| `Approvals_Live` | do held calls return, are workers freed, are denies finalized | two calls of one write, no symmetry |
| `Dispatch_Retries` | is a future ever orphaned, does a retry run twice, what is replayed, can a cached read predate an answered write, do waiters come back | three calls in two sessions of one person, on a read and an exempt write, TTL 2, three ticks, no symmetry |
| `Services` | the four services: does a chain ever have two usable tokens, stretch, come back or lose its client; does an upload back two writes or change under a card; does a sound log pass and a passing log say the truth; does a revoked token open anything, a proposal give two | below |
| `Approvals_ExpiredRead`, `Approvals_KeyTheft`, `Dispatch_SecondRun`, `OAuth_ExpiredAccess`, `Audit_RestartPoint` | five sentences of the repository the code does not keep | an instance as small as its counterexample allows |

Bounds of `Services`, part by part:

* *Sign-ins.* Two clients, two sign-ins, three pairs, room for one client, one parked
  request and one sealed record: a registration prunes, a cap refuses, a mint evicts
  another chain's record, and a chain rotates beside another one. TTLs of one
  tick for codes and sign-ins, two for a chain and for a stale client (their order is
  the assumption), four ticks: every deadline passes inside the run.
* *Uploads.* Three slots, two PUT requests, two contents, two calls of one person over
  one upload id, one of them with a file on the caller's disk; a second owner has slots
  too. Every TTL is one tick; `LastUpload` stops the clock at 3, the deadline of a hold
  made in the first tick.
* *Audit.* Two threads, two weeks, three entries after a line older than the chain, a
  queue of one, `MaxMishaps` 1 of six kinds of fault at any write. (With two mishaps the
  audit part alone has 403502 states and passes as well.)
* *Scoped tokens.* Two tokens, a limit of two, one proposal, `OfferTTL` 1, two ticks
  (`LastScoped`): two confirmations, a failed delivery, a restored and an expired proposal,
  the command line in the middle of any operation.

Each call, id, entry and tick is used once, so every behaviour is finite and each run is
exhaustive for its instance; `CHECK_DEADLOCK FALSE` because every call may be over, every
dialog answered and every entry written. Three calls are enough for the conflicts
between a holder, a joiner and a later re-issue, three pairs for a chain that rotates
beside another; TTLs of one or two ticks are enough because the code only compares
`now` with a deadline. `HoldWindow` 1 lets any step happen inside it.

## 5. Fairness

`FairSpec` of `PendingApprovals` assumes that time passes, that a call that is ready runs
(the event loop is fair and nothing on it blocks) and that a worker whose event is set
returns. It does not assume that a person answers, that a client re-issues a call, that
a sweep ever comes (sweeps ride on later calls), or that a client does not cancel. In
`McpDispatch` it assumes that a connector call ends and that a woken waiter runs. The
services are checked for safety only: each of their handlers runs to its end or fails,
and nothing in them waits for another party.

## 6. Proofs

Every theorem holds for every value of the constants under its module's named
assumption, which TLC evaluates on every run: TTLs are naturals, `None` is nothing else,
and the following.

| Module | Assumption beyond that | Inductive invariant | Theorems |
|---|---|---|---|
| `SingleUseConsent` | | the type | `ConsentIsSingleUse` |
| `PendingApprovals` (ownership) | windows and TTLs are positive, reads and writes distinct | `TypeOK`, `OwnershipInv` | `TypeCorrect`, `WritesHaveOneOwner`, `OneDecisionOneWrite`, `DecisionNeverCrosses` |
| `PendingApprovals` (consent) | the same | `ApprovalInv` | `ApprovalsInvariant`, `FirstDecisionStands`, `WritesNeedConsent`, `ReadsNeedConsent`, `PersonalDataConfirmed`, `AcceptAllConfirmed`, `SweptReachedNobody`, `WaitersCounted`, `WindowsNeedAllowOnce`, `BroadcastReachesEveryCard`, `CapsRespected`, `SingleUseImplemented` |
| `McpDispatch` | | `Inv` of its proofs | `DispatchTyped`, `NoFutureIsOrphaned`, `RetriesRunOnce`, `NothingElseIsReplayed`, `CachedReadsAreCurrent` |
| `OAuthTokens` | `ChainTTL <= StaleClientTTL` (30 and 180 days in the code) | `OAuthTypeOK`, `FlowsKnow`, `PairsKnow`, `MintingKnows`, `StoreInv` | `TokensTyped`, `ChainsHaveOneToken`, `EndedTokensStayEnded`, `RestartsKeepChains`, `ChainsEndOnTime`, `TokensNeedConsent`, `LiveChainsKeepTheirClient` |
| `UploadStaging` | a call has one caller and names its files | `UploadTypeOK`, `SlotsAreMinted`, `CallsKnow`, `CardsShowTheirKey`; for the hold also `HoldInv` | `UploadsTyped`, `UploadsAreUsedOnce`, `BytesStay`, `WritesAreCovered`, `UploadsOutliveApprovals`, `FilesHaveSlots` |
| `AuditChain` | what precedes the chain has no chain fields | `Typed`, `OneHolder`, `AllRecorded`, `SoundInv`; for the whole log also `WholeInv` | `SentIsRecorded`, `SoundLogsVerify`, `PassingLogsAreWhole` |
| `ScopedTokens` | | `ScopedTypeOK`, `LockInv`, `FreshInv`, `RevokedInv`, `OfferInv` | `ScopedTyped`, `RevokedStayOut`, `ProposalsGiveOneToken` |

Why the strengthenings are needed:

* **A write.** `OneCollectorPerWrite` alone is not inductive: a state with a collected write
  that is not consumed satisfies it and a step breaks it. `OwnershipInv` adds that a
  waiting call holds its write (its waiter is counted, the write is unconsumed, no other
  call waits on it), that a collected write is consumed, that `_by_key` leads only to cards
  of its own key, and that a call's approval was made for its request. Interactions and
  person steps are shown "quiet" (they touch no request, waiter or consumption) once, so
  only the calls' own steps need the ownership argument.
* **A consent.** None of the consent properties is inductive: that a released write had a
  yes follows from what the call was told being what its branch of `gated_call` makes of
  the decision (`OutcomesFollowDecisions`), and that from what stands behind a decision
  (`DecisionsHaveConsent`), down to the interaction having come past its card on a yes
  only. `ApprovalInv` joins these with `OwnershipInv`, the counted waiters, the broadcast,
  the caps, `BlankUntilRegistered` (an id nobody used has no history), `SweptIsOver` (a row
  swept as uncollected is consumed and unwaited, so no later call collects it) and
  `PermissionsHaveASource` (a window was opened by a call that was approved). The caps
  and the counts need their sets finite, which is part of it (`WaitersAreFinite`), since
  nothing bounds the number of calls. The proof first says, once, how any step may move
  a row and a call (`RowsMove` and its like), and then takes each part of the invariant
  through those moves instead of through every action.
* **The contract.** `SingleUseImplemented` maps a write card to a consent by its decision and its
  consumed and collected flags (`ConsentIn`), and a released call to the consent it took
  (`TakenBy`). A step of the loop that registers a card is the contract's `Ask`, a finalization
  or a broadcast its `Grant` or `Withdraw`, a collection its `Take`; an arrival withdraws all that
  it sweeps at once. The rest are stutters, and that takes `ApprovalInv`: a collected write
  is consumed, so it cannot be taken twice.
* **A dispatch.** A running call of an untorn key *is* the entry of that key, and its
  future is pending, so a later call finds it and joins. The freshness theorem rests on
  `WritesAreStamped`: an owner that missed an answered write started no later than
  `lastWrite`, which the code's `<=` treats as stale even on a tie.
* **A refresh chain.** `PairsKnow` says where a pair's chain, client and dates come from,
  `MintingKnows` that the token request between its two writes owns its chain (no pair of
  it is usable any more), `StoreInv` how memory, the store's records and the file differ:
  by what was evicted, what lapsed and what a failed save left behind. The client of a
  live chain survives pruning because it was used no earlier than the chain's newest
  pair, and the chain is over before the client is stale.
* **An upload.** `CallsKnow` ties what a call read to slots that are filled with it, owned by
  its caller and not consumed by it yet, `CardsShowTheirKey` ties a card to its key's bytes. For the
  hold, `ReadersHold` and `ApprovalsHold` carry the deadline from the call that peeked to the
  approval made with it, and `NamesAreUnique` says that no second slot answers to a name. A ciphertext loses its
  entry only in a step that removes it too (`FilesStep`), late bytes apart.
* **An audit log.** `SoundInv` says that, with no mishap, the lines on disk are the entries
  written, in order (`LinesChain`), that the chain state names the last of them or the
  thread under the lock knows the difference (`Position`), and that the first chained line of a
  week names the last of the week before (`Meet`). That a passing log is whole must be argued
  for logs somebody altered, where none of this holds. `WholeInv` keeps what an alteration
  cannot break: every whole line of a file was written (`FilesAreWritten`), numbers grow in
  the order of writing (`Numbered`), and while no write was interrupted, failed or late a
  line names the one before it or starts a segment (`NamesItsPredecessor`), a later week
  holds later lines (`WeeksInOrder`), and the logger knows its place (`LoggerKnows`). Then the first
  missing line of the newest segment would come after one on disk (`LeastOf`, from the
  library's `WFMin`), and `NextIsOnDisk` shows that its absence would be seen: by the next line,
  by the next week's first line, or by the state file.
* **A scoped token.** `LockInv` says what the operation under way has done to memory and what
  the file may hold beside it: when the stamp is out of date the file is empty or the
  operation's own. `FreshInv` says that a token yet to be made is nowhere, `RevokedInv` that a
  revoked one is neither in the file nor in what memory will say, `OfferInv` that a proposal has
  one claimant and an open one none.

Checked by TLC only: liveness (`HeldCallReturns`, `ResolvedCardFreesItsWorker`,
`DenyIsFinalized`, `WaiterReturns`), which needs `ENABLED` and is out of the prover's reach.

## 7. What the code does not keep

* **An expired card can release a read** (`Approvals_ExpiredRead`). A read that joined a card near its
  TTL is still in its hold window when another call's sweep expires the card. The
  decision "expired" is none of the values the review branch tests, so it falls
  through to "approved" (`gate.py:1365`) and the data is returned.
  `approvals.py:1086` says expiry is "never auto-approved". The write branch ends
  with the deny and is not affected.
* **A sweep can take a newer card's key** (`Approvals_KeyTheft`). `pop_expired_events` frees the key of
  an expired card unconditionally; `_drop_key_locked`'s comment (`approvals.py:1054`)
  says why it must not be.
* **A waiter's cancellation tears the call it waits on** (`Dispatch_SecondRun`). The owner's
  client gets `InvalidStateError` for a call that succeeded, retries get a cancellation
  for up to 30 seconds, and a retry after that runs beside the owner.
  `mcp_dispatch.py:247` promises the in-flight result "instead of a second gated call".
* **An expired access token ends its chain** (`OAuth_ExpiredAccess`). `load_access_token` revokes the
  pair of a token it finds expired (`web/oauth_provider.py:734`), refresh token included, so
  the client must sign in again. `web/sealed_refresh_store.py:12` says "the refresh path
  re-mints them without anyone's involvement".
* **A lost chain state fails its week** (`Audit_RestartPoint`). The segment that restarts at
  `GENESIS_HASH` in mid-week does not follow its predecessor, and `verify_chain` rejects it
  (`audit_log.py:714`). `audit_log.py:1074` says such a restart point is valid; it is, across
  weeks.

Seen while modelling, with no run of their own:

* A call that joined in flight is handed the owner's single-use download too;
  `local_files.py:215`, "must never be replayed", is kept by the cache only. A read that
  joins one in flight may get data fetched before a write that was answered meanwhile;
  the repository states its staleness rule for finished reads.
* Confirm dialogs are never finalized, so an answered one is audited as expired after its
  TTL. An approval that expired unanswered never leaves `_pending` (`approvals.py:1106`). The
  registry is memory only: a restart forgets decisions nobody collected.
* A card answered after its TTL and before any sweep is still collected, and may then
  outlive the hold on the uploads it showed; `HeldUploadOutlivesItsApproval` is about cards
  answered in time. A `commit_uploads` that fails on one file has used up the earlier ones.
  Bytes that arrive after their slot was swept stay on disk until the next start.
* `revoke_all_for_principal` leaves codes and sign-ins under way alone, and nothing calls
  it. `_codes` is never pruned.
* The checking script, run beside the daemon, can read a line whose state is not written
  yet and report a cut tail; an older state file hides a tail that really was cut.
* `--revoke-scoped-tokens` is lost when it falls between the daemon's refresh and its
  replace (the daemon writes the tokens back) and overlooked when it falls between the
  replace and the stamp (until the file changes again or the daemon restarts), though
  ADR 0165 and `daemon_main.py:2639` say a running daemon notices. `RevokedIsRefused`
  sets these tokens apart as `crossed`.
* A scoped token's revocation whose write fails answers 500; memory has dropped the token,
  so a retry says "No such token", and a restart reads it back from the file. A creation
  whose write fails leaves the token listed, though nothing finds it. `restore` can exceed
  the five open proposals of ADR 0250.

## 8. Not modelled

* *Parts of modelled components.* Download links and paths the daemon opens itself; the
  readers and exports of the audit log; damaged files (each store skips what it cannot
  read); the activity file and the rules of scoped tokens; the unattended flags and
  meta-tools of the dispatcher; the row algebra of the rules.
* *Components of the plan.* Passkeys, download staging, sessions and the state stream, the
  organization bundle, the sync agent.
* *What has no state to speak of.* Connectors and their clients translate one call each
  and act only after `gated_call` returned; filters, scanners and renderers turn text into
  text, and their verdicts are inputs here; the daemon's start-up, the companion, installers,
  shim and workers are operating-system and network calls.

Connectors, clients, page templates, fixtures and platform code are the bulk of the
repository's lines. The modelled state machines are a few thousand of them, which is why
the definitions here stand for a small share of the whole and why that share cannot
become large without inventing state for code that has none.
