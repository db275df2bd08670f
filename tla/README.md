# inference-api: a TLA+ verification project

The repository holds a pay-per-token inference platform: `inference-mono/api` (the
control plane) and `inference-mono/inference_api` (the data plane), two FastAPI
services over one Postgres database and one Redis, and a dashboard in `ui`. Below,
`IA/` is `inference-mono/inference_api/inference_api/` and `CP/` is
`inference-mono/api/app/`.

## 1. Inventory

### How the parts interact

    client ---/v1 (key)--> inference plane --reserve/settle--> token ledger (Postgres)
    subnet router --/router/inference--> router plane ----------^        ^
    client ---/v1/e2e---> sealed relay -------------------------^        | wallet top-ups,
         inference plane --select/forward--> miner (TEE) <--provision--  | plans, adjustments
         miner --register/heartbeat--> miner registry <-- provisioner    |
         maintenance loop --expire, finalize, collect receipts--> ...    |
    Stripe --webhook--> control plane (billing, referrals, keys, auth) --+

Every request has a session of its own (`IA/db.py`, `CP/db/session.py`): READ COMMITTED,
row locks by `SELECT ... FOR UPDATE` only where the code asks for them, nothing committed
unless the handler does it, everything rolled back on an error. Two requests of one user are
two transactions. A flush writes the columns whose value differs from the one loaded.

| component | state | operations | hard behaviour | what makes it correct |
|---|---|---|---|---|
| Token ledger `IA/usage.py`, its twin `CP/usage/service.py` | `usage_periods`, `inference_usage_events`, `user_wallets` | reserve, settle, release, expire, recalculate | overlapping transactions, stale reads, expiry racing settlement, rollover, changing allowances | tokens conserved, counters exact, no overdraft, a hold covers its settlement, an event closed once |
| Spend caps `IA/key_limits.py` | sums over events of a key | check at reservation | windows, overlapping reservations | no key past its cap |
| Router plane `IA/router_service.py` | - | validate, reserve, settle, release | retries, duplicated calls | one outcome per reservation |
| Inference and streaming planes `IA/product_routes.py`, `IA/e2ee_routes.py` | event, attempt rows, usage log of a request in progress | reserve, fail over, stream, settle in `finally` | disconnects, broken streams, reused request ids, sessions that wait for one another | what is served is charged, once; every record of a call agrees; no reservation leaks |
| Miner registry `IA/miners/` | `miners`, `miner_models`, nonces and owner binding in Redis | register, heartbeat, replace models | replay, re-registration, revoked miners | traffic goes to attested, healthy miners only |
| Provisioner `IA/provisioner/` | tokens, attestation status, a Redis lock per miner | provision, supersede | lock TTL, failure between enclave and database | one active token per model; a stale pin is not served |
| Maintenance `IA/maintenance/tasks.py` | health, expiry | expire health and tokens, flag, deregister | runs beside everything else | deregistered means not served |
| Stake quota `IA/ht_indexer.py`, `IA/maintenance/tasks.py` | snapshots of what a wallet has staked | read the indexer, snapshot, grant the latest | two queries and a moving chain, failed reads, a cap per pass, wallets unlinked meanwhile | what is granted was due, and is due in the end |
| Selector, forwarder `IA/routing/` | - | select, forward, mark stale | status read before the request, changed during it | as above |
| Statistics `IA/stats_*.py` | per-request rows, epoch snapshots | record, finalize | late rows and receipts, failed passes, deferred epochs | an artifact is complete and final |
| Receipts `IA/miners/receipts.py` | cursor per model, verified flags | collect, reconcile | truncation, rollback, receipts before attempts, replaced model rows | no row is verified without a receipt, no receipt is skipped |
| Billing `CP/billing/` | subscriptions, accounts, webhook events, wallet | checkout, change, cancel, webhooks, top-up | duplicated, late and reordered events beside the account's own requests | a payment counts once, status follows Stripe, one open checkout |
| Referrals `CP/referrals/` | codes, aliases, referrals, earnings | choose a code, sign up by one, credit a payment | a code moving between two tables, concurrent payments | shared links keep leading to their user; a payment credits once |
| Sessions `CP/auth/service.py` | refresh tokens, `token_version`, `active` | log in, rotate, log out, change password, disable, enable | rotation racing revocation, a token used twice | one live token per family; what is ended stays ended |
| Sign-in `CP/auth/{phone,wallet,oauth}.py`, `CP/users/`, `CP/wallets/` | codes, nonces, links, address and its verification | request, guess, sign in or create, link, unlink, verify, change address | guesses that overlap, accounts committed halfway | a proof is bounded; an account can be reached; a verified address was proven |
| API keys `CP/api_keys/`, service clients `CP/service_clients/`, `IA/api_keys.py` | keys, clients, counters in Redis | create, mint, update, revoke, authenticate, rate limit | stale rows written back, a Redis that fails, the turn of the minute | revoked stays revoked; limits hold |
| Administration `CP/admin/` | roles, accounts, plans | grant, revoke, disable, bootstrap, edit plans | counts and checks without locks | an owner and an enabled account remain; a price names one plan |
| Allowlist `IA/allowlist_*.py` | allowed hashes, version | serve, seed | deactivated rows | - |
| Attestation documents, chain readers, status, pricing, schemas, dashboard, vendored code, migrations | none or external | reads, formatting | none for a model | - |

`PROJECT.json` lists every part with its status, and under "hazards" each place where the
code can go wrong in a way a test would hardly reach.

## 2. The modules

| module | models | built on |
|---|---|---|
| `TokenSums` | the `SUM(...)` aggregates: a sum of token counts is the number of tokens | - |
| `UsageLedger` | the ledger of one user, one committed transaction per action | `TokenSums`, instantiates `PrepaidWallet` |
| `PrepaidWallet` | what the pay-as-you-go wallet promises, with no periods, keys or limits | `TokenSums` |
| `LedgerTx` | the same ledger, statement by statement, with overlapping sessions | `TokenSums` |
| `InferencePlane` | calls of one user over the plain, streaming and sealed planes | - |
| `EpochStats` | the statistics rows of one (hotkey, model, version) bucket and the artifacts made of them | `TokenSums` |
| `ReceiptChain` | the receipts of one enclave and the attempt rows they verify | - |
| `MinerLifecycle` | the rows of one miner and its models, and all that writes them | - |
| `StripeBilling` | subscriptions, checkouts, top-ups and referral credits of one user, beside Stripe | - |
| `UserSessions` | refresh and access tokens of one user, and all that ends them | - |
| `SignIn` | proofs of identity, the accounts they create or link, the verified address | - |
| `StakeQuota` | the snapshots of stake that grant tokens, beside the chain and the users who link wallets | - |
| `Overlap` | requests that read, decide and write without a lock | - |
| `AdminRoles`, `ApiKeys`, `BillingPlans`, `Credentials`, `ReferralCodes` | groups of tables such requests work on | `Overlap` |
| `Administration` | the five together, and what relates them | the five |
| `MC...` | the constants of the checked instances; `MCLedgerTx` and `MCStakeQuota` have two scenes each, `MCAccounts` is about sessions or about signing in, `MCMinerStats` about receipts or about epochs, and a behaviour stays with one | |
| `UsageLedgerProofs`, `LedgerTxProofs`, `MaintenanceProofs`, `MinerLifecycleProofs`, `AccountsProofs`, `AdministrationProofs`, `InferencePlaneProofs`, `StripeBillingProofs` | lemmas and theorems | `TLAPS` and the library's theorems |

### UsageLedger

| variable | code |
|---|---|
| `event[r]` | the row of request `r` in `inference_usage_events`: `status`, `usage_period_id`, `api_key_id`, `created_at` (as the day or month it falls in), `reserved_tokens`, `wallet_reserved_tokens`, `charged_tokens` |
| `period[p]` | `total_allowance`, `used_tokens`, `remaining_tokens` of a `usage_periods` row |
| `balance` | `user_wallets.balance_tokens` |
| `due` | the requests with `expires_at <= now` |
| `current`, `allowance`, `unlimited` | what `_current_period_bounds`, the five allowance queries and `_is_unlimited_subscriber` return now |
| `window` | the day or month `limit_window` starts from |
| `credited` | history: wallet tokens bought |

| action | code |
|---|---|
| `RecalculateCurrentPeriod` | `current_period`, `validate_request`, and a replayed request id: expire, then recompute the current row |
| `Reserve(r, k, n)` | `reserve_inference_tokens` + commit; its 402s are guards |
| `Settle(r, c)`, `Release(r)` | the settlement and release of the streaming, sealed and plain planes |
| `ReleaseOverdue(r)` | a release (or a refused settlement on the plain plane) that only expires |
| `RouterSettle(r, c)`, `RouterRelease(r)` | the router plane: expire, settle or release, recalculate, commit |
| `TopUp(n)` | `BillingService._credit_wallet_topup` |
| `Lapse`, `NextWindow`, `ChangeAllowance`, `ChangeSubscription` | time, and the rows other parts of the system write |

A call that raises leaves no trace (its transaction is rolled back), so it is no action.
Amounts are charged tokens: `charged_token_count` has been applied. USD cents are a monotone
function of wallet tokens, so a USD cap is the largest number of wallet tokens it buys. A
charge is at least 1: every plane settles at least one prompt token. It may exceed the
reservation by up to `Overrun`.

### LedgerTx

A session runs one call, one statement per step. A plain `SELECT` sees what is committed;
`FOR UPDATE` and `UPDATE` take a row lock (`owner`) or wait; writes become visible at
`Commit`. `work[s]` is the session: the expiry's cursor, the identity map's `used_tokens` of
each period (`view`), the event as it was read, and the pending writes. `_lock_period` does
not refresh an object the session has already loaded, so in `reserve` the value used under
the lock is the one read before it, in `settle` and `release` the locked one. A session may
crash at any statement and lose everything uncommitted; sessions that wait for one another
are a deadlock, of which Postgres fails one (`DeadlockVictim`). The plan is not unlimited
and the allowance fixed here, since `UsageLedger` varies both.

### PrepaidWallet

Tokens enter by purchase, a request opens a hold once, a hold is captured or voided once, and
any of the owner's transactions may void overdue holds. `UsageLedger` implements it with
`funds` as the balance and `hold[r]` as the state and wallet portion of an event.

### EpochStats

`row[a]` is an attempt's row of `miner_request_stats` and how far the transaction it rides
along with is; `epoch` is what `current_epoch()` returns, `clock` the wall clock;
`snapshot` is `miner_epoch_snapshots`; `pass` is the loop variable of the running
`finalize_due`, `drafts` what it has added to its session and not committed.

| action | code |
|---|---|
| `RecordSuccess`, `RecordFailure`, `CommitRow`, `LoseRow` | `stats_recorder.py`, and the commit or rollback of the caller |
| `Verify` | the collector sets `verified` (how is the subject of `ReceiptChain`) |
| `StartPass`, `Finalize`, `CommitPass`, `FailPass` | `finalize_miner_epoch_stats`: one transaction, one epoch per iteration |
| `NextEpoch`, `NextSecond` | the chain, the clock |

`SettleEpochs` is the assumption that the setting `miner_stats_settle_lag_epochs` stands
for: a row is committed, and corroborated, at most that many epoch boundaries after its own
epoch. It bounds `NextEpoch` and `Verify`, and nothing in the code does.

### ReceiptChain

`attempt[a]` is an attempt's row together with what the enclave counted for it; `chain` and
`key` are the enclave's receipts and signing key; `model` is the `miner_models` row (cursor,
usage anchor, attested key); `page` is what the running pull holds: the row it loaded before
the HTTP call, and the reply. Two history variables: `late` has the attempts whose receipt was
read before their row was committed, `lost` says that a restart has cut receipts off.

| action | code |
|---|---|
| `Serve`, `Restart` | the enclave, which is not in this repository |
| `RecordSuccess`, `RecordFailure`, `LoseRow` | the row and the commit it rides along with |
| `Register`, `Provision` | `replace_models` (a new row, no cursor, no anchor), a (re-)attestation |
| `Fetch`, `Abandon`, `Reconcile` | `collect_model`: the request; every skip and failure; the rows, cursor, anchor and commit |

SQLAlchemy writes a column only if its value differs from the one that was loaded
(`Written`); if the row was replaced meanwhile the `UPDATE` finds nothing and the pass is
rolled back (`Abandon`). A receipt's `row_id` is its place in the chain.

### MinerLifecycle

| variable | code |
|---|---|
| `miner` | the `miners` row: `tee_endpoint`, `attestation_status`, `health`, `last_seen` (recent, past `health_stale_after_seconds`, past `dereg_after_seconds`), `attestation_expiry` (`due`), and how often it has registered |
| `model[m]` | the `miner_models` row: status, an endpoint of its own if it has one, the attested certificate (`pin`: which boot of which enclave), and two history fields, by which registration it was inserted and how many there had been when it was attested |
| `token[m]` | the active `provisioned_tokens` row, 0 if there is none |
| `enclave[e]` | outside the repository: which boot runs at an endpoint, and the token sealed into it |
| `guard`, `owner` | the key `miner-provision-lock` in Redis, the Postgres lock of the `miners` row |
| `work[p]` | a provisioner: the endpoint it has read, the models left, the document in hand, what it has sealed and not committed |
| `reg`, `sweep`, `request` | a registration, a maintenance pass and a request between what they read and what they write |
| `faults`, `torn` | failed attempts so far; history: a token was sealed and its row not committed |

| action | code |
|---|---|
| `RegisterLoad`, `RegisterCommit` | `upsert_from_registration`: `get_by_hotkey`; the flush, `_revoke_active_tokens`, `replace_models`, the commit |
| `Heartbeat` | `record_heartbeat` and its commit |
| `Acquire`, `GuardExpires`, `Load`, `Flush` | `_candidates`, `per_miner_lock`, the read of the miner, the flush of "verifying", which takes the row lock |
| `Attest`, `Seal`, `Reject`, `FailModel`, `Finish`, `Crash` | `_provision_model` for each model, the end of `_run`, the commit; every way to fail |
| `Inspect`, `Sweep` | `expire_health`, `flag_near_expiry`, `expire_tokens`, `deregister_stale` |
| `Select`, `Dial`, `MarkStale` | `MinerSelector.select`, `forward`, `_mark_stale` |
| `Restart`, `Age` | the enclave, the clock |

A session that has loaded a row writes the attributes that differ from what it loaded
(`Change`), over whatever is stored by then (`Flushed`), and waits for the row lock first.
The status "verifying" is never committed, so nobody sees it. A heartbeat reads and writes
in one step: between the two it could only miss a health that the next heartbeat repeats.
Tokens are random; `NewSecret` is a number that nobody holds, which keeps the state finite.
Every model is loaded, and a token that cannot be used (none, a 401, a transport error) ends
a request without a change.

### InferencePlane

A call is a coroutine with a database session. The plain plane holds one transaction from
its reservation to its answer, and with it the row of its API key and of the period it
inserted into; the other two commit the reservation, relay, and close it in a later one.

| variable | code |
|---|---|
| `event[r]`, `due` | the `inference_usage_events` row of a request id; whether its time to live has passed |
| `call[c]` | the coroutine: plane, id, the status of the event it holds in memory (`expire_on_commit` is off), what its open transaction has written, candidates left and failed, chunks relayed, usage reported |
| `stats`, `log` | committed rows of `miner_request_stats` and `api_key_usage` |
| `stale` | miners marked after a pin mismatch |

| action | code |
|---|---|
| `PlainReserve`, `StreamReserve`, `SealedReserve`, `Refuse` | the handlers up to the first candidate, with `Expire` and the replay of a known id |
| `AttemptFails`, `ForwardFails`, `AttemptBreaks`, `AllFailed`, `CannotOpen`, `SealedFails` | failover, what is rolled back with it, and the end of the candidates |
| `PlainAnswer`, `SettleRaises`, `SealedAnswer`, `SealedError`, `SealedRefusal`, `EchoFallback` | the answers |
| `OpenStream`, `Chunk`, `UsageChunk`, `CloseStream` | the stream, and its `finally` block however it ends |
| `Lapse`, `Crash`, `ListInstances`, `InstanceAttestation` | time, the process, the reads beside it |

Ids of a sealed call are derived from the key and the caller's id (`BillingRid`). What
happens inside one short transaction is the subject of `LedgerTx`; here it is a step.

### StripeBilling

Stripe is external: `session`, `live`, `version` and `emitted` are its sessions,
subscriptions and events, delivered in any order and again until `processed`. `row` is
`user_subscriptions`, `pending` the marker on `user_billing_accounts`; `purchases`,
`earnings`, `bonuses`, `recorded` and `started` are what is written to the wallet, the
referrer and the history. `tx` is the set of requests under way, each with what it has read
from the database and from Stripe.

| action | code |
|---|---|
| `CheckoutBegin`, `CheckoutCommit` | `create_checkout_session`, `_reject_if_checkout_pending` |
| `ChangePlanBegin`, `CancelBegin`, `SyncPageBegin`, `SyncCommit` | the account's requests, each ending in `_sync_subscription` (`SyncRow`) |
| `ReceiveSub`, `WebhookCommit`, `InvoiceSwallowed` | `process_webhook_event` of subscription, checkout and invoice events |
| `ReceiveTopup`, `TopupCommit` | `credit_wallet_topup` |
| `CompleteCheckout`, `ExpireCheckout`, `ChangeOutside`, `PayTopup`, `ChangeAtStripe` | Stripe |
| `Fail` | a request that fails or dies: rolled back, its event delivered again |

### UserSessions

`refresh[t]` is a row of `refresh_tokens`, named by family and place; `access[t]` the
`token_version` in the access token issued with it; `tokenVersion` and `active` the columns
of the user. Each operation is a read and a commit: `LoginBegin`/`LoginCommit`,
`RefreshBegin`/`RefreshCommit` (`Rotate`: the conditional `UPDATE` whose row count decides),
`LogoutBegin`, `PasswordBegin` and `RevokeAll`, `AdminBegin` (disable, revoke sessions),
`RevokeAllCommit`, `EnableBegin`/`EnableCommit`. `ended` and `barred` are history: families
and access tokens that a revocation has seen; a family whose rotation was under way is
not among them (see the notes), and `lapped` says that two of them wrote `token_version`
over each other.

### SignIn

One phone number, wallet or provider profile, an account that exists and one that signing in
creates. `proof[n]` is a code or nonce with its attempts; `RequestBegin`, `GuessBegin`,
`SignInBegin`, `LinkBegin`, `VerifyBegin` and `EmailBegin` read, their commits write.
`Create` is the commit of `UserManager.create` in the middle of a request, after which
`PhoneSignInCommit`, `WalletSignInCommit` or `OAuthSignInCommit` ends it.

### StakeQuota

`log[a]` are the events of an account on the chain since the indexer's first block, `before[a]`
its stake until then, `ripe[a]` how many of the events are `min_days` old: the replay of
`compute_streak_start` asks of a time no more than that. `wallet` is `evm_wallets`, `snap[u]`
what the snapshots of a user amount to (how many passes ago the last was taken, and what
the last without an error grants), `pass` the pass of the maintenance loop in its session.

| action | code |
|---|---|
| `PassBegin` | `refresh_subnet_stake_allowances`: the time, the wallets, which are stale |
| `ReadAmount`, `ReadEvents` | the two queries of `get_subnet_stake_status`; with the second the snapshot is written |
| `ReadFails` | a query that fails: a snapshot with an error |
| `PassCommit`, `PassFails` | the end of the stage in `run_maintenance_pass` |
| `Link`, `Unlink` | `WalletService` |
| `ChainMoves`, `Ripen` | the chain and time |

`Due` says by definition what is due to an account; `dues[u]` collects it over the moments
of a read.

### Overlap and what is built on it

`tx[w]` is a request: what it decides on (`minds`) and what of it others have committed
since (`stale`). A request that writes while stale is an overlap nobody noticed: `late`
collects what was written over that way, and the properties say what holds apart from it.
With `late` empty the properties are unconditional.

| module | state | operations |
|---|---|---|
| `AdminRoles` | assignments, enabled accounts | `Grant...`, `Revoke...`, `Disable...`, `Enable...`, `BootstrapBegin`, each behind `Admit` (`require_permission`) |
| `ApiKeys` | one owner's keys: state, managed, cap and window | `CreateBegin`, `MintBegin`, `UpdateBegin`, `RenameBegin`, `RevokeKeyBegin`, `KeyCommit` |
| `BillingPlans` | plans: on sale, fixture, prices | `CreatePlanBegin`, `UpdatePlanBegin`, `ActivateBegin`, `DeactivateBegin`, `PlanCommit` |
| `Credentials` | a key, service clients, the counters of each minute | `CreateClientBegin`, `RevokeClientBegin`, `AuthenticateBegin`, then `Meter`, `OverRate` or `CounterFails`, `ClientCommit`; `MinutePasses`, `LapseCred` |
| `ReferralCodes` | current codes, aliases, referrals | `EnsureBegin`, `SetBegin`, `RecodeCommit`, `SignupBegin`, `SignupCommit` |

The groups have no row in common, so a behaviour of `Administration` is about one of them
(`desk`); an interleaving of two adds nothing.

## 3. The runs

| run | checks | instance | shows |
|---|---|---|---|
| `LedgerPeriods` | `WalletConservation`, `PeriodExact`, `ReservationCoversSettlement`, `KeysWithinLimits`, `AllowanceRespected`, `PrepaidSpec`, `ReservationsClose` | 2 requests of a capped daily key, 2 periods, 2 days, allowances -1 and 2, overrun 1, 4 wallet tokens | 574,000 states: rollover, plan changes, expiry, caps and overrun between any two steps of two requests; no hold is for ever |
| `TxOverlap` | `RouterConservesWallet`, `RouterClosesOnce`, `CapHolds`, `StreamsFinish` | router scene: 5 overlapping sessions on 2 requests, both may lapse; 2 period rows, 2 wallet tokens. Stream scene: 2 reservations of a capped key, a streaming settlement and release; one period row | 310,000 states: the router plane is safe at statement level, with crashes, deadlocks and a retried reservation; within one period row, fresh sums under its lock serialize the caps; crossing lock orders cost a transaction, never progress |
| `TxStream` (violated) | `WalletConservation` | the stream scene | a stream is settled or released from a copy of its event read without a lock, and the wallet portion is given back twice |
| `Requests` | `ServedIffCharged`, `RecordsAgree`, `NoneDangling`, `CallsFinish` | 2 calls over 3 planes, 2 miners, one with another certificate, one client-chosen id that may lapse | 592,000 states: failover, broken and abandoned streams, refusals, crashes and a shared id, and what is left in the tables |
| `StatsEpochs` | `PublishedIsComplete`, `NeverRepublished`, `NewestIsPublished` | 2 attempts of 1 or 2 tokens, 4 epochs, lag 1, 2 epochs per pass, 1 failed pass | 94,000 states: rows, receipts, epochs and passes in every order; a failed pass is made good |
| `ReceiptsRead` | `VerifiedInBothSources`, `NoReceiptSkipped`, `MatchesGetVerified` | 2 attempts, pages of 1, the model row replaced once, 1 restart of the enclave | 411,000 states: truncation, late and lost rows, a registration during a pull, a new key and an older chain |
| `MinersMove` | `AttestedSinceRegistered`, `ProvisionersKeepUp` | 1 model, 2 endpoints, 1 provisioner, 1 registration, 1 fault | 629,000 states: a registration to the same or the other endpoint at any point of an attestation, a maintenance pass or a request |
| `MinersTokens` | `ActiveTokenIsSealed` | 1 model, 1 endpoint, 2 provisioners, 1 registration, 1 restart, 1 fault | 2,438,000 states: the Redis key expires under its holder, and the row lock still keeps the token and the enclave together |
| `Billing` | `AppliedOnce`, `ProcessedIsApplied`, `InStepWithStripe`, `PaidIsCredited` | 2 checkout sessions, 2 prices, a top-up with 2 events, 2 requests at a time, 2 payments, changes or faults | 1,204,000 states: webhooks late, twice and reordered beside plan changes and checkouts |
| `Accounts` | `OneLivePerFamily`, `EndedStaysEnded`, `ProofsBounded`, `NewIsReachable`, `VerifiedWasProven` | 2 requests at a time; 2 logins, one renewed twice, 2 revocations; or 2 codes or nonces, 3 attempts, 2 addresses | 1,093,000 states: rotation, reuse, logout, new passwords and administrators in every overlap; guesses that overlap, half-made accounts, a change of address under a verification |
| `Stake` | `ReadsGrantWhatWasDue`, `TurnsCome` | reads: 1 account with 4 events and stakes before the index, 2 users who may link it, 1 fault; turns: 2 users, 2 accounts with 3 events and 1, one wallet read in a pass, fresh for 2 passes | 818,000 states: stake added, withdrawn and made again between the two queries; wallets change hands, one read or pass fails, and each still has its turn |
| `Admin` | `RolesAreHeld`, `KeyLimitsHold`, `PlansSellable`, `LinksKeepWorking`, `RevokedStaysRevoked` | 2 requests at a time on 2 administrators and 3 roles; 3 keys, limit 1; 2 plans, a price; a key and a client, 2 minutes, 1 request each; 2 users, 3 codes, 1 alias, 1 signup | 2,926,000 states: unlocked counts and checks, rows written back, codes that move |

`TypeOK` is proved for `UsageLedger`, `EpochStats` and `ReceiptChain`; elsewhere it is a
conjunct of the first property of the component's run (of `LedgerTx`, with `NoOverdraft`, of
the invariant that proves it), and proved with that.

**Bounds.** Two requests are enough for one to change what another relies on (the same
period, wallet and key) while a second row keeps sums from being trivial; two periods let an
event outlive its period; allowance 2 with amount 2 and a token of overrun gives charges that
are paid by the period, by the wallet, and by both; allowance -1 is a negative manual
adjustment. `MaxCredited` bounds purchases, `MaxWindow` the days that pass. In `LedgerTx`
five sessions are a reservation, its retry, its settlement, its release and a second
reservation. `StatsEpochs` has `SettleEpochs` equal to the lag, the latest a row may be
without being missed; two epochs per pass make a backlog and four epochs room for one. Pages
of one receipt with two attempts make a pull truncated, with a row committed late, a
registration or a restart before the next one. In `MinerLifecycle` one registration, pass or
request overlaps the provisioners at a time (`MaxInFlight`), two endpoints let a miner move,
two provisioners are the least that the Redis key has to keep apart, and one fault is an
attempt that has to be repeated. In `InferencePlane` two calls share a key, a period and
perhaps an id; of two miners one is a failover for the other, and one chunk before the usage
chunk is a stream that can be left with or without usage. In `StripeBilling` two sessions let
a subscription follow another, and `MaxChanges` is the number of payments, changes and faults
a behaviour has between them: with two of them a `past_due` that is marked after a failed
retrieve, and a cancellation before a new subscription, are out of reach. Two requests at a
time are the least that overlap; what needs three (two that are stale against a third) is not
explored. The chain of three refresh tokens is the shortest in which one rotated earlier is
presented while another is live. `OtpMaxAttempts` is 3 and not 5, so that the lost updates of
the counter are explored in full. `MaxKeys` is above the limit of keys, and a user can have
more assignments of a role than one; `Links` leave a third code to claim when two users have
one each. In `StakeQuota` four events are a
stake, its end, another and a part of it withdrawn; amounts are in base units, of which two
make a token, so that the floor and the cap of the allowance are met. `MaxFailures`, `MaxRows`, `MaxLog`, `MaxStake`, `MaxFaults`, `MaxRestarts`, `MaxEpoch`, `MaxClock`, `MaxVersion` and
`MaxMinutes` bound what could go on for ever.

**Fairness.** `Fairness` in `UsageLedger` assumes that time passes (`Lapse`) and that the
user calls again (`RecalculateCurrentPeriod`): there is no job in the repository that expires
reservations, so without the second assumption a hold may stay. No fairness is assumed of
settlements and releases. `FairSpec` in `LedgerTx` says that a statement that can run does run;
a crash is never forced. `InferencePlane` assumes that a call that has begun goes on
(`Proceed`): connections to an enclave have timeouts, a stream ends, and a database session
that can have its lock gets it. `EpochStats` and `ReceiptChain` assume that the maintenance
loop goes on (`MaintenanceLoop._run` catches whatever a pass raises); `ReceiptChain` also that
pulls do not fail for ever and that the provisioner attests a registered model again and
renews an attestation before it expires (`flag_near_expiry` in `IA/maintenance/tasks.py` marks
it, `_candidates` in `IA/provisioner/loop.py` selects both). `MinerLifecycle` assumes that the
provisioner loop goes on whatever a pass raises (`ProvisionerLoop._run`), that its key has a
TTL, that requests for the model keep coming, and that a session waiting for the row lock gets
it (strong fairness: the lock is free again and again, and Postgres queues those who wait).
`StakeQuota` assumes of the pass of `MaintenanceLoop` that it goes on. `GrantFollowsStake` (`TurnsCome` in the run) also
rests on its constants: as many wallets are read while a snapshot is fresh as there are users
(`MaxRefresh` times `Interval`). With one pass less the run fails: the wallets are loaded in
no order, and the same may be read again and again while another waits.
`StripeBilling` assumes that Stripe delivers an event until it is acknowledged and that a
request that has begun ends. None is assumed of registrations, heartbeats, faults or clients.

**Deadlock** is checked in every run but `Admin`, where two administrators may have disabled
each other and every limit been reached. `Finished` lets `LedgerTx`, `InferencePlane` and
`StripeBilling` stop only when everything under way has come to its end, `Spent` lets `SignIn`
stop when its proofs are used up.

### Noted while modelling

Each of these is in a module, as an action that does it or a condition a property excuses it by.

Ledger and planes:

- **Finding** (`TxStream`). The streaming planes settle or release a copy of the event read
  without a lock. If another transaction of the user closes it in between (an expiry, or the
  stream of another call with the same id), its wallet portion is refunded twice, while
  `IA/usage.py:262-264` says of a settlement that it "neither double-counts nor
  double-debits". `TxOverlap` is about the router plane, which locks.
- `remaining_tokens` under the lock may be the value read before it, so two reservations can
  draw on the same allowance. The next recalculation repairs the counters, not the split.
- The reservation is not an upper bound of the charge and settlement does not look at the
  caps, so a key passes its cap by the overrun, which `KeysWithinLimits` allows for each
  settled request and no more.
- Reservations that lock two period rows, across a rollover, do not serialize and can jointly
  pass a key's cap (`KeyWithinLimitPerPeriod` speaks of one row for this reason).
- A reservation split before an upgrade to an unlimited plan has a wallet portion when it is
  settled; the assertion in `settle_inference_usage` stops it (guard of `Settlement`).
- `create_reservation` raises after a replay that is not its caller's own active reservation;
  the request is rolled back.
- A reused `X-Request-ID` is handed the settled event of the first call, served again, and
  settled as a no-op: not charged (`Unshared`). A second streaming call of that id that fails
  can release the event before the first settles it.
- A stream whose settlement is refused (402) or overdue is served and not charged, and its
  reservation stays until it expires (`unpaid`, `due`). A stream cut before its usage chunk is
  charged by the words relayed and recorded with no tokens in the statistics.
- An attempt that fails by anything but `ForwardError` leaves no attempt row.

Miners, statistics, receipts:

- `finalize_due` stops at the first finalized or empty epoch: what a pass deferred, or an
  outage left behind, is never published once a newer epoch is. It walks backward, so the
  older of two epochs may get the later version.
- The row of an attempt is committed after its receipt exists. A receipt read in between is
  unmatched, the cursor passes it, and the row is never verified (`late`).
- A receipt is matched by a request id that clients choose. After a registration has reset
  the cursor, one receipt can verify two attempts of the same id. A re-attestation stores a
  usage counter even if it is lower than the one it replaces.
- The cursor stays where it was when an enclave comes back with an empty chain (`lost`).
- The selector looks at the status of a model and not at that of its miner: a miner that was
  revoked for its silence is served again after one heartbeat, without a new attestation
  (`Heartbeat` after `Sweep`), while `IA/status_routes.py` counts attested miners only.
- A miner whose attempt fails while its models are attested from before is "failed", and
  `_candidates` does not select it again until it registers (`Finish`).
- A provisioner reads the endpoint before it holds the row lock. A miner that moves in between
  is attested at its old endpoint; a request then meets another certificate and marks it.
- A token that was sealed and not committed leaves the enclave and the database with
  different tokens until the next attestation (`torn`).
- The allowlist version is derived from the newest active row and goes back when that row is
  deactivated (not modelled).

Stake quota:

- `IA/ht_indexer.py:49-50` says of accounts with more events than `_MAX_EVENTS` that "the
  oldest events win (ordered ASC) so the streak stays correct". The later ones are not
  replayed (`Page`): a stake withdrawn and made again after the page keeps its old streak, and
  one whose page ends without a stake has none again. Events of other subnets count for
  the page. In the runs a page is as long as the log.
- Snapshots belong to a user and outlive the link of the wallet. A stake that is withdrawn
  after its wallet was unlinked is granted until another wallet is linked, and a user who
  links the wallet next is granted for the same stake (`Unlink`, `Link`).
- A stake older than the indexer's first block counts for nothing until the account's next
  event, and then from that event on: the replay starts from zero. A part of it withdrawn makes
  the replay negative, and a stake made next may not show (second disjunct of `GrantsWereDue`).

Billing:

- Two checkouts at once both pass `_reject_if_checkout_pending`; a session that is complete
  clears the marker while the subscription is not stored yet; if Stripe cannot be reached, a
  marker counts for half an hour only; a commit that clears a marker it loaded earlier can
  remove a newer one (`spoilt`).
- A snapshot that was read first and applied last overwrites a newer state, column by column
  (`RowFollowsStripe` excuses it; the next event repairs it). Two syncs that overlap on a new
  subscription can record its creation twice.
- `sync_invoice_subscription` swallows a failed retrieve, so that an acknowledged `invoice.paid`
  may have credited no referrer (`doubtful`).
- The payment intent is looked up before the wallet is locked: of two events of one payment
  handled at once both may credit the wallet, unless the payer was referred and the unique
  `source_id` of the earning stops the second.
- A row added before `begin_nested()` is flushed before the savepoint (in
  `_lock_or_create_wallet` and `credit_for_payment`), so that a lost race fails the request; the
  event is delivered again (`KeyTaken`).

Sessions and sign-in:

- A rotation in flight when a logout or the reuse cut takes its snapshot leaves a successor
  alive, and a login in flight while the account is disabled works after it is enabled.
- `token_version += 1` writes a number computed from what was read; two revocations at once
  may count as one. A new password is committed before the sessions are revoked, and a crash
  between leaves them alive. The reuse cut does not touch access tokens.
- The attempts of a code are a read and a write: with two requests at a time `otp_max_attempts`
  guesses become the sum of the numbers up to it and one. Two requests for a code that overlap
  leave two live.
- Signing in by phone or wallet commits the new account before the number or wallet is stored:
  a crash between leaves an account whose synthetic address is taken, and the next sign-in
  fails (`excused`). An OAuth account is found again by its address. An account that has only
  its wallet can unlink it and is then out of reach.
- `update_me` that overlaps a verification or an OAuth sign-in can leave an address verified that
  nobody has proven (`crossed`).

Administration:

- `_active_owner_count` counts disabled owners and locks nothing: two owners can revoke, or
  disable, each other. Two grants at once leave two active assignments of one role, which a
  later revocation cannot load (`scalar_one_or_none` raises).
- The limit of keys is counted before the insert, and minting the broker's key does not count.
  Renaming a key can make it the broker's. A mint that overlaps a revocation hands out the
  secret of a row that stays revoked. Two partial updates at once leave a cap without a window.
- Two creations at once can give a price to two plans across the monthly and annual columns; an
  update beside an activation leaves a fixture active. The public list filters fixtures again.
- Two first calls of `GET /referrals/me` by one user give it two codes, the first of which is
  lost: an `UPDATE` of one row does not raise the `IntegrityError` that the comment at
  `CP/referrals/service.py:131` expects of "a concurrent request for this same user". The
  same happens to a code set while another request changes it. A code that moves from alias to current between the two lookups of a
  signup is missed; codes are unique in each table, not across them.
- A request that counts itself late may do so on a counter that Redis has dropped. If Redis fails,
  requests are let in or refused by `rate_limit_fail_open`.

## 4. The proofs

`UsageLedgerProofs` proves for every
finite set of requests, every set of keys and periods, and all limits, amounts, allowances and overruns (the `ASSUME`s of `UsageLedger`):

| theorem | statement |
|---|---|
| `Inductive` | `Spec => []LedgerInv` |
| `TypeCorrect` | `Spec => []TypeOK` |
| `WalletConserved` | `Spec => []WalletConservation` |
| `PeriodsStayExact` | `Spec => []PeriodExact` |
| `HoldsCoverSettlements` | `Spec => []ReservationCoversSettlement` |
| `DrawsStayWithin` | `Spec => AllowanceRespected` |
| `CapsHold` | `Spec => []KeysWithinLimits` |
| `LedgerIsPrepaid` | `Spec => PrepaidSpec`, the refinement |

`TypeOK` and `WalletConservation` are not inductive by themselves: a release gives a period
`reserved - wallet` back, which is a token count only if the wallet never pays for more than
the event reserves. `LedgerInv` adds exactly this (`Covered`). A step first expires the
stale reservations (or not) and then writes one row (or not): lemma `Expiry` proves of the
first that the refunds equal what the expired rows held, and lemma `WriteInv` of the second
that the invariant stays if the balance moves with the row's wallet portion; each action
lemma supplies the row. The sums are cardinalities (`TokenSums`), so that the lemmas in
its section 0 (a sum splits over disjoint sets of rows, changing one row changes the
sum by the difference, rows that are zeroed leave the rest) follow from the library's
theorems about finite sets; a recursive sum could not be reasoned about.

`PeriodExact` is inductive relative to `LedgerInv`. Lemma `WriteExact` moves the counters of one
period by the difference between what a row drew and what it draws now, `ExpiryExact` gives
every period back the sum over its stale rows, and `RecalculateExact` recomputes the current
period; the actions compose the three. No `max(0, ...)` around `used_tokens` ever cuts anything off,
which is why increments and recomputation agree. `HoldsCoverSettlements` follows from
`LedgerInv` alone.

`DrawsStayWithin` is an action property. Counters are exact before and after a step, so a step
draws from a period what its rows do: an expiry draws nothing (`ExpiryDrawsNothing`), a row
that is rewritten no more than it drew before or than the period has left (`DrawBounded`,
`SplitWithin`). The total of the row may be older than the plan, which is why the property
speaks of the totals before and after the step.

`CapsHold` sums over rows that enter and leave with the day or the month. The proof sums over
all requests, a row outside the window counting nothing (`TotalMasked`), so that writing a
row moves the sum by what that row counts (`KeyUpdate`). `KeyInv` adds to the property that no row is
of a window to come, so that a window that begins is empty. A reservation is let in by the
caps, and a settlement adds at most one overrun to what its row held, and one settled row to
the bound. A release and an expiry only take away.

`LedgerIsPrepaid` maps each action on the wallet with holds: an expiry voids the holds of the
stale reservations (`ExpiryVoids`), a release voids one more (`VoidMaps`), a reservation opens
a hold for its wallet portion, a settlement captures one and gives back the rest
(`CaptureMaps`); purchases are purchases, and what the rest of the code does leaves the wallet
alone. The expiry before a settlement and the settlement are one step on both sides.

`LedgerTxProofs` proves for all sessions, requests and periods and any plan of the
router plane's calls (`PlanAssumption`, `SceneAssumption`: no session of the router scene is a stream):

| theorem | statement |
|---|---|
| `RouterKeepsWallet` | `ScenesSpec => []RouterConservesWallet` |
| `RouterClosesEachOnce` | `ScenesSpec => RouterClosesOnce` |
| `CapStaysHeld` | `ScenesSpec => []CapHolds` |

What a transaction commits it has read and computed several statements before, so
`SessionInv` says of a session at any statement what it may rely on: what it has changed it has
locked (`Placed`, `RowsLocked`), so that no other commit touches it; the row it settles is the
committed one, read under its lock (`RowRead`); it has checked the balance under the lock of the
wallet only, and whoever has changed the balance has that lock, so the balance is
the one it checked (`Affords`); and what it puts on the wallet is what its rows hold less (`Balanced`).
A commit then moves the balance by what the rows move, and `KeepsOthers` says once that a statement
of one session leaves this of the others as it was. A deadlock, a refusal and a crash drop
what is not committed and keep the rest. `ClosedStay` follows, since a row is
settled, released or expired as it is read under its lock.

Beside streams none of it holds (`TxStream`); the cap does, while nothing has
lapsed. A reservation sums up what its key has reserved and commits under one lock of the period, so
that `CapInv` carries the sum it has checked to its commit. The theorem is about the calls
of the stream scene, with any set of sessions and any other requests: there a reservation of 3 and
one of 2 are within the cap of 4 only if the first has been settled for 2, and a stream that
revives a closed row writes no more than it had (`KnownRow`). In general what the lock
protects is what is reserved: a stream that settles its copy for more than it reserved, over a
row that was closed meanwhile, passes any cap.

`MaintenanceProofs` is about what a pass of the maintenance loop leaves. Of the artifacts it proves for
every set of attempts, every lag and any number of epochs (`StatsAssumption`):

| theorem | statement |
|---|---|
| `StatsTyped` | `Stats!Spec => []Stats!TypeOK` |
| `FinalizedIsFinal` | `Stats!Spec => NeverRepublished` |
| `FinalizedIsComplete` | if `SettleEpochs <= SettleLag` then `Stats!Spec => []PublishedIsComplete` |

`PublishedIsComplete` is not inductive, since a row could be committed to an epoch that has
been published. `StatsInv` adds that whatever a pass has read, added or committed lies more
than the lag in the past (`PassInv`), and that an uncommitted row lies within it (`Timely`);
lemma `ClosedRowsKept` then says that the request path leaves the rows of a closed epoch
alone. `PassInv` also keeps drafts and snapshots apart, which gives `FinalizedIsFinal`.

Of the receipts it proves for every set of attempts, page limit and number of restarts and
registrations:

| theorem | statement |
|---|---|
| `ReceiptsTyped` | `Spec => []TypeOK` |
| `RewardsAreCorroborated` | if no two attempts share a request id then `Spec => []VerifiedInBothSources` |
| `CursorSkipsNothing` | if no two attempts share a request id then `Spec => []NoReceiptSkipped` |

The property speaks of a receipt that may be gone from the chain when the row is verified, so
`ReceiptInv` says that every receipt there is, in the chain or in a reply on its way, is the
one of its attempt (`Genuine`), and that no step goes back on an answered attempt (`Kept`).
The assumption is needed, since rows are looked up by an id that clients choose.

`CursorInv` says for `CursorSkipsNothing` that every receipt the cursor has passed is `Done`
(its attempt is verified, came late, or has another count), and that a reply on its way is the piece
of the chain that follows the cursor it was asked for (`InPlace`). The chain only grows
(`ChainGrows`) until the enclave comes back with an older one, which ends the promise (`lost`).
A receipt is reconciled with the first row of its id, hence the same assumption.

Of the stake quota it proves for all accounts, users, amounts, policies, page lengths, ages
of a snapshot and numbers of faults (`QuotaAssumption`):

| theorem | statement |
|---|---|
| `GrantsAreDue` | if `PageHoldsLog` then `QuotaSpec => ReadsGrantWhatWasDue` |

What is due is said of every moment since an event, and what is granted comes of a replay of all
events, so this needs an induction over the log. The library's induction theorems
take an operator, so `SetInduction` has it for a set instead, by the minimum of its complement
(`WFMin`), and the two folds of the model are shown to unfold one event at a time
(`FoldUnfolds`). `StreakIsOne` then says of any log that the
streak its replay ends with is one by the definition: counted from zero, there is a stake after each event since
it began, and none before that event. `ReadIsGood`
is the two queries as one. If the streak of the log read second is old enough, the
stake was never gone since, so the amount read first was due when it was read; if it is not,
the account is due nothing once all of that log is there, or had a stake before the index. `QuotaInv` says of a read that what
is in hand is the stake after some event and that whatever has been due since that event is in
`dues` (`Noted`), and of a row written that its amount was (`Good`). `PageHoldsLog`
says that no log is longer than a page; without it the theorem is false (see the notes on `_MAX_EVENTS`).

`MinerLifecycleProofs` proves for every finite set of models, endpoints and provisioners, every
set of registrations, and any bounds on restarts and faults:

| theorem | statement |
|---|---|
| `ServedIsAttested` | `Spec => []AttestedSinceRegistered` |
| `TokensAreSealed` | `OwnEnclaves => (Spec => []ActiveTokenIsSealed)` |

The first rests on the lock of the `miners` row: `MinerInv` says of a provisioner that has it
that all it has proved and is going to write is for the registration that is stored (`AtWork`), of
one that has not that it has nothing in hand (`Outside`), and of the rows that they are those of the
last registration (`RowsInv`). The key in Redis is not needed: it may expire under its holder
at any time. The second follows a token while it is sealed and not yet committed: between
`Seal` and `Finish` the enclave has the token of the draft and the row another, so `SecretsInv`
asks that of the drafts, and of a row only when no draft is to take its place; `BootsInv` says
that a pin is not of a boot to come, so that a restart cannot make it run again. `OwnEnclaves`
says that no two models can ever be at one endpoint, as `IA/provisioner/service.py` does ("Each
advertised MinerModel is its own single-model enclave"); of two behind one endpoint the one sealed
last would have its token there. `SealedInv` was model-checked with two models, three
endpoints and two provisioners before it was proved.

`AccountsProofs` proves of the sessions, for every set of logins, length of a family and number of
requests under way, and of signing in, for every finite number of requests, every set of codes and
nonces and every `OtpMaxAttempts`:

| theorem | statement |
|---|---|
| `FamilyNeverForks` | `Spec => []OneLivePerFamily` |
| `SessionsStayEnded` | `Spec => []EndedStaysEnded` |
| `NewStaysReachable` | `AccountsSpec => []NewIsReachable` |
| `VerifiedIsProven` | `AccountsSpec => []VerifiedWasProven` |
| `CodesAreBounded` | `TwoAtATime => (AccountsSpec => []ProofsBounded)` |

Neither property of the sessions is inductive: what has been ended can be undone by a request that has read
already and writes later. `Covers` says of each request under way that it is going to revoke
all that lives of the families it is to end (a rotation takes its family out of what others
have seen, which is the overlap that `EndedFamiliesStayDead` excepts), `Carries` that a token
being rotated has been issued, and `VersionsInv` that no `token_version` read or written is
beyond the stored one and that barred access tokens are behind it, unless a revocation wrote over
another's (`lapped`, the exception of `BarredStaysBarred`). `WaitKeeps`,
`RevokeKeeps`, `LoginKeeps` and `RotateKeeps` treat the four ways in which a step touches the
rows, and `ActionKeeps` has one step per action.

Signing in locks nothing, so its invariants say what each request knows. `SignInBase` is the type
invariant with what a request has in hand: a code that has been issued and had attempts left.
`NewIsReachable` holds since the account is New's own or the request that created it will store
that (`NewIsHeld`), and a request that found an account, or none, has read whose the
identity was (`Knows`). `VerifiedWasProven` holds since an OAuth sign-in that found Own did so by
the identity or by the profile's address (`Saw`), and an account with an OAuth identity has
that address (`AddressInv`), which `update_me` refuses to change.

Of `CodesAreBounded`, `UsesInv` counts the uses of a code with the requests that still hold it,
and only what is in use can be taken. For the guesses, let `Twice(x)` be twice the sum of the
`x` numbers from `OtpMaxAttempts` downwards. With `a` attempts counted no more than half of `Twice(a)`
guesses were made, and a guess under way that read `r` at most `a` puts the counter back to `r + 1`, so
the guesses must also be within `Twice(r) + 2 * (a - r)`; of two guesses under way one has read `a`
(`GuessesInv`). `TwoAtATime` says that there are at most two requests at a time: with three, the
bound in the property is not that of the code, since two late writers can put the counter back in turn.
`EveryStep` reduces the seventeen actions to four ways of treating the proofs.

`InferencePlaneProofs` proves for every finite set of calls and miners, every set of client-chosen ids and planes,
and all bounds and token counts that `PlaneAssumption` allows:

| theorem | statement |
|---|---|
| `ChargedForService` | `Spec => []ServedIffCharged` |
| `OneRecord` | `Spec => []RecordsAgree` |
| `NothingDangles` | `Spec => []NoneDangling` |

A session keeps the status it has read of its event and never refreshes it, so the heart of `PlaneInv`
is what a call may still believe (`MemoryOK`): an event that it remembers as reserved is, or has
expired since, if no other call has acted on it (`Alone`). `RowsOK` says what has not been
written yet, and `Charged`, `Billed`, `Recorded` and `Closed` are the properties for one
call. Calls disturb each other only through the events, and `Moves` says how: what is due
expires, and one event is opened or closed by the call billed under it. `OtherKept` shows
once that this leaves the invariant of every other call as it was, so that each action lemma
is about its own call; `GoesOn`, `EndReleased` and `EndSettled` are the three ways in which a call
continues. The properties except sealed calls from sharing (`Unshared`), which is more than
`Alone`: `Apart` says that two sealed calls never have one event, since a known id is billed under
a fresh one. `PlaneInv` was model-checked under the constants of the run `Requests` before it was proved.

`StripeBillingProofs` proves for all sets of sessions, prices and payments, any number of requests under
way, any finite set of events that tell of a payment, referred users and others, and every bound:

| theorem | statement |
|---|---|
| `PaymentsAppliedOnce` | `Spec => []AppliedOnce` |
| `ProcessedEventsApplied` | `Spec => []ProcessedIsApplied` |
| `SubscriptionInStep` | `Spec => []InStepWithStripe` |

A request writes by what it read when it began, so `BillingInv` says what of that still holds when it
commits: Stripe had the subscription in the state the request was told of, and of a cancelled one
that is the newest (`Known`); its event is not processed and no other request has it
(`HandlesOK`); and it saw whether its payment is credited, unless a second event of the payment is
handled meanwhile, when only the referral's earning tells (`TopupOK`). `KnowsStill` shows once that this outlasts
the steps of others. The row does not follow the order of events, and `RowInv` does not ask
it to: while nothing is noted as spoilt, a row with the newest version says what Stripe says, a
processed event is no newer than what has been applied, and a subscription that has stopped
is cancelled at Stripe (`StartsOnce` needs this: otherwise it could be recorded as created
again). When every event is processed, the newest snapshot has been applied with its event
(`NewestApplied`). An open session is the marker's or that of the one checkout under way
(`CheckoutInv`). That the numbers stay in their types rests on counting: a version has its
snapshot, and a purchase row an event of its own (`CountsInv`). `BillingAssumption` asks that a payment intent is
not an invoice, since both are source ids of one table. `BillingInv` was model-checked under the constants of
the run `Billing` and of two smaller instances before it was proved.

`AdministrationProofs` proves for every finite, nonempty set of workers and all users, roles, keys, plans,
clients, codes and limits that `Administration` allows:

| theorem | statement |
|---|---|
| `RolesHeld` | `Spec => []RolesAreHeld` |
| `KeyLimitsKept` | `Spec => []KeyLimitsHold` |
| `PlansStaySellable` | `Spec => []PlansSellable` |
| `SharedLinksWork` | `Spec => []LinksKeepWorking` |
| `RevokedStays` | `Spec => RevokedStaysRevoked` |

`AdminInv` has two parts for each group of tables, one of the tables and one of the requests under
way: what a request has decided on still stands, or somebody has changed what it minds and it is
stale (or was overtaken before, `late`, which the properties except). A commit makes
stale whoever minds what it changes. What is particular to a group: a role is granted at most once per
worker that is granting it (`Granting`); active keys and the creations under way exceed the limit by at
most the other workers (`Counting`, `Creating`); a partial update leaves a cap with its window
(`Mild`); the counter of the current minute is not behind the requests admitted in it; a former
code is kept, dropped or moved only with room for it (`Takes`, `Leaves`, `HasRoom`).

With that each safety property of a passing run is a theorem. Model-checked only:

- liveness, which is out of the prover's reach with the fairness it rests on: `ReservationsClose`,
  `StreamsFinish`, `CallsFinish`, `NewestIsPublished`, `MatchesGetVerified`, `ProvisionersKeepUp`,
  `PaidIsCredited` and `TurnsCome`;
- that the router plane's wallet is safe beside the streaming planes, which is false: `TxStream`
  shows the counterexample.

## 5. What is not modelled

- What section 1 marks with no state, the insert of the first `usage_periods` and
  `user_wallets` rows, the price multiplier and the date functions (a period is a model value).
- Latencies, usage anchors and the signature of an epoch artifact. One maintenance loop runs in
  `EpochStats`: of two that finalize the same epoch, the primary key of `miner_epoch_snapshots`
  fails one.
- Of a miner: the first registration, the nonce guard and client binding, chain checks, the
  start of the engine, the ranking of candidates.
- Of a request: which router client owns a reservation, the address allowlist and scopes of a
  key, the limiter of requests by address.
- Of an account: expiry of tokens, the denial list of access tokens in Redis, deletion, edits by
  an administrator (who may change an address without a word on its verification), the shape
  of addresses, numbers and codes.
- Of billing: synchronisation of plans from Stripe, invoices and their display; tokens granted
  by hand are `ChangeAllowance`.
- Of the stake quota: the encoding of events, the order of those with one timestamp, and an
  indexer that lags behind the chain (`ChainMoves` is the moment an event is indexed).
- The hash allowlist, catalogue, e-mail, SMS and audit log: single rows, or delivery to somebody
  else. An audit row is written in the transaction it reports.
- That the `finally` block of a stream runs when the client leaves is assumed of the server.
