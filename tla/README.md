# A TLA+ verification of agent-passport

agent-passport is a TypeScript service that scores the wallets of autonomous agents on
Algorand, underwrites them, and writes delegations and reputation events to two
contracts through an operator wallet; a TypeScript SDK is its client. Paths below are
relative to `src/`, the root of the repository, so the service itself is in `src/src/`.

This project models the parts of the service where state, time and concurrency meet, and
the algorithms whose answers money depends on; it checks them with TLC on small instances,
and proves what matters most of them with TLAPS for every instance.

## 1. The system

One Node.js process serves everything. JavaScript runs one handler at a time between two
`await`s, so **the unit of atomicity is the synchronous stretch between two awaits**, and
that is what an action of these modules is. Interleaving comes from awaits (the node, the
indexer, the facilitator, the sanctions list), from timers and from the queue of promise
callbacks; a crash can also fall inside a synchronous stretch, between two system calls.

| Component | State | Operations | Talks to | Hard behaviour |
|---|---|---|---|---|
| JSON persistence `src/lib/json-store.ts` | one promise chain; a file and a `.tmp` per store | `queueJsonWrite`, `writeJsonFileSync`, `readJsonFile` | exposure, rate limiter, webhooks hand it snapshots | crash between open, write and rename; a failed write in a shared chain; order of snapshots |
| Credit exposure `src/lib/system-exposure.ts` | total, per-wallet map, file | cap, add, reset, load | underwriting, JSON persistence | two caps and two roundings; crash between the answer and the write |
| Underwriting `src/underwriting.ts` | none of its own | `underwrite` | scores, sanctions, exposure | failed parts; quote and commit after the last await |
| Idempotency `src/lib/idempotency.ts` | map of key to recorded 2xx | look up, replay, conflict, record, sweep, trim | every mutating route | key recorded only when the handler ends; expiry, eviction, restart |
| HMAC `src/lib/hmac-auth.ts` | none | accept or 401 | mutating routes | the replay window against a retry with the first attempt's timestamp; two canonical forms of one body |
| Operator wallet `src/lib/operator-wallet.ts` | key | `submitApplicationCall` | the node | timeouts that give up without cancelling |
| Registry writes `src/registry.ts` | none | `delegate`, `revoke` | operator wallet | as above; conversion of amounts |
| SDK client `sdk/src`, Python SDK `sdk/python` | per call: attempt, headers, proof of payment | `request` with timeout, retries and payment | the service | late answers, truncated bodies, retries of what was executed, paying twice |
| Reputation `src/reputation.ts` | endorsement graph, hashes of recent events | `recordEvent`, cleanup timer, score reads | operator wallet, indexer | check before five awaits, record after |
| TTL cache `src/lib/cache.ts` | LRU map with expiry | get, set, delete | response, delegation and account caches | eviction order, duplicates |
| Response, delegation and account caches `src/app.ts`, `src/delegation.ts`, `src/trust-score.ts`, `src/passport.ts` | three TTL caches, the fetches under way | cached GETs; invalidation by POSTs; single flight | node, indexer | a fill that began before the write that outdates it; joining a fetch |
| Rate limiter, replica guard `src/lib/security.ts` | counter per client, file | count, save every 100th | JSON persistence | restart; a shared counter with different maxima |
| Gateway `src/app.ts`, `src/http/routes`, `src/lib/request-deadline.ts` | none | order of the middlewares, deadline header | all of the above | which middleware answers first |
| x402 `src/lib/x402.ts` | none | 402 and payment check | facilitator | paid but refused, paid twice |
| Webhooks `src/lib/webhooks.ts` | subscriber list, file | subscribe, unsubscribe, deliver | JSON persistence, subscribers | fired once, never retried; lazy load of the file |
| Lifecycle `src/index.ts`, `src/config.ts` | the server | start, shut down, forced exit | all | ten seconds to drain; reads without a timer |
| Trust score and account reads `src/trust-score.ts`, `src/credit.ts` | account cache, fetches under way | scores, caps, decay, paged history | node, indexer | partial history |
| Counterparty check `src/counterparty.ts` | none | combine, screen, decide | scores, sanctions | failed parts |
| Delegation scoring `src/delegation.ts` | delegation cache | replay of the log, bounded walk, score | indexer, cache | cycles, depth, order and length of a page |
| Trust graph `src/trust-graph.ts`, graphs `src/lib/graph.ts` | none | exposure, what-ifs, clustering, components | pure | bounds of the walk |
| Sybil detection `src/sybil.ts` | none | reads, signals, cluster, risk | indexer | reads that fail |
| Passport `src/passport.ts` | none | composes every score | all reads | one failed or slow part |
| Sanctions `src/lib/sanctions.ts` | none | screen | an HTTP service | failure denies |
| Logging, metrics, OpenAPI | counters | observe | | |
| Contracts, frontend, site, scripts, alerts | | | | outside the service |

`PROJECT.json` lists each of them with its status, and every hazard with its line.

What makes each component correct, in one sentence: the ledger never lets the sum of the
credit it knows of exceed either cap, whatever crashes; a file is never half written and
never goes back; an answer a client gets is about its own request; one intent reaches the
chain once; a client pays and retries a bounded number of times; a stale document is served
only where a race explains it; caches, windows and hash stores stay bounded and drop the
oldest; the endorsement graph has no cycle; a subscription a client was told of survives
every graceful exit; a failed read never turns a denial into an approval; every call, every
handler with a timer and every shutdown ends.

## 2. Modules

| Module | Models | Extends |
|---|---|---|
| `JsonStore` | the promise chain and the three system calls of a write (passive) | |
| `CreditLedger` | abstract: what callers of the ledger may rely on | |
| `SystemExposure` | the ledger, `underwrite`'s commit, other stores on the chain, crashes, reloads | `JsonStore`; refines `CreditLedger` |
| `Filter` | `Drop` and `Only`: what deletions from a Map and `Array.filter` leave of a sequence | |
| `Idempotency` | the key store and its timer (passive) | `Filter` |
| `WritePath` | SDK call, middleware, HMAC, handler, wallet, chain | `Idempotency` |
| `Gateway` | the middlewares in their order, the rate limiter and its file, payments, both SDKs | `Idempotency` |
| `Routes` | the paths of the SDK methods, their keys, prices, signatures and maxima | |
| `Endorsements` | `recordEvent` with the graph and the hash store | `Filter` |
| `TTLCache` | `cache.ts` as operators on a sequence | `Filter` |
| `ResponseCache` | cached GETs, invalidating POSTs and the shared account fetch over the three caches | `TTLCache` |
| `Configuration` | `config.ts`: which environments start a process, and with what numbers: pure operators | |
| `Lifecycle` | webhooks, requests under way, drain, forced exit, kill, restart | `JsonStore`, `Configuration` |
| `Phrases`, `TrustScore`, `Delegations`, `Decisions`, `Submissions` | the scores, the replay and the walks, the decisions, the words, what a POST submits: pure operators, each module extending the one before | |
| `GraphSignals`, `Sybil` | `lib/graph.ts` and `sybil.ts`: pure operators | |
| `Analyses` | the chain that grows, and a request answered from it while reads fail | `Submissions`, `Sybil` |
| `CollectionProofs` | what filters, Maps, sums, folds and orders of finite sets keep: lemmas for the other proofs | `Filter`, `TLAPS` |
| `*Proofs` | the theorems about `SystemExposure`, `WritePath`, `Gateway`, `ResponseCache`, `Endorsements`, `Lifecycle`, `Analyses` | the module, and `CollectionProofs` or `TLAPS` |
| `MC*` | instances for TLC | |

Two components that meet are composed where it matters: the ledger, the limiter and the
webhooks share the write queue (`SystemExposure`, `Lifecycle`); the key store stands
between two clients and the chain (`WritePath`) and behind the limiter and the payment
(`Gateway`); the three caches stand under one GET (`ResponseCache`); every score stands in
one decision (`Analyses`).

### How state and actions correspond to the code

**SystemExposure.** `totalSystemExposure` and `walletExposure` are the two module
variables. `Underwrite` is everything `underwrite()` does after its last `await`: quote
(`capToSystemCapacity`), commit (`addSystemExposure`), queue the snapshot
(`saveToDisk`). An early return changes nothing, so it is a disabled action. The
alternatives `OpenTmp`, `FillTmp`, `RenameTmp` are the system calls of one synchronous
write; handlers run only when no write is half done (`StoreQuiet`), a crash at any point.
`WriteStepFails` is any of the calls throwing: `saveToDisk` logs it and the snapshot is
gone. `loadFromDisk` is the top level of the module in a new process. `history`,
`granted`, `saveLost` and `rolledBack` are history variables: no guard reads them but the
bound on commits, which counts `history`.

**WritePath.** `call[c]` is the loop of `request()`; `inbox` holds attempts sent and not
arrived, and an attempt that never arrives is a lost request. `Arrive` is the synchronous
prefix of a request: `idempotencyMiddleware`, `hmacAuth`, the handler up to its first
await. `serving[r].stage` is the await of `submitApplicationCall` the handler is at:
`params`, `sending`, `taken` (the node has it; polling) or `rejected` (the node refused
it as a duplicate, and the wallet is about to give up). `Finish` is the wrapped
`res.json`: record, then answer. `Fail` is a timeout or an error of the node at any
await. `wire` keeps a transaction the wallet gave up on, because `withTimeout` cancels
nothing. `Answer` delivers, truncates or loses the answer, and drops it if the client no
longer waits on that attempt.

**Gateway.** `Arrive` is one synchronous stretch: `rateLimiter`, `x402Middleware`,
`idempotencyMiddleware`, `hmacAuth` and the handler to its first await, with an immediate
answer where one of them refuses. A paid request stops at the facilitator; `Verified` and
`NotVerified` end that await, the first going on with the key and the signature, so a
request can have paid and still be refused. `Succeed` is the wrapped `res.json`.
`Received`, `Again` and `Pay` are the loops of the SDKs, which differ: the TypeScript
client sends a proof once and is unpaid in its next attempt, the Python client starts over
with it. `Begin` builds the headers, and with them the time of the signature (`Stamp`),
which every attempt sends again; a proof is sent with headers of its own. `buildHeaders` is
what a client signs, `Parsed` the body `express.json` makes of a request,
`canonicalJsonForAuth` what the service verifies, and `hmacAuth` compares the two and looks
at the age of the signature; `SettledOrFree` is `settlementVerificationMiddleware`. `LetPast`
and `Limited` count in the entry of the address; the count is saved at multiples of
`SaveEvery` and `Loaded` by the next process. `passed` is history: the requests let past
since no window was open, and the sum of the maxima they were let past under.

**Endorsements.** `Begin` is `recordEvent` to its first await with the cycle check;
`Submit` is the stretch from the last verification await to the start of the submission,
with the duplicate check and the registration of the hash; `Finish` is the stretch after
the submission, with the edge: it needs the node to have taken the transaction (`Take`), not
a block to have it (`Land`), because a result may be pending. `endorsees[w]` is the `Set` of
a wallet in insertion order, so the eviction at the cap is by age. `unseen` and `raced` are history: which
edges a request did not see when it checked. An edge that is forgotten leaves both.

**ResponseCache.** `Get` is a handler up to its first await, `ChainAnswers` the moment a
read's result is fixed, `Walk` and `List` the walk through `fetchDelegationCached`,
`Fill` the `responseCache.set`. A score's account is joined, borrowed from the cache or
fetched (`JoinFlight`, `BorrowAccount`, `StartFlight`), and `AccountArrives` settles it for
everyone who waits. `Acknowledge` and `AnswerPending` are the ends of the three POST
handlers with every `responseCache.delete`. `version[w]` stands for what the chain says of
a wallet; `acked` and `recency` are history. No POST touches the delegation and account
caches.

**Lifecycle.** `addSubscriber` and `removeSubscriber` load the file on first use and queue a
snapshot; `RecordDone` ends a `POST /reputation/record` and fires its webhooks, which then
move on by themselves (`HostAllowed`, `HostRefused`, `PostEnds`). `gracefulShutdown` stops
arrivals, `ServerClosed` is the callback of `server.close`, `ForcedExit` the ten-second
timer, `Kill` anything else, `main` the next process, which `validateConfig` let start
under the environment it was given (`Refused` is the process that it did not); `conf` is
its configuration. `SocketTimeout` closes a connection and not its handler.

**Analyses.** Chain steps add payments, registry calls, days and reputation events; then one
request is answered, reading in one step what the chain says, with the failures, cut pages
and orders the step chooses. The answer carries what the code returns, down to the phrases
of an explanation. A request is one step because none of these handlers writes anything
another reads; what a change between two of its reads does is `ResponseCache`'s subject.

### Abstractions

- Dollars, doubles in the code, are natural numbers of cents, and amounts before rounding
  numbers of tenths of a cent, so `Math.round(x * 100) / 100` keeps its effect. Scores are
  tenths of a point, balances thousandths of an ALGO, rounds days; logarithms, square roots
  and half-lives are tables or comparisons of integers at the points that occur. Binary
  rounding errors below these units are not modelled.
- `queueJsonWrite` chains `.then` callbacks; the queue of promise callbacks is
  `writeQueue`, and other stores' saves stand in it as `OtherContent`.
- A SHA-256 of a request body is the body: hashes do not collide. `WrittenOtherwise` are the
  bodies for which the two SDKs' JSON differs.
- A tick of time is any stretch that a TTL or a window tells apart. In `Endorsements` no
  block is added within a tick, so `Date.now()` and the round move together.
- A transaction is what its signed bytes depend on: endpoint, arguments and the round of
  its parameters. It is on the wire from the moment it is signed and sent.
- A document's version is that of the oldest read in it. A version counts whatever POSTs
  change about a wallet, without telling delegations and events apart: `StaleOnlyFromARace`
  is the stronger for it, and the runs for `FreshAfterAcknowledge` and
  `DelegationsClearedAfterRecording` instantiate the POST that does change the document
  in question. A second `fetchDelegationCached` of one GET is a `GetDelegation` of its own.
- `Gateway`: all calls come from one address; a request arrives when it is sent or not at
  all (delays are `WritePath`'s); the limiter's file is written before the next request
  (failed writes are `SystemExposure`'s); clients and service read one clock, so a signature
  is late and never early.
- `Endorsements`: the awaits before the submission succeed or end the request; which evidence
  they ask for is `Submissions`'. A transaction enters a block only after the node took it.
- `Analyses`: both copies of the replay read pages of one length, `PageLimit` (1000 and 100
  in the code), and the property is about lists that no page cuts. A wallet's transactions
  are those it sent or received; a payment to a third wallet that closes the sender's account
  to it, which the indexer lists too, is left out.
- `Analyses`: the node never gives a creation round (`createdRound` is 0), as the code's own
  fallback has it.
- Validation that no modelled input can fail, headers, logging and metrics are left out.

## 3. What the runs check

Passing runs:

| Run | Question | Properties |
|---|---|---|
| `exposure` | Do the caps and the files survive every interleaving of commits, other stores' writes, failed writes, crashes and reloads? | `TypeOK`, `CapsHold`, `LedgerBalanced`, `NeverTorn`, `NewestSaveOnItsWay`, `GrantsAccountedFor`, `DiskMovesForward`, `SaveReachesDisk`, `ImplementsCreditLedger` |
| `write_path` | Is an answer genuine and a recorded answer final, through timeouts, retries, truncated answers, a conflict under one key, expiry, eviction, a crash and a new round? Does everything end? | `TypeOK`, `SuccessIsGenuine`, `NoReexecutionOnRecord`, `CallsAndHandlersEnd` |
| `gateway` | Which middleware answers, what does a client pay and throw, and what does the limiter let past, over payments, refusals, retries, signatures grown old and a restart? | `TypeOK`, `WindowHolds`, `PaymentsBounded`, `AnswersAreOwn`, `KeylessPostsRefused` |
| `endorsements` | Is a cycle possible without an overlap? Does the graph hold only what the node took, does the hash store keep the newest and the hash just registered, does every request end? | `TypeOK`, `GraphAsTaken`, `CyclesOnlyFromRaces`, `ForgottenOnlyAtTheCap`, `DedupKeepsTheNewest`, `RequestsEnd` |
| `response_cache` | Is a stale document always explained by a race? Are the caches bounded and in order of last use? Does a shared fetch settle for all who joined it? | `TypeOK`, `CacheKeepsTheRecent`, `StaleOnlyFromARace`, `JoinedFlightsSettle` |
| `lifecycle` | What survives a drain, a forced exit, a kill and a restart, and does a shutdown end though a handler hangs? | `TypeOK`, `SubscriptionsKept`, `EventsReachSubscribers`, `ShutdownEnds` |
| `analyses` | What may the answers about a wallet be relied on for, whichever reads failed, were cut off or came newest first? | `YoungAndIdleStayLow`, `DelegationsAsRegistered`, `LossNeverUnderstated`, `GraphAlgorithmsAgree`, `SybilSeesAStar`, `DenialsStand`, `RecordedAsEvidenced`, `ExplanationsAgree` |

Each of these properties is shown to depend on the code: `PROJECT.json` names for each a
change to one definition (the operator commented "Mutant") under which TLC finds it
violated. Where the code does less than its text says, some of these properties are as
strong as the code allows and say so; the findings about them are:

| Run, property | What the text says | What the code does |
|---|---|---|
| `lifecycle`, `ShutdownEnds` | "Every upstream call ... is bounded by `REQUEST_TIMEOUT_MS`" (`docs/security.md:55`) | `algod.status()` in `passport.ts:276`, `/ready`, `/health/deep` and `fetchBoxCount` has no timer; only the forced exit ends such a handler. |
| `gateway`, `KeylessPostsRefused` | `POST /counterparty-check` and `/credit-estimate` need no key (`docs/operations.md:263`) | Every POST without one ends in a 400, on a priced path after its payment was verified. |
| `gateway`, `WindowHolds` | a "Per-IP fixed-window rate limiter" (`docs/operations.md:143`) of "600 req/min/IP" (`docs/security.md:69`), which keeps writes below "`RATE_LIMIT_MAX` per minute per IP" (`:123`) | The count of an address starts over whenever the next route has another maximum: alternating between two routes is never refused. The property has to allow each run of requests under one maximum that maximum anew. |
| `gateway`, `AnswersAreOwn` | `hmacAuth` comes before `idempotencyMiddleware` (`docs/architecture.md:65`), and every mutating endpoint requires signed requests (`docs/security.md:139`) | `app.ts:90` mounts the keys first: a request with a recorded key and body gets the recorded answer, whatever its signature. |
| `gateway`, `AnswersAreOwn` | the key "makes mutating calls safe to retry" (`docs/operations.md:186`) | Both SDKs sign once for all attempts: a retry later than the skew ends the call in `AuthenticationError`, whatever became of the first attempt. |
| `gateway`, `AnswersAreOwn` | "callers MUST send Content-Type: application/json" (`src/lib/hmac-auth.ts:46`); "clients retry with a verified `x-payment` header" (`docs/api.md:14`) | The TypeScript client's request with a proof has no such header (`sdk/src/index.ts:181`): a signed POST with a price is paid for and then refused with a 401, or with a 409. |
| `gateway`, `AnswersAreOwn` | `hmac_secret` is the "HMAC secret for state-changing authentication" (`sdk/python/agent_passport/client.py:100`) | The Python client signs `json.dumps`, the service verifies `JSON.stringify`: a whole float or a letter outside ASCII is always a 401. |
| `endorsements`, `GraphAsTaken` | the status tells ""submitted" from "confirmed and known to be in a block"" (`src/lib/operator-wallet.ts:70`) | `recordEvent` looks at no status: an edge is recorded for a transaction that may never be in a block, and the cycle check refuses others by it. |
| `analyses`, `DelegationsAsRegistered` | a wallet without delegations "gets 0 for all breakdown components" (`src/__tests__/delegation.test.ts:565`) | It scores 35 of 100, as does one whose registry could not be read. |
| `analyses`, `LossNeverUnderstated` | "re-run the trust-graph analysis" without the sponsor (`src/trust-graph.ts:395`) | Edges of the finished analysis are filtered; what was reached through the sponsor only stays in the exposure. |
| `analyses`, `SybilSeesAStar` | "are counterparties interconnected?" (`src/sybil.ts:182`) | Only the wallet's own transfers are read: two of the signals are 0 for everyone. |
| `analyses`, `RecordedAsEvidenced` | "a 0.5x penalty for unverified self-reported events" (`docs/concepts.md:100`) | `computeReputation` passes no options: three unproven payments weigh as three proven ones. |
| `analyses`, `ExplanationsAgree` | wallets "created within 48 hours of each other" (`src/sybil.ts:252`) | Said of every wallet with a transfer; no creation round enters it. |

Runs that end in a counterexample, where the code does not do what its text says:

| Run | What the text says | What happens |
|---|---|---|
| `exposure_restart` | "Persists to disk on every commit so the cap holds across restarts" (`src/lib/system-exposure.ts:90`) | The amount is answered while the snapshot is only queued, and a failed write is logged and dropped. A crash then loads an older ledger, and the same capacity is granted again. `GrantsAccountedFor` shows this is the only way: without a rolled-back reload the ledger counts exactly what was granted. |
| `safe_to_retry` | the middleware "makes mutating calls safe to retry" (`docs/operations.md:186`) | The key is recorded when the handler ends. A retry that arrives before executes again, and in a new round it is a second transaction. `NoReexecutionOnRecord` shows what does hold. |
| `endorsement_race` | the graph "Tracks endorsement relationships to prevent circular trust inflation" (`src/reputation.ts:180`) | Two wallets endorse each other concurrently; both pass the check. `CyclesOnlyFromRaces` shows an overlap is the only way. |
| `stale_fill` | cached documents are "Invalidated on /delegate, /revoke, /reputation/record for the affected wallet" (`docs/api.md:95`) | A GET that read the chain before the POST stores its document after the invalidation. |
| `stale_delegations` | `clearDelegationCache`: "Call after new delegations are recorded" (`src/delegation.ts:251`) | Nothing calls it: the list from before an acknowledged delegation is served for its TTL. |

Observed and checked by no run: `docs/security.md:159` and a comment at `hmac-auth.ts:42`
speak of `sha256(body)` where the code takes an HMAC with an empty key on both sides;
`settlementVerificationMiddleware` never acts behind `x402Middleware`, which already answers
every request that it would refuse; the confidence test of `decideAllow` is implied by its
score test.

### Bounds, and why they are enough

- `exposure`: caps 5 and 3 cents, two wallets: either cap can be the one that binds, and
  the total cap binds across wallets. The raw limits 4, 14, 25 and 40 tenths round to 0
  (nothing is committed), down, up, and past the share. Three ledgers in a behaviour let a
  reset fall between two grants; two waiting tasks let another store's write stand before
  or behind. Crashes are not bounded.
- `write_path`: two calls with different bodies share a key, one of them retried, so a
  conflict, a replay and a second execution all occur; `SkewMs = 0` and one tick make a
  retry's signature expire; one record makes the trim evict; one crash, one new round.
- `gateway`: two calls at a time in seven mixes: one key with one body from either SDK, one
  key for two paths with one body, paid for, and with two, two keys; and beside a probe of the
  service's health a paid POST from Python, a priced read and a POST without a key. One retry
  reaches every branch of the loop twice with a payment; maxima of 1 to 3 by the rank of the real ones,
  `SaveEvery = 2`, windows of one tick and two ticks let a window close, fill, be saved half,
  be taken up by a restart and be dropped by one in its last instant; a skew of one tick lets
  a signature grow too old between two attempts, with a proof and without.
- `endorsements`: three wallets, two requests at a time, three in all: cycles of every length
  up to three, at and past `MaxDepth = 2`; two endorsees make the cap bind; a hash store of
  two lets both the expiry and the quarter-eviction happen; one tick, one crash.
- `response_cache`: two readers (symmetric) and one writer over one wallet and the four
  documents, two entries, one tick and one transaction: a third document evicts, an entry
  expires, a second fill replaces, a fetch is joined and fails. A second transaction would
  only add versions older than the newest one, and the property compares with the newest
  acknowledged one.
- `lifecycle`: one record, one read without a timer, two subscribers, two waiting saves: a
  removed and a kept subscriber, a save behind a failed one, an event before and after each.
  One of them has an https address and one http, which only a production process refuses.
  A process starts in one of three environments: nothing set, production with its timers in
  notations that are read twice and differently, production without a secret. Kills and
  restarts are not bounded.
- `analyses`: one rich wallet and three that differ only in name (symmetric); up to four
  payments make every graph of four edges, three registry calls every replay with an
  overwritten and a revoked delegation, and a page of two cuts it; pauses of 20 and 900 days
  cross the age and decay thresholds; two failed reads at once. There is one answer in a
  behaviour: no answer depends on an earlier one. The module has no type invariant: its
  properties look inside every field of every answer.

Each bound is a CONSTANT in a guard: `MaxCommits`, `MaxQueue`, `MaxTime`, `MaxRound`,
`MaxCrashes`, `MaxEvents`, `MaxVersion`, `MaxSteps`. `CHECK_DEADLOCK FALSE` appears for
`Endorsements`, `Gateway` and `Analyses`, where the bounded requests have all ended.

### Fairness

- `SystemExposure`: weak fairness of the write steps, because promise callbacks run before
  the event loop does anything else, and of `loadFromDisk`, because the supervisor
  (`compose.yaml`, `restart: unless-stopped`) starts a dead process again. No fairness for commits or failures.
- `WritePath`: the client's backoff timer and its attempt timeout fire; a request in its
  handler moves on, because each await of `submitApplicationCall` is under `withTimeout`.
  The network and the chain owe nothing: `Arrive` and `Land` are not fair. The SDK clears its
  timer when the headers arrive (`sdk/src/index.ts:167`), so a body that stalls ends by the
  HTTP library's own body timeout and not by the client's; `AttemptFails` stands for both.
- `Endorsements`: a request in its handler moves on, since every await of `recordEvent` is
  under `withTimeout` or an `AbortSignal`.
- `Lifecycle`: queued writes run, the ten-second timer fires, a record request ends, and so
  does the `fetch` of a delivery (each has a timer). `ReadDone` has no fairness, because
  nothing bounds `algod.status()`, nor has the lookup of a subscriber's host
  (`src/lib/webhooks.ts:98`): a delivery may stay in it until the process ends.
- `Gateway`, `ResponseCache` and `Analyses` state safety only and assume none.

## 4. What is proved

Every theorem holds for every value of the constants that the module's ASSUMEs allow, and
these ask for what the code has: natural numbers where numbers are meant, positive maxima,
the ledger's and the list's files among the files, sentinels told apart from content
(`None` is no wallet, number or answer), finitely many wallets in the ledger and in
`Analyses`, whose subject is one of them, and a chain that is older than its first transfer.
Every property of a passing run is stated by a theorem but the four liveness properties.

**Instead of induction.** The library's induction theorems take an operator, which the
provers cannot instantiate; but `<` is well founded on the naturals, and `WFMin` takes a
set. `LeastNumber` and `FirstFailure` (`CollectionProofs`) turn it into what an induction needs:
what fails for some number up to n, and not for 0, fails for a first one. From it follow
that a function over `0..n` given by its steps exists (`RecursionDefines`), what `Drop`
keeps of a sequence (`DropKeeps`, `DropKeepsDistinct`; `SelectedIsDrop`: nothing else keeps
that), what replacing an entry of a Map leaves (`PutKeepsDistinct`), the sum over a set and every
other fold (`FirstSubset`, `FoldExists`), and the levels of a search and the positions of a cycle
(`EndorsementsProofs`).

`SystemExposureProofs`: `TypeCorrect` (`TypeOK`), `CapsAlwaysHold` (`CapsHold`),
`TotalIsTheSum` (`LedgerBalanced`), `FilesNeverTorn` (`NeverTorn`), `NewestSaveComes`
(`NewestSaveOnItsWay`), `GrantsAreAccounted` (`GrantsAccountedFor`), `FileMovesForward`
(`DiskMovesForward`) and `Refinement` (`ImplementsCreditLedger`). `CapsHold` is not
inductive: after a crash the ledger is whatever the file says. The inductive invariant
`IInv` follows a snapshot on its way: every ledger in `history` is within the caps; every
queued task carries the snapshot of the history entry its `updatedAt` names; while a write
is about to rename, the temporary file holds the head of the queue, complete; a file is
absent or holds a committed snapshot. So whatever a restart loads was once in memory, within
the caps. `OInv` adds the order of the tasks to it, from which the file moves forward only,
and `BInv` that every ledger in `history` is balanced. The arithmetic half is `ReservedFits`:
rounding to cents never rounds past a whole number of cents that bounded the amount
(`RoundingStaysBelow`), so neither rounding overshoots either cap; and `SumRaised`: raising
one wallet's entry raises the sum by as much, because otherwise there would be a least
subset of the wallets for which it does not. `Refinement` uses `IInv` twice: a commit is a
`Grant` because what is reserved fits, and a reload is a `Resume` because what it loads is
in `history`.

`WritePathProofs`: `WriteTypes` (`TypeOK`), `SuccessesAreGenuine` (`SuccessIsGenuine`) and
`RecordedIsNotReexecuted` (`NoReexecutionOnRecord`). What a client is told comes out of a
handler or out of the store, so `WInv` says of both that they hold only what the chain
accepted: a handler that reached the poll has a transaction of its own request on the chain
(`HandlerInv`), a record answers with a transaction some call with that key and body asked
for (`StoreInv`), and so does a call that returned (`ClientInv`). `AckInv` keeps, for every
key that a 2xx was given out under, its record in the store until it may go: `get`, `set`
and the sweep leave it there, and the trim, which does not, ends the promise.

`GatewayProofs`: `WellTyped` (`TypeOK`), `PaymentsStayBounded` (`PaymentsBounded`),
`AnswersAreOnesOwn` (`AnswersAreOwn`), `KeylessNeverSucceed` (`KeylessPostsRefused`) and
`WindowNeverOverrun` (`WindowHolds`). `SessionInv` ties the payments and requests of a call
to its attempt and its proof (`Frugal`), says with which statuses a call can end at all
(`Fits`), that a handler runs only for a call that has the key its route insists on and a
body its signature can be over (`Admitted`), and that every record is of such a call
(`Genuine`): a POST without a key can then not succeed, and no one gets another body's
answer. A 401 is explained by the call's present signature (`Excused`), because an answer is
taken only from the request the call still waits for, and that one bears it (`Current`); the
clock only makes it older. `WindowInv` relates three counts: what the history let past, the
entry in memory and the entry in the file, which a restart may put back, at most
`SaveEvery - 1` behind. Its `Accounted` sets aside what the runs of requests before the
present one were allowed (`Prior`) and holds the rest against the entry in memory, or,
where there is none of that window, against what restarts made the limiter forget.

`ResponseCacheProofs`: `CachesTyped` (`TypeOK`), `RecentlyUsedStay` (`CacheKeepsTheRecent`),
`OnlyRacesAreStale` (`StaleOnlyFromARace`) and `FlightsSettle` (`JoinedFlightsSettle`), from
`CachesInv`. A stale document is made in several steps, so `FreshInv` says of everything on
the way to the cache, that is of documents in the making and of fetches under way, that it is
excused or as new as what was acknowledged; a passport in the making also of the delegation
list it may still find. It survives a POST because `Acknowledge` excuses what is under way,
and `VersionInv` bounds what it acknowledges by what the chain has. `MapInv` has the order of
the Map, `SettleInv` the fetches and those who wait.

`EndorsementsProofs`: `EndorsementsTyped` (`TypeOK`), `GraphStaysAsTaken` (`GraphAsTaken`),
`EndorseesStayBounded` (a part of `TypeOK`), `ForgetsOnlyAtTheCap` (`ForgottenOnlyAtTheCap`),
`DedupGivesUpTheOldest` (`DedupKeepsTheNewest`) and `OnlyRacesMakeCycles`
(`CyclesOnlyFromRaces`). `EInv`: while a handler awaits its submission the transaction is on
the wire, taken or in a block, so the edge it records afterwards is one the node took, and
a block only moves it from the one set to the other. `HashInv`:
the store is in the order of its times with no entry twice, so that what expires and what is
evicted are both its beginning, and its end, the hash just registered, stays: three quarters
of a maximum of two or more are at least one. The cycles: a depth-first search that finds no path leaves
a certificate, `Levels`, a set for each depth that holds the successors of the one before,
with the source not in the last. A certificate stays one when edges are forgotten, so `RaceInv`
can say of every request under way that no path of the graph, without what was added
since, leads from its endorsee back to it (`Watched`), and of every cycle in the graph that two of its
edges raced. When an edge is added, a new cycle leads through it and back
(`NoCycleThroughTheEdge`), which the certificate excludes unless the way back has an edge
that was added since, and that one raced it. This holds for any number of wallets, requests
and any depth, where the run has three wallets.

`LifecycleProofs`: `LifecycleTypes` (`TypeOK`), `SubscriptionsSurvive` (`SubscriptionsKept`)
and `EventsAreAddressed` (`EventsReachSubscribers`). `LInv` says that the last save queued
is the list the clients were told of, unless one was lost, and that the Map, once loaded,
is that list, so a save can only queue it again. `NumbersAsWritten` is about `Configuration`:
a number that `validateIntegerEnv` accepts is the one the service runs with, while a timer
keeps its number only when written in digits and is replaced by the fallback otherwise.

`AnalysesProofs` has a theorem for each property of `Analyses`. Its inductive invariant is
`AInv` (`InOrderAlways`): the chain is typed and in the order of its days, only payments and
disputes are counted, and whomever a dispute on record was claimed to be about (`disputed`,
the history of these claims) exchanged a transfer with the subject. An answer is computed
in one step, so the rest is about the algorithms it is computed by, on any chain `AInv`
allows.
- `YoungAndIdleHolds` (`YoungAndIdleStayLow`): bounds of every term of the trust score, the
  roundings included, and which pages a read that stops early has looked at.
- `GraphAlgorithmsHold` (`GraphAlgorithmsAgree`): counting edge by edge counts every pair of
  neighbours as often as the pairwise definition does; a search adds whatever is reachable
  and nothing else, so that what it returns is closed and no part of it is.
- `RecordsHold` (`RecordedAsEvidenced`): the reputation is a fold of percentages over sums.
- `StarSeenAlways` (`SybilSeesAStar`): in a graph made of one wallet's own transfers no two
  counterparties are adjacent; both ring signals are then 0, and the other signals are
  percentages whose weights leave the risk below 70.
- `DenialsHold` (`DenialsStand`): the composite score, the limit and the counterparty's
  combined score only grow with the scores they are made of, and a part that could not be
  read counts as no better than any value it could have had, outside `TakenForGood`.
- `RegisteredAlways` (`DelegationsAsRegistered`): the replay is shown to go on by one call at
  a time (`ReplayFolds`); its list then has one entry for each agent whose last call is an
  `add` (`ReplayLeaves`); and a complete page holds the wallet's calls in the chain's order
  (`PageIs`, `OwnCallsMirror`).
- `ExplanationsAlwaysAgree` (`ExplanationsAgree`): the thresholds of the words against those
  of the decisions, for which every part, the walk's depth included, has to be typed.
- `LossNeverUnderstatedHolds` (`LossNeverUnderstated`): the walk's own invariant `WalkInv`
  says that the queue is in the order of depth and holds no wallet twice, that the targets of
  a wallet done with are all seen and at most one hop deeper, and that whatever is seen is
  within its depth in hops. Every turn is done with one wallet more, so the queue is empty
  after as many turns as there are wallets (`WalkEnds`), and what is expanded is what lies
  within `MaxDepth - 1` hops (`WalkReaches`). Lists without the lost sponsor reach fewer
  wallets (`WithinShorter`), and each of these has the same edges left in both graphs
  (`PrunedWeighs`); a sum over fewer wallets is no greater (`SumOverSubset`). This needs
  every list to be no longer than `Branching`, as the property says: a longer one is cut, and
  without the sponsor another target takes the place it had.

Only model-checked: the liveness properties (`SaveReachesDisk`, `CallsAndHandlersEnd`,
`RequestsEnd`, `ShutdownEnds`), which the prover does not reach. The counterexamples of the
five runs that expect a violation are TLC's.

## 5. Plan

Built in the order of what an error would cost: credit, writes to the chain, reputation,
reads; then the gateway, the lifecycle, and the algorithms behind the answers; then the
proofs in the same order.

What is left: the paging of sybil detection's list.

## 6. Not modelled

- Key loading of the operator wallet, argument checks and backoff lengths of the SDKs:
  no state and no decision that a property is about. Helmet, CORS, body limits, trusted
  addresses, `RATE_LIMIT_OVERRIDES` and the replica warning: configuration.
- Logging, metrics, the OpenAPI document: they observe.
- The contracts (`contracts/registry.teal`, `contracts/reputation.teal`) run on the chain.
  As written they could not be modelled from their code: a line such as `==  assert` is two
  opcodes on one line, and `box_len` leaves a length where `box_put` expects a key. The
  chain is modelled from what the service sends and reads back.
- `GET /discovery/search`; the paging of sybil detection's list (a list cut short is a
  shorter chain); purchases, services and refunds on record, which like payments need no
  evidence (`Submissions` has them, `RecordEvents` only payments and disputes); the trust-anchor lines of an explanation;
  the defences of `computeReputationScore` that no caller turns on.
- Frontend, site, scripts and alert rules.

## 7. Running it

    tlc -workers 2 -config MCSystemExposure.cfg MCSystemExposure.tla
    tlapm SystemExposureProofs.tla

and likewise for each run that `PROJECT.json` lists. `gateway` is the largest, with 1.7
million states.
