# AIBid2X in TLA+

A model of the AIBid2X auction backend (`src/src/`): an Express API, a BullMQ worker
process, PostgreSQL and Redis. The modules are translated from the TypeScript sources; TLC
checks them on small instances, and TLAPS proves the results that matter most for every number of
calls, users, auctions, sockets and amounts.

## 1. The system

| Component | State it keeps | Operations | Talks to | What makes it correct |
|---|---|---|---|---|
| Bid placement, `services/bid.service.ts` | none; rows of `auctions`, `bids`, `bid_requests`, `bid_events` | `placeBid`, `getMyBids` | PostgreSQL transaction, WebSocket rooms of its process, `notifications` queue | one leader at the auction's price; bids climb; a key places one bid; nobody hears of a bid that is not stored |
| Bid audit log, `lib/bidAudit.ts` | `bid_events`, append only | `writeBidAudit` inside or outside a transaction | PostgreSQL | accepted rows stand and fall with the bid; an answer has its row |
| Auction service, `services/auction.service.ts` | `auctions` | `createAuction`, `activateAuction`, `getAuctionById`, `listAuctions` | PostgreSQL, `auction-jobs`, `embeddings` | an activated auction gets an expiry job; an answer hangs together; a listing skips and repeats nothing |
| Expiry worker, `workers/auction.worker.ts` | none; `auctions`, `bids` | the `expire-auction` job, with retries | PostgreSQL, `notifications`, Redis pub/sub | an auction that ends has its highest bid as winner, who is told |
| Queues, `queues/index.ts` | jobs in Redis | `add`, delivery, 3 attempts | Redis | a job is neither lost nor done twice with effect |
| Notification worker | none | logs the job | - | - |
| Embedding worker | `auctions.embedding` | computes and stores | OpenAI, PostgreSQL | an auction is searchable, or there is a reason why not |
| Sessions, `lib/tokens.ts`, `services/auth.service.ts` | `users`; refresh tokens in Redis; access tokens with the clients | `register`, `login`, `refresh`, `logout`, `me` | PostgreSQL, Redis | rotation replaces; a logout ends the session; a client keeps its session |
| Request pipeline, `app.ts`, `routes/`, `middleware/` | sorted sets in Redis | limiters, `requireAuth`, `requireRole`, `validate` | Redis (a Lua script) | no window holds more calls than the limit; a user's bids are the user's to spend |
| Realtime, `lib/websocket.ts`, `lib/pubsub.ts` | rooms of sockets in each process | join, leave, broadcast, subscribe | Redis pub/sub | watchers are counted right and hear of the end; no bid is higher than the final price |
| Search and analysis, `routes/search.ts`, `lib/rag.ts`, `routes/analysis.ts` | an event stream | queries, rank fusion, streaming | PostgreSQL, LLM APIs | what both signals find comes first; a stream ends once, with its verdict |
| Server and shutdown, `server.ts`, `worker.ts` | sockets, subsystems | start, `shutdown` | all | a process that exits with 0 cut nobody off |
| Pool and Redis client, `db/index.ts`, `lib/redis.ts` | connections, their queues | connect, time out, reconnect, give up | PostgreSQL, Redis | nobody waits for a connection while holding one |
| Health and metrics | none | `/readyz`, `/metrics` | all | a check does not hang with what it checks |
| Seed script, `db/seed.ts` | none; `users`, `auctions`, `bids` | one run by hand | PostgreSQL | what it reports complete has one leader at each price |

Hard behaviours: calls of `placeBid` interleave at every `await`, in one process and between
API instances; the worker acts on the same rows; a PostgreSQL transaction in which a statement has
failed is aborted even when the code catches the error; COMMIT can fail after it was done; the steps
after COMMIT (broadcast, outbid job, key) are neither atomic nor repeated; a pipeline of Redis
commands is not a transaction and does not report their errors; events over pub/sub are kept for
nobody; two queries that answer one request see two states. PROJECT.json lists each hazard
with its line and the properties that are about it.

## 2. Modules

| Module | Models |
|---|---|
| `AuctionStore` | the rows that API and worker share, the lock on the auctions row, and the autocommitted statements of the other parts (creation, activation, the two UPDATEs of the worker) |
| `BidService` | `placeBid`: one action per awaited statement, with the failures `Faults` allows |
| `BidProperties` | what `placeBid` promises, what the documents claim, and the inductive invariant |
| `EnglishAuction`, `BidRefinement` | the abstract specification, an ascending auction without transactions, and the mapping of `BidService` to it |
| `AuctionLifecycle` | `activateAuction`, the `expire-auction` job in Redis and its handler, one action per awaited statement, with the failures `Mishaps` allows; a bid is one step here |
| `LifecycleProperties` | what the opening and the end of an auction promise, what the documents claim, and the inductive invariant |
| `AuctionSystem` | `placeBid`, activation and worker on the same rows, each statement by statement: `BidService` without its environment and `AuctionLifecycle` without its one-step bid |
| `Sessions` | `register`, `login`, `refresh`, `logout` and `me`, one action per statement, the two commands of the rotation's pipeline apart |
| `RequestGate` | the middleware in front of each route and the sliding windows, over several API processes with clocks of their own |
| `Realtime` | rooms and their broadcasts, the pub/sub channel between worker and API, the shutdown of both processes |
| `Connections` | the pool, the row lock that bids wait for with a connection in hand, the Redis client; bids, readiness checks and reports that need them |
| `Listing` | a client's walk through `listAuctions`: a page by number, then by cursor |
| `BidReads` | `getAuctionById` and the context of an analysis, and a walk through `getMyBids`, while others bid |
| `EmbeddingSearch` | the embedding job from `createAuction` to the vector, and `GET /search` |
| `AnalysisStream` | the analysis of one auction: reads, ranking of the comparables, the event stream |
| `Seed` | the seed script, one action per statement, while visitors bid |
| `FrontDoor`, `LiveProcess`, `Catalogue`, `Discovery` | what runs side by side without shared state: `Sessions` and `RequestGate`; `Realtime` and `Connections`; `Listing`, `BidReads` and `Seed`; `EmbeddingSearch` and `AnalysisStream` |
| `MCBid`, `MCLifecycle`, `MCSystem`, `MCFrontDoor`, `MCRealtime`, `MCCatalogue`, `MCDiscovery` | small instances for TLC |
| `BidProofs`, `BidCallerProofs`, `LifecycleProofs`, `FrontDoorProofs`, `RealtimeProofs`, `ListingProofs`, `CatalogueProofs`, `DiscoveryProofs` | the proofs (section 4) |

`AuctionStore` is the common ground: `BidService` refines what a bid does to its rows and takes the
seller and the worker as single statements (`Environment`); `AuctionLifecycle` takes those apart and
a bid as one step (`BidTakes`). `ActsAsEnvironment` justifies the first, `ImplementsEnglishAuction` the second:
COMMIT is the only step of `placeBid` that changes committed rows, it holds the row lock then, and its
checks still hold. `AuctionSystem` drops both simplifications, and its theorems say that nothing was lost.
The other modules lean on these two in the same way: a bid of `Realtime` or `BidReads` commits in one
step, `EndAuction` of `Realtime` and `EndAndAward` of `BidReads` are the worker's UPDATE, and
`Realtime` lets an end go unpublished because `AuctionLifecycle` shows that it may.

### How state and actions correspond to the code

* A member of `Requests` is one call of `placeBid` and the bids row it may insert. Two calls may
  run in one process or in two: nothing the calls share lives in the process. `offer[r]` is the
  call's arguments; amounts are whole cents, as `numeric(12,2)` and `toFixed(2)` make them.
* `status`, `endPassed`, `price`, `bids` are the committed columns; `rowLock` is the lock that
  `FOR UPDATE` and every UPDATE of the auctions row take. Auctions do not interact, so the model has
  one. `endPassed` stands for `end_time <= now`.
* `tx[r]` holds what the call's transaction has written and not committed: `SeenPrice`, `SeenBid`
  are what its own statements read, `Apply` is COMMIT. `doomed` is PostgreSQL's aborted state.
* `pc[r]` names the statement the call awaits. The code between two awaits is part of the action:
  `LockRow` is the `SELECT ... FOR UPDATE` with all the checks behind it (steps 1-3), and where a
  check fails it is also the throw. The UPDATE that marks an auction 'ended' in that branch always
  rolls back with the throw; it is written to `tx[r]` and discarded, as in the code.
* `keyStatus` is `bid_requests.status` of each key, `events` the `bid_events` rows, `broadcasts`
  and `queue` what the others hear. `result[r]` becomes the answer when `pc[r]` is "done".
* `Broadcast` ... `CompleteKey` follow COMMIT, `MarkKeyFailed` and `AuditRejection` are the catch
  block.

Choices worth knowing:

* The row lock is exclusive and PostgreSQL's READ COMMITTED re-reads a row after waiting for it.
  The sweeps and the insert touch bids rows only, and only a call that holds the auction's lock
  does that before COMMIT, so row locks on bids are not modelled.
* Idempotency keys: `routes/auctions.ts:64-69` passes none, so over HTTP every call is one with
  `NoKey`. The key protocol of `placeBid` is modelled as its parameter list allows.
* `EndTimeIsDate`: the row comes from a raw statement, and the drizzle version the lock file names
  returns timestamps of raw statements as text; a comparison of that text with a `Date` is never
  true. The interface the code declares says `Date`. Both are modelled; the proofs hold for both.
* A positive number below half a cent passes the first check and is zero from then on: a request
  of amount 0 may therefore be refused as INVALID_AMOUNT or go on and be too low.
* The duplicate check's 30 seconds are not modelled: the check can only find more without them,
  and `SecondGatesIdle` shows that it finds nothing even so.
* `bid_requests.auction_id` refers to `auctions` (migration 0001): a call with a new key for an auction
  that does not exist is refused by PostgreSQL at the claim (`RefusedByForeignKey`), outside the try: 500,
  no key row and no audit row. The check of the foreign key also waits for a bid that holds the row
  `FOR UPDATE`; that delays the claim only and is left out.
* `Environment` is what the rest of the system does to these rows: activation opens a draft there
  (`OpenDraft`) and the worker awards only an auction that is 'ended'. `AuctionLifecycle` shows that this is
  right for any number of activations (`ActsAsEnvironment`), with one exception: the UPDATE of an activation
  that was overtaken by another one and comes after the end (section 5).

For `AuctionLifecycle`:

* A member of `Activations` is a call of `activateAuction` by the owner; there may be any number. `ReadDraft`
  is its SELECT with the checks behind it, `Activate` the UPDATE, which asks for the id alone
  (`ActivateRow`): it finds a draft, an active auction or an ended one. Two history variables tell these
  apart: `overtaken` are the activations that were past their checks when the UPDATE of another one came,
  and `reopened` says that one of them has made an ended auction active again. `safeQueueAdd` is not
  awaited, so `AddJob` happens at any time after, or never (`AddLost`): a timeout of the race does not
  take the add back.
* `job` is the one job with id `expire-<id>`: adding it again does nothing while it is kept, and
  `JobIsRemoved` stands for the jobs of other auctions that push it out. `delayed` ends when the end
  time passes. A failed attempt puts it back until `Attempts` (3) are used up; the backoff only delays.
* A member of `Workers` is a slot of a worker process that may run the job. `holder` has the job's
  lock. A stalled job goes to another slot while the first goes on: BullMQ allows one stall
  (`MaxStalls`), which is not an attempt.
* `workPc[w]` names the statement the handler awaits; `ended[w]` and `found[w]` are its variables
  `ended.currentPrice` and `winningBid`. A statement that fails may have been done (`HalfDone`).
* `AuctionSystem` has no state of its own. `Elsewhere` is `createAuction` and the clock; every other step is
  one of a call of `placeBid` or of `AuctionLifecycle`'s activation, queue and worker. The lock on the auctions row
  is where they meet: the UPDATEs that open and end the auction wait for a bid in its transaction.
* `publisher[w]` is the worker's Redis connection for events: lazy, without an offline queue and never
  connected explicitly, so the first publish of a process throws (`PublishRefused`).

For the other modules:

* `Sessions`: a call creates at most one refresh token and one access token, which are named after the
  call. `session[t]` is the login a token descends from, `live` the keys in Redis. `ReadToken`,
  `DeleteOld` and `SetNew` are the GET and the two commands of `rotateRefreshToken`. `exec()` resolves
  also when commands failed, so two failures are answered 200: `PipelineFails`, where neither command is
  executed and the old token stays good, and `SetLost`, where the DEL was executed and the SETEX was not.
  Three variables are history: `raced`, the sessions that a call touched between two statements of a refresh;
  `closed`, those that were logged out or ran out; and `lost`, those whose old token `DeleteOld`
  removed and whose new one `SetLost` did not store. Seven days and fifteen minutes are `RefreshExpires` and
  `AccessExpires`, at any time.
* `RequestGate`: `Stages` lines up what `app.ts` and the routers mount. A request runs to its next limiter
  without an await between (`Runs`), so one action is one limiter and everything up to the next.
  `CheckLimit` is the Lua script; `FailOpen` is Redis failing before or after it. `Key` keeps what the
  key is built from: `req.path` is relative to the mount point, so `/auctions` and every analysis share "/",
  and `/login` has one key for two limiters.
* `Realtime`: a `Socket` is a slot that is used again. `sock`, `home` and `room` are the sockets of the
  processes as they see them; a socket may stop being open long before its 'close' event, be
  swept out of the room by a broadcast, or be taken out by 'error'. `count`, `shown` and `final` are
  what its client was told last. `calls[p]` are calls of `placeBid` between their start and their
  broadcast. `wire[p]` is the one end under way to a subscriber. The listener that fills `openSockets`
  is registered at the signal, when no connection arrives any more, so `Signal` destroys none.
* `Connections`: `waiting` is the pool's queue, `lent` its connections. A bid is what it needs, in order:
  a connection, the row, then, both given back, a connection for the e-mail or the audit row, then
  Redis. `Failed` is the code behind a connection that was not had or was lost. `NoReply` tells a failing
  PING from a failing INFO, which `getSystemMetrics` turns into ''.
* `Listing`: rows with one end time come in any order in the first page (`OffsetPages`), by id
  in the others. `torn` is history: the listing changed between the two queries of the first page.
  A client that walks twice is two clients, and clients do not interact.
* `BidReads`: a bid takes its place in the order at BEGIN (`created_at` is `now()`), its amount and
  visibility at COMMIT. The aggregates are read by a query after the row (`Order`).
* `EmbeddingSearch`: `offline` is a job that waits in the API process for Redis, where the
  timeout of `safeQueueAdd` does not reach it, `lost` one that was refused. Without an OpenAI key the
  search is by words and asks for no vector. The search's own pool of connections is left out.
* `AnalysisStream`: each query sees one snapshot, so what the database holds is chosen at the start.
  `Fused` is the SQL's order by rounded score, ties in any order. `gone` is what had been written when
  the client left.
* `Seed`: `statement` is the one the script awaits; nothing puts the statements into one transaction, except
  the three DELETEs, which PostgreSQL receives as one query. `IndexRefuses` is the unique index of migration
  0002, at which the script dies when a visitor leads. `struck` is history: auctions a visitor bid on between
  their last two UPDATEs. Users are left out: the four bidders and the seller do not bid otherwise.

### Faults

| Fault | What happens |
|---|---|
| `statement` | an awaited statement outside any inner catch fails |
| `swallowed` | a statement inside the transaction fails and the code catches the error |
| `commit` | the connection is lost at COMMIT, before or after it is done; also at an autocommitted claim of a key |
| `store` | an autocommitted statement whose error is caught and logged fails |
| `queue` | the read of the email or `notificationQueue.add` fails, with or without effect |
| `crash` | the process of a call dies; PostgreSQL rolls back its open transaction |

| Mishap | What happens |
|---|---|
| `activation` | the UPDATE of an activation fails, or its answer is lost |
| `add` | the expiry job is not added |
| `attempt` | a statement of the handler fails, with or without effect; BullMQ repeats the job |
| `worker` | a worker dies and is started again; its job is found stalled |
| `stall` | a worker that still runs loses the lock of its job |

The smaller modules name their failures as actions or as kinds of `Faults`: a statement or a Redis command that
fails before or after it was done, a pipeline of which no command or only the DEL is executed, because Redis
goes away or refuses the SETEX for want of memory (`Sessions`); a limiter that cannot reach Redis (`RequestGate`); sockets that break, a subscriber
that loses its connection, signals and the ten-second timer at any moment (`Realtime`); outages of
PostgreSQL and of Redis (`Connections`); crashes of API and worker, stalls, failing embeddings and
queries (`EmbeddingSearch`); failing reads, a failing model and a client that leaves
(`AnalysisStream`). A statement of the seed fails, or somebody stops the script and
runs it again (`Seed`). `Listing` and `BidReads` only read; what can go wrong is what others do between
two reads.

## 3. Runs

| Run | Question | Result |
|---|---|---|
| `bid_safety` | `TypeOK`, `PriceMatchesLeader`, `AuditAtomic`, `SecondGatesIdle`, `KeyHasOneOwner`, `AcceptedIsDurable`, `BidsOnlyClimb`, with failing statements, lost COMMITs and crashes | hold |
| `bid_keys` | `OneBidPerKey`, `KeyTellsOutcome`, with all faults but lost COMMITs and swallowed failures, `EndTimeIsDate = FALSE` | hold |
| `bid_calls` | `AnsweredIsAudited`, `DisplacedAreTold`, `KeysAreReleased`, when nothing fails | hold |
| `lifecycle` | `LifecycleTypeOK`, `WinnerIsHighest`, `NewsIsTrue`, `ActsAsEnvironment`, with two activations and up to two mishaps of every kind; `AuctionsEnd` despite one, `EndedIsSettled` unless one happens | hold |
| `auction_system` | `ImplementsEnglishAuction` of `placeBid`, activation and worker together, with failing statements, swallowed failures, lost COMMITs, crashes and one mishap of every kind | holds |
| `front_door` | `FrontDoorTypeOK`; `OneToken`, `LogoutIsFinal`, `SessionSurvives`: what becomes of sessions whose calls overlap and fail; `LimitsHold`: what the windows let pass | hold |
| `realtime` | `RealtimeTypeOK`; `CountsAreTrue`, `FinalPriceIsFinal`, `CleanExitCutsNobody`, `WatchersHearTheEnd`: what watchers are told; `NoHoldAndWait`, `ChecksAreAnswered`: what requests wait for | hold |
| `catalogue` | `CatalogueTypeOK`; `ShownOnce`, `NothingIsMissed`: a walk through a listing that changes; `AnswersHold`: answers put together from several reads; `SeedIsSound`: a deployment after the seed script | hold |
| `discovery` | `DiscoveryTypeOK`; `HiddenForAReason`, `EmbeddingsSettle`: whether an auction can be found; `StreamIsWellFormed`: what the client of an analysis receives | hold |
| `phantom_acceptance` | are rolled-back bids kept from the side effects? (`bid.service.ts:320`, ADR-007) | no: a failure swallowed inside the transaction |
| `winner_lost` | do retries bring the expiry to its end? (ADR-005) | no: the retry skips, and no bid wins |
| `second_activation` | does an activation take an auction from draft to active only? (`openapi.ts:320`) | no: one that was overtaken opens the auction again after its end |

The three runs that fail state what a document says; each finding in PROJECT.json quotes it.

`front_door`, `realtime`, `catalogue` and `discovery` are instances of `FrontDoor`, `LiveProcess`, `Catalogue` and
`Discovery`, whose parts share no variable and do not interact. Their specifications are conjunctions, and the
proofs are about these; for TLC the next-state relation lets one part move while the others stay in
an initial state, so it sees all behaviours of each part for the sum of their states instead of the
product. Every fairness condition is about actions that are disabled in the initial state of its
module, so the one that stays put violates none.

`OneBidPerKey` and `KeyTellsOutcome` are false under `commit`: a COMMIT that was done and looked failed
marks the key 'failed', and the retry places a second bid. No document speaks of that case.
A retry of a completed call is refused with REQUEST_IN_PROGRESS: `KeyTellsOutcome` says what its row
then tells, and the answer of the first call is not repeated.
`AnsweredIsAudited` says of every answer which audit row it has, and excepts the calls that never reach the try:
a malformed key, a key in use, and a new key for an auction that does not exist (section 5).
`AnsweredIsAudited` and `DisplacedAreTold` are about calls that nothing disturbs: each fault is a gap
the code accepts and logs. `EndedIsSettled` stops at the first mishap for the reason that
`winner_lost` shows, and speaks only of workers that have published before. `AuctionsEnd` excepts
an add that was lost: nothing in the code would end that auction. With two activations the properties of
`lifecycle` speak of an auction that was not `reopened`: after that a winner may have to see higher bids, nothing
ends the auction again, and `second_activation` shows that it happens. `ActsAsEnvironment` names the step that
leads there, and no other step leaves `placeBid`'s environment.
`SessionSurvives` is about clients that refresh one call after the other, and excepts the sessions in `lost`: it
says that no other failure, before, between or after the statements of a rotation, loses a session.

### Bounds

* Bids: three calls of `placeBid`, three users (two bidders and the seller), starting price 1. Three
  calls are the fewest in which one bid displaces another while a third waits with a stale view; the
  amounts give a bid that is too low, two equal bids of different bidders, one's own raise and the
  seller's own. A retry is another call with the same key. The auction may be absent, a draft or
  active at the start. Calls and users of one kind are interchangeable, hence the symmetry.
* `auction_system`: two calls, of which one may lead while the other is anywhere in its transaction, with two
  bidders at one amount and a raise; one activation, two worker slots, two attempts, one stall and one mishap. Three
  calls are left to `bid_safety`, where the others are an environment, and two activations and two mishaps to
  `lifecycle`, where a bid is one step.
* `lifecycle`: two worker slots, the fewest in which a stalled job runs twice at once; two activations, the fewest
  of which one is overtaken; two bids that differ by name only, so the first is the lower one; 3 attempts and 1 stall as in the code; two mishaps,
  which with the first publish that is refused use up the attempts. `second_activation` is the same
  instance without mishaps.
* `front_door`: five calls, of which a login and two overlapping refreshes leave two for a logout and a
  later refresh; one email; each kind of failure. Two requests of twelve shapes, limits of 1 and 2 so that
  two requests reach them (an analysis alone passes one limiter twice), windows of 3 and 4 ticks in a time of
  4, two processes whose clocks are a tick apart, one failure of Redis.
* `realtime`: one API process, since processes share nothing but the end (the theorems are about any number);
  three sockets, so that one breaks, one is told and one comes later; two bids; one lost subscription. Three
  requests on two connections, the fewest in which one waits for the pool while another waits for
  the row; one outage; two reconnections, with commands flushed after each second one (10 and 3 in the code).
* `catalogue`: five auctions with two end times and pages of two: the first page can end between equal end
  times and leave two more pages. Four bids of two bidders, pages of two. Three items of the seed: one that runs, one that is
  over, one without bids; two bids of visitors, below, at and above the amounts of the seed.
* `discovery`: two auctions, whose jobs end differently; 3 attempts and 1 stall as in the code; two crashes.
  Four others of which a signal contributes three and two are used (20 and 5 in the code), with the real
  constant 60, so scores tie and differ as they do there; `MCDiscovery` also checks, for all ranks up to
  the real 20, that whatever both signals found outweighs what only one of them found. Two pieces of text.

Calls, auctions, sessions and processes end and nobody must start another, so deadlock is not checked; the
liveness properties show that nothing is stuck.

### Fairness

`FairSpec` adds weak fairness of each call that was sent: `pc[r] # "idle"` and a step of the code.
The event loop resumes a call when its statement returns, and PostgreSQL serves lock waiters as the lock
is freed; with finitely many calls each lock is freed finitely often before it is the waiter's turn, so
weak fairness is enough. Nothing is assumed about clients, the seller, the clock or the worker,
and no fault is fair.

`FairLifecycle` adds weak fairness of the clock (`EndTimePasses`), of an activation that was sent, the add
of its job included, of Redis handing out the job when its delay ends and when a slot is free, of a
handler that runs, and of the check that finds the job of a dead worker stalled. BullMQ promises the
last three as long as a worker process is up. Nobody must bid or activate, and no mishap is fair.

`Realtime`: weak fairness of `DeliverEnd` in each process, the message handler of a subscriber that has
received something. `Connections`: the pool serves its queue, the client reconnects, a free row goes to one of
those who wait for it, and each request takes the steps that are its own, timeouts included; PostgreSQL
and a Redis that is there answer. `EmbeddingSearch`: for each auction, a waiting job is taken and an attempt
has an outcome, no matter which. Nothing says that an outage ends. `Sessions`, `RequestGate`,
`Listing`, `BidReads` and `AnalysisStream` need no fairness.

## 4. Proofs

The proofs about `BidService` hold for every finite or infinite set of requests, users, keys and offers, for every
subset of the faults and both values of `EndTimeIsDate`, from the assumptions named in
`AuctionStore` and `BidService`: the seller is a user, the marker keys are not keys, offers are
well-typed and the starting price is positive.

* `TypeCorrect` (`BidProofs`): one lemma for each group of actions.
* `OneLeader`, `AuditIsAtomic`, `LockDecides`, `PriceOnlyClimbs` (`BidProofs`) rest on `IInv`.
  `PriceMatchesLeader` alone is not inductive: a COMMIT could apply anything. `IInv` adds what a call
  in its transaction knows: it holds the lock, and its checks still hold (`LockHeld`); what it has
  written is exactly what its place in the code says, swept rows included (`TxWrites`); nothing of it is
  visible yet (`NothingYet`); and 'won' appears only on ended auctions (`WonOnlyAtEnd`). `TxStepInv`
  and `LeaveInv` carry the steps that publish nothing, `ApplyInv` the COMMIT, `AwardInv` and
  `EnvironmentInv` the others.
* `BidServiceIsAnEnglishAuction` (`BidProofs`): `StartMaps` and `StepMaps`, by the shape
  of a step that `StepShape` gives: only COMMIT of a sound transaction and the environment change the
  committed rows.
* `KeysHaveOneOwner` (`BidCallerProofs`): `KeyHasOneOwner` with the fact that only keyed calls reach
  the statements on `bid_requests` (`KeyInv`).
* `NoPhantomBids`: `AcceptedIsDurable` whenever `"swallowed" \notin Faults`. The run
  `phantom_acceptance` shows that the condition is needed.
* `KeysPlaceOneBid` and `KeysTellOutcomes` rest on `OutcomeInv`: a call that owns its key and has not committed
  finds no bid of that key (`KeyOutcome`), so its COMMIT is the first. Both assume that neither "commit" nor
  "swallowed" is among the faults (`KeyFaults`).
* `AnswersAreAudited` rests on `AuditInv`, the audit rows of a call at each of its statements, when crashes are
  the only faults. A call that the foreign key of its key row stops is among the answers without a row.
* `TheDisplacedAreTold` rests on `ToldInv`: the sweep finds the leader whom the call read before, and later bids
  are higher, so nobody else displaces that bid. It excludes `ToldFaults`: "commit", "swallowed" and "queue".

The proofs about `AuctionLifecycle` hold for every set of bids, offers and workers, every number of
attempts and stalls, every subset of the mishaps and every bound on them, from the assumptions of
`AuctionStore` and those `AuctionLifecycle` names. They hold for every number of activations; what they say of
rows and news ends with a step that makes `reopened` true (section 5). `OneActivationStaysEnded` and
`OneActivationIsEnough` show that a second activation is what it takes: with one (`OneActivation`) the
auction never opens again, and the system implements the ascending auction for good.

* `LifecycleTypeCorrect`: types, with `JobIsHeld`: the number of failed attempts stays within its bound
  because a job is active exactly while a worker holds its lock.
* `HighestBidWins`, `NewsAreTrue`, `LifecycleIsEnvironment` and
  `OneActivationStaysEnded` rest on `LInv`: types, `JobIsHeld`, and `RowInv` unless `reopened`.
  `WinnerIsHighest` is not inductive: a worker could award what it read before. `RowInv` adds what each
  activation (`DraftHolds`: the draft it read is still one, or it was overtaken) and each worker
  (`ReadsHold`) knows between two statements, `OneHighest` that the last bid stands alone above the others, and `OneEnds` that a single worker
  gets past the UPDATE, however many run the job. `QuietStep` carries the steps that leave rows and news
  alone; `TakenInv` is a bid that takes the lead, `OpenInv`, `EndInv`, `FindInv`, `WonInv`, `TellInv` and
  `PublishInv` take one statement each, answered or not.
* `SystemIsBidService` and `SystemIsAnEnglishAuction`, for behaviours that never reopen the auction,
  `OneActivationIsEnough`, `SystemHighestBidWins` and `SystemNewsAreTrue` are about
  `AuctionSystem`. `IInv /\ LInv` is inductive for it, each half by the other: the worker's statements are steps of
  `placeBid`'s environment because `LInv` says what the worker knows (`LifecycleRows`), so they keep `IInv`;
  a call changes the rows at its COMMIT only (`CallShape`), where `IInv` gives the shape that `TakenInv` asks for
  (`CallKeepsLInv`). By `SystemIsBidService` each theorem about `Spec` above is one about the whole system, until
  a reopening.

`FrontDoorProofs` has two parts. That on `Sessions` holds for every set of calls and emails and every subset of the
faults, from `SessionsAssumption` (`NoCall` is no call).

* `OneTokenAlways`, `LogoutIsFinalAlways` and `SessionSurvivesAlways` rest on `SInv` (`SessionsInvariant`).
  None of the three is inductive: a call under way could own any token. `Underway` and `Ancestry` say
  that only calls that have ended own tokens and start sessions, `Replaces` what a refresh knows of the
  token it read, `OneAtATime` that a session whose refreshes do not overlap has one token or the one
  refresh that will store the next, and `Alive` that it has either unless it was closed or `lost`.
  `LogoutIsFinalAlways` also says that nothing brings a lost session back. `QuietStep` carries the
  steps that leave tokens alone; there is one lemma for each of the others.

Its part on `RequestGate` holds for every set of requests, users and processes, all limits and windows and every
lag of a clock up to `Skew`, from `GateAssumption`: limits and windows are positive, no window is shorter than
that of `api`, and the bound on time is at least the skew, at which it starts.

* `LimitsHoldAlways` rests on `GateInv`. A limiter sees what Redis has under the key, `LimitsHold` speaks of what
  was let through, so the invariant relates the two: what was counted is in the set of its key, which has not
  expired, for as long as the shortest window looks at it by any of the clocks (`Remembered`). Then the set is
  at least as large as what was admitted (`Once` makes the map from one to the other injective), and a limiter that
  lets a request pass adds one to less than its limit. `Spent` is the half about budgets: what `bid` and
  `global` count belongs to the bidder who sent it.

`RealtimeProofs`, on `Realtime`, holds for every number of processes and finitely many sockets and any bounds, from
`RealtimeAssumption`.

* `CountsAreTrueAlways`, `FinalPriceIsFinalAlways` and `CleanExit` rest on `RInv`: where sockets are (`Rooms`),
  what watchers were told last when no 'close' event is due (`Counts`), that nothing under way is higher than the
  price and that the end is announced after it (`Prices`), and that a process which closes its subsystems
  has nothing left to do (`Idle`), without which `CleanExit` would not hold.

On `Connections`, for every set of requests, size of the pool and number of outages, from `ConnectionsAssumption`
(a client tries to reconnect at least once):

* `NoHoldAndWaitAlways` rests on `PoolInv`: a request has a connection or a place in the queue, never both, and
  only at the steps that need one; who has the row has a connection that works (`Place`); and the queue holds each
  request once (`Queue`), or a timeout would leave a second place behind that is served later.

`ListingProofs` holds for every finite set of auctions, every set of end times and every page size, from
`ListingAssumption`.

* `ShownOnceAlways` and `NothingIsMissedEver` rest on `LInv`: what was shown lies before the cursor, but for
  auctions that end with the first page's last row (`Behind`); what stays listed was shown or lies after the
  cursor (`Covered`), page 1 has what comes before its last row (`Top`), and the two queries of the first page
  agree unless the listing changed between them (`Whole`). `PageFacts` says what a page by number is, with
  the library's facts about finite cardinalities; it is where the assumption of finiteness is used.

`CatalogueProofs` has the rest of the catalogue: `BidReads` for every set of bidders, number of bids and page size,
from `BidReadsAssumption`.

* `AnswersHoldAlways` rests on `ReadsInv`. The price is the number of bids that are committed (`BidsInv`), so it grows
  with them, and an answer that read it first shows no more than the bids it read later reach (`DetailInv`).
  `WalkInv` says where a bid she had and has not met can be: on the page she asks for or after it, because later
  bids only push it back (`LaterGrows`); and if it is after the page, the count tells her to go on, unless a bid
  came between rows and count. The arithmetic of pages is in `DivBounds`, `Times` and `Ceiling`.

`Seed`, for every catalogue with rising wars, any number of bids of visitors and any amounts, from `SeedAssumption`:

* `SeedIsSoundAlways` rests on `SeedInv`, which says what each auction looks like at each statement of the script
  (`Progress`): the auctions behind it are sound, those before it wait for their war (`Waiting`), and the one it is
  at has the war's bids so far or a leader of the visitors (`InWar`), then the leader it marked (`Marked`).

`DiscoveryProofs` holds for every finite set of auctions, every number of attempts, stalls and crashes, any
constants of the ranking and any number of texts, from `SearchAssumption` and `AnalysisAssumption`.

* `HiddenForAReasonAlways` rests on `SearchInv`: a job is done only when its vector is stored, there is none before
  its auction, and one that may still run has an attempt and a stall left (`Jobs`).
* `StreamIsWellFormedAlways` rests on `StreamInv`, which says what has been written at each step of the handler and
  what had been when the client left (`Writing`).

`FrontDoorTypes`, `RealtimeTypes`, `CatalogueTypes` and `DiscoveryTypes` are the type invariants of the four
compositions, each from the inductive invariants of its parts.

So each invariant and each action property that a passing run checks is the subject of a theorem, some of them with
the condition on faults or activations given above. Only model-checked are the liveness properties,
`KeysAreReleased`, `AuctionsEnd`, `EndedIsSettled`, `WatchersHearTheEnd`, `ChecksAreAnswered` and
`EmbeddingsSettle`: the prover has no rules for fairness. So is the weight of the fused ranks, which is
arithmetic over the constants of the code.

## 5. Where code and documents differ

Besides the three findings, modelling showed these. They follow from the actions named, and no run
is spent on them.

* An auction that a second activation opened again (`second_activation`) never ends if its completed job is still kept
  under the id `expire-<id>`: adding it again does nothing then (`auction.service.ts:109`).
* A refused SETEX, or a connection that breaks between DEL and SETEX, loses the session although the refresh is
  answered 200 with new tokens (`SetLost`): `tokens.ts:36-39` uses a pipeline, not a transaction, and does not
  look at its results. README.md:58 and ADR.md:97 speak of an atomic exchange.
* A call of `placeBid` with a new key for an auction that does not exist is answered 500 and leaves neither a key
  row nor a `bid_events` row (`RefusedByForeignKey`), although README.md:45 speaks of every attempt.
* With an OpenAI key, a search whose embedding fails is answered 500 (`search.ts:19`, `EmbedQuery`); the fallback
  to keywords of README.md:29 is there only without a key.
* The first publish of a worker process throws (`auction.worker.ts:14`, `PublishRefused`), so the first end
  it finds is never announced; ADR.md:238 says that it is.
* A call refused with REQUEST_IN_PROGRESS leaves no `bid_events` row, although README.md:45 speaks of
  every attempt.
* `notificationQueue.add` in `placeBid` is not wrapped: a committed bid may be answered with an error, against
  ADR.md:175.
* Two refreshes that read one token before either deletes it both succeed, and one token becomes two
  (README.md:58, ADR.md:97); hence `raced` in `OneToken` and `LogoutIsFinal`.
* `authRateLimit` shares its key with `apiRateLimit` (ADR.md:137): the shorter window's script drops what the
  longer one would still count, so `LimitsHold` speaks of the shorter one.
* `bid_placed` reaches the watchers of the process that took the bid only; ADR.md:244 and 257 speak of pub/sub.
* Two registrations of one email at once: the loser gets a 500 from the unique index, not a 409.
* A key that is set later makes new vectors comparable with the mock ones stored before
  (README.md:124); embeddings are not recomputed.
* The history of bids is ordered by `created_at`, the time a transaction began, not by the order of commits.
* The pools of metrics, rag, analysis and search come on top of the connections README.md:401 budgets.
* The Redis client gives up after ten reconnections and is not made again: `/readyz` stays 503 while
  `/healthz`, which restarts containers, stays 200 (README.md:405).
* The shutdown drains keep-alive connections (README.md:54) only as far as `httpServer.close` does: the set
  of sockets it would destroy is empty.
* The cursor path reads `end_time`, a column without time zone, in the zone of the process
  (`auction.service.ts:163`); the model takes UTC.
* A bid between the last two UPDATEs of an auction of the seed (`seed.ts:226` and `:240`) leaves the leader of the
  visitors at a price it did not bid, hence `struck`. The auctions of the seed get no expiry job: nothing ends
  the active ones.
* A second run of the seed deletes what its bidders bid on auctions of other sellers (`seed.ts:136`), and leaves
  these auctions with the price of a bid that is gone.

## 6. Not modelled

* The migrations, run before the system starts; `lib/openapi.ts`, the HTML of `app.ts`,
  and logging: text that nothing relies on. The notification worker only logs.
* `getBidById` and `getAuctionBids`: one query behind a check of ownership or existence.
* Values: prompts, texts, vectors and similarities, passwords, the form of tokens and cursors, what a metrics
  report counts.
* The zod schemas beyond valid and invalid, and backoff times: time passes only where a window or an end
  time needs it.
* TLS and `reconnectOnError` of the Redis client.
* The duplicate check's 30 seconds and other choices named in section 2.

Five hazards have no property: a COMMIT that looked failed (`bid.service.ts:288`) and a crash after COMMIT
(`:319`), where the code promises nothing; a job id that is kept (`auction.service.ts:109`), which bites only
after a reopening; a publisher whose first publish throws (`auction.worker.ts:16`), which `EndedIsSettled` excepts;
and a search whose embedding fails (`search.ts:19`), which is one step. The models have each of them as an action.
The events that pub/sub loses while a subscriber reconnects are in `Realtime`, and `WatchersHearTheEnd` excepts
them. The number of database sessions of a deployment, with a pool in `routes/search.ts`, `lib/rag.ts`, the analysis
and the metrics, is outside of the models.

## 7. Plan

1. An abstract session (a chain of tokens, one good at a time) that `Sessions` implements while refreshes do
   not overlap, and an abstract walk that `Listing` implements while the listing does not change.
2. The lemmas that the eight proof modules repeat on sequences and counting, stated once.
