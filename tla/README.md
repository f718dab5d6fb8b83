# Formal models of fomo-trader

fomo-trader accepts signed trade signals over HTTP, buys the named token with one
fixed amount on Robinhood Chain, watches the position with on-chain quotes and sells it
all at +40 % or after a crash of 90 %. What is hard about it is not the strategy but the
recovery: one coroutine writes several tables in several transactions around network
calls, and it has to pick up the right thread after a timeout, an ambiguous broadcast,
a revert or a restart. That is what these modules are about.

    tlc -workers 2 -config worker_faults.cfg MCTradingWorker
    tlapm TradingWorkerProofs.tla

## The system

| component | source | state | operations | what makes it hard |
|---|---|---|---|---|
| signal intake | `api.py`, `auth.py`, `models.py`, `signals.py` | none | `POST /v1/signals`: HMAC, clock skew, schema, expiry, then `accept_signal` | duplicates; runs between any two steps of the worker |
| store | `db.py`, `orders.py`, `positions.py` | `signals`, `orders`, `positions`, `execution_attempts`, `nonce_state`, `system_state` | one SQL statement each, grouped in transactions by the callers | what is one commit and what is two |
| trading worker | `worker.py` | two clocks in memory; everything else in the store | `run`: `reconcile_positions_once`, `buy_once`, `sell_once`, `recover_submitted` | awaits between reads and writes; crashes; retries; fairness among positions |
| execution adapter | `uniswap.py` | an entry per pool with its paths | quotes, approvals, building, `_submit`, parsing of receipts | ambiguity of a broadcast; approvals recovered by hash |
| nonce manager | `nonce.py` | `nonce_state` | `reserve`, `reconcile` | a count that lags; gaps; reuse |
| RPC client | `rpc.py` | rate limiter, semaphore, status | `call` with retries, `wait_receipt` | concurrent callers; which errors are final |
| pools and routes | `pools.py` | two caches | `resolve_pool`: verification of the pool, discovery of bridges | reads of a chain that moves; caches that outlive what they saw |
| service | `main.py`, `api.py` | startup flag, heartbeat, RPC status | startup reconcile with backoff, `/health`, shutdown | startup against a silent endpoint; shutdown with work in flight |
| settings | `settings.py` | constant | read once | - |

The API inserts rows with status `RECEIVED`; the worker alone writes everything else. It
calls the adapter, which reserves nonces, writes the hash of an order before it sends it,
and looks for receipts. Reads and broadcasts may go to two different endpoints, so the
one need not know yet what the other accepted.

What would make each component correct:

- worker: an event is bought once; what may have been sold is not sold again; the slots
  are not oversubscribed; rows that belong together change together; the books match the
  wallet; no signal, sell or position is left where nothing acts on it.
- adapter and nonces: no nonce is used by two transactions, no gap is left before what
  is sent, an approval is not repeated while one is pending, every swap gets its
  approvals in the end.
- RPC client: a failure of the endpoint is not taken for the market's word; a call ends.
- service: no trade before nonce and positions are reconciled; `/health` is not ok while
  they are not; what was acknowledged is stored, once; the process does not outlive its
  worker.
- quotes and exit: what is traded is what was quoted best; which of target, crash from
  entry and crash from the last quote leads to a sale.
- pools: what is traded through was verified and leads from the input asset to the token
  and back; no better route is overlooked; proceeds are read as received.

## Modules

| module | models | extends |
|---|---|---|
| `TradingStore` | the rows and the SQL statements | |
| `TradingChain` | the chain, the wallet, the clock (external) | `TradingStore` |
| `TradingWorker` | the worker's coroutine, the API's inserts, stops; properties and fairness | `TradingChain` |
| `TradingWorkerProofs` | theorems | `TradingWorker`, `TLAPS` |
| `TradeLifecycleProofs` | theorems: rows, slots, refinement | `TradingWorkerProofs` |
| `SettlementProofs` | theorems: sales, wallet and books | `TradeLifecycleProofs` |
| `RoundProofs` | theorems: what holds between rounds | `SettlementProofs` |
| `MCTradingWorker` | values of the constants for TLC | `TradingWorker` |
| `TradeLifecycle` | abstract: the one life of each trade that the worker promises | |
| `Submission` | `nonce.py`, `_base_transaction`, `_submit`, the approvals, the startup reconcile | |
| `SubmissionProofs` | theorems | `Submission`, `TLAPS` |
| `RpcClient` | `RPC.call` with several callers at once | |
| `Watch` | the quotes of `uniswap.py` made of concurrent calls, and the decisions of `buy_once` and `sell_once` | `RpcClient` |
| `WatchProofs` | theorems | `Watch`, `TLAPS` |
| `Service` | `serve`, `run_worker_after_nonce_ready`, `receive_signal`, `accept_signal`, `/health` | |
| `ServiceProofs` | theorems | `Service`, `TLAPS` |
| `Routes` | `resolve_pool`, `parse_actual_sell_proceeds` | |
| `RoutesProofs` | theorems | `Routes`, `TLAPS` |
| `MCSubmission`, `MCWatch`, `MCService`, `MCRoutes` | values of the constants for TLC | |

### TradingStore, TradingChain, TradingWorker

*State.* A table is a function from events for each column that some code reads back:
`signal`, `lastError`, `order`, `hashed`, `position`, `failures`, `latch`, `session`.
`positions.updated_at` only serves to sort OPEN positions, so it is the relation `older`.
`tx[side][e]` is the latest transaction of an order, from `signed` through `sent` (the
send endpoint has it) and `net` (the read endpoint knows it) to a receipt. `pc`, `side`,
`ev`, `goal` are the worker's place in its code; they are lost in a stop.

*Steps.* An action runs from one commit or await to the next. Two commits of one
handler with no await between them are two actions, because a stop may fall between them
(`FailBuy` then `SettleSignal`; `FailSell`, `TallyFailure`, `FailOrder`, `SettleSignal`).
A commit that writes several tables is one action (`FinalizeBuy`, `FinalizeSell`,
`CloseEmpty`). `reconcile_positions_once` is taken row by row at the top of a round:
nothing but the worker writes what its query read, so that is the same. Whether a
round has it at all (every 30 s) is left open.

*Environment.* `Faults` says what may go wrong in a run: `drop` (a transaction is never
included), `late` (one the read endpoint did not know appears after all), `mismatch` (the
send endpoint answers another hash), `manual` (the owner sells by hand), `stop` (a stop
of the process, or an exception that no handler of `worker.py` names: the rest of the
round is lost, the rows stay). Receipts may be missing at any read, every RPC call may
fail, a mined transaction may be reverted or show no output, in every run. A superseded
sell that is included after `mismatch` reduces the wallet like a manual sale, so
`mismatch` implies `manual`.

*Data left out.* Amounts: a position is `Lot = 2`, a partial balance 1, so that zero,
short and full can be told apart. Quotes: a quote either holds, exits or crashes,
nondeterministically. `failures` stops at `MaxSellAttempts`, past which no code
distinguishes. Expiry matters only until the buy is decided, so later it is not kept.

### Submission

*State.* `txs` is every transaction signed, its index standing for its hash;
`account` the wallet's nonce on the chain; `allowed` the approvals in force;
`nextNonce`, `attempt`, `order`, `hash` the durable rows; `step` counts through the
approvals an event needs and then its swap. The swap's own life after the broadcast is
TradingWorker's; here a receipt only opens or closes the order. A sell waits for the other
sells, as `sell_once` recovers before it takes a position, and a buy for the other buys.
Each event has its own token, so approvals of two events do not overwrite each other; in
USD mode all buys share the input asset, which is not modelled.

*Steps.* Same grain. `_submit` of a swap writes the hash in `Sign`; `_submit` of an
approval writes nothing until `RecordAttempt`, after the broadcast: a stop in between is
what `second_approval` finds. `estimateGas` runs the transaction, so `Reserve` needs the
approvals of a swap to be in force, else the estimate fails.

*Environment.* A transaction is included only when its nonce is the account's. `Scenarios`
lists sets of faults; a behaviour has one of them: `stop`, `drop`, `revert`, `lag` (the
pending count misses what was just sent), `signing` (the key cannot be used), `silent`
(a `reconcile` is not answered), `lapse` (a Permit2 allowance expires), `mismatch` (a
broadcast is answered with another hash), `garbled` (with a body that is no object, or the
look for a receipt after it is). The last two leave the adapter by exceptions that it does not
expect: an approval sent so gets no row, a mismatched order fails with its transaction out, and
nothing reconciles the nonce (`BroadcastMismatch`, `BroadcastGarbled`, `ReceiptGarbled`).

### TradeLifecycle

An abstract trade is `unknown`, `new`, `buying`, `held`, `selling`, `stuck`, and ends
`gone` or `void`. `TradingWorker` implements it: `StageOf` reads the stage from an event's
rows. The position decides where there is one; an open one is `selling` while its
SELL is in flight; without one, a BUY in flight counts as `buying` from the moment its hash
is written, since before that the next round may take the event back to `new`. The
abstract specification says when a buy may start (no other is open, a slot is free, the
single-buy session unused), so the refinement is about buys that start, fail and recover in
any order, not only about the order of one event's labels.

### RpcClient and Watch

*State.* `at[t]`, `attempt[t]` are a task's place in `call`; `free` the semaphore; `gap`
the time until the next request may start. `Watch` adds the round of one event: `job[t]`
says which candidate's quote a task brings, `heard` what `gather` has so far, `path` the
pool entry's `path_buy`/`path_sell` or `_selected_v4_*`. `prev` and `latch` are rows;
`quotes` is the history the properties speak of.

*Steps.* A step of `call` runs from one await to the next. `gather` raises the first
exception at once and cancels nothing, so its other calls go on as orphans (`job[t] =
none`) beside the next round's; they hold slots and turns, and must not write the path. `Stop`
leaves the rows only. A buy resolves and quotes anew in each round.

*Environment.* `Errors` lists what may come back other than a result; each is classified
by `Outcome` as `_retryable_response` and the handlers of `call` do. V2 and direct V4
pools have one candidate whose refusal is an error; V3 and bridged V4 leave refused
candidates out (`lenient`); V4 buys also probe Permit2.

*Data left out.* `Quote` is a few numbers on each side of the two thresholds of the
cost and of the crash between two quotes. After the quote a transaction succeeds or does not.

### Service

*State.* `life`, `live`, `stop`, `worker` are the process, its setting of live trading (every
start may read another), its stop event and its worker's task;
`status` is `RPC.status`; `pending` and `beat` the rows `worker_startup_pending` and
`worker_heartbeat_at` (kept as an age); `rows` the signals; `call` the HTTP requests under
way. `since`, `compared` and `acked` record what really happened, for the properties.

*Steps.* From the last byte of a request's body to the commit nothing is awaited, so
`Handle` is one step; the body and the reply are separate ones, and either may be lost.
How a round buys is `TradingWorker`'s: here it is what it leaves of a signal's row. A round
recovers a buy under way first (`Recover`), and only if there is none, and trading is live, looks
at a signal (`Looks`): it finds it expired or takes it up, which may leave it `RECEIVED`
(an RPC error, an approval), `PENDING` (`BUY_PENDING`, `BUY_SUBMITTED`) or decided. Which
signal it looks at is left open, where the code takes the oldest.

*Environment.* `Faults`: `silent` (the startup waits and tries again), `garbled` (a body
that is no object raises what no handler names: a start ends with the process), `disk` (a
write outside of the round's `try` fails: at the start, of a heartbeat, of the note of an exception), `crash`. Both events have the
same `signal_id`, so one clashes with the other.

### Routes

*State.* The chain: `world` (the pools there may be), `opened`, `depth`. The resolver:
`hint` (the signal's pool), `routes` (the candidates of the pool's entry), `known`
(`_v4_pair_cache`, by the asset that is bridged to). A sale: `receipt` and `booked`.
`swapOf` is whose gain a V4 `Swap` event states, the pool's or the swapper's. The code counts
negative amounts (`uniswap.py:575`), and so takes it for the pool's; its test writes the event it
parses, and no V4 sale was made (`docs/VALIDATION.md:42`), so nothing here settles it, and a
behaviour has the one or the other.

*Steps.* `ResolvePair`, `ResolveV4` verify the pool the signal names; `JoinV2`, `JoinV3`,
`JoinV4` find the bridges to the input asset, after an await in which pools are opened, fill
and empty. `Sell` takes one of the routes, `Book` reads the proceeds as the code does,
by the kind of the pool and the side of its pair, which may take a resolve after a restart.

*Data left out.* Hashes and logs: a V4 key either has the pool's id or not, a contract
was made by the official factory or not. `_verified_code` only saves reads.

## Runs

| run | question | instance | states, time |
|---|---|---|---|
| `worker_faults` | What holds of the rows whatever happens? Do they tell one life per trade? | 2 events, 2 tokens, 1 slot, 2 sell attempts, every fault | 2.5 million, 100 s |
| `worker_books` | Do wallet and rows agree, is nothing sold twice? | 2 events, 1 token, 2 slots, `drop` and `stop`, equal timestamps | 1.6 million, 50 s |
| `worker_live` | Does everything get its turn and its end? | 2 events, 2 tokens, 2 slots, no faults, fair | 98 thousand, 130 s |
| `submission_faults` | Are nonces unique and without gaps, approvals waited for? | a buy and a V4 sell, up to 5 transactions, 6 scenarios | 920 thousand, 45 s |
| `submission_live` | Does every event get its swap out? | a V4 and a V2/V3 sell, 5 transactions, fair | 1 400, 15 s |
| `watch` | What does a failed quote mean, what is traded, when is it sold, does a round end? | 3 tasks, 2 slots, 1 retry, 1 or 2 candidates, 2 quotes, every error but a 403, fair | 235 thousand, 80 s |
| `service` | Is `/health` true, is a signal kept and decided, do start and stop end? | 2 events of one `signal_id`, 1 request, every fault, live trading or not, fair | 98 thousand, 95 s |
| `routes` | Do routes lead, over the best bridges, and are proceeds read right? | 4 worlds of 3 or 4 pools, depth up to 2, 2 bridges kept, both modes, both readings of V4 events | 215 thousand, 18 s |

Four more runs each find a disagreement between the code and a document (below).

Why these bounds are enough to meet the interesting cases: the code treats events
alike and handles one at a time, so two events show every interplay of a
recovered event with a fresh one, of two positions in the rotation and of a buy with a
sell; one slot for two events makes the limit bite, two attempts make one failure
and the last failure different. Five transactions are the two approvals and the swap of a
V4 sell with two to spare for repetition, or one of each event twice. `MaxTx` bounds
`txs`, and a nonce that is reserved and never reconciled is counted up to `MaxTx`.
Deadlock is checked for the worker, which always goes round; in `Submission` the adapter
rests once every order is done or failed, and `Watch` ends with its position, so there it
is not.

In `Watch`, two candidates and a Permit2 probe are three calls against two slots; three tasks
leave one for an orphan beside a round of two. Two quotes are what the crash between
quotes needs; 1, 12 and 130 against a cost of 10 are a crash, a hold and the target, and 12
after 130 the crash between quotes. In `Service` ages stop one past `Stale`, beyond which
nothing distinguishes them; one event more than requests lets a sender repeat itself and
clash. In `Routes` three bridges for two places make the choice bite, and each world has a
pool that trades the input asset (V4 has a world of its own for it), one that does not, and
one that is refused, or a second bridge.

What the properties say:

- `WithinCapacity`: a buy in flight has no position row, yet positions and buys in flight
  together never exceed the slots. `OneBuyPerSession`: recovery cannot open a second one.
- `ClosedTogether`, `StuckSignalIsStuck`: the two ways to close a position and the four
  commits of a failed sell leave rows that agree, or disagree in the harmless direction.
- `BuySignedOnce`: however rounds fail, time out or restart, a buy is never signed twice.
  `SellSignedAgainOnlyAfterRevert`: a sell only after its revert, unless the send
  endpoint answers a wrong hash.
- `BooksBalance`: with nothing in flight the wallet holds what the rows track.
- `ImplementsLifecycle`: the refinement described above.
- `RecoverableBetweenRounds`, `NoRetryWhenExhausted`: hold when the process does not stop;
  `stop_wedges` shows what a stop does to the first. The wedge is permanent: only
  `RecoverNothing` applies to it.
- `BuysDecided`, `SellsResolve`, `TakesTurns`, `LatchedPositionLeaves`: progress. The
  last two are conditional on no reverted sell: a revert that recovery finds puts the
  signal back to `OPEN` without a write of `updated_at`, so the position stays first in
  the rotation, and while it is signed and reverted again and again no other is quoted.
- `NonceUnique`: without losses no two transactions share a nonce even if the count
  lags. `NoGap`: restarts and failures to sign leave no gap. `NoncesAccounted`: a nonce
  that no transaction will use belongs to an order or approval whose recovery still looks it
  up. Losses are left out of it where the code may forget what it sent (a stop, a wrong hash, a
  garbled reply): the nonce of a lost approval without a row is nobody's until a restart.
- `ApprovalAwaitsRecorded`: approvals on record are waited for. `EverySwapSigned`: although
  an approval left `UNKNOWN` may be taken for the other one of the same event
  (`RecoverConfirmed`), the round after that sends what is missing.
- `RefusalsAreTheMarkets`: a buy is given up for `ZERO_QUOTE` only on the word of every
  candidate's contract; the run leaves out HTTP 403, with which `forbidden_quote` breaks it.
  `TradesTheBestQuote`: the path in the pool's entry is that of this round, orphans and
  restarts notwithstanding. `ExitsWhenDue`: target and crash, remembered over failures and
  restarts, and nothing else. `RoundsEnd`: orphans do not starve a round.
- `HealthyMeansTrading`: "ok" is never the last process's rows. The converse does not hold:
  a `wait_receipt` of up to 120 s makes a working worker look dead.
- `AckedIsStored`, `QueuedOnce`: senders that repeat themselves, replies lost, crashes. An
  event whose `signal_id` is used by another is refused with a 500 and not stored.
- `StartupEnds`, `ShutdownEnds`: progress over restarts.
- `AcceptedIsDecided`: an accepted signal is decided or expires, in whichever process, however
  often rounds fail. It has two conditions, since the code does not keep it without them. With
  `live` false, the default, a signal stays `RECEIVED` for ever, past its expiry
  (`worker.py:149`, `tests/test_worker.py:32`); and while a buy is being recovered no
  other signal is looked at (`worker.py:143`), for ever if a crash tore its rows apart
  (`stop_wedges`).
- `RoutesLead`, `NoBetterBridge`: what is quoted and what is left out. A V4 pool opened after
  its pair was first listed does not exist until a restart.
- `BookedIsReceived`: for pools that trade the input asset, for V3 and in USD. A bridged V2
  or V4 sale in ETH is booked in the bridge asset's units or as nothing, since one hop's
  event is read: the property leaves it out. A direct V4 sale in ETH is read exactly if the
  event states the pool's gain, and as nothing if it states the swapper's; then the worker
  marks the position `POSITION_STUCK` with `ZERO_SELL_PROCEEDS` and closes it when the
  wallet is found empty, without proceeds.

### Disagreements found

| run | what the code does | what the document says |
|---|---|---|
| `stop_wedges` | order and signal end in two commits (`worker.py:239`, `278`, `438`); a stop between them leaves a signal that blocks its queue for ever | design, line 24: one transaction, so that an exit in between does not block |
| `second_approval` | the APPROVAL row is written after the broadcast (`uniswap.py:461`) | `docs/ARCHITECTURE.md:43`: no second approval before the first is final |
| `forbidden_quote` | an HTTP 403 without a JSON-RPC error counts as a contract's refusal (`rpc.py:44`, `uniswap.py:135`) and ends a buy as `ZERO_QUOTE` | `docs/ARCHITECTURE.md:53`: it must reach the worker and not become a `ZERO_QUOTE` |
| `unbooked_sale` | after a restart the receipt of a sale is read only if its pool passes the checks of a new trade (`uniswap.py:553`) | `docs/ARCHITECTURE.md:32`: recovery is by the receipt, the pool *may* be verified again |

The design document is `docs/plans/2026-09-15-uniswap-all-routes-low-latency-design.md`.

Some properties above carry a condition because the code does not keep them without it; the
hazards in `PROJECT.json` name each place. A sell that the chain never includes is looked
up for ever, and so is an approval (`worker.py:264`, `uniswap.py:486`). A buy that shows up
after `BROADCAST_NOT_FOUND` is tracked by nothing (`worker.py:265`). A revert that recovery
finds counts as no failure (`worker.py:277`). The reconcile after a failure to sign is
tried once (`uniswap.py:338`). Requests that wait for a slot start in a burst (`rpc.py:51`).

### Fairness

`FairSpec` of the worker assumes: the coroutine goes on (`run` catches every exception, every
await ends with a timeout at the latest); time passes; what was sent is included
or reverted; a receipt asked for again and again is read in the end (strong fairness of
the answered recovery, since an RPC error can always intervene); a latched position is
quoted and built in the end (strong fairness of these two steps alone, for
`LatchedPositionLeaves`). Nothing is assumed about which position is taken: that is the
code's rotation, and seconds are assumed to advance between rounds (`SameSecond = FALSE`),
as `updated_at` has a resolution of one second and a round sleeps for up to one.
`FairSpec` of `Submission` assumes that rounds come back to each open event (what
`worker_live` shows), that each read is answered in the end, and inclusion.
`FairSpec` of `Watch` assumes that time passes and that every task goes on: a request ends,
at the latest with aiohttp's timeout, a sleep ends, and lock and semaphore serve in the
order of arrival. The last is why it is strong fairness: the lock and the slots are
taken by others in between. Nothing makes a round start. `FairSpec` of `Service` assumes that
the container starts the process again (its restart policy), that `serve` goes on from
its wait and its cleanup ends, and, strongly, that the endpoint answers, rounds begin
and a round that has a signal to look at looks at one now and then: crashes, and rounds that
end in the comparison of positions (at most every 30 s, while rounds come every second),
may interrupt each of these, but not for ever. What a round makes of a signal that has not
expired is not assumed; that time passes until it expires is.

## Proofs

`TradingWorkerProofs` proves, for every number of events, tokens, slots and attempts and
every set of faults, from the constants' assumptions alone:

- `TypeCorrect`: `Spec => []TypeOK`.
- `BuyInvariant`, `BuyOnce`: `Spec => BuySignedOnce`. That no event is bought twice is not
  inductive: it depends on what the hash of an order means. The invariant `BuyInv` says that
  a BUY has a hash exactly if it was ever signed (`HashIsSigned`); that a signal which is
  `RECEIVED`, or that the handler is about to set so, has none (`ReceivedIsUnsigned`,
  `RetriesUnsigned`); that what is quoted, created and built has none (`BuildsUnsigned`), and
  that its signal is `BUY_PENDING` while it is built, so that no step of another action can
  make it new (`BuildsPending`). Each group of actions preserves it in a lemma of its own.

`TradeLifecycleProofs` proves, from the same assumptions:

- `RowsInvariant`: `Spec => []RowsInv`, and from it `ClosesTogether`, `StuckIsStuck` and
  `OneBuy`. None of the three is inductive, since each depends on where the worker may be
  when it writes. `RowsInv` says what signal, position and orders have to do with each other
  in every event (`SignalFitsPosition`, `SellsFollowBuys`), that one buy at most is open
  (`OneBuyOpen`), what the session's flag means (`SessionFits`), and what the worker has in
  hand at each label (`WorkFits`, `GoalFits`, `SideFits`): `goal` is a status that was read
  before several commits and is written after them.
- `Capacity`: `Spec => []WithinCapacity`. The limit is read when a buy is taken up and the
  slot is used many steps later. `RoomInv` therefore says that a slot is free as long as a buy
  is open, in the rows or in the worker's hands. `RoomStep` sorts every step into one that
  closes, one that takes a buy up where there is room, and one that turns the open buy into
  a position; only then are sets counted.
- `WorkerImplementsLifecycle`: `Spec => ImplementsLifecycle`. Under `LifeInv`, which is
  `RoomInv` and `BuyInv`, every step either leaves the rows alone that stages are read from, or
  `Moves` one event from its stage to one that `Life` allows (`BuyMoves`, `SellMoves`,
  `OpensPosition`); `StepRefines` then turns that into a step of `TradeLifecycle` or a stutter. That
  the stage `buying` begins at the hash and not at the status is where `BuyInv` is needed.

`SettlementProofs` proves:

- `SaleInvariant`, `SoldOnce`: `Spec => SellSignedAgainOnlyAfterRevert`, assuming `HashesTrue`,
  that the send endpoint never answers another hash. With one, the code takes the
  broadcast for a failure and sells again (`uniswap.py:349`), which is why the run that checks
  the property leaves `mismatch` out too. `OrderInv` says what an order's hash and status
  tell of its transaction at each label (`HashFits`, `OrderFits`); `SaleInv` that a sale which
  was neither reverted nor never signed is on record, in flight or with a known outcome
  (`SaleRecorded`), and that where the worker may come to sign nothing is unsettled
  (`SellsUnsold`).
- `BooksInvariant`, `BooksMatch`: `Spec => []BooksBalance`, assuming `Undisturbed`, that is no
  manual sale, no wrong hash and no buy that appears after it was given up for lost. Each of
  the three does take the books from the wallet. The property speaks only of settled
  tokens; what is inductive is `WalletFits`: at every moment the wallet holds `Lot` for each
  event that was paid and not sold, where buys that may be paid are in flight until they
  have their position (`BuysTracked`). The sum over the events is a cardinality, so each
  step of the chain and the worker either leaves `Owned(t)` alone or adds or takes one event.

`RoundProofs` proves, assuming `NeverStops`, that the process does not stop between two
commits (a stop breaks the first for good, `stop_wedges`):

- `RoundsRecover`: `Spec => []RecoverableBetweenRounds`. `SignalsRecover` says it of every event but
  the one in hand, and `GoalRecovers` of the status that the last commit will write.
- `NotTriedPastLimit`: `Spec => []NoRetryWhenExhausted`. `LimitInv` says that an open position has
  attempts left, or is the one whose failure is being counted (`OpenMayTry`); that the reason
  for which a stuck one may be opened again, `ZERO_QUOTE`, does not outlive the handler
  that wrote it (`StuckForGood`); and that what is tried is open (`TriesOpen`).

`WatchProofs` proves, for every number of tasks, slots, retries and candidates (tasks and
candidates finite, as a `gather` has finitely many) and every set of errors and quotes:

- `WatchInvariant`, `TypeCorrect`: `WatchInv` ties the slots that are free to the requests that are
  posted (`SlotsFit`, without which `free` is not even known to stay in range), each task's
  job to the round it belongs to (`JobsFit`: what a task brings is
  waited for, and no other task brings it), what was heard to the candidates of this round (`RoundFits`) and the rows `prev`
  and `latch` to the history of quotes (`MemoryFits`).
- `MarketsRefuse`: `Spec => []RefusalsAreTheMarkets`, assuming `NotForbidden`, without which
  `forbidden_quote` refutes it. `BestIsTraded`: `[]TradesTheBestQuote`; the maximum of a finite set
  of quotes exists by a lemma of its own. `ExitsAreDue`: `[]ExitsWhenDue`.

`RoutesProofs` proves, for every number of pools and assets, any depth and any number of
bridges kept:

- `RouteInvariant`, `TypeCorrect`: `RouteInv` says that routes are kept only of a pool that was vetted
  and only through bridges that were (`RoutesFit`), that between the await and the join nothing
  is kept yet (`StepFits`), that a cached list holds only bridges of its asset that were opened
  (`KnownFits`), and which hops a receipt may show (`ReceiptFits`).
- `RoutesAlwaysLead`: `[]RoutesLead`. `NoneBetter`: `NoBetterBridge`, an action property, which needs
  `KnownFits` since what was cached long ago stands for what is opened. `ProceedsAreReceived`:
  `[]BookedIsReceived`, for either reading of V4 events, each with its own outcome.

`ServiceProofs` proves, for every number of events and requests, every assignment of
`signal_id`s and every set of faults, that `Spec` implies

- `TypeCorrect`: `[]TypeOK`; no worker and no request outlives its process.
- `HealthIsTrue`: `[]HealthyMeansTrading`. What `/health` reads are rows, which
  survive the process; what it is to mean is this process's. `ReadyIsReady` ties them: while
  the start is over, this process has compared, and the heartbeat is at least as old as the
  last round. `Start` resets the rows before it serves, and that is why it holds.
- `AckedStaysStored`: `[]AckedIsStored`, with `RepliesAreTrue` for the replies that are under
  way while rows change. `NeverQueuedAgain`: `QueuedOnce`. The inductive invariant is
  `ServiceInv`, the conjunction of these; `BeatEvery < Stale` and that `none` is no age and no
  event are all the assumptions used.

`SubmissionProofs` proves, for every number of events and transactions and every need of
approvals:

- `TypeCorrect`: `Spec => []TypeOK`. That every hash and every attempt refers to a
  transaction needs `PlaceFits`, which ties the list of transactions and the step of the
  submission to the label.
- `NonceInvariant`, and from it `NoncesUnique` (`[]NonceUnique`) and `NoGaps` (`[]NoGap`).
  Neither is inductive: the stored nonce is right only for what is on its way at the moment.
  `NonceInv` says that the transactions on their way fill the nonces from the account's
  to the stored one, but for the one in hand (`Filled`, `NonceFits`), in the order of the
  chain (`InOrder`). A reconcile keeps this because the pending count, where it does not
  lag, is then the first free nonce (`PendingIsTop`); it is also how a nonce that was never
  sent is given out again.
- These three assume `Reconcilable`: a scenario in which the count lags has no stop and no
  failure to sign, and so no reconcile that could store an old count; and a reconcile goes
  unanswered only where transactions may be lost, of which neither property speaks. Without
  the first, a lagging count makes two transactions share a nonce (`nonce.py:23`); without
  the second, the gap stays (`nonce.py:25`). The scenarios of the runs satisfy it.
- `AttemptInvariant`, `ApprovalsAwait`: `Spec => ApprovalAwaitsRecorded`, in every scenario. An
  attempt that is resolved must not be of a transaction that is sent only afterwards, so
  `AttemptInv` says besides `AttemptsFinal` that no row has what is in hand before
  `RecordAttempt` writes it (`AttemptFits`).
- `AnswerInvariant`, `NoncesAreAccounted`: `Spec => []NoncesAccounted`, in every scenario that
  the property speaks of. It speaks of the adapter at rest; `NoncesAnswered` says at each label
  that a nonce handed out is on its way, in hand, or of an order or attempt in flight. Where
  nothing is lost this is all, whatever stops, wrong hashes and garbled replies make the code
  forget. Where transactions may be lost it needs `LiveAnswered` besides, that what is on its way
  has such a row or is in hand: a swap's hash is written before it is sent, and an approval's row
  before its receipt is awaited (`OrderFits`), unless the broadcast ends in an exception that
  nobody expects, and for those the property makes no claim. It does not need the nonces to be
  unique or in order.

Every safety property of a passing run is thereby proved, `TypeOK` included, some under the
assumptions named above. Only model-checked are the liveness properties (`BuysDecided`,
`SellsResolve`, `TakesTurns`, `LatchedPositionLeaves`, `EverySwapSigned`, `RoundsEnd`,
`StartupEnds`, `ShutdownEnds`, `AcceptedIsDecided`), since fairness and `ENABLED` are out of the
prover's reach. No recursive operator is used.

## Plan

Done: worker with store and chain and the life of a trade that it implements;
submission with nonces and approvals; the RPC client under concurrent quotes; the service
around the worker; pools and routes; theorems of every safety property. What is left:

1. The tokens received by a buy, read from its receipt, on small integers.

## Not modelled

- Authentication and the validation of a signal's fields: functions of one request that keep
  no state. Only what an accepted signal may come to is modelled.
- Calldata, gas, key handling and logging: no property is about them. The tokens that a buy
  received are none or some.
- The minimum output of a trade. A buy's may be 0 for a quote of a few units
  (`uniswap.py:269`); it does not affect what the modules track.
- `status` of the RPC client in `Watch`: it is in `Service`, where `/health` reads it.
- The part of `/health` that counts stuck positions: a query of rows, as they are.
- Settings, read once: what matters of them are constants. The fake adapter, a test double.
- Two events whose tokens share an allowance (USD mode). Damage to the database file.
