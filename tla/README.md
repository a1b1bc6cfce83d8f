# Formal models of the Sui arbitrage bot

The repository holds two programs that only work together: a Move package
(`src/sources`) that runs on Sui, and a Rust bot (`src/offchain`) that watches
pools, searches for profitable cycles and sends one transaction at a time. This
directory models both in TLA+, checks the models with TLC on small instances and
proves the results that matter most with TLAPS. Paths below are relative to `src/`
unless they name a module.

## 1. The system

### On chain

| Part | State | Operations | What makes it correct |
|---|---|---|---|
| Profit gate `sources/executor.move` | none of its own; an `ArbReceipt` hot potato inside one transaction | `begin`, `settle`, `settle_and_return`, `assert_profit` | a block that commits ends with at least `min_profit` more base coin than it began with; a receipt cannot be lost |
| Flash vault `sources/flash.move` | the vault's balance and fee; a `FlashReceipt` hot potato | `create_lender`, `fund`, `borrow`, `repay` | no loan survives its transaction; the vault never shrinks |
| AMM `sources/amm_v2.move`, `math.move` | two balances and a fee per pool | `create_pool`, `fund`, `swap_a_to_b`, `swap_b_to_a`; `get_amount_out`, `get_amount_in` | rounding never favours the trader; arithmetic aborts, never wraps |
| Adapters `sources/adapters/*` | none | exact-in swaps in either direction on AmmV2, Cetus, Turbos | `min_out` is enforced; unspent input is returned or refused |
| Admin `sources/admin.move` | an `AdminCap` | `init` | (nothing changes after publication) |

### Off chain

| Part | State | Operations | What makes it correct |
|---|---|---|---|
| Ingestion: `indexer.rs`, or `ws.rs`/`ingest.rs` | candidates, active set and tick cache per DEX; cursor and seen versions | discover, batched reads, filter and cap, load ticks, publish, evict; poll, diff | what is offered to the scanner is resolvable, has ticks, and leaves only on evidence |
| `cache.rs` + live registry | the last `PoolState` of each pool; the object coordinates of each pool (two maps, two locks) | `upsert`, `update_reserves`, `remove`, `snapshot` | the maps agree whenever a reader may look |
| `scanner.rs`, `sizing.rs` | none; works on a snapshot | `find_cycles`, `size_route`, `ternary_max`, `find_best` | every cycle is considered once, the reported net is right, the best is executable |
| `amm.rs`, `flashloan.rs`, `clmm.rs` | none | quotes, fees | they predict what the chain does |
| `executor.rs`, `ptb.rs` | none between attempts | build, dry-run, gate, sign, send, record | only vetted transactions are sent; the block's calls are in the right order |
| `risk.rs` | the day's realized result | `should_submit`, `record_realized` | losses stop the bot |
| `main.rs` | the guard, the tick | scan, pick the best candidate, execute it to the end | one attempt at a time, none blocks the loop |
| `liquidation/*` | obligation index, asset prices; the validator's list of what it has validated | bootstrap, discover, reconcile; refresh prices; scan; validate | the index comes to show the chain; a candidate that is still current executes |
| `objcache.rs` | initial versions of shared objects, immutable | `shared_arg` | a hit is what a miss would return |
| `metrics.rs`, `quoter.rs`, `strategy.rs`, `frictions.rs`, `bin/` | counters, none, none, none | – | nothing the bot decides depends on them |

### How the parts interact

The ingestion task writes the cache and the registry while the main loop reads
them: the loop takes a `snapshot()` of the cache at each tick, scans it without
yielding, and hands one opportunity to the executor, which resolves its pools in the
registry. The executor awaits RPCs (coins, gas price, dry run, keystore, submission)
during which the chain moves and the ingestion task goes on. The transaction runs
among everybody else's transactions. The guard is told of the result only if the
submission's answer arrives.

With liquidation enabled, two more tasks write the obligation index and the price map,
and a scan reads both and the same snapshot of the pools. Its candidates compete with
the arbitrage by net; the transaction of the one chosen brings Pyth's prices on chain,
borrows, liquidates, swaps the seizure back and repays. The validator
(`liquidation/validator.rs`) runs the same tasks and dry-runs every candidate.

### What is hard here

* **Interleaving.** Rivals trade between scan, dry run and execution; the indexer's
  two locks let the scanner look between two writes; the keystore's await ages a quote;
  a liquidation is sized on the state of three tasks and built after further awaits.
* **Several calls for one object.** A pool and its ticks, an obligation and its two
  tables are read by separate calls, and the fullnodes behind one endpoint lag differently.
* **Order of calls.** The profit gate runs before the repayment, so what the gate
  guarantees of the repayment depends on what `min_profit` contains.
* **Partial failure.** Any of seven calls of a block may abort; a batch read or a tick
  load may fail in the middle of a refresh; a submission may land and never answer.
* **Crash.** The guard lives in memory.
* **Integers.** Rust release arithmetic wraps and saturates where Move aborts; rounding
  makes nets neither concave nor unimodal.

The hazards, each at its line and with the properties that watch it, are in
`PROJECT.json`.

## 2. The modules

| Module | Models | Extends / instantiates |
|---|---|---|
| `MoveMath` | `math.move`, `flash::fee_amount`, `executor::assert_profit`, with the conditions under which they return | – |
| `AtomicArb` | what a user relies on: an order executes on its terms in one step, or costs gas only | – |
| `ArbPtb` | the arbitrage transaction call by call, its dry run, the rivals and the lender around it | `MoveMath`; `AtomicArb` as an abstract specification |
| `ArbPtbProofs` | proofs about `ArbPtb` | `ArbPtb`, `DataLemmas` |
| `Quote` | Rust quoting and Move swapping side by side | `MoveMath` |
| `RouteQuote` | scan, stale cache, rivals, execution with per-hop floors | `Quote` |
| `Scanner` | cycle search, sizing and the choice of the best | `Quote` |
| `QuoteProofs` | proofs about quotes, routes and their execution, and about the search, the sizing and what a scan reports | `RouteQuote`, `Scanner`, `DataLemmas` |
| `PoolFeed` | `ws.rs`, `ingest.rs`: the configured pools, polled or diffed by checkpoint | – |
| `PoolFeedProofs` | proofs about `PoolFeed` | `PoolFeed` |
| `Indexer` | `indexer.rs`, the cache and the registry | – |
| `IndexerProofs` | proofs about `Indexer` | `Indexer` |
| `ClmmMath` | `clmm.rs`, the swap engine for concentrated liquidity | – |
| `Clmm` | one such pool: its venue, the tick loaders, the indexer's rounds, quotes | `ClmmMath` |
| `ClmmProofs` | proofs about the engine's steps and walks, the rounds and the quotes | `Clmm`, `DataLemmas` |
| `Submission` | `try_execute`, the owned ladder, `risk.rs`, retries and restarts | – |
| `SubmissionProofs` | proofs about `Submission` | `Submission`, `DataLemmas` |
| `DataLemmas` | what the proofs share: words and rounding, least elements, recursive functions, finite sums | – |
| `LiqMath` | `health.rs`, `detect.rs`: health, seizure, sizing, detection | `ClmmMath` for the swap back, `Quote` for the fee |
| `Obligations` | `index.rs`: the obligation index and the chain it reads | `LiqMath` |
| `Liquidation` | prices, scan, choice, build and dry run of liquidations; the bot's desk and the validator's | `Obligations` |
| `LiquidationProofs` | proofs about `Liquidation` and its index | `Liquidation`, `DataLemmas` |
| `MC*` | constants for TLC | the module they are named after |

### ArbPtb

`vault`, `pools` and `purse` are the committed objects (the lender's balance, the
pools' reserves, the sender's coins). A running block works on `xvault`, `xpools`
and `xpurse`, which only `Commit` publishes: that is Sui's transaction, external to
the repository. `coin`, `loan` and `receipt` are the coin threaded through the calls
and the two hot potatoes. `stage` is the next call:

    flash:  fund (Borrow) -> begin -> swap* -> settle (SettleAndReturn) -> repay -> deliver -> done
    owned:  fund (SplitInput) -> begin -> swap* -> settle (Settle) -> done

One action is one Move call or PTB command, with its assertions as guards; a call
that cannot run leaves only `Abort` (gas is burned) or, in a dry run, `DryRunSkips`.
`Abort` may also strike where the call could run (out of gas, object contention).
`Scan` (building the order) takes any route, amount, floors and `min_profit` from
small sets rather than what the scanner would pick, so that the block's guarantees do
not lean on the scanner. AmmV2 pools pay by formula. A Cetus or Turbos pool is a
third-party contract and may pay anything up to its reserve; Cetus must take all of
the input (the adapter's `E_INEXACT_REPAY`), Turbos may leave some, which the adapter
sends back. `RepayScallop` splits off the repayment by the *configured* fee, as the
builder does, while the market asks for its own, which the job carries as `lenderFee`
(`Due`), and aborts on less; `RepayVault`
takes exactly what its receipt says and returns the change. An order of `AtomicArb` says
both what the loan is going to cost and what the lender asks for it.

### Quote, RouteQuote, Scanner

`Quote` has each function twice where the code does: `RustAmountOut` with wrapping
u128 products and u64 casts, `MoveOut` with aborts. `RouteQuote` lets another trader
move the pools and the cache lag behind, prices a route on the cache
(`simulate_collect`), and executes it hop by hop with the floors
`apply_slippage_floor` derives from the prediction. `Scanner` evaluates
`find_best` on every set of cached pools; the depth-first search, the ternary search
and its feasible upper bound are recursive functions with the code's steps, over the
windows (`lo`, `hi`) the code's loops narrow. The
choice among routes of equal net depends on a hash map's order and is left open.

### Indexer

One action per await, lock or early return: `Discover`/`FastTurn` (which ids to
sync), `ReadBatch` (one RPC, which may fail as a batch or for one object), `Select`
(filter, sort, truncate), `LoadTicks` (with stale reuse or drop), `PublishRef` and
`UpsertState` (two locks), `Preserve`/`Install`/`StartEvict`/`EvictState`/`EndEvict`.
`listed` is the order of a DEX's creation events. `Discover` reads them as `discover_ids`
does: whole pages (`EventPage`), oldest first, until it has `MaxDiscover` ids, from the
start again at every discovery (`Reach`, `Discovered`). A pool's state is one number,
1 + its liquidity (`Level`; 0 does not decode): the filters and the ranking read nothing
else of it. A batch holds one id, the finest
split of the reads; larger batches only fail together. The cache is what it last
published, so that staleness shows; the registry is a set, because only presence in
it matters.

### PoolFeed

`stage` is where the feed's one task stands: `boot`, `connect`, `idle` (before the
tick), `read`, `decode` and `register` (the two writes of a publication), or `dead`.
`ver` counts the versions of each pool object; `cache` is the version of the snapshot in
the cache. `Read` takes of each pool any version between `lagging` and `ver`, or no data:
a load-balanced endpoint answers from whichever fullnode it likes. In checkpoint mode
`seen` is updated by `Read`, before anything is decoded, as `changed_since` does; `Tick`
may leave the cursor behind the chain's newest checkpoint, the one the answering node
knows. `CallDies` is `?` in the bootstrap and in the poller's connection, `CallFails` the
`continue` of the loops. `DecodeFails` is `decode_pool` on an object whose fields it does
not find, which is what it makes of every `amm_v2` entry of the tracked pools.

A pool is its canonical id, the one `PoolState` and thus the cache have. `Spelling` is the
id its entry of `ARB_TRACKED_POOLS` gives it, under which `Register` files it; it may be any
text that parses to the id. `Resolvable` is the executor's lookup by the cache's id. A pool
has one entry; a second one, which could give it another spelling, is left out.

### ClmmMath, Clmm

`ClmmMath` is the engine function by function: `SwapStep` is `compute_swap_step`, and
`Walk` folds `Cross`, one turn of `quote_exact_in`'s loop, over the boundaries in travel
order (the walk over a set ends with its `Furthest` boundary); once a swap has ended inside a range, or liquidity is 0, the remaining turns
change nothing, as after the loop's `break`. The sum of the outputs is refused unless it is
a u64 (`FitsU64`). Products are exact, as in the code's U256.

`Clmm` is a round of `sync_pools` for one pool, cut at its awaits: `ReadPool` (the
object), `ListTicks` (the names of the initialized ticks, and `select_window`),
`FetchTicks` (the tick objects), with `RetryTicks` and `LoadFails` for errors and
`FastRefresh` for the warm cache. `snapshot` is what the scanner quotes on. The venue is
external: `Trade` walks the same curve over all of its ticks (the engine's claim is to be
an exact port of it, which the repository checks against the chain), and `Deposit` moves
liquidity. `at` remembers which liquidity cached ticks belong to, so that a property can
say when a quote is owed: `Settled` snapshots, whose ticks were listed and fetched under
the liquidity the object was read with. `TickSource` selects how a boundary gets its
price: read (Cetus) or derived (Turbos, in exact rationals rounded down in place of
floating point). A window is fetched at once; the code reads fifty at a time.

### Submission

`owned` is the execution mode, chosen at the start and fixed. `stage` is the point the
main loop's single attempt has reached. `Candidate` draws the expected net of each size
(flash mode has one), `DryRun` the simulated net (or none: reverted, no
coins), `Elapse` lets the keystore be slow. `sent` remembers for each transaction
what it rested on when it was sent, and what became of it: a transaction lands as long as its gas
coins have the versions it names, whether or not the bot still waits. `Answer`
updates the guard with the base coin's change, or with nothing when the response has
no balance changes; `RpcError` abandons the attempt at any await; `Restart` makes a
new guard. The `should_submit` and submission counters only feed logs and are left
out. `BaseIsSui` is a constant because gas enters `realized` only then; the runs
have it TRUE (see the divergences in section 7).

### LiqMath, Obligations, Liquidation

An obligation is two functions from coins to amounts. `LiqMath` computes health and
sizes with exact integers over `Unit`, where the code has f64; `SizeLiquidation` tries the
fractions in order and keeps the first of the best, `DetectObligation` the best pair of a
debt and a collateral. Such a pair is sized on one pool only, the first that a snapshot of
the cache lists for it, whatever that pool quotes; a snapshot lists a hash map, in an order of
its own. `Leading` is the set of pools that come first for their pair in one such order: one
for each pair, and the same for both directions. `SwapBack` is `ClmmMath`'s engine on the
pool as it is cached, ticks included.

`Obligations` is one task: `SeedQuery`, `SeedFails` (`bootstrap`), `StartRun`, `Discover`,
`Reconcile` (`run`), and for each id `ReadCollaterals`, then `ReadDebts` with the insertion,
or `SkipObligation`. Between the two reads the owner may move (`MovePosition`). A table
that cannot be read counts as empty (`unwrap_or_default`), an object that cannot be read
keeps its old entry. A table is read at once; the code reads its entries one by one.

`Liquidation` adds the other tasks and the desk. Prices have times: `now` is Pyth's,
`posted` what the protocol's oracle holds, `params` what the last complete refresh read
(`ReadPrice`, one `scallop_price` at a time, the map replaced at the end). `Scan` reads
index, prices and cached pools at one moment, as the code does under its locks;
`TakeCandidate`, `Build` (Hermes) and `DryRun` come later. `Build` keeps the time of the
prices it fetched, and `Effective` is what `liquidate` then sees. `DryRun` runs the
commands of `build_liquidation`: `Proceeds` (liquidate, swap back with its floor, merge)
and `Settles` (gate, split, the lender's own check). Scallop's `liquidate` is external:
it refuses a sound obligation, takes at most the close factor and seizes with the same
bonus. Pools on chain do have ticks, so a swap may pay less than foreseen. The desk
is the bot's or the validator's (`mode`); arbitrage candidates enter as the bot's freedom
not to scan, because nothing of a liquidation depends on them.

`CachePool` is the pool feed as far as a liquidation sees it. The validator's is `ws.rs`,
which loads no ticks. The bot's is the indexer by default, which with `indexer_load_ticks`
gives a pool a window of ticks, may pair it with a price read later, and may drop the pool:
`Readings` lets it hold the pool's present price and liquidity with any of `TickWindows`, or
nothing. One scan works on one snapshot, so `Scans` chooses one `Leading` for all
obligations; the next may find another, although a map nobody changes keeps its order.

## 3. The runs

Every passing run finishes with no error; the number of distinct states is in
brackets. Each property has a mutant (listed in `PROJECT.json`, defined next to the
definition it changes) under which TLC finds it violated.

* **ArbPtb** (115 387): a vault with a fee; two orders in sequence, flash or owned, over two AmmV2 pools
  priced apart, one rival step anywhere between blocks. `FloorWithFeeRepays`: a floor that includes the
  loan's fee makes the repayment possible. `ProductNeverFalls`: no committed trade
  lowers x*y. `ImplementsAtomicArb`: refinement of `AtomicArb`. Bounds: u64 is 0..60
  with one `min_profit` of 59 so that the gate's overflow guard decides;
  amounts 2 and 4 against reserves 10 and 24 give profitable, unprofitable and
  unrepayable blocks; a rival's 9 turns a block the dry run cleared into a loss; two orders show that a block leaves nothing behind for the next.
* **ArbPtbClmm** (1 270 242): the same block with a Cetus and a Turbos pool, which pay
  anything, and a Scallop loan configured at 3 tenths where the market asks 1 or 6. For the
  amounts 2 and 4 the builder repays a fee of 1 and 2; due are 1 and 1, so that the larger
  loan is overpaid, or 2 and 3, so that both are underpaid. `ImplementsAtomicArb`: an overpaid
  block is still all or nothing and the surplus is the lender's; an underpaid one never
  executes, however good the swaps were, since `AtomicArb` has no order that leaves the lender
  short. `InFlightConserved`: at every call all coins are
  accounted for, also the change of the Turbos pool, which leaves any part of its input unspent. u64 is 0..20 to keep the pools' choices few.
* **RouteQuote** (10 382): three two-hop routes, one of them through a single pool
  twice; four inputs; two trades of others. `SlippageOnlyFromRivals`,
  `FloorsAdmitPrediction`, `NoPhantomRoundTrip`, `AmountInSuffices`. u64
  is 0..63 and u128 0..4095, the square of it as in the code, so that large inputs do
  reach the aborts; two trades are needed for the cache to be stale in one pool and
  the block to run after both.
* **Scanner** (171): all 16 sets of four pools, nine snapshots, each with every
  answer the scan may give. `CyclesExact` compares the depth-first search with the
  set of all simple cycles; `BestExecutes` executes what is reported by Move's arithmetic
  and repays it at the vault's own fee;
  `GridNeverBeatsBest` compares the optimizer with the configured grid. Four pools
  over three tokens have parallel pools and cycles of two and three hops; four hops are
  allowed so that only the visited set keeps a walk from coming back to a token. Two of
  the snapshots have plateaus on which the ternary search errs. The bar is 1: with 0 the
  saturating subtraction reports a loss as 0, which clears it. No reserve or size is above
  56, so that the products fit u128, as `BestIsExecutable` (section 5) asks.
* **Indexer** (374 110): two DEXes, one with three pools for one place, one failing
  RPC, one change of the chain, under fairness. The cap is one id and a page has two events, so
  that the first two pools of a DEX are within its reach and the third never becomes a
  candidate; three histories at the start put the pool with ticks within it, past it or yet to
  come, and the liquidities at the start rank it above, level with or below
  the other pool in reach. `CacheInRegistry`,
  `ActiveOnOffer`, `EvictionJustified`. `ActiveCatchesUp`: what is on offer equals the chain again and
  again. `ListingsJoin`: a liquid pool within the reach of discovery that is not outranked
  gets on offer again and again; one listed past the cap costs it nothing. (Asking for the newest pages
  first, as the mutant does, would push it out at the next listing.) One failure may strike any
  batch, tick load or discovery, in any round.
* **Clmm** (16 901): two pools, one with overlapping positions and one with a gap
  between two; five ticks and a window of three, so that ticks are crossed inside the
  window and lie outside it on both sides; two trades and one change of liquidity
  anywhere between the reads. `QuoteIsVenues`: on a settled snapshot whose price is
  within the window, every quote is the venue's output to the unit, also when trades
  have crossed ticks since they were cached. `RefusesOnlyDepth`: and a refusal is for
  depth. `QuotesMonotone`: on any snapshot, stale or torn, quotes and refusals are
  monotone in size. `NeverOverstated`: no rounding favours the quote. `LiquidityIsDepth`:
  crossings keep the liquidity in range the sum of the ticks below. The unit Q64 is
  16 and prices grow by a half per tick: coarse enough for every rounding to bite. u64 is
  0..50, below what the largest sizes would pay, so that such outputs are refused.
* **PoolFeed** (372 994): a Cetus pool that changes twice, a Turbos pool, configured in
  upper case, and an undecodable one that change once, two failing calls or missing objects, either mode.
  `SeenIsCached`: what the checkpoint task has noted as seen is published when the round
  ends. `NeverBackwards`: a lagging fullnode undoes nothing. `CachedHasRef`: of the pools
  configured by their canonical ids, only the one being published is on offer without a
  registry entry. `FeedCatchesUp`: whatever failed, the cache comes to show the chain, and
  those pools can be resolved. Two changes are what a lagging answer needs to
  be older than one already published, two failures what it takes to lose a tip poll and
  then a read.
* **Submission** (1 094 768): either mode, a ladder of two sizes, two coins, two
  transactions, one restart. `SentIsVetted`: floor, age, cap, blacklist and switches all
  held when a transaction left. `NoLateTwin`: an abandoned transaction cannot land after its
  successor did. `OvershootBounded`: until a restart, and as long as the guard hears of everything, the cap is
  exceeded by less than one transaction's worst result. `AttemptsEnd`: every attempt ends.
  Two transactions and two coins are what it takes to double an order, and two losses pass
  the cap.
* **Liquidation** (636 691): two coins, two obligations that mirror each other, one of
  them opened before the start; two pools of the one pair, which name it in opposite orders,
  one calm and one dearer and bounded by ticks, either of which may become the other; the
  bot may hold them with these ticks, without, or not at all; two price times, pages of one event;
  two changes of the chain, or a change and a failing call of any task (`MaxEvents` bounds them
  together). `FailsOnlyIfStale`: a candidate
  dry-run on the state it was sized on executes, and passes the bot's gate exactly when its
  debt is the base coin. Within these bounds each pool is the first for either debt, and the
  other would have given a better candidate, a worse one or none; a quote is refused
  for want of ticks; the ticks held are the pool's or outdated; the seizure is capped by the
  collateral, the smaller fraction wins where the pool is thin, two candidates compete, and
  dry runs clear, fall below the bar and revert. `IndexCatchesUp`: the index comes to show what
  it knows and what is among the latest events, whatever was torn or missed. Two changes tear
  one reading and leave the next stale; a change and a failure tear one and lose another.

Three runs check a sentence of the repository that the code does not keep; each is a
finding in `PROJECT.json`:

* **ClmmDrift** (`NoInventedLiquidity`): fast refreshes keep the window while the price
  leaves it. A quote further out is refused, but one back towards the window starts with
  the current liquidity and skips the ticks that lie in between.
* **ClmmTurbos** (`BoundariesAccurate`): Turbos boundaries are scaled from the current
  price as if it stood exactly at the current tick; they are all too high by the part of
  a tick it stands above, at most one tick spacing of 0.005 % in the square root.
* **SubmissionLossCap** (`HaltsAtDailyLoss`): after an RPC error, or an answer without
  balance changes, the guard lacks a loss and lets the next transaction through. There is no
  restart in this run.

`CHECK_DEADLOCK FALSE` is set where the exploration really ends: `ArbPtb` after the
last order, `RouteQuote` after the executed route, `Submission` after the last
transaction, `PoolFeed` and `Liquidation` where a task has exited for good and the
bounded chain rests. The indexer, a CLMM pool's rounds and the scanner never stop, and are checked for deadlock.

## 4. Fairness

* `Indexer`: weak fairness of the task as a whole (a tokio interval ticks and every
  RPC returns or errors) and strong fairness of the choice of a discovery round: the
  discovery clock is reset only by a discovery, so among infinitely many rounds
  infinitely many are discoveries. Nothing is assumed of the chain, and RPC failures
  are finite only by the exploration's bound (`MaxFailures`).
* `Submission`: weak fairness of `Attempt`: every RPC the loop awaits returns or errors
  (the client has timeouts). Neither landing nor a slow keystore is forced.
* `PoolFeed`: weak fairness of the feed's own steps (the ticker ticks, calls return), of new
  checkpoints, and of each fullnode executing what is on chain. Nobody has to trade.
* `Liquidation`: weak fairness of the index task, which tokio schedules on its own and
  which waits for nothing but its ticker and its calls. Prices, pools and desk are free.
* `ArbPtb`, `RouteQuote`, `Scanner`, `Clmm`: safety only.

## 5. What is proved

`tlapm` checks the eight modules with theorems to the last leaf. Every theorem is about
all values of the constants that the `ASSUME`s of its module allow. These give the constants
the types of the code's values and say that `None` is not one of these values; where they
say more, it is named below. TLC evaluates them on every instance.

### The block: `ArbPtbProofs`

Fees are below the denominator, and a block burns at most its budget.

* `Inductive`, `TypeCorrect`: `Spec => []TypeOK`. `TypeOK` is not inductive: that a
  purse stays a natural number after a split or a gas payment rests on the coins
  checked before the block started, and that a repayment fits rests on the gate. The
  invariant `IInv` adds `InBlock`: at each call, what the coin, the receipts and the
  lender hold is determined by the job.
* `FloorRepays`: `Spec => []FloorWithFeeRepays`.
* `Implements`: `Spec => Atomic!Spec`, the refinement. The interesting step is
  `Commit`: `InBlock` at stage "done" says the lender has its loan and charge, which is at
  least what it asks, and the sender the floor.
* `BlockConserves`: `Spec => []InFlightConserved`, for any finite set of pools (only then is
  there a sum). `SupplySplits` separates the sum over the pools from lender, sender and
  coin; a call changes one term of the sum and the rest by the opposite.
* `ProductsGrow`: `Spec => ProductNeverFalls`. A pool pays at most what leaves the product
  where it was (`ProductGrows`); `ProductKept` carries this through the block's copies of the
  pools, and `Commit` publishes it.

One lemma per action shows that it preserves `IInv`; one per kind of step shows what it
is in `AtomicArb`.

### Quotes and scans: `QuoteProofs`

`QuoteAssumption` says that twice the denominator times the largest u64 fits the wide word,
as 20 000 * 2^64 fits 2^128. Two of the three products of a quote then cannot wrap; the third
can, and the theorems hold all the same.

* `QuoteInductive`, `QuoteTypeCorrect`: `Spec => []TypeOK`: no swap Move allows leaves u64.
* `PredictionHolds`, `FloorsAdmit`: `SlippageOnlyFromRivals` and `FloorsAdmitPrediction`, for
  routes of any length. A quote wraps only downwards (`QuoteBelowFormula`), and where Move
  performs the swap nothing wraps and both agree (`MoveIsRust`). What `simulate_collect`
  returns is a chain of such quotes (`CollectFacts`). The invariant follows a block along
  this chain: its predictions are still those of its snapshot (`Predicted`), the pools ahead
  are as they were (`Untouched`), and the coin holds what was predicted (`Follows`).
* `NoProfitFromOnePool`: `NoPhantomRoundTrip`, from `RoundTripLoses`, a fact about the
  formula that wrapping can only strengthen.
* `AskedIsPaid`: `AmountInSuffices`: `get_amount_in` rounds up far enough.

The module extends `RouteQuote` and `Scanner`, as both quote with `Quote` and their theorems rest
on the same facts about it; for this the scanner's type invariant, initial states, steps and
specification are called `ScanTypeOK`, `ScanInit`, `ScanNext` and `ScanSpec`. Of the scan:

* `ScanInductive`, `ScanTypeCorrect`: `ScanSpec => []ScanTypeOK`.
* `CyclesAreExact`: `ScanSpec => []CyclesExact`, for every set of pools and every hop limit: after
  n turns the search has exactly the simple paths of n hops.
* `GridIsNoBetter`: `ScanSpec => GridNeverBeatsBest`. Nothing is assumed of the profit curve: the
  two searches stay between the ends of the grid (`TernaryMaxIs`), so they only ever add a
  candidate, and `size_route` and `find_best` keep maxima (`Sized`, `Found`).
* `BestIsExecutable`: `ScanSpec => []BestExecutes`, under three hypotheses, each with its
  reason. `Fits(M)`: no reserve or size exceeds an M for which M * denominator * M fits
  the wide word (with the code's widths M is about 2^57), because beyond it Rust wraps where
  Move aborts. `MinProfit > 0`: the net saturates at 0, so that a bar of 0 (the code's
  default is 10 000 000) would let a loss through. A flash fee of at most 100 %, so that its
  ceiling does not wrap. A cycle that passes a pool twice is a round trip through that one
  pool (`PoolsOnce`), which never pays.

### The feeds: `IndexerProofs`, `PoolFeedProofs`

For any pools, adapters (one at least: the task returns without any), levels and failures:

* `CacheResolvable`: `Spec => []CacheInRegistry`. It needs the two halves of the
  locking discipline as invariants: while a pool is between its two writes its ref is
  there (`RefBeforeState`), and while an eviction holds the registry's lock, what has
  left the cache list is what has left the cache (`StateBeforeRef`).
* `IndexerTypeCorrect`, `ActiveOffered`, `EvictionsOnEvidence`: `Spec => []` of `TypeOK`,
  `ActiveOnOffer` and `EvictionJustified`. Both are settled within a sync: as long as no batch has
  failed, every id was read or is owed a read (`Reads`); what is selected was kept by the
  filter and has its ticks, and what an active pool lost its place for is known
  (`Selected`); active pools are candidates that were listed (`Membership`).
* `FeedTypeCorrect`, `SeenCached`, `CachedRegistered`: `Spec => []` of `TypeOK`,
  `SeenIsCached` and `CachedHasRef`, for every way the entries spell their ids
  (`PoolFeedAssumption`: none spells its pool's id as another's); `FeedMonotone`: `Spec => NeverBackwards`. The
  invariants the run checks hold between rounds, so `FeedInv` says what holds inside one:
  a version noted as seen is published or in the batch at hand (`SeenPending`), a batch of
  the checkpoint task holds only what it has noted (`BatchInHand`), and a pool between its
  two writes shows in the cache what the batch had (`AtRegistering`). `NeverBackwards` then
  follows because a batch is newer than the `seen` it replaced.

### The attempts: `SubmissionProofs`

For any coins, sizes, quotes and results, any number of transactions and restarts:

* `SubmissionTypeCorrect`: `Spec => []TypeOK`.
* `SubmissionVetted`: `Spec => []SentIsVetted`. The verdict of the gate is read before the
  signature and relied on after it. `PassedGate` says that it still stands: only an answer
  or a restart changes what the guard knows, and either ends the attempt.
* `SubmissionNoLateTwin`: `Spec => []NoLateTwin`. Two orders that can both land share a coin,
  because each pays with coins closed under "larger" (`Payable`, `Closed`); what lands spends
  its coins for good (`Past`).
* `SubmissionOvershoot`: `Spec => []OvershootBounded`, where the base token pays the gas
  (`BaseIsSui`; otherwise the guard never counts gas, and the property is false) and the
  possible results are finitely many (so that there is a worst). `Accounts`: the guard's
  figure is the sum of what it was told, so that at most one result is missing from it.

### A CLMM pool: `ClmmProofs`

For every price, liquidity, fee and input (`ClmmAssumption`: unit, denominator and price
bounds are positive):

* `StepWithinInput`: a step charges at most its input, fee included, and stays short of
  its boundary. The code subtracts in u128 on the strength of this.
* `StepNeverOverstated`: a step pays at most what the curve pays, before any rounding,
  for what the fee leaves of the input.

Both reduce each rounding to a product (`CeilAtMost`, `CeilReached`, `FloorBelow`), so
that what remains is linear in a few named products; `MoveDown` and `MoveUp` bound the
price.

For every ladder of ticks, window, set of positions and history of a pool, whose prices rise
with the ticks within the engine's bounds and whose initial states are sound (`IsSound`: the
price is the current tick's, the liquidity what the ticks up to it add up to, none of it
negative, which is what a venue keeps of its pools):

* `ClmmTypes`, `SwapsKeepLiquidity`, `QuotesNeverOverstated`, `QuotesAreMonotone`:
  `Spec => []` of `TypeOK`, `LiquidityIsDepth`, `NeverOverstated`, `QuotesMonotone`.
* `QuotesAreExact`, `RefusalsAreForDepth`: `Spec => []` of `QuoteIsVenues` and
  `RefusesOnlyDepth`, where a tick object holds its own price (`TickSource = "Cetus"`).
  Derived prices drift, as `ClmmTurbos` shows, and a walk to a drifted boundary is another.

A walk is a fold over a set of boundaries. `FoldExists` turns it into a function of the
boundaries met so far, and `WalkIs` says how it takes the last of them: facts about walks are
then shown over a growing beginning of the way (a minimal beginning without the fact has a
last boundary). Four such facts carry the theorems:

* `VenueInside`: after each beginning the venue's walk is within one range of ticks and has its
  liquidity (`WithinTick`; a step down and a step up are `TurnDown` and `TurnUp`). A swap
  therefore leaves a sound pool (`SwapSound`), a deposit does too (`DepositSound`), and
  `TypesInv`, which adds soundness to the types of all pools read, is inductive. `TypeOK` alone
  is not: nothing in it bounds where a swap ends.
* `WalkLeads`: of two walks over the same boundaries, the one on more input is at the same
  place with more left, or the other has ended and paid no more. Per step this is `StepGrows`,
  the monotonicity of every rounding in the engine.
* `WalksOfBoth`: over every beginning the engine's walk is the venue's, unless the venue has
  come into a range without liquidity (`RunsDry`), where the engine stops. When it does, there is
  a `Gap` between the start and where the venue ends (`DryGap`).
* `WindowIs`: `select_window` picks ticks without gaps, so that those ahead of a price within the
  window are a beginning of the way (`WindowIsAhead`).

`HistoryInv` says which ticks a snapshot has: names and cached ticks dated with the pool's
present liquidity are a window of it, those dated with the object's are a window of the
object's, and nothing is dated ahead. It is what makes `Settled`, a comparison of two counters,
mean that the window is one of the object's own ticks.

### A liquidation: `LiquidationProofs`

For any coins, obligations, positions, prices, pools and configured fractions, and for the bot
as well as the validator:

* `LiquidationTypeCorrect`: `Spec => []TypeOK`. `TypeOK` says of a candidate that it repays at
  most the debt it was sized on, and that its net clears the bar. It is not inductive: nothing in
  it ties what the task re-reads to what was opened on chain (`KnownWereOpened`), nor the bot's
  list to one candidate (`DeskInv`).
* `FailuresAreStale`: `Spec => FailsOnlyIfStale`, for a flash fee of at most 100 %, so that its
  ceiling does not wrap. `Sized` says what sizing promises of an offer: the repay is within the
  close factor, the seized collateral is what that repay is worth, the proceeds are the quote for
  it on the pool as cached, with whatever ticks that has, and a positive net is what is left of them after repay, fee and gas. It is shown of one
  fraction (`FractionIs`), of the best of the fractions (`SizeIs`), and of what detection returns
  in any order of the cache, with any number of pools to a pair (`DetectIs`). `Computed` carries it from the scan to the dry run. There, on the state the
  candidate was sized on, the venue uses the whole repay and seizes as much, the swap clears its
  floor because a floor is at most the quote (`FloorIsBelow`), and the lender's charge is covered
  because a fee grows with its rate (`FeeGrows`). What remains of the gate is linear
  (`ComputedExecutes`).

The assumptions are those the code justifies: fractions of at most one (`main.rs:221`, `detect.rs:44`), u64
amounts, pool prices within the engine's bounds, and a price of the base token to begin with.

### How induction is done: `DataLemmas`

The library's induction theorems take a predicate as a parameter, which none of the provers
can instantiate. `DataLemmas` therefore induces over sets: a set of counterexamples has a least
number (`LeastNatural`) or a minimal set (`MinimalSubset`). From this it gets that
functions recursive on the naturals exist (`RecursionExists`, `ChainExists` for a chain that may
end in `None`), that tail recursion over a shrinking measure is defined and keeps an invariant
(`TailRecursion`, `TailInvariant`: the two loops of `ternary_max`), and that the sum over a
finite set does not depend on the order the fold takes (`SumTake`, `SumChange`, `SumNat`).

### Only model-checked

All liveness (`ActiveCatchesUp`, `ListingsJoin`, `FeedCatchesUp`, `AttemptsEnd`,
`IndexCatchesUp`), which, like `ENABLED`, is out of the prover's reach; every safety property
and action property of a passing run has its theorem. The three runs of section 3 that expect a
violation are refutations.

## 6. What is not modelled, and why

* Scanner routes here hold constant-product pools only; a CLMM hop's quote is the
  subject of `Clmm`.
* `single_range` pools (`indexer_load_ticks` off): the engine then quotes one endless
  range, which the comments call an over-quote; `NeverOverstated` covers the range itself.
* What a liquidation does after its dry run: `main.rs:105-109` refuses to start with both
  liquidation and submission enabled, and the validator never submits. `objcache.rs`
  memoizes initial versions, which never change; a lookup that fails is `BuildFails`.
* The f64 arithmetic of `health.rs` and `detect.rs`, and the decoding of prices, PNAU blobs and
  obligation tables: exact fractions and a decoded value, or none, stand for them. A posted
  price equal to the one that is there is left out, as it changes nothing.
* Fullnodes that lag each other between the calls of one tick load: each read of `Clmm`
  finds the latest state (in `PoolFeed`, where a whole pool is one read, they lag).
* A second entry of `ARB_TRACKED_POOLS` for one pool.
* Several flash lenders: every transaction the bot builds names one, so `E_WRONG_LENDER`
  cannot arise. `create_lender`, `create_pool` and `amm_v2::fund` are initial states.
* `admin.move`, `metrics.rs`, `quoter.rs`, `strategy.rs`, `frictions.rs`, `config.rs`,
  `bin/`: no state the bot's decisions depend on, or pure I/O.
* Sui itself (consensus, object versions, transaction effects) is modelled only as far
  as the code relies on it, and marked external in `PROJECT.json`.

`NoLateTwin` assumes that nobody else deposits coins into the sender's account: a new
largest coin would let the next order pay with other coins than the abandoned one.

## 7. Divergences seen while modelling and not run

* `ptb.rs:66-68` says `min_profit` must already include the flash fee so that the gate
  guarantees repayment, and `docs/flash-loan-design.md:93-95` that clearing the gate implies
  a repayable loan. `executor.rs:333` passes `effective_min_profit_mist()`
  (`config.rs:263-268`), with no fee in it. A block may pass the gate and abort on the
  repayment; it costs gas only (`ImplementsAtomicArb`), and `FloorWithFeeRepays` shows what
  the floor would have to contain.

* `config.rs` and `README.md` say gas is folded into `min_profit`; the floor passed on
  chain (`executor.rs:333`) is compared with the coin before gas, so a committed block
  may leave the sender with less than `min_profit`.
* `sizing.rs:3` calls the net unimodal; integer rounding gives it plateaus, and on one
  the ternary search can leave the side that holds the maximum. `GridNeverBeatsBest`
  shows that the grid it is combined with bounds the loss.
* `config.rs:135` and `executor.rs:518` say the ladder is tried largest first;
  `executor.rs:618` sorts it by expected net (`NextSize`).
* `risk.rs:103` says the recorded result is net of gas; `net_base_change`
  (`executor.rs:930`) sums the base coin only, which includes gas only when the base
  token is SUI (`Answer`, with `BaseIsSui`).
* `SECURITY.md:14-15` says the swap formula cannot overflow for u64 values. The
  three-factor product can: near the top of u64 Rust's release build wraps
  (`amm.rs:24`) where Move aborts, and an undisturbed prediction is not executed. No
  real pool has such reserves.
* `indexer.rs:516` and `cache.rs:31` speak of an authoritative active set. A pool that
  an incomplete refresh has published (`indexer.rs:500`) is in the cache and in no
  active set, so no later refresh updates or evicts it.
* `clmm.rs:229` leaves out an initialized tick at exactly the current price. A venue that
  has crossed it upwards crosses it again going down, so the engine goes on with the
  wrong liquidity (`BetweenTicks` excludes this price from `QuoteIsVenues`).
* `cetus_ticks.rs:174` says the window holds the ticks nearest the price; it holds as
  many below as above, whatever their distance (`SelectWindow`).
* `health.rs:3-6` calls the local health factor over-including. A debt without a price is
  skipped, so with a partial price map (`source.rs:174`) an obligation under water is
  missed; and collateral without one makes a sound obligation a candidate (`Priced`).
* `detect.rs:213` says the profit semantics are those of an arbitrage. Net profit is in the
  debt coin, but the gate compares the base coin's change (`executor.rs:140`, `930`), so a
  liquidation of another coin's debt is always "below" (`BotVerdict`, stated by
  `FailsOnlyIfStale`). `main.rs:219-220` likewise hands `LiqParams` a gas cost and a bar in
  MIST where `detect.rs:40-42` asks for debt-asset units.
* `main.rs:289` takes the highest net whatever coin it is counted in, and takes it again at
  the next tick: a candidate that never clears can keep all others waiting (`Scan`).
* `validator.rs:135` notes a repay amount before it validates it: a transient failure is not
  tried again until the amount changes (`TakeCandidate`). Its `delta`
  (`validator.rs:206`) subtracts nets of different coins.
* A failed `bootstrap` is only warned of (`main.rs:189-191`); `run` discovers among the last
  50 events, so older obligations stay unknown. When `run` cannot build its client, the
  index is frozen and the source goes on acting on it (`StartRun`).
* `risk.rs:15-16` speaks of the realized result of the day. The guard starts from 0 whenever
  the process does (`main.rs:116`, `risk.rs:61`), so a restart forgets the day's losses and
  submits below the cap (`Restart`; `OvershootBounded` assumes there was none).
* `indexer.rs:3-4` says discovery is there "to find every pool", `config.rs:121` and
  `.env.example:33` that it looks for newly-listed ones. `discover_ids` pages the events oldest
  first and stops at `MAX_DISCOVER` ids (`indexer.rs:250`, `:296`), from the start each time:
  past 5 000 pools of a DEX, a pool listed later is never a candidate (`Reach`, the bound of
  `ListingsJoin`).
* `ws.rs:29` calls the registry a map from pool ids to coordinates. Its keys are the ids as
  `ARB_TRACKED_POOLS` spells them (`ws.rs:52`, `97`, `162`, `ingest.rs:137`), those of the cache the
  canonical ones (`ws.rs:208-213`): an upper-case, abbreviated or prefix-less id is parsed, cached,
  offered to every scan and never resolved (`Spelling`, `Resolvable`; `CachedHasRef` is about
  the entries in canonical form).
* `find_swap_back` (`detect.rs:126`) sizes on the first pool of a pair in a hash map's order,
  although `detect.rs:150-153` speaks of the best opportunity: with several pools to a pair a
  better candidate is passed over, or there is none because the first pool refuses the size
  (`Leading`, `FindSwapBack`).
* `decode_pool` leaves ticks out (`ws.rs:221`), so a swap back through a tracked pool is
  quoted on one endless range and may be overstated; the floor then aborts the dry run.
* `ws.rs:49` accepts `amm_v2` entries, which `decode_pool` cannot decode (`DecodeFails`).

## 8. Plan

Done in this order because the block is what money depends on, the quote what feeds
it, and the loop what repeats it: `MoveMath`, `AtomicArb`, `ArbPtb` and its proofs;
`Quote`, `RouteQuote`, `Scanner`; `Indexer` and its proof; `Submission`; `ClmmMath`, its
proofs and `Clmm`; `PoolFeed` and its proofs; `LiqMath`, `Obligations`, `Liquidation`. Then
`DataLemmas` and with it the proofs that need induction or sums: `Submission`, the
rest of `ArbPtb` and `Indexer`, `RouteQuote`, `Scanner`, `Clmm`, and `Liquidation`.

Next, in order of importance:

1. CLMM hops in `Scanner` and in `RouteQuote`, on `ClmmMath`, where instances stay small
   enough for the choice of a best route to be exhaustive.
2. The package's remaining calls (`create_pool`, `fund`) as steps of `ArbPtb`'s rivals.
