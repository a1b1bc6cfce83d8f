---------------------------- MODULE Liquidation ----------------------------
(***************************************************************************)
(* Liquidations from detection to dry run (liquidation/source.rs,          *)
(* validator.rs, main.rs, executor.rs, ptb.rs): one task keeps the index,  *)
(* another the oracle's prices, a feed the pools; the desk scans the three *)
(* as they stand, and the transaction is built and dry-run later, on a     *)
(* chain that has moved.  The desk is the bot, which takes the best        *)
(* candidate, or the validator, which takes them all; neither submits      *)
(* (main.rs refuses to start with both switches on).                       *)
(***************************************************************************)
EXTENDS Obligations

CONSTANTS
  Base, BaseIsSui,   \* config.base_token; whether gas is paid in it
  Metas,             \* config.liq_assets: the coins whose price is read, in order
  PriceAt,           \* the USD price of a raw unit of each coin, over time
  PoolStates,        \* what a pool may be: [price, liq, ticks]
  TickWindows,       \* the ticks the bot's feed may hold of a pool, {} without any
  InitialPools,
  LenderFeeBps,      \* what the flash lender charges on chain
  SlippageBps,       \* config.per_hop_slippage_bps
  PythFee, GasUsed

ASSUME LiquidationAssumption ==
  /\ Base \in Coin /\ BaseIsSui \in BOOLEAN
  /\ Metas \in Seq(Coin) /\ Metas # <<>> /\ IsInjective(Metas)
  /\ DOMAIN PriceAt = Coin /\ PriceAt[Base] # <<>>
  /\ \A c \in Coin : PriceAt[c] \in Seq(Nat \ {0}) /\ Len(PriceAt[c]) = Len(PriceAt[Base])
  /\ InitialPools \subseteq [SwapPool -> PoolStates]
  /\ \A s \in PoolStates : s.price \in MinSqrtPrice .. MaxSqrtPrice /\ s.liq \in Nat
  /\ {} \in TickWindows
  /\ {LenderFeeBps, SlippageBps, PythFee} \subseteq Nat /\ GasUsed \subseteq Nat

VARIABLES
  now,        \* the time of Pyth's latest prices
  posted,     \* of each coin, the time of the price the protocol's oracle holds
  pools,      \* the swap pools on chain
  params,     \* SharedParams: the time of each coin's price, or None without one
  fetched,    \* what the refresh of params under way has read, coin by coin
  cached,     \* the pools as the feed last read them, or None
  mode,       \* "bot" | "validator"
  list,       \* the candidates of the scan at hand, still to take
  validated,  \* the repay each obligation was last validated at, or None
  cand,       \* the candidate being executed, or None
  blob,       \* the time of the prices Hermes gave for it, or None before
  verdict     \* on the last candidate

chainVars  == <<now, posted, pools>>
priceVars  == <<params, fetched>>
deskVars   == <<list, validated, cand, blob, verdict>>
vars       == <<obVars, chainVars, priceVars, cached, mode, deskVars>>

Time == 1 .. Len(PriceAt[Base])
Verdict == {"none", "failed", "reverted", "below", "clears", "ok"}

\* The prices of a map of times.
At(times) == [c \in Coin |-> IF times[c] = None THEN None ELSE PriceAt[c][times[c]]]

\* A candidate, with what it was computed from.
Candidates(o, lead) ==
  IF index[o] = None THEN {}
  ELSE {[ob |-> o, opp |-> x, entry |-> index[o], price |-> At(params), pool |-> cached[x.pool]]
          : x \in DetectObligation(index[o], At(params), cached, lead)}

\* A pool with the ticks one feed or another has of it.
WithTicks(s, windows) == {[s EXCEPT !.ticks = ts] : ts \in windows}

CachedStates == UNION {WithTicks(s, TickWindows) : s \in PoolStates}

IsCandidate(x) ==
  /\ x.ob \in Obligation /\ x.entry \in Entry /\ x.opp.pool \in SwapPool
  /\ x.pool \in CachedStates
  /\ {x.opp.repay, x.opp.out, x.opp.fee, x.opp.net} \subseteq Nat
  /\ x.opp.repay <= x.entry.debt[x.opp.debt] /\ x.opp.net >= MinProfit

TypeOK ==
  /\ ObligationsTypeOK
  /\ now \in Time /\ posted \in [Coin -> 1 .. now] /\ pools \in [SwapPool -> PoolStates]
  /\ params \in [Coin -> (1 .. now) \union {None}]
  /\ fetched \in Seq((1 .. now) \union {None}) /\ Len(fetched) < Len(Metas)
  /\ cached \in [SwapPool -> CachedStates \union {None}]
  /\ mode \in {"bot", "validator"} /\ verdict \in Verdict
  /\ \A x \in list : IsCandidate(x)
  /\ cand # None => IsCandidate(cand)
  /\ blob \in (1 .. now) \union {None} /\ (blob # None => cand # None)
  /\ validated \in [Obligation -> Nat \union {None}]
  /\ (mode = "bot") => Cardinality(list) <= 1

Init ==
  /\ ObligationsInit
  /\ now = 1 /\ posted = [c \in Coin |-> 1] /\ pools \in InitialPools
  /\ params = [c \in Coin |-> None] /\ fetched = <<>>
  /\ cached = [p \in SwapPool |-> None]
  /\ mode \in {"bot", "validator"}
  /\ list = {} /\ validated = [o \in Obligation |-> None]
  /\ cand = None /\ blob = None /\ verdict = "none"

-----------------------------------------------------------------------------
(* The chain, Pyth and the pool feed. *)

PriceMoves ==
  /\ Room /\ now + 1 \in Time
  /\ now' = now + 1 /\ changes' = changes + 1
  /\ UNCHANGED <<posted, pools, chainObs, indexVars, failures, priceVars, cached, mode, deskVars>>

\* Somebody's transaction brings Pyth's latest price of c on chain; posting the
\* price that is there already is left out.
PostPrice(c) ==
  /\ PriceAt[c][posted[c]] # PriceAt[c][now]
  /\ posted' = [posted EXCEPT ![c] = now]
  /\ UNCHANGED <<now, pools, obVars, priceVars, cached, mode, deskVars>>

TradePool(p, s) ==
  /\ Room /\ pools[p] # s
  /\ pools' = [pools EXCEPT ![p] = s] /\ changes' = changes + 1
  /\ UNCHANGED <<now, posted, chainObs, indexVars, failures, priceVars, cached, mode, deskVars>>

\* PoolFeed and Indexer model the feeds; here one has read some version of the pool.
\* ws.rs loads no ticks, and the validator has no other feed.  The bot's is the indexer
\* by default: it may load a window of them, keep it while the pool moves on, and drop
\* the pool.
Readings(p) ==
  IF mode = "bot" THEN WithTicks(pools[p], TickWindows) \union {None}
  ELSE WithTicks(pools[p], {{}})

CachePool(p) ==
  \E s \in Readings(p) :
    /\ cached[p] # s
    /\ cached' = [cached EXCEPT ![p] = s]
    /\ UNCHANGED <<obVars, chainVars, priceVars, mode, deskVars>>

-----------------------------------------------------------------------------
(* refresh_params: scallop_price of one coin after the other. *)

\* A price that cannot be read, and a coin that is not configured, is left out.
Refreshed(read) ==
  [c \in Coin |-> IF \E i \in DOMAIN read : Metas[i] = c
                  THEN read[CHOOSE i \in DOMAIN read : Metas[i] = c] ELSE None]

\* After the last the map is replaced as a whole, unless no price was read.
ReadPrice ==
  \E t \in {posted[Metas[Len(fetched) + 1]], None} :
    LET read == Append(fetched, t) IN
    /\ IF t = None THEN CallFails ELSE UNCHANGED failures
    /\ IF Len(read) < Len(Metas) THEN fetched' = read /\ UNCHANGED params
       ELSE /\ fetched' = <<>>
            /\ params' = IF Range(read) = {None} THEN params ELSE Refreshed(read)
    /\ UNCHANGED <<chainObs, changes, indexVars, chainVars, cached, mode, deskVars>>

-----------------------------------------------------------------------------
(* The desk. *)

Idle == list = {} /\ cand = None

\* LiquidationSource::scan has one candidate for each obligation that has any.
OneEach(all) ==
  {s \in SUBSET all : \A o \in {x.ob : x \in all} : Cardinality({x \in s : x.ob = o}) = 1}

\* One snapshot of the cache, so one order of it, serves them all.
Scans == UNION {OneEach(UNION {Candidates(o, lead) : o \in Obligation})
                  : lead \in Leading(cached)}

\* The bot keeps the last of the best nets, whatever coin each is counted in, and
\* nothing when an arbitrage has a higher one; the validator keeps them all.
Scan ==
  /\ Idle
  /\ \E s \in Scans :
       list' \in IF mode = "validator" THEN {s}
                 ELSE {{x} : x \in {y \in s : \A z \in s : z.opp.net <= y.opp.net}}
  /\ list' # {}
  /\ verdict' = "none"
  /\ UNCHANGED <<obVars, chainVars, priceVars, cached, mode, validated, cand, blob>>

\* The validator goes by what it noted, which it notes before it validates.
TakeCandidate(x) ==
  /\ cand = None /\ x \in list
  /\ list' = list \ {x} /\ verdict' = "none"
  /\ IF mode = "bot" THEN cand' = x /\ UNCHANGED validated
     ELSE IF validated[x.ob] = x.opp.repay THEN UNCHANGED <<cand, validated>>
     ELSE cand' = x /\ validated' = [validated EXCEPT ![x.ob] = x.opp.repay]
  /\ UNCHANGED <<obVars, chainVars, priceVars, cached, mode, blob>>

Give(v) == cand' = None /\ blob' = None /\ verdict' = v

\* Mutant: a failed build leaves the candidate in place of the next one.
BuildFailsKeepsBlob ==
  /\ cand # None
  /\ verdict' = "failed" /\ cand' = None /\ UNCHANGED blob
  /\ UNCHANGED <<obVars, chainVars, priceVars, cached, mode, list, validated>>

\* A reference, a feed id, an object or Hermes is missing, or the call fails.
BuildFails ==
  /\ cand # None
  /\ Give("failed")
  /\ UNCHANGED <<obVars, chainVars, priceVars, cached, mode, list, validated>>

\* build_liquidation_ptb fetches Pyth's latest prices of the two coins.
Build ==
  /\ cand # None /\ blob = None
  /\ blob' = now
  /\ UNCHANGED <<obVars, chainVars, priceVars, cached, mode, list, validated, cand, verdict>>

-----------------------------------------------------------------------------
(* The dry run of build_liquidation's commands.  Scallop's liquidate is    *)
(* external: its own health check, close factor and seizure, at its prices.*)

Opp == cand.opp

\* The transaction refreshes the prices of its two coins; an older one is ignored.
Effective ==
  At([c \in Coin |-> IF c \in {Opp.debt, Opp.coll} /\ blob > posted[c]
                     THEN blob ELSE posted[c]])

SwapOnChain(in) ==
  LET s == pools[Opp.pool]
  IN  Clmm!QuoteExactIn(s.ticks, s.price, s.liq, FeePips, in, CoinA[Opp.pool] = Opp.coll)

RepayTotal == Opp.repay + Fee!QuoteFeeBps(Opp.repay, FlashFeeBps)

\* liquidate takes what it may of the repayment and leaves the rest.
Used == Least(Opp.repay, MaxRepay(ob[cand.ob], Opp.debt))

Seized(price) ==
  Least(BonusWorth(Used, Opp.debt, Opp.coll, price), ob[cand.ob].coll[Opp.coll])

\* The swap's floor, and the merge of what was left.
Merged(out) ==
  IF out # None /\ out >= Fee!ApplySlippageFloor(Opp.out, SlippageBps)
  THEN out + Opp.repay - Used ELSE None

\* The coin that reaches the gate, or None when a command before it aborts.
Proceeds ==
  IF IsLiquidatable(ob[cand.ob], Effective, 0) /\ Seized(Effective) > 0
  THEN Merged(SwapOnChain(Seized(Effective))) ELSE None

\* settle_and_return's gate, the split of what is owed, and the lender's own check.
Settles(proceeds) ==
  /\ proceeds # None
  /\ proceeds >= Opp.repay + MinProfit
  /\ proceeds >= RepayTotal
  /\ RepayTotal >= Opp.repay + Fee!QuoteFeeBps(Opp.repay, LenderFeeBps)

\* net_base_change: what the sender gains of the base coin.
NetBase(proceeds, gas) ==
  (IF Opp.debt = Base THEN proceeds - RepayTotal ELSE 0)
  - (IF BaseIsSui THEN gas + 2 * PythFee ELSE 0)

BotVerdict(proceeds, gas) == IF NetBase(proceeds, gas) < MinProfit THEN "below" ELSE "clears"

VerdictOn(proceeds, gas) ==
  IF ~Settles(proceeds) THEN "reverted"
  ELSE IF mode = "validator" THEN "ok" ELSE BotVerdict(proceeds, gas)

DryRun(gas) ==
  /\ cand # None /\ blob # None
  /\ Give(VerdictOn(Proceeds, gas))
  /\ UNCHANGED <<obVars, chainVars, priceVars, cached, mode, list, validated>>

-----------------------------------------------------------------------------
KeepsDesk == UNCHANGED <<chainVars, priceVars, cached, mode, deskVars>>

Next ==
  \/ IndexStep /\ KeepsDesk
  \/ PositionStep /\ KeepsDesk
  \/ PriceMoves \/ \E c \in Coin : PostPrice(c)
  \/ \E p \in SwapPool : CachePool(p) \/ \E s \in PoolStates : TradePool(p, s)
  \/ ReadPrice
  \/ Scan \/ \E x \in list : TakeCandidate(x)
  \/ BuildFails \/ Build \/ \E gas \in GasUsed : DryRun(gas)

\* The index task is scheduled on its own.
Spec == Init /\ [][Next]_vars /\ WF_vars(IndexStep /\ KeepsDesk)

-----------------------------------------------------------------------------
\* What the candidate was computed from is what the chain has.
Fresh ==
  /\ cand.entry = ob[cand.ob]
  /\ cand.price = Effective
  /\ LET s == pools[Opp.pool]
         seized == SeizedForRepay(Opp.repay, Opp.debt, Opp.coll, Effective, cand.entry.coll[Opp.coll])
     IN  /\ cand.pool.price = s.price /\ cand.pool.liq = s.liq
         /\ SwapOnChain(seized) = SwapBack(cand.pool, Opp.pool, Opp.coll, seized)

\* A candidate that is dry-run on the state it was sized on, for an obligation the
\* venue itself finds under water, at no more gas than foreseen and with a lender
\* no dearer than configured, executes; and the bot's gate passes it exactly when
\* the debt is the base token.  Sizing (detect.rs), assembly (ptb.rs) and gate
\* (executor.rs) agree, so only a stale reading, the safety margin or the unit of
\* the net can fail one.
FailsOnlyIfStale ==
  [][\A gas \in GasUsed :
      (/\ cand # None /\ cand' = None /\ blob # None
       /\ Fresh /\ IsLiquidatable(ob[cand.ob], Effective, 0)
       /\ DryRun(gas)
       /\ gas + 2 * PythFee <= GasCost
       /\ LenderFeeBps <= FlashFeeBps /\ MinProfit > 0)
      => verdict' = IF mode = "validator" THEN "ok"
                   ELSE IF Opp.debt = Base THEN "clears" ELSE "below"]_vars

=============================================================================
