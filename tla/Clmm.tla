-------------------------------- MODULE Clmm --------------------------------
(***************************************************************************)
(* One concentrated-liquidity pool as the bot sees it.  A round of the     *)
(* indexer reads the pool object; a discovery round then lists the pool's  *)
(* initialized ticks (names only), picks a window of them around the       *)
(* current tick and fetches those, while a fast refresh keeps the ticks it *)
(* has.  Both publish a snapshot for the scanner.  Meanwhile others trade  *)
(* and move their liquidity.  The question is what a quote on the snapshot *)
(* has to do with what the venue pays.                                     *)
(***************************************************************************)
EXTENDS ClmmMath

CONSTANTS
  LastTick,       \* ticks are 0 .. LastTick; a price may also lie below all of them
  SqrtAt,         \* the square-root price from which on each is current
  FeePips,        \* the pool's fee
  TickSource,     \* "Cetus": a tick object holds its price; "Turbos": derived
  Window,         \* config.indexer_max_ticks
  InitialPools,   \* pools the exploration starts from
  Positions,      \* liquidity others may add or withdraw: [lower, upper, liq]
  TradeSize,      \* what they may swap in
  QuoteSize,      \* inputs the scanner may quote
  MaxTrades, MaxDeposits   \* bounds

Tick == 0 .. LastTick
CurrentTick == Tick \union {-1}

ASSUME PoolAssumption ==
  /\ LastTick \in Nat /\ SqrtAt \in [CurrentTick -> MinSqrtPrice .. MaxSqrtPrice]
  /\ \A s, t \in CurrentTick : s < t => SqrtAt[s] < SqrtAt[t]
  /\ FeePips \in 0 .. PipsDenom - 1 /\ TickSource \in {"Cetus", "Turbos"}
  /\ Window \in Nat \ {0} /\ TradeSize \subseteq Nat \ {0} /\ QuoteSize \subseteq Nat \ {0}
  /\ MaxTrades \in Nat /\ MaxDeposits \in Nat
  /\ Positions \subseteq [lower : Tick, upper : Tick, liq : Nat]
  /\ \A pos \in Positions : pos.lower < pos.upper

VARIABLES
  pool,       \* the venue's pool: price, current tick, liquidity, net of each tick,
              \* and how often others have moved liquidity
  object,     \* the pool object this round has read, or None between rounds
  names,      \* the window of tick names picked: [ticks, at], or None
  tickCache,  \* the ticks cached: [ticks, at], or None
  snapshot,   \* what the scanner quotes on: [object, ticks, at], or None
  discovery,  \* whether this round refetches ticks
  trades      \* swaps of others so far

vars == <<pool, object, names, tickCache, snapshot, discovery, trades>>

Boundary == [price : Nat, net : Int]

\* "at" says which liquidity ticks belong to: the deposits made before they were
\* listed and still when they were fetched, or Torn.
Torn == MaxDeposits + 1

IsPool(p) ==
  /\ DOMAIN p = {"price", "tick", "liq", "net", "deposits"}
  /\ p.price \in MinSqrtPrice .. MaxSqrtPrice /\ p.tick \in CurrentTick
  /\ p.liq \in Nat /\ p.net \in [Tick -> Int] /\ p.deposits \in 0 .. MaxDeposits

IsTicks(ts) == ts # {} /\ \A t \in ts : t \in Boundary

\* Every variable has its type; no snapshot and no cache is without ticks, on which
\* the engine would quote a range without end (indexer.rs: "we never fall back to
\* empty ticks").
TypeOK ==
  /\ IsPool(pool)
  /\ object # None => IsPool(object)
  /\ names # None => /\ names.ticks \in (SUBSET Tick) \ {{}}
                     /\ names.at \in 0 .. MaxDeposits
                     /\ object # None
  /\ tickCache # None => IsTicks(tickCache.ticks) /\ tickCache.at \in 0 .. Torn
  /\ snapshot # None => /\ IsPool(snapshot.object) /\ IsTicks(snapshot.ticks)
                        /\ snapshot.at \in 0 .. Torn
  /\ discovery \in BOOLEAN /\ trades \in 0 .. MaxTrades

-----------------------------------------------------------------------------
(* The venue (external): the same curve, over all of its ticks *)

Initialized(p) == {t \in Tick : p.net[t] # 0}

\* The liquidity between tick t and the next.
Depth(net, t) == MapThenSumSet(LAMBDA s : net[s], 0 .. t)

\* The price is the tick's, or lies on the upper end of its range.
Spans(t, price) == SqrtAt[t] <= price /\ (t < LastTick => price <= SqrtAt[t + 1])

\* What every venue keeps of its pool: the price is the current tick's (after a swap
\* down it may be that of the tick above), the liquidity the range's, and none is
\* negative.
IsSound(p) ==
  /\ IsPool(p) /\ Spans(p.tick, p.price)
  /\ p.liq = Depth(p.net, p.tick) /\ \A t \in Tick : Depth(p.net, t) >= 0

ASSUME InitialAssumption == \A p \in InitialPools : IsSound(p)

Exact(p, ts) == {[price |-> SqrtAt[t], net |-> p.net[t]] : t \in ts}

\* Unlike the engine, the venue swaps on through a range without liquidity.
VenueCross(aToB, w, t) == [Cross(FeePips, aToB, w, t) EXCEPT !.going = TRUE]

\* Ticks up to the current one lie below the price, whatever the price says.
AheadOf(p, aToB) == {t \in Initialized(p) : (t <= p.tick) = aToB}

VenueWalk(p, in, aToB) ==
  MapThenFoldSet(LAMBDA t, w : VenueCross(aToB, w, t), Start(p.price, p.liq, in),
                 LAMBDA t : t, LAMBDA ts : Furthest(ts, aToB), Exact(p, AheadOf(p, aToB)))

TickAt(price) == CHOOSE t \in CurrentTick :
  SqrtAt[t] <= price /\ (t < LastTick => price < SqrtAt[t + 1])

\* A tick that was reached was crossed: moving down, the current tick is the one below.
AfterSwap(p, w, aToB) ==
  LET reached == {t \in AheadOf(p, aToB) : SqrtAt[t] = w.price}
  IN  [p EXCEPT !.price = w.price, !.liq = w.liq,
                !.tick = IF reached = {}
                         THEN IF w.price = p.price THEN p.tick ELSE TickAt(w.price)
                         ELSE CHOOSE t \in {r - (IF aToB THEN 1 ELSE 0) : r \in reached} : TRUE]

\* Others swap; a swap the pool's liquidity cannot fill, or that pays no u64, does not
\* happen.
Trade(in, aToB) ==
  LET w == VenueWalk(pool, in, aToB) IN
  /\ trades < MaxTrades /\ trades' = trades + 1
  /\ w.remaining = 0 /\ w.out <= U64Max
  /\ pool' = AfterSwap(pool, w, aToB)
  /\ UNCHANGED <<object, names, tickCache, snapshot, discovery>>

\* Others add (sign = 1) or withdraw (sign = -1) liquidity.
Deposit(pos, sign) ==
  LET l   == sign * pos.liq
      net == [pool.net EXCEPT ![pos.lower] = @ + l, ![pos.upper] = @ - l]
      liq == IF pos.lower <= pool.tick /\ pool.tick < pos.upper THEN pool.liq + l ELSE pool.liq
  IN
  /\ pool.deposits < MaxDeposits
  /\ \A t \in Tick : Depth(net, t) >= 0
  /\ pool' = [pool EXCEPT !.net = net, !.liq = liq, !.deposits = @ + 1]
  /\ UNCHANGED <<object, names, tickCache, snapshot, discovery, trades>>

-----------------------------------------------------------------------------
(* The indexer *)

\* sqrt_price_at_tick: Turbos' ticks hold no price, it is derived from the object's.
\* A Cetus tick holds its own.
BoundaryPrice(t) ==
  IF TickSource = "Cetus" THEN SqrtAt[t]
  ELSE (object.price * SqrtAt[t]) \div SqrtAt[object.tick]

\* Mutant: every other tick, so that the window reaches further.
SelectWindowSparse(ts, center) ==
  {t \in ts : Cardinality({s \in ts : s < t}) % 2 = 0}

\* select_window: Window ticks of the sorted list, half of them below the center,
\* shifted back where the list ends.
SelectWindow(ts, center) ==
  LET n    == Cardinality(ts)
      Rank(t) == Cardinality({s \in ts : s < t})
      pos  == Rank(center)
      from == IF pos > Window \div 2 THEN pos - Window \div 2 ELSE 0
      end  == IF from + Window < n THEN from + Window ELSE n
  IN  IF n <= Window THEN ts
      ELSE {t \in ts : end - Window <= Rank(t) /\ Rank(t) < end}

\* A round's batch read.
ReadPool(refetch) ==
  /\ object = None /\ object' = pool
  /\ discovery' = refetch
  /\ UNCHANGED <<pool, names, tickCache, snapshot, trades>>

\* Mutant: without cached ticks the pool is published as one endless range.
PublishTickless(c) ==
  /\ object' = None /\ names' = None
  /\ snapshot' = [object |-> object, ticks |-> IF c = None THEN {} ELSE c.ticks,
                  at |-> IF c = None THEN Torn ELSE c.at]

\* Publish the object read with cached ticks c and end the round; without any the
\* pool is dropped.
Publish(c) ==
  /\ object' = None /\ names' = None
  /\ snapshot' = IF c = None THEN snapshot
                 ELSE [object |-> object, ticks |-> c.ticks, at |-> c.at]

\* A fast refresh with a warm cache.
FastRefresh ==
  /\ object # None /\ ~discovery /\ tickCache # None
  /\ Publish(tickCache)
  /\ UNCHANGED <<pool, tickCache, discovery, trades>>

Refetches == object # None /\ (discovery \/ tickCache = None)

\* load_window's first half: the names of the initialized ticks, a window of them.
ListTicks ==
  /\ Refetches /\ names = None /\ Initialized(pool) # {}
  /\ names' = [ticks |-> SelectWindow(Initialized(pool), object.tick), at |-> pool.deposits]
  /\ UNCHANGED <<pool, object, tickCache, snapshot, discovery, trades>>

\* Its second half: the tick objects themselves; one that is gone is left out.
FetchTicks ==
  /\ names # None
  /\ LET ts == names.ticks \intersect Initialized(pool)
         c  == [ticks |-> {[price |-> BoundaryPrice(t), net |-> pool.net[t]] : t \in ts},
                at |-> IF names.at = pool.deposits THEN names.at ELSE Torn]
     IN  ts # {} /\ tickCache' = c /\ Publish(c)
  /\ UNCHANGED <<pool, discovery, trades>>

\* An attempt fails and is repeated (the code does so three times).
RetryTicks ==
  /\ names # None /\ names' = None
  /\ UNCHANGED <<pool, object, tickCache, snapshot, discovery, trades>>

\* Four attempts failed, or there were no ticks: the stale ones, if there are any.
LoadFails ==
  /\ Refetches
  /\ Publish(tickCache)
  /\ UNCHANGED <<pool, tickCache, discovery, trades>>

-----------------------------------------------------------------------------
Init ==
  /\ pool \in InitialPools
  /\ object = None /\ names = None /\ tickCache = None /\ snapshot = None
  /\ discovery = TRUE /\ trades = 0

Next ==
  \/ \E in \in TradeSize, aToB \in BOOLEAN : Trade(in, aToB)
  \/ \E pos \in Positions, sign \in {-1, 1} : Deposit(pos, sign)
  \/ \E refetch \in BOOLEAN : ReadPool(refetch)
  \/ FastRefresh \/ ListTicks \/ FetchTicks \/ RetryTicks \/ LoadFails

Spec == Init /\ [][Next]_vars

-----------------------------------------------------------------------------
(* Properties *)

Quoted(in, aToB) ==
  QuoteExactIn(snapshot.ticks, snapshot.object.price, snapshot.object.liq, FeePips, in, aToB)

\* The snapshot's ticks are those of the liquidity its object was read with.
Settled == snapshot # None /\ snapshot.at = snapshot.object.deposits

\* Not exactly at a tick's price: there the engine leaves out a tick the venue
\* crosses first.
BetweenTicks == \A t \in Initialized(snapshot.object) : SqrtAt[t] # snapshot.object.price

\* The price lies within the window.
InSight == \E s, t \in snapshot.ticks :
  s.price < snapshot.object.price /\ snapshot.object.price < t.price

Sound(in, aToB) ==
  LET q == Quoted(in, aToB)
      w == VenueWalk(snapshot.object, in, aToB)
  IN  q # None => w.remaining = 0 /\ q = w.out

\* However far swaps run, the liquidity in range is what the ticks below the price add
\* up to: each crossing adds or takes the right side's share (clmm.rs, apply_net).
LiquidityIsDepth == pool.liq = Depth(pool.net, pool.tick)

\* While the price stays within the window, a quote is to the unit what the venue pays
\* at the object read, through whatever ticks the swap crosses: although the window
\* holds some of the ticks, the ticks are older than the object, and others trade
\* between the reads (indexer.rs, clmm.rs: "exact UniV3 relations").
QuoteIsVenues ==
  Settled /\ BetweenTicks /\ InSight
  => \A in \in QuoteSize, aToB \in BOOLEAN : Sound(in, aToB)

\* A range without liquidity between prices a and b.
Gap(net, a, b) == \E t \in 0 .. LastTick - 1 :
  Depth(net, t) = 0 /\ a <= SqrtAt[t] /\ SqrtAt[t + 1] <= b

\* Then a size is refused only for depth: the venue cannot fill it, or does not end
\* inside the window, or passes a range without liquidity (clmm.rs, depth-aware
\* refusal); or because what it pays is no u64.
RefusesOnlyDepth ==
  Settled /\ BetweenTicks /\ InSight
  => \A in \in QuoteSize, aToB \in BOOLEAN :
       LET p == snapshot.object
           w == VenueWalk(p, in, aToB)
       IN  Quoted(in, aToB) = None =>
             \/ p.liq = 0 \/ w.remaining > 0 \/ w.out > U64Max
             \/ IF aToB THEN Gap(p.net, w.price, p.price) ELSE Gap(p.net, p.price, w.price)
             \/ \A t \in snapshot.ticks : IF aToB THEN w.price <= t.price ELSE w.price >= t.price

\* On any snapshot, however stale or torn: a size that is quoted has every smaller one
\* quoted, for no more.  The search for the largest size a route can fill bisects on
\* it (sizing.rs, feasible_upper_bound).
QuotesMonotone ==
  snapshot # None =>
    \A m, n \in QuoteSize, aToB \in BOOLEAN :
      m < n /\ Quoted(n, aToB) # None
      => Quoted(m, aToB) # None /\ Quoted(m, aToB) <= Quoted(n, aToB)

\* Within one range, a quote is never more than the curve itself pays, before any
\* rounding, for what the fee leaves of the input (clmm.rs: "the resulting output is
\* never overstated").
NeverOverstated ==
  snapshot # None =>
    LET p == snapshot.object.price
        l == snapshot.object.liq
    IN  \A in \in QuoteSize, aToB \in BOOLEAN :
          LET q == QuoteExactIn({}, p, l, FeePips, in, aToB)
              a == LessFee(in, FeePips)
          IN  q # None =>
                IF aToB THEN q * Q64 * (l * Q64 + a * p) <= l * p * p * a
                        ELSE q * p * (l * p + a * Q64) <= l * Q64 * Q64 * a

\* A known depth is not stretched: a quote is what the venue pays also when the price
\* has left the window since its ticks were fetched (clmm.rs: "Beyond the last loaded
\* tick we have no data, so we must not invent liquidity").
NoInventedLiquidity ==
  Settled /\ BetweenTicks
  => \A in \in QuoteSize, aToB \in BOOLEAN : Sound(in, aToB)

\* Every cached boundary is a tick's price, up to a unit of rounding (turbos_ticks.rs:
\* "accurate to f64 precision").
BoundariesAccurate ==
  snapshot # None =>
    \A b \in snapshot.ticks : \E t \in Tick : b.price - SqrtAt[t] \in -1 .. 1
=============================================================================
