------------------------------- MODULE LiqMath -------------------------------
(***************************************************************************)
(* Health and sizing of a liquidation: liquidation/health.rs, detect.rs,   *)
(* types.rs.  An obligation is [coll, debt], two functions from coins to   *)
(* amounts, 0 for a coin it does not have.  The code computes in f64; here *)
(* fractions are integers over Unit and comparisons are exact.             *)
(***************************************************************************)
EXTENDS Integers, Sequences, FiniteSetsExt

CONSTANTS
  Coin,
  Unit,               \* what the configured fractions are counted in
  Threshold, Weight,  \* of each coin: liquidation threshold, borrow weight
  CloseFactor, Bonus, HealthMargin,
  Fractions,          \* candidate_fractions, over Unit, in the order they are tried
  CoinA, CoinB,       \* the pair of each CLMM pool
  FeePips,            \* the fee of those pools
  FlashFeeBps, GasCost, MinProfit,   \* config, GasCost the estimate
  Q64, PipsDenom, MinSqrtPrice, MaxSqrtPrice, U64Max, U128Max, FeeDenom,
  None

ASSUME LiqAssumption ==
  /\ Unit \in Nat \ {0} /\ Threshold \in [Coin -> Nat] /\ Weight \in [Coin -> Nat]
  /\ CloseFactor \in 0 .. Unit /\ Bonus \in Nat /\ HealthMargin \in Nat
  /\ DOMAIN CoinA = DOMAIN CoinB
  /\ \A p \in DOMAIN CoinA : {CoinA[p], CoinB[p]} \subseteq Coin /\ CoinA[p] # CoinB[p]
  /\ Fractions \in Seq(0 .. Unit)
  /\ FeePips \in Nat /\ FlashFeeBps \in Nat /\ GasCost \in Nat /\ MinProfit \in Nat
  /\ {Q64, PipsDenom, MinSqrtPrice, MaxSqrtPrice, FeeDenom} \subseteq Nat \ {0}
  /\ U64Max \in Nat /\ None \notin Nat

Clmm == INSTANCE ClmmMath
Fee  == INSTANCE Quote WITH Pool <- {}, PoolFeeBps <- <<>>

SwapPool == DOMAIN CoinA
NoPosition == [c \in Coin |-> 0]

-----------------------------------------------------------------------------
(* health.rs.  A price is USD per raw unit; a coin without one is skipped. *)

Priced(price) == {c \in Coin : price[c] # None}

WeightedDebt(debt, price) ==
  MapThenSumSet(LAMBDA c : debt[c] * price[c] * Weight[c], Priced(price))

LiqWeightedCollateral(coll, price) ==
  MapThenSumSet(LAMBDA c : coll[c] * price[c] * Threshold[c], Priced(price))

\* The health factor is below 1 + margin; without priced debt there is none.
IsLiquidatable(o, price, margin) ==
  LET debt == WeightedDebt(o.debt, price)
  IN  /\ debt > 0
      /\ LiqWeightedCollateral(o.coll, price) * Unit < debt * (Unit + margin)

-----------------------------------------------------------------------------
(* detect.rs *)

Least(x, y) == IF x < y THEN x ELSE y

\* The collateral that is worth the repayment and its bonus.
BonusWorth(repay, d, c, price) ==
  (repay * price[d] * (Unit + Bonus)) \div (price[c] * Unit)

\* Mutant: not capped at what the obligation has.
SeizedUncapped(repay, d, c, price, available) == BonusWorth(repay, d, c, price)

SeizedForRepay(repay, d, c, price, available) ==
  Least(BonusWorth(repay, d, c, price), available)

MaxRepay(o, d) == (o.debt[d] * CloseFactor) \div Unit

CachedPools(cached) == {p \in SwapPool : cached[p] # None}

Pair(p) == {CoinA[p], CoinB[p]}

\* The pools that come first for their pair, in some order of the cache's map.
Leading(cached) ==
  {lead \in SUBSET CachedPools(cached) :
     \A p \in CachedPools(cached) : Cardinality({q \in lead : Pair(q) = Pair(p)}) = 1}

\* The first pool that swaps collateral c to debt d, if any; its quote is not looked at.
FindSwapBack(lead, c, d) == {p \in lead : Pair(p) = {c, d}}

\* quote_exact_in on the pool as it is cached, with the ticks its feed loaded.
SwapBack(s, p, c, in) ==
  Clmm!QuoteExactIn(s.ticks, s.price, s.liq, FeePips, in, CoinA[p] = c)

\* What is made of a repayment that is swapped back to out; None when it is skipped.
Offer(d, c, p, repay, out) ==
  LET fee  == Fee!QuoteFeeBps(repay, FlashFeeBps)
      cost == repay + fee + GasCost
      net  == IF out > cost THEN out - cost ELSE 0
  IN  IF out = None \/ net < MinProfit THEN None
      ELSE [debt |-> d, coll |-> c, pool |-> p, repay |-> repay, out |-> out,
            fee |-> fee, net |-> net]

SwapSeized(s, p, c, seized) == IF seized = 0 THEN None ELSE SwapBack(s, p, c, seized)

\* One repay fraction.
SizeFraction(o, d, c, p, price, s, frac) ==
  LET repay == (MaxRepay(o, d) * frac) \div Unit
  IN  IF repay = 0 THEN None
      ELSE Offer(d, c, p, repay,
             SwapSeized(s, p, c, SeizedForRepay(repay, d, c, price, o.coll[c])))

\* Of the offers made for the fractions, the first of the best.
FirstBest(offers) ==
  LET made == {i \in DOMAIN offers : offers[i] # None}
  IN  IF made = {} THEN None
      ELSE offers[CHOOSE i \in made : \A j \in made :
             offers[j].net < offers[i].net \/ (offers[j].net = offers[i].net /\ i <= j)]

\* o.debt[d] and o.coll[c] are positions, s is pool p as cached.
SizeLiquidation(o, d, c, p, price, s) ==
  FirstBest([i \in DOMAIN Fractions |-> SizeFraction(o, d, c, p, price, s, Fractions[i])])

Best(opps) == {x \in opps : \A y \in opps : y.net <= x.net}

\* What detect_obligation may return: the best of the pairs of a debt and a collateral,
\* whichever comes first of equals, each sized on the pool that leads it and on no other.
DetectObligation(o, price, cached, lead) ==
  LET pairs == {x \in Priced(price) \X Priced(price) \X SwapPool :
                  /\ o.debt[x[1]] > 0 /\ o.coll[x[2]] > 0
                  /\ x[3] \in FindSwapBack(lead, x[2], x[1])}
  IN  IF IsLiquidatable(o, price, HealthMargin)
      THEN Best({SizeLiquidation(o, x[1], x[2], x[3], price, cached[x[3]]) : x \in pairs}
                \ {None})
      ELSE {}
=============================================================================
