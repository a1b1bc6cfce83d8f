-------------------------- MODULE LiquidationProofs --------------------------
(***************************************************************************)
(* Proofs about Liquidation, for every set of coins, obligations, pools    *)
(* and prices, every fee and fraction, and both ways the desk runs: its    *)
(* types, and that only a stale reading, the safety margin or the unit of  *)
(* the net can make a candidate fail its dry run.                          *)
(*                                                                         *)
(* The sizing is followed from the bottom: what a fee, a floor and a swap  *)
(* give; what one repay fraction, the best of the    *)
(* fractions and the best of the pairs give (Sized); and what the          *)
(* transaction makes of a candidate on the state it was sized on           *)
(* (ComputedExecutes).  The invariant carries Sized from the scan to the   *)
(* dry run, past everything that happens in between: a candidate holds the *)
(* entry, the prices and the pool it was computed from (Computed).  TypeOK *)
(* needs it too, a candidate's repay being at most the debt, and needs     *)
(* that the index knows only what was opened, for it is all re-read.       *)
(***************************************************************************)
EXTENDS Liquidation, DataLemmas, SequenceTheorems

-----------------------------------------------------------------------------
(* Rounding *)

\* What the assumptions say of the constants the arithmetic uses.
LEMMA Numbers ==
  /\ Q64 \in Nat \ {0} /\ PipsDenom \in Nat \ {0} /\ FeeDenom \in Nat \ {0}
  /\ MinSqrtPrice \in Nat \ {0} /\ MaxSqrtPrice \in Nat \ {0}
  /\ U64Max \in Nat /\ FeePips \in Nat /\ FlashFeeBps \in Nat
  /\ GasCost \in Nat /\ MinProfit \in Nat /\ Unit \in Nat \ {0} /\ Bonus \in Nat
  /\ CloseFactor \in 0 .. Unit /\ None \notin Nat
  /\ LenderFeeBps \in Nat /\ SlippageBps \in Nat /\ PythFee \in Nat
BY LiqAssumption, LiquidationAssumption

\* A quotient is at most k when k times the divisor covers the dividend.
LEMMA QuotientAtMost ==
  ASSUME NEW n \in Nat, NEW d \in Nat \ {0}, NEW k \in Nat, n <= k * d
  PROVE  n \div d <= k
<1>1. n \div d \in Nat /\ d * (n \div d) <= n
  BY QuotientBounds
<1>2. SUFFICES ASSUME k + 1 <= n \div d PROVE FALSE
  BY <1>1
<1>3. (k + 1) * d <= (n \div d) * d
  BY <1>1, <1>2, ProductGrowsWith
<1>4. (k + 1) * d = k * d + d /\ (n \div d) * d = d * (n \div d) /\ k * d \in Nat
  BY <1>1
<1> QED
  BY <1>1, <1>3, <1>4

\* Quotients grow with the dividend.
LEMMA QuotientGrows ==
  ASSUME NEW n \in Nat, NEW m \in Nat, NEW d \in Nat \ {0}, n <= m
  PROVE  n \div d <= m \div d
<1>1. m \div d \in Nat /\ m < d * (m \div d) + d
  BY QuotientBounds
<1>2. n \div d \in Nat /\ d * (n \div d) <= n
  BY QuotientBounds
<1>3. SUFFICES ASSUME m \div d + 1 <= n \div d PROVE FALSE
  BY <1>1, <1>2
<1>4. (m \div d + 1) * d <= (n \div d) * d
  BY <1>1, <1>2, <1>3, ProductGrowsWith
<1>5. (m \div d + 1) * d = d * (m \div d) + d /\ (n \div d) * d = d * (n \div d)
  BY <1>1, <1>2
<1> QED
  BY <1>1, <1>2, <1>4, <1>5

\* A flash fee is a natural number; up to 100 % it is the ceiling, which does not wrap.
LEMMA FeeIs ==
  ASSUME NEW in \in Nat, NEW bps \in Nat
  PROVE  /\ Fee!QuoteFeeBps(in, bps) \in Nat
         /\ in <= U64Max /\ bps <= FeeDenom
            => Fee!QuoteFeeBps(in, bps) = (in * bps + FeeDenom - 1) \div FeeDenom
<1> DEFINE D == FeeDenom
           n == in * bps
           c == n \div D + (IF n % D = 0 THEN 0 ELSE 1)
<1>1. D \in Nat \ {0} /\ U64Max \in Nat /\ n \in Nat
  BY Numbers
<1>2. n \div D \in Nat /\ c \in Nat /\ c = (n + D - 1) \div D
  <2> HIDE DEF n, D
  <2>1. n \div D \in Nat
    BY <1>1, QuotientBounds
  <2>2. c \in Nat
    BY <2>1
  <2>3. c = (n + D - 1) \div D
    BY <1>1, CeilingIs
  <2> QED
    BY <2>1, <2>2, <2>3
<1>3. Fee!QuoteFeeBps(in, bps) = c % (U64Max + 1)
  BY DEF Fee!QuoteFeeBps, Fee!Wrap64
<1>4. c % (U64Max + 1) \in Nat /\ (c < U64Max + 1 => c % (U64Max + 1) = c)
  BY <1>1, <1>2, RemainderBounds
<1>5. ASSUME in <= U64Max, bps <= FeeDenom PROVE c <= U64Max
  <2>1. n <= in * D
    BY <1>1, <1>5, ProductGrowsWith
  <2> DEFINE m == in * D + D - 1
  <2>2. in * D \in Nat /\ m \in Nat /\ n + D - 1 <= m /\ n + D - 1 \in Nat
    BY <1>1, <2>1
  <2>3. (n + D - 1) \div D <= m \div D
    BY <1>1, <2>2, QuotientGrows
  <2>4. m \div D \in Nat /\ D * (m \div D) <= m
    BY <1>1, <2>2, QuotientBounds
  <2>5. m \div D <= in
    <3>1. SUFFICES ASSUME in + 1 <= m \div D PROVE FALSE
      BY <2>4
    <3>2. (in + 1) * D <= (m \div D) * D
      BY <1>1, <2>4, <3>1, ProductGrowsWith
    <3>3. (in + 1) * D = in * D + D /\ (m \div D) * D = D * (m \div D)
      BY <1>1, <2>4
    <3> QED
      BY <1>1, <2>2, <2>4, <3>2, <3>3
  <2> QED
    BY <1>1, <1>2, <1>5, <2>3, <2>4, <2>5
<1> HIDE DEF c, n, D
<1> QED
  BY <1>1, <1>2, <1>3, <1>4, <1>5 DEF n, D

\* A lender that is no dearer charges no more.
LEMMA FeeGrows ==
  ASSUME NEW in \in 0 .. U64Max, NEW b \in Nat, NEW c \in Nat, b <= c, c <= FeeDenom
  PROVE  Fee!QuoteFeeBps(in, b) <= Fee!QuoteFeeBps(in, c)
<1>1. FeeDenom \in Nat \ {0} /\ in \in Nat /\ in <= U64Max /\ b <= FeeDenom
  BY Numbers
<1>2. in * b <= in * c /\ in * b \in Nat /\ in * c \in Nat
  BY <1>1, ProductGrowsWith
<1>3. in * b + FeeDenom - 1 \in Nat /\ in * c + FeeDenom - 1 \in Nat
      /\ in * b + FeeDenom - 1 <= in * c + FeeDenom - 1
  BY <1>1, <1>2
<1>4. (in * b + FeeDenom - 1) \div FeeDenom <= (in * c + FeeDenom - 1) \div FeeDenom
  BY <1>1, <1>3, QuotientGrows
<1> QED
  BY <1>1, <1>4, FeeIs

\* A slippage floor is at most what it is a floor for.
LEMMA FloorIsBelow ==
  ASSUME NEW out \in Nat, NEW bps \in Nat
  PROVE  Fee!ApplySlippageFloor(out, bps) \in Nat /\ Fee!ApplySlippageFloor(out, bps) <= out
<1> DEFINE D == FeeDenom
           keep == IF bps <= D THEN D - bps ELSE 0
           f == (out * keep) \div D
<1>1. D \in Nat \ {0} /\ keep \in Nat /\ keep <= D /\ U64Max \in Nat
  BY Numbers
<1>2. out * keep \in Nat /\ out * keep <= out * D
  BY <1>1, ProductGrowsWith
<1>3. f \in Nat /\ f <= out
  BY <1>1, <1>2, QuotientBounds, QuotientAtMost
<1>4. f % (U64Max + 1) \in Nat /\ f % (U64Max + 1) <= f
  <2> HIDE DEF f
  <2> QED
    BY <1>1, <1>3, RemainderBounds
<1>5. Fee!ApplySlippageFloor(out, bps) = f % (U64Max + 1)
  BY DEF Fee!ApplySlippageFloor, Fee!Wrap64
<1> QED
  BY <1>3, <1>4, <1>5

-----------------------------------------------------------------------------
(* What sizing returns *)

\* An obligation's amounts, and prices.
IsPosition(o) == o.coll \in [Coin -> 0 .. U64Max] /\ o.debt \in [Coin -> 0 .. U64Max]
ArePrices(price) == price \in [Coin -> (Nat \ {0}) \union {None}]

\* A swap is refused, or pays a u64, on whatever ticks.
LEMMA SwapPays ==
  ASSUME NEW s, NEW p, NEW c, NEW in, SwapBack(s, p, c, in) # None
  PROVE  SwapBack(s, p, c, in) \in Nat
<1>1. \A n : Clmm!FitsU64(n) # None => Clmm!FitsU64(n) \in Nat
  BY Numbers DEF Clmm!FitsU64
<1> QED
  BY <1>1, Zenon DEF SwapBack, Clmm!QuoteExactIn

\* x is what sizing makes for obligation o at these prices on pool state s.
Sized(o, price, s, x) ==
  /\ x.debt \in Coin /\ x.coll \in Coin /\ x.pool \in SwapPool
  /\ x.repay \in Nat \ {0} /\ x.repay <= MaxRepay(o, x.debt)
  /\ LET seized == SeizedForRepay(x.repay, x.debt, x.coll, price, o.coll[x.coll])
     IN  seized \in Nat \ {0} /\ x.out = SwapBack(s, x.pool, x.coll, seized)
  /\ x.out \in Nat /\ x.out # None /\ x.net \in Nat /\ x.net >= MinProfit
  /\ x.fee = Fee!QuoteFeeBps(x.repay, FlashFeeBps) /\ x.fee \in Nat
  /\ x.net > 0 => x.out = x.repay + x.fee + GasCost + x.net

\* The close factor takes part of a debt.
LEMMA MaxRepayIs ==
  ASSUME NEW o, IsPosition(o), NEW d \in Coin
  PROVE  /\ MaxRepay(o, d) \in Nat /\ MaxRepay(o, d) <= o.debt[d]
         /\ o.debt[d] \in Nat /\ o.debt[d] <= U64Max
<1>1. o.debt[d] \in Nat /\ o.debt[d] <= U64Max
  BY Numbers DEF IsPosition
<1>2. CloseFactor \in Nat /\ CloseFactor <= Unit /\ Unit \in Nat \ {0}
  BY Numbers
<1> DEFINE b == o.debt[d]
<1>3. b \in Nat
  BY <1>1
<1>4. MaxRepay(o, d) = (b * CloseFactor) \div Unit
  BY DEF MaxRepay
<1> HIDE DEF b
<1>5. b * CloseFactor \in Nat /\ b * CloseFactor <= b * Unit
  BY <1>2, <1>3, ProductGrowsWith
<1>6. (b * CloseFactor) \div Unit \in Nat /\ (b * CloseFactor) \div Unit <= b
  BY <1>2, <1>3, <1>5, QuotientBounds, QuotientAtMost
<1> QED
  BY <1>1, <1>4, <1>6 DEF b

\* A seizure is a natural number, of what the obligation has.
LEMMA SeizedIs ==
  ASSUME NEW repay \in Nat, NEW d \in Coin, NEW c \in Coin, NEW price,
         price[d] \in Nat \ {0}, price[c] \in Nat \ {0}, NEW available \in Nat
  PROVE  /\ BonusWorth(repay, d, c, price) \in Nat
         /\ SeizedForRepay(repay, d, c, price, available) \in 0 .. available
<1> DEFINE n == repay * price[d] * (Unit + Bonus)
           m == price[c] * Unit
<1>1. Unit \in Nat \ {0} /\ Bonus \in Nat
  BY Numbers
<1>2. n \in Nat
  BY <1>1
<1>3. m \in Nat \ {0}
  BY <1>1
<1>4. BonusWorth(repay, d, c, price) = n \div m
  BY DEF BonusWorth
<1> HIDE DEF n, m
<1>5. n \div m \in Nat
  BY <1>2, <1>3, QuotientBounds
<1> QED
  BY <1>4, <1>5 DEF SeizedForRepay, Least

\* What an offer is.
LEMMA OfferIs ==
  ASSUME NEW d, NEW c, NEW p, NEW repay \in Nat, NEW out, out # None => out \in Nat,
         Offer(d, c, p, repay, out) # None
  PROVE  LET x == Offer(d, c, p, repay, out)
         IN  /\ x.debt = d /\ x.coll = c /\ x.pool = p /\ x.repay = repay
             /\ x.out = out /\ x.out \in Nat /\ x.out # None
             /\ x.net \in Nat /\ x.net >= MinProfit
             /\ x.fee = Fee!QuoteFeeBps(x.repay, FlashFeeBps) /\ x.fee \in Nat
             /\ x.net > 0 => x.out = x.repay + x.fee + GasCost + x.net
<1> DEFINE fee  == Fee!QuoteFeeBps(repay, FlashFeeBps)
           cost == repay + fee + GasCost
           net  == IF out > cost THEN out - cost ELSE 0
           x    == Offer(d, c, p, repay, out)
<1>1. fee \in Nat /\ GasCost \in Nat /\ MinProfit \in Nat
  BY Numbers, FeeIs
<1>2. /\ out # None /\ ~(net < MinProfit)
      /\ x = [debt |-> d, coll |-> c, pool |-> p, repay |-> repay, out |-> out,
              fee |-> fee, net |-> net]
  BY DEF Offer
<1> HIDE DEF x, fee
<1>3. out \in Nat
  BY <1>2
<1>4. net \in Nat /\ net >= MinProfit /\ (net > 0 => out = repay + fee + GasCost + net)
  BY <1>1, <1>2, <1>3
<1> HIDE DEF net
<1>5. /\ x.debt = d /\ x.coll = c /\ x.pool = p /\ x.repay = repay /\ x.out = out
      /\ x.fee = fee /\ x.net = net
  BY <1>2
<1> QED
  BY <1>1, <1>2, <1>3, <1>4, <1>5 DEF fee, x

\* One repay fraction.
LEMMA FractionIs ==
  ASSUME NEW o, IsPosition(o), NEW d \in Coin, NEW c \in Coin, NEW p \in SwapPool, NEW price,
         price[d] \in Nat \ {0}, price[c] \in Nat \ {0}, NEW s,
         NEW frac \in 0 .. Unit, SizeFraction(o, d, c, p, price, s, frac) # None
  PROVE  LET x == SizeFraction(o, d, c, p, price, s, frac)
         IN  Sized(o, price, s, x) /\ x.debt = d /\ x.coll = c /\ x.pool = p
<1> DEFINE x == SizeFraction(o, d, c, p, price, s, frac)
           most == MaxRepay(o, d)
           repay == (most * frac) \div Unit
           seized == SeizedForRepay(repay, d, c, price, o.coll[c])
           out == SwapSeized(s, p, c, seized)
<1>1. most \in Nat /\ Unit \in Nat \ {0} /\ frac \in Nat /\ frac <= Unit
  BY Numbers, MaxRepayIs
<1>2. repay \in Nat /\ repay <= most
  <2> HIDE DEF most
  <2>1. most * frac \in Nat /\ most * frac <= most * Unit
    BY <1>1, ProductGrowsWith
  <2> QED
    BY <1>1, <2>1, QuotientBounds, QuotientAtMost
<1>3. repay # 0 /\ x = Offer(d, c, p, repay, out)
  BY DEF SizeFraction
<1>4. seized \in 0 .. o.coll[c] /\ o.coll[c] \in Nat
  <2>1. o.coll[c] \in Nat
    BY Numbers DEF IsPosition
  <2> QED
    BY <1>2, <2>1, SeizedIs
<1> HIDE DEF x, repay, most
<1>5. out # None => seized \in Nat \ {0} /\ out = SwapBack(s, p, c, seized)
  <2> HIDE DEF seized
  <2> QED
    BY <1>4 DEF SwapSeized
<1>6. out # None => out \in Nat
  <2> HIDE DEF seized
  <2> QED
    BY <1>5, SwapPays
<1> HIDE DEF seized, out
<1>7. /\ x.debt = d /\ x.coll = c /\ x.pool = p /\ x.repay = repay
      /\ x.out = out /\ x.out \in Nat /\ x.out # None
      /\ x.net \in Nat /\ x.net >= MinProfit
      /\ x.fee = Fee!QuoteFeeBps(x.repay, FlashFeeBps) /\ x.fee \in Nat
      /\ x.net > 0 => x.out = x.repay + x.fee + GasCost + x.net
  <2>1. Offer(d, c, p, repay, out) # None
    BY <1>3 DEF x
  <2> QED
    BY <1>2, <1>3, <1>6, <2>1, OfferIs
<1>8. x.repay \in Nat \ {0} /\ x.repay <= MaxRepay(o, x.debt)
  BY <1>2, <1>3, <1>7 DEF most
<1>9. LET n == SeizedForRepay(x.repay, x.debt, x.coll, price, o.coll[x.coll])
      IN  n \in Nat \ {0} /\ x.out = SwapBack(s, x.pool, x.coll, n)
  <2>1. SeizedForRepay(x.repay, x.debt, x.coll, price, o.coll[x.coll]) = seized
    BY <1>7 DEF seized
  <2> QED
    BY <1>5, <1>7, <2>1
<1>10. Sized(o, price, s, x)
  BY <1>7, <1>8, <1>9, Zenon DEF Sized
<1> QED
  BY <1>7, <1>10 DEF x

\* The first of the best is one of the offers.
LEMMA FirstBestIs ==
  ASSUME NEW n \in Nat, NEW offers, DOMAIN offers = 1 .. n,
         \A i \in 1 .. n : offers[i] # None => offers[i].net \in Nat,
         FirstBest(offers) # None
  PROVE  \E i \in 1 .. n : offers[i] # None /\ FirstBest(offers) = offers[i]
<1> DEFINE made == {i \in DOMAIN offers : offers[i] # None}
           f == [i \in made |-> offers[i].net]
           Leads(i) == \A j \in made : offers[j].net < offers[i].net
                                       \/ (offers[j].net = offers[i].net /\ i <= j)
           first == CHOOSE i \in made : Leads(i)
<1>1. made # {} /\ FirstBest(offers) = offers[first]
  BY DEF FirstBest
<1>2. made \subseteq 1 .. n /\ made \subseteq Nat /\ IsFiniteSet(made)
  <2>1. made \subseteq 1 .. n
    OBVIOUS
  <2>2. IsFiniteSet(1 .. n)
    <3>1. 1 \in Int /\ n \in Int
      OBVIOUS
    <3> QED
      BY <3>1, FS_Interval, Zenon
  <2> QED
    BY <2>1, <2>2, FS_Subset
<1>3. \A i \in made : f[i] = offers[i].net /\ f[i] \in Int
  BY <1>2
<1>4. \E i \in made : Leads(i)
  <2> HIDE DEF f, made
  <2>1. \E i \in made : \A j \in made : f[j] < f[i] \/ (f[j] = f[i] /\ i <= j)
    BY <1>1, <1>2, <1>3, FirstGreatest
  <2> QED
    BY <1>3, <2>1
<1>5. first \in made
  <2> HIDE DEF made, Leads
  <2> QED
    BY <1>4
<1>6. offers[first] # None
  <2> HIDE DEF first
  <2> QED
    BY <1>5
<1> HIDE DEF first, f
<1> QED
  BY <1>1, <1>2, <1>5, <1>6

\* Over all fractions.
LEMMA SizeIs ==
  ASSUME NEW o, IsPosition(o), NEW d \in Coin, NEW c \in Coin, NEW p \in SwapPool, NEW price,
         price[d] \in Nat \ {0}, price[c] \in Nat \ {0}, NEW s,
         SizeLiquidation(o, d, c, p, price, s) # None
  PROVE  LET x == SizeLiquidation(o, d, c, p, price, s)
         IN  Sized(o, price, s, x) /\ x.debt = d /\ x.coll = c /\ x.pool = p
<1> DEFINE x == SizeLiquidation(o, d, c, p, price, s)
           offers == [i \in DOMAIN Fractions |-> SizeFraction(o, d, c, p, price, s, Fractions[i])]
           n == Len(Fractions)
           Fits(y) == Sized(o, price, s, y) /\ y.debt = d /\ y.coll = c /\ y.pool = p
<1>1. /\ n \in Nat /\ DOMAIN Fractions = 1 .. n
      /\ \A i \in 1 .. n : Fractions[i] \in 0 .. Unit
  <2>1. Fractions \in Seq(0 .. Unit)
    BY LiqAssumption
  <2> QED
    BY <2>1, LenProperties, ElementOfSeq
<1>2. DOMAIN offers = 1 .. n
  BY <1>1
<1>3. ASSUME NEW i \in 1 .. n, offers[i] # None PROVE Fits(offers[i])
  <2>1. offers[i] = SizeFraction(o, d, c, p, price, s, Fractions[i])
    BY <1>1
  <2> HIDE DEF offers
  <2>2. SizeFraction(o, d, c, p, price, s, Fractions[i]) # None
    BY <1>3, <2>1
  <2>3. Fits(SizeFraction(o, d, c, p, price, s, Fractions[i]))
    BY <1>1, <2>2, FractionIs
  <2> HIDE DEF Fits
  <2> QED
    BY <2>1, <2>3
<1>4. x = FirstBest(offers)
  BY DEF SizeLiquidation
<1> HIDE DEF offers, x, n
<1>5. \A i \in 1 .. n : offers[i] # None => offers[i].net \in Nat
  BY <1>3 DEF Sized
<1>6. x # None
  BY DEF x
<1>7. \E i \in 1 .. n : offers[i] # None /\ x = offers[i]
  <2>1. n \in Nat
    BY <1>1
  <2> QED
    BY <1>2, <1>4, <1>5, <1>6, <2>1, FirstBestIs
<1>8. Fits(x)
  <2> HIDE DEF Fits
  <2> QED
    BY <1>3, <1>7
<1> QED
  BY <1>8 DEF x

\* What detection may return.
LEMMA DetectIs ==
  ASSUME NEW o, IsPosition(o), NEW price, ArePrices(price),
         NEW C, NEW lead \in Leading(C), NEW x, x \in DetectObligation(o, price, C, lead)
  PROVE  Sized(o, price, C[x.pool], x) /\ C[x.pool] # None
<1> DEFINE pairs == {y \in Priced(price) \X Priced(price) \X SwapPool :
                       /\ o.debt[y[1]] > 0 /\ o.coll[y[2]] > 0
                       /\ y[3] \in FindSwapBack(lead, y[2], y[1])}
           sizes == {SizeLiquidation(o, y[1], y[2], y[3], price, C[y[3]]) : y \in pairs}
<1>1. x \in sizes /\ x # None
  BY DEF DetectObligation, Best
<1>2. PICK y \in pairs : x = SizeLiquidation(o, y[1], y[2], y[3], price, C[y[3]])
  BY <1>1
<1> DEFINE d == y[1]
           c == y[2]
           p == y[3]
<1>3. /\ d \in Priced(price) /\ c \in Priced(price) /\ p \in SwapPool
      /\ p \in FindSwapBack(lead, c, d)
  OBVIOUS
<1>4. x = SizeLiquidation(o, d, c, p, price, C[p])
  BY <1>2
<1> HIDE DEF d, c, p
<1>5. d \in Coin /\ c \in Coin /\ price[d] \in Nat \ {0} /\ price[c] \in Nat \ {0}
  BY <1>3 DEF Priced, ArePrices
<1>6. C[p] # None
  BY <1>3 DEF FindSwapBack, Leading, CachedPools
<1>7. SizeLiquidation(o, d, c, p, price, C[p]) # None
  BY <1>1, <1>4
<1>8. Sized(o, price, C[p], x) /\ x.pool = p
  <2> DEFINE z == SizeLiquidation(o, d, c, p, price, C[p])
  <2>1. Sized(o, price, C[p], z) /\ z.pool = p
    BY <1>3, <1>5, <1>6, <1>7, SizeIs
  <2> HIDE DEF z
  <2>2. x = z
    BY <1>4 DEF z
  <2> QED
    BY <2>1, <2>2
<1> QED
  BY <1>6, <1>8

-----------------------------------------------------------------------------
(* A candidate on the state it was sized on *)

\* A candidate holds an entry of the index and what sizing made of it.
Computed(x) ==
  /\ x.ob \in Obligation /\ x.entry \in Entry /\ x.pool \in CachedStates
  /\ Sized(x.entry, x.price, x.pool, x.opp)

\* Indexed amounts are amounts.
LEMMA EntryIs ==
  ASSUME NEW e \in Entry
  PROVE  IsPosition(e)
<1>1. \A p \in Positions : p.coll \in [Coin -> 0 .. U64Max] /\ p.debt \in [Coin -> 0 .. U64Max]
  BY ObligationsAssumption
<1>2. NoPosition \in [Coin -> 0 .. U64Max]
  BY Numbers DEF NoPosition
<1>3. \A b \in Balances("coll") : b \in [Coin -> 0 .. U64Max]
  BY <1>1, <1>2 DEF Balances
<1>4. \A b \in Balances("debt") : b \in [Coin -> 0 .. U64Max]
  BY <1>1, <1>2 DEF Balances
<1> QED
  BY <1>3, <1>4 DEF Entry, IsPosition

\* On such a state the transaction repays, seizes and receives what was computed.
LEMMA ProceedsAre ==
  ASSUME Computed(cand), Fresh, IsLiquidatable(ob[cand.ob], Effective, 0)
  PROVE  Proceeds = Opp.out
<1> DEFINE x == Opp
           o == cand.entry
           v == cand.pool
           s == pools[x.pool]
           price == Effective
           seized == SeizedForRepay(x.repay, x.debt, x.coll, price, o.coll[x.coll])
<1>1. /\ o = ob[cand.ob] /\ cand.price = price
      /\ v.price = s.price /\ v.liq = s.liq
      /\ SwapOnChain(seized) = SwapBack(v, x.pool, x.coll, seized)
  BY DEF Fresh
<1>2. /\ o \in Entry /\ Sized(o, price, v, x)
  BY <1>1 DEF Computed, Opp
<1>3. IsPosition(o)
  BY <1>2, EntryIs
<1>4. /\ x.debt \in Coin /\ x.repay \in Nat \ {0} /\ x.repay <= MaxRepay(o, x.debt)
      /\ seized \in Nat \ {0} /\ x.out = SwapBack(v, x.pool, x.coll, seized)
      /\ x.out \in Nat /\ x.out # None
  BY <1>2, Zenon DEF Sized
<1>5. SwapOnChain(seized) = x.out
  BY <1>1, <1>4, Zenon
<1> HIDE DEF x, o, v, s, price
<1>6. Used = x.repay
  <2>1. MaxRepay(o, x.debt) \in Nat
    BY <1>3, <1>4, MaxRepayIs
  <2>2. Used = Least(x.repay, MaxRepay(o, x.debt))
    BY <1>1 DEF Used, x
  <2> QED
    BY <1>4, <2>1, <2>2 DEF Least
<1>7. Seized(price) = seized
  BY <1>1, <1>6 DEF Seized, SeizedForRepay, x
<1> HIDE DEF seized
<1>8. Seized(price) > 0
  BY <1>4, <1>7
<1>9. Proceeds = Merged(SwapOnChain(Seized(price)))
  BY <1>8 DEF Proceeds, price
<1>10. Proceeds = Merged(x.out)
  BY <1>5, <1>7, <1>9
<1>11. Merged(x.out) = x.out + x.repay - Used
  <2>1. x.out >= Fee!ApplySlippageFloor(x.out, SlippageBps)
    BY <1>4, Numbers, FloorIsBelow
  <2>2. Merged(x.out) = IF x.out # None /\ x.out >= Fee!ApplySlippageFloor(x.out, SlippageBps)
                        THEN x.out + x.repay - Used ELSE None
    BY DEF Merged, x
  <2> QED
    BY <1>4, <2>1, <2>2
<1>12. Proceeds = x.out
  BY <1>4, <1>6, <1>10, <1>11
<1> QED
  BY <1>12 DEF x

\* Such proceeds settle, and the bot's gate passes them in the base token only.
LEMMA ComputedExecutes ==
  ASSUME Computed(cand), Fresh, IsLiquidatable(ob[cand.ob], Effective, 0),
         NEW gas \in Nat, gas + 2 * PythFee <= GasCost,
         LenderFeeBps <= FlashFeeBps, FlashFeeBps <= FeeDenom, MinProfit > 0
  PROVE  VerdictOn(Proceeds, gas) =
           IF mode = "validator" THEN "ok" ELSE IF Opp.debt = Base THEN "clears" ELSE "below"
<1> DEFINE x == Opp
           out == x.out
           repay == x.repay
           fee == x.fee
           net == x.net
           lent == Fee!QuoteFeeBps(repay, LenderFeeBps)
<1>1. Proceeds = out
  BY ProceedsAre
<1>2. cand.entry \in Entry /\ Sized(cand.entry, cand.price, cand.pool, x)
  BY DEF Computed, Opp
<1>3. /\ x.debt \in Coin /\ repay \in Nat \ {0} /\ repay <= MaxRepay(cand.entry, x.debt)
      /\ out \in Nat /\ out # None /\ net \in Nat /\ net >= MinProfit /\ fee \in Nat
      /\ fee = Fee!QuoteFeeBps(repay, FlashFeeBps)
      /\ net > 0 => out = repay + fee + GasCost + net
  BY <1>2, Zenon DEF Sized
<1>4. repay \in 0 .. U64Max
  <2>1. /\ MaxRepay(cand.entry, x.debt) \in Nat
        /\ MaxRepay(cand.entry, x.debt) <= cand.entry.debt[x.debt]
        /\ cand.entry.debt[x.debt] \in Nat /\ cand.entry.debt[x.debt] <= U64Max
    BY <1>2, <1>3, EntryIs, MaxRepayIs
  <2> QED
    BY <1>3, <2>1, Numbers
<1>5. RepayTotal = repay + fee
  BY <1>3 DEF RepayTotal
<1> HIDE DEF x, out, repay, fee, net
<1>6. lent <= fee /\ lent \in Nat
  BY <1>3, <1>4, Numbers, FeeGrows, FeeIs
<1> HIDE DEF lent
<1>7. GasCost \in Nat /\ MinProfit \in Nat /\ PythFee \in Nat /\ MinProfit # 0
  BY Numbers
<1>8. out = repay + fee + GasCost + net
  BY <1>3, <1>7
<1>9. Settles(out)
  <2>1. out >= repay + MinProfit /\ out >= repay + fee /\ repay + fee >= repay + lent
    BY <1>3, <1>6, <1>7, <1>8
  <2> QED
    BY <1>3, <1>5, <2>1 DEF Settles, x, repay, lent
<1>10. NetBase(out, gas) = (IF x.debt = Base THEN out - (repay + fee) ELSE 0)
                           - (IF BaseIsSui THEN gas + 2 * PythFee ELSE 0)
  BY <1>5 DEF NetBase, x
<1>11. CASE x.debt = Base
  <2>1. ~(NetBase(out, gas) < MinProfit)
    <3>1. CASE BaseIsSui
      BY <1>3, <1>7, <1>8, <1>10, <1>11, <3>1
    <3>2. CASE ~BaseIsSui
      BY <1>3, <1>7, <1>8, <1>10, <1>11, <3>2
    <3> QED
      BY <3>1, <3>2
  <2> QED
    BY <1>1, <1>9, <1>11, <2>1 DEF VerdictOn, BotVerdict, x
<1>12. CASE x.debt # Base
  <2>1. NetBase(out, gas) < MinProfit
    <3>1. CASE BaseIsSui
      BY <1>7, <1>10, <1>12, <3>1
    <3>2. CASE ~BaseIsSui
      BY <1>7, <1>10, <1>12, <3>2
    <3> QED
      BY <3>1, <3>2
  <2> QED
    BY <1>1, <1>9, <1>12, <2>1 DEF VerdictOn, BotVerdict, x
<1> QED
  BY <1>11, <1>12

-----------------------------------------------------------------------------
(* The invariant *)

\* What the task knows was opened.
KnownWereOpened == Known \subseteq Range(opened)

\* Every candidate was computed; the bot's scan leaves one.
DeskInv ==
  /\ \A x \in list : Computed(x)
  /\ cand # None => Computed(cand)
  /\ mode = "bot" => list = {} \/ \E x : list = {x}

\* TypeOK without the index and without what DeskInv says of the candidates.
PlainTypeOK ==
  /\ now \in Time /\ posted \in [Coin -> 1 .. now] /\ pools \in [SwapPool -> PoolStates]
  /\ params \in [Coin -> (1 .. now) \union {None}]
  /\ fetched \in Seq((1 .. now) \union {None}) /\ Len(fetched) < Len(Metas)
  /\ cached \in [SwapPool -> CachedStates \union {None}]
  /\ mode \in {"bot", "validator"} /\ verdict \in Verdict
  /\ blob \in (1 .. now) \union {None} /\ (blob # None => cand # None)
  /\ validated \in [Obligation -> Nat \union {None}]

\* The inductive invariant.
LiqInv == ObligationsTypeOK /\ KnownWereOpened /\ PlainTypeOK /\ DeskInv

\* A computed candidate is one.
LEMMA ComputedIs ==
  ASSUME NEW x, Computed(x)
  PROVE  IsCandidate(x)
<1> DEFINE y == x.opp
<1>1. /\ x.ob \in Obligation /\ x.entry \in Entry /\ x.pool \in CachedStates
      /\ Sized(x.entry, x.price, x.pool, y)
  BY DEF Computed
<1>2. /\ y.debt \in Coin /\ y.pool \in SwapPool
      /\ y.repay \in Nat /\ y.repay <= MaxRepay(x.entry, y.debt)
      /\ y.out \in Nat /\ y.fee \in Nat /\ y.net \in Nat /\ y.net >= MinProfit
  BY <1>1 DEF Sized
<1>3. y.repay <= x.entry.debt[y.debt]
  <2> HIDE DEF y
  <2>1. /\ MaxRepay(x.entry, y.debt) \in Nat
        /\ MaxRepay(x.entry, y.debt) <= x.entry.debt[y.debt] /\ x.entry.debt[y.debt] \in Nat
    BY <1>1, <1>2, EntryIs, MaxRepayIs
  <2> QED
    BY <1>2, <2>1
<1> QED
  BY <1>1, <1>2, <1>3 DEF IsCandidate

\* The invariant gives the types.
LEMMA LiqInvTypes ==
  LiqInv => TypeOK
<1> SUFFICES ASSUME LiqInv PROVE TypeOK
  OBVIOUS
<1>1. \A x \in list : IsCandidate(x)
  BY ComputedIs DEF LiqInv, DeskInv
<1>2. cand # None => IsCandidate(cand)
  BY ComputedIs DEF LiqInv, DeskInv
<1>3. (mode = "bot") => Cardinality(list) <= 1
  <2> SUFFICES ASSUME mode = "bot" PROVE Cardinality(list) <= 1
    OBVIOUS
  <2>1. CASE list = {}
    BY <2>1, FS_EmptySet
  <2>2. ASSUME NEW x, list = {x} PROVE Cardinality(list) <= 1
    <3>1. Cardinality(list) = 1
      BY <2>2, FS_Singleton
    <3> QED
      BY <3>1
  <2> QED
    BY <2>1, <2>2 DEF LiqInv, DeskInv
<1> QED
  BY <1>1, <1>2, <1>3 DEF LiqInv, PlainTypeOK, TypeOK

-----------------------------------------------------------------------------
(* The scan *)

\* Prices that were read are prices.
LEMMA AtParams ==
  ASSUME PlainTypeOK
  PROVE  ArePrices(At(params))
<1>1. ASSUME NEW c \in Coin, params[c] # None PROVE PriceAt[c][params[c]] \in Nat \ {0}
  <2>1. PriceAt[c] \in Seq(Nat \ {0}) /\ Len(PriceAt[c]) = Len(PriceAt[Base])
    BY LiquidationAssumption
  <2>2. params[c] \in 1 .. now /\ now \in 1 .. Len(PriceAt[Base])
    BY <1>1 DEF PlainTypeOK, Time
  <2>3. params[c] \in 1 .. Len(PriceAt[c])
    <3>1. Len(PriceAt[Base]) \in Nat
      BY <2>1, LenProperties
    <3> QED
      BY <2>1, <2>2, <3>1
  <2> QED
    BY <2>1, <2>3, ElementOfSeq
<1>2. \A c \in Coin : At(params)[c] = IF params[c] = None THEN None ELSE PriceAt[c][params[c]]
  BY DEF At
<1>3. \A c \in Coin : At(params)[c] \in (Nat \ {0}) \union {None}
  BY <1>1, <1>2
<1>4. At(params) = [c \in Coin |-> At(params)[c]]
  BY DEF At
<1> QED
  BY <1>3, <1>4 DEF ArePrices

\* What detection finds in the index is computed.
LEMMA CandidatesAre ==
  ASSUME ObligationsTypeOK, PlainTypeOK, NEW lead \in Leading(cached),
         NEW o \in Obligation, NEW x \in Candidates(o, lead)
  PROVE  Computed(x)
<1>1. index[o] # None /\ index[o] \in Entry
  BY DEF Candidates, ObligationsTypeOK
<1>2. PICK y \in DetectObligation(index[o], At(params), cached, lead) :
        x = [ob |-> o, opp |-> y, entry |-> index[o], price |-> At(params), pool |-> cached[y.pool]]
  BY <1>1 DEF Candidates
<1>3. \A p \in SwapPool : cached[p] # None => cached[p] \in CachedStates
  BY DEF PlainTypeOK
<1>4. Sized(index[o], At(params), cached[y.pool], y) /\ cached[y.pool] # None
  BY <1>1, EntryIs, AtParams, DetectIs
<1>5. y.pool \in SwapPool
  BY <1>4 DEF Sized
<1> QED
  BY <1>1, <1>2, <1>3, <1>4, <1>5 DEF Computed

\* And so is what a scan leaves.
LEMMA ScansAre ==
  ASSUME ObligationsTypeOK, PlainTypeOK, NEW s \in Scans, NEW x \in s
  PROVE  Computed(x)
<1>1. PICK lead \in Leading(cached) :
        s \in OneEach(UNION {Candidates(o, lead) : o \in Obligation})
  BY DEF Scans
<1>2. PICK o \in Obligation : x \in Candidates(o, lead)
  BY <1>1 DEF OneEach
<1> QED
  BY <1>2, CandidatesAre

-----------------------------------------------------------------------------
(* The index *)

\* What the index keeps.
IndexInv == ObligationsTypeOK /\ KnownWereOpened

\* A page of the events is of the events.
LEMMA PageIs ==
  ASSUME NEW s \in Seq(Obligation), NEW m \in Nat \ {0}, NEW n \in Nat, n <= Len(s)
  PROVE  Range(SubSeq(s, m, n)) \subseteq Range(s)
<1> DEFINE page == SubSeq(s, m, n)
<1>1. /\ Len(s) \in Nat /\ DOMAIN s = 1 .. Len(s)
  BY LenProperties
<1>2. \A i \in m .. n : i \in 1 .. Len(s)
  BY <1>1
<1>3. /\ page \in Seq(Obligation)
      /\ Len(page) = IF m <= n THEN n - m + 1 ELSE 0
      /\ \A i \in 1 .. Len(page) : page[i] = s[m + i - 1]
  BY <1>1, <1>2, SubSeqProperties
<1>4. Len(page) \in Nat /\ DOMAIN page = 1 .. Len(page)
  BY <1>3, LenProperties
<1>5. ASSUME NEW i \in DOMAIN page PROVE page[i] \in Range(s)
  <2> HIDE DEF page
  <2>1. i \in 1 .. Len(page) /\ m + i - 1 \in 1 .. Len(s)
    BY <1>1, <1>3, <1>4, <1>5
  <2> QED
    BY <1>1, <1>3, <2>1 DEF Range
<1> QED
  BY <1>5 DEF Range

\* The bounds are numbers.
LEMMA IndexBounds ==
  /\ SeedPage \in Nat \ {0} /\ RecentPage \in Nat \ {0}
  /\ MaxEvents \in Nat /\ MaxFailures \in Nat
  BY ObligationsAssumption

\* One more failing call.
LEMMA CallFailsKeeps ==
  ASSUME failures \in 0 .. MaxFailures, CallFails
  PROVE  failures' \in 0 .. MaxFailures
  BY IndexBounds DEF CallFails

\* One more change on chain.
LEMMA ChangeKeeps ==
  ASSUME changes \in 0 .. MaxEvents, failures \in 0 .. MaxFailures,
         Room, changes' = changes + 1
  PROVE  changes' \in 0 .. MaxEvents
  BY IndexBounds DEF Room

\* The next page of the history.
LEMMA SeedQueryKeeps ==
  ASSUME IndexInv, SeedQuery
  PROVE  IndexInv'
<1>1. /\ opened \in Seq(Obligation) /\ Len(opened) \in Nat /\ cursor \in 0 .. Len(opened)
  BY LenProperties DEF IndexInv, ObligationsTypeOK
<1>2. cursor' \in 0 .. Len(opened)
  BY <1>1, IndexBounds DEF SeedQuery, Least
<1>3. todo' \subseteq Range(opened)
  <2>1. cursor + 1 \in Nat \ {0} /\ cursor' \in Nat /\ cursor' <= Len(opened)
    BY <1>1, <1>2
  <2> QED
    BY <1>1, <2>1, PageIs DEF SeedQuery
<1>4. more' \in BOOLEAN /\ reading = None /\ phase # "dead"
  BY <1>1, <1>2 DEF SeedQuery, PhaseOver
<1> QED
  BY <1>2, <1>3, <1>4
  DEF SeedQuery, IndexInv, ObligationsTypeOK, KnownWereOpened, Known, chainObs

\* The history cannot be read.
LEMMA SeedFailsKeeps ==
  ASSUME IndexInv, SeedFails
  PROVE  IndexInv'
<1>1. failures' \in 0 .. MaxFailures
  BY CallFailsKeeps DEF SeedFails, IndexInv, ObligationsTypeOK
<1> QED
  BY <1>1 DEF SeedFails, IndexInv, ObligationsTypeOK, KnownWereOpened, Known, chainObs

\* The task starts, or exits.
LEMMA StartRunKeeps ==
  ASSUME IndexInv, StartRun
  PROVE  IndexInv'
<1>1. failures' \in 0 .. MaxFailures
  BY CallFailsKeeps DEF StartRun, IndexInv, ObligationsTypeOK
<1>2. phase' \in Phase /\ todo = {}
  BY DEF StartRun, Phase, PhaseOver
<1> QED
  BY <1>1, <1>2 DEF StartRun, IndexInv, ObligationsTypeOK, KnownWereOpened, Known, chainObs

\* The latest were opened.
LEMMA LatestWereOpened ==
  ASSUME ObligationsTypeOK
  PROVE  Latest \subseteq Range(opened)
<1> DEFINE n == Len(opened)
           k == Least(RecentPage, n)
<1>1. opened \in Seq(Obligation) /\ n \in Nat
  BY LenProperties DEF ObligationsTypeOK
<1>2. n - k + 1 \in Nat \ {0}
  BY <1>1, IndexBounds DEF Least
<1>3. Latest = Range(SubSeq(opened, n - k + 1, n))
  BY DEF Latest
<1> HIDE DEF k
<1> QED
  BY <1>1, <1>2, <1>3, PageIs

\* Discovery.
LEMMA DiscoverKeeps ==
  ASSUME IndexInv, Discover
  PROVE  IndexInv'
<1>1. failures' \in 0 .. MaxFailures
  BY CallFailsKeeps DEF Discover, IndexInv, ObligationsTypeOK
<1>2. todo' \subseteq Range(opened)
  BY LatestWereOpened DEF Discover, IndexInv
<1>3. phase' = "discover" /\ reading = None
  BY DEF Discover, PhaseOver
<1> QED
  BY <1>1, <1>2, <1>3
  DEF Discover, IndexInv, ObligationsTypeOK, KnownWereOpened, Known, chainObs, Phase

\* The re-reading of all it knows.
LEMMA ReconcileKeeps ==
  ASSUME IndexInv, Reconcile
  PROVE  IndexInv'
<1>1. todo' \subseteq Range(opened)
  BY DEF Reconcile, IndexInv, KnownWereOpened
<1>2. phase' = "reconcile" /\ reading = None
  BY DEF Reconcile, PhaseOver
<1> QED
  BY <1>1, <1>2
  DEF Reconcile, IndexInv, ObligationsTypeOK, KnownWereOpened, Known, chainObs, Phase

\* A position has balances.
LEMMA BalancesAre ==
  ASSUME ObligationsTypeOK, NEW o \in Obligation
  PROVE  /\ ob[o].coll \in Balances("coll") /\ NoPosition \in Balances("coll")
         /\ ob[o].debt \in Balances("debt") /\ NoPosition \in Balances("debt")
  BY DEF ObligationsTypeOK, Balances

\* The collaterals of an obligation.
LEMMA ReadCollateralsKeeps ==
  ASSUME IndexInv, NEW o \in Obligation, ReadCollaterals(o)
  PROVE  IndexInv'
<1>1. failures' \in 0 .. MaxFailures
  BY CallFailsKeeps DEF ReadCollaterals, IndexInv, ObligationsTypeOK
<1>2. reading' \in [id : todo, coll : Balances("coll")]
  BY BalancesAre DEF ReadCollaterals, IndexInv
<1> QED
  BY <1>1, <1>2
  DEF ReadCollaterals, IndexInv, ObligationsTypeOK, KnownWereOpened, Known, chainObs

\* An obligation that cannot be read.
LEMMA SkipObligationKeeps ==
  ASSUME IndexInv, NEW o \in Obligation, SkipObligation(o)
  PROVE  IndexInv'
<1>1. failures' \in 0 .. MaxFailures
  BY CallFailsKeeps DEF SkipObligation, IndexInv, ObligationsTypeOK
<1>2. todo' \subseteq todo /\ reading = None
  BY DEF SkipObligation
<1> QED
  BY <1>1, <1>2
  DEF SkipObligation, IndexInv, ObligationsTypeOK, KnownWereOpened, Known, chainObs

\* Its debts, and the entry.
LEMMA ReadDebtsKeeps ==
  ASSUME IndexInv, NEW o \in Obligation, ReadDebts(o)
  PROVE  IndexInv'
<1>1. failures' \in 0 .. MaxFailures
  BY CallFailsKeeps DEF ReadDebts, IndexInv, ObligationsTypeOK
<1>2. reading \in [id : todo, coll : Balances("coll")] /\ reading.id = o
  BY DEF ReadDebts, IndexInv, ObligationsTypeOK
<1>3. o \in Range(opened)
  BY <1>2 DEF IndexInv, ObligationsTypeOK
<1>4. PICK e \in Entry : index' = [index EXCEPT ![o] = e]
  <2>1. reading.coll \in Balances("coll")
    BY <1>2
  <2> QED
    BY <2>1, BalancesAre DEF ReadDebts, IndexInv, Entry
<1>5. index' \in [Obligation -> Entry \union {None}]
  BY <1>4 DEF IndexInv, ObligationsTypeOK
<1>6. Known' \subseteq Known \union {o}
  BY <1>4 DEF Known, IndexInv, ObligationsTypeOK
<1>7. todo' \subseteq todo /\ reading' = None
  BY DEF ReadDebts
<1>8. UNCHANGED <<opened, ob, changes, phase, cursor, more>>
  BY DEF ReadDebts, chainObs
<1>9. KnownWereOpened'
  BY <1>3, <1>6, <1>8 DEF IndexInv, KnownWereOpened
<1>10. ObligationsTypeOK'
  BY <1>1, <1>5, <1>7, <1>8 DEF IndexInv, ObligationsTypeOK
<1> QED
  BY <1>9, <1>10 DEF IndexInv

\* A new obligation.
LEMMA OpenObligationKeeps ==
  ASSUME IndexInv, NEW o \in Obligation, OpenObligation(o)
  PROVE  IndexInv'
<1> DEFINE n == Len(opened)
<1>1. opened \in Seq(Obligation) /\ n \in Nat /\ DOMAIN opened = 1 .. n
  BY LenProperties DEF IndexInv, ObligationsTypeOK
<1>2. /\ opened' = Append(opened, o) /\ opened' \in Seq(Obligation) /\ Len(opened') = n + 1
      /\ DOMAIN opened' = 1 .. n + 1
      /\ opened'[n + 1] = o /\ \A i \in 1 .. n : opened'[i] = opened[i]
  <2>1. opened' = Append(opened, o)
    BY DEF OpenObligation
  <2>2. opened' \in Seq(Obligation) /\ Len(opened') = n + 1
    BY <1>1, <2>1, AppendProperties
  <2> QED
    BY <1>1, <2>1, <2>2, LenProperties, AppendProperties
<1>3. Range(opened) \subseteq Range(opened')
  BY <1>1, <1>2 DEF Range
<1>4. IsInjective(opened')
  <2>1. \A i \in 1 .. n : opened[i] # o
    BY <1>1 DEF OpenObligation, Range
  <2>2. \A i, j \in 1 .. n : opened[i] = opened[j] => i = j
    BY <1>1 DEF IndexInv, ObligationsTypeOK, IsInjective
  <2>3. ASSUME NEW i \in 1 .. n + 1, NEW j \in 1 .. n + 1, opened'[i] = opened'[j]
        PROVE  i = j
    <3>1. CASE i \in 1 .. n /\ j \in 1 .. n
      BY <1>2, <2>2, <2>3, <3>1
    <3>2. CASE i = n + 1 /\ j \in 1 .. n
      BY <1>2, <2>1, <2>3, <3>2
    <3>3. CASE i \in 1 .. n /\ j = n + 1
      BY <1>2, <2>1, <2>3, <3>3
    <3> QED
      BY <1>1, <3>1, <3>2, <3>3
  <2> QED
    BY <1>2, <2>3, Zenon DEF IsInjective
<1>5. changes' \in 0 .. MaxEvents
  BY ChangeKeeps DEF OpenObligation, IndexInv, ObligationsTypeOK
<1>6. cursor \in 0 .. Len(opened')
  BY <1>1, <1>2 DEF IndexInv, ObligationsTypeOK
<1>7. UNCHANGED <<ob, index, phase, cursor, more, todo, reading, failures>>
  BY DEF OpenObligation, indexVars
<1>8. KnownWereOpened'
  BY <1>3, <1>7 DEF IndexInv, KnownWereOpened, Known
<1>9. todo \subseteq Range(opened')
  BY <1>3 DEF IndexInv, ObligationsTypeOK
<1>10. ObligationsTypeOK'
  BY <1>2, <1>4, <1>5, <1>6, <1>7, <1>9 DEF IndexInv, ObligationsTypeOK
<1> QED
  BY <1>8, <1>10 DEF IndexInv

\* A position that moves.
LEMMA MovePositionKeeps ==
  ASSUME IndexInv, NEW o \in Obligation, NEW p \in Positions, MovePosition(o, p)
  PROVE  IndexInv'
<1>1. changes' \in 0 .. MaxEvents
  BY ChangeKeeps DEF MovePosition, IndexInv, ObligationsTypeOK
<1>2. ob' \in [Obligation -> Positions]
  BY DEF MovePosition, IndexInv, ObligationsTypeOK
<1> QED
  BY <1>1, <1>2
  DEF MovePosition, IndexInv, ObligationsTypeOK, KnownWereOpened, Known, indexVars

\* What does not touch the index keeps it.
LEMMA IndexUntouched ==
  ASSUME IndexInv, UNCHANGED <<chainObs, indexVars>>,
         changes' \in 0 .. MaxEvents, failures' \in 0 .. MaxFailures
  PROVE  IndexInv'
  BY DEF IndexInv, ObligationsTypeOK, KnownWereOpened, Known, chainObs, indexVars

\* Every step of the index, and of the positions.
LEMMA IndexStepKeeps ==
  ASSUME IndexInv, IndexStep \/ PositionStep
  PROVE  IndexInv'
<1>1. CASE IndexStep
  BY <1>1, SeedQueryKeeps, SeedFailsKeeps, StartRunKeeps, DiscoverKeeps, ReconcileKeeps,
     ReadCollateralsKeeps, SkipObligationKeeps, ReadDebtsKeeps DEF IndexStep
<1>2. CASE PositionStep
  BY <1>2, OpenObligationKeeps, MovePositionKeeps DEF PositionStep
<1> QED
  BY <1>1, <1>2

-----------------------------------------------------------------------------
(* Initial states *)

\* Time has a first moment, and goes on in whole steps.
LEMMA Times ==
  /\ Len(PriceAt[Base]) \in Nat \ {0} /\ Time \subseteq Nat \ {0} /\ 1 \in Time
<1>1. Len(PriceAt[Base]) \in Nat \ {0}
  <2>1. PriceAt[Base] \in Seq(Nat \ {0}) /\ PriceAt[Base] # <<>>
    BY LiquidationAssumption
  <2> QED
    BY <2>1, EmptySeq
<1> QED
  BY <1>1 DEF Time

\* There is a coin to read the price of.
LEMMA SomeMeta ==
  /\ Metas \in Seq(Coin) /\ Len(Metas) \in Nat \ {0}
  /\ \A i \in 1 .. Len(Metas) : Metas[i] \in Coin
<1>1. Metas \in Seq(Coin) /\ Metas # <<>>
  BY LiquidationAssumption
<1>2. Len(Metas) \in Nat \ {0}
  BY <1>1, EmptySeq
<1> QED
  BY <1>1, <1>2, ElementOfSeq

\* The invariant holds at the start.
LEMMA LiqInit ==
  Init => LiqInv
<1> SUFFICES ASSUME Init PROVE LiqInv
  OBVIOUS
<1>1. ObligationsTypeOK
  <2>1. opened \in Seq(Obligation) /\ IsInjective(opened)
    BY ObligationsAssumption DEF Init, ObligationsInit
  <2>2. Len(opened) \in Nat
    BY <2>1, LenProperties
  <2> QED
    BY <2>1, <2>2, ObligationsAssumption, IndexBounds
    DEF Init, ObligationsInit, ObligationsTypeOK, Phase
<1>2. KnownWereOpened
  BY DEF Init, ObligationsInit, KnownWereOpened, Known
<1>3. PlainTypeOK
  <2>1. fetched \in Seq((1 .. now) \union {None}) /\ Len(fetched) < Len(Metas)
    BY SomeMeta, EmptySeq DEF Init
  <2>2. pools \in [SwapPool -> PoolStates]
    BY LiquidationAssumption DEF Init
  <2> QED
    BY <2>1, <2>2, Times DEF Init, PlainTypeOK, Verdict
<1>4. DeskInv
  BY DEF Init, DeskInv
<1> QED
  BY <1>1, <1>2, <1>3, <1>4 DEF LiqInv

-----------------------------------------------------------------------------
(* The prices, the pools and the desk *)

\* The numbers of the index stay in their bounds.
LEMMA Bounds ==
  ASSUME IndexInv
  PROVE  changes \in 0 .. MaxEvents /\ failures \in 0 .. MaxFailures
  BY DEF IndexInv, ObligationsTypeOK

\* Pyth has later prices.
LEMMA PriceMovesKeeps ==
  ASSUME LiqInv, PriceMoves
  PROVE  LiqInv'
<1>1. now \in Nat /\ now' = now + 1 /\ now' \in Time
  BY Times DEF PriceMoves, LiqInv, PlainTypeOK
<1>2. 1 .. now \subseteq 1 .. now'
  BY <1>1
<1>3. changes' \in 0 .. MaxEvents
  BY ChangeKeeps, Bounds DEF PriceMoves, LiqInv, IndexInv
<1>4. UNCHANGED <<posted, pools, chainObs, indexVars, failures, priceVars, cached, mode, deskVars>>
  BY DEF PriceMoves
<1>5. IndexInv'
  BY <1>3, <1>4, IndexUntouched, Bounds DEF LiqInv, IndexInv
<1>6. fetched \in Seq((1 .. now') \union {None})
  <2>1. \A i \in 1 .. Len(fetched) : fetched[i] \in (1 .. now') \union {None}
    <3>1. fetched \in Seq((1 .. now) \union {None})
      BY DEF LiqInv, PlainTypeOK
    <3> QED
      BY <1>2, <3>1, ElementOfSeq
  <2>2. fetched \in Seq((1 .. now) \union {None})
    BY DEF LiqInv, PlainTypeOK
  <2>3. fetched = [i \in 1 .. Len(fetched) |-> fetched[i]] /\ Len(fetched) \in Nat
    BY <2>2, LenProperties
  <2> QED
    BY <2>1, <2>3, IsASeq
<1>7. PlainTypeOK'
  BY <1>1, <1>2, <1>4, <1>6 DEF LiqInv, PlainTypeOK, priceVars, deskVars
<1>8. DeskInv'
  BY <1>4 DEF LiqInv, DeskInv, deskVars, Computed
<1> QED
  BY <1>5, <1>7, <1>8 DEF LiqInv, IndexInv

\* A price is posted.
LEMMA PostPriceKeeps ==
  ASSUME LiqInv, NEW c \in Coin, PostPrice(c)
  PROVE  LiqInv'
<1>1. posted' \in [Coin -> 1 .. now]
  BY Times DEF PostPrice, LiqInv, PlainTypeOK
<1>2. UNCHANGED <<now, pools, obVars, priceVars, cached, mode, deskVars>>
  BY DEF PostPrice
<1>3. IndexInv'
  BY <1>2, IndexUntouched, Bounds DEF LiqInv, IndexInv, obVars
<1>4. PlainTypeOK'
  BY <1>1, <1>2 DEF LiqInv, PlainTypeOK, priceVars, deskVars
<1>5. DeskInv'
  BY <1>2 DEF LiqInv, DeskInv, deskVars, Computed
<1> QED
  BY <1>3, <1>4, <1>5 DEF LiqInv, IndexInv

\* A pool changes on chain.
LEMMA TradePoolKeeps ==
  ASSUME LiqInv, NEW p \in SwapPool, NEW s \in PoolStates, TradePool(p, s)
  PROVE  LiqInv'
<1>1. pools' \in [SwapPool -> PoolStates] /\ changes' \in 0 .. MaxEvents
  BY ChangeKeeps, Bounds DEF TradePool, LiqInv, IndexInv, PlainTypeOK
<1>2. UNCHANGED <<now, posted, chainObs, indexVars, failures, priceVars, cached, mode, deskVars>>
  BY DEF TradePool
<1>3. IndexInv'
  BY <1>1, <1>2, IndexUntouched, Bounds DEF LiqInv, IndexInv
<1>4. PlainTypeOK'
  BY <1>1, <1>2 DEF LiqInv, PlainTypeOK, priceVars, deskVars
<1>5. DeskInv'
  BY <1>2 DEF LiqInv, DeskInv, deskVars, Computed
<1> QED
  BY <1>3, <1>4, <1>5 DEF LiqInv, IndexInv

\* The feed reads a pool.
LEMMA CachePoolKeeps ==
  ASSUME LiqInv, NEW p \in SwapPool, CachePool(p)
  PROVE  LiqInv'
<1>1. cached' \in [SwapPool -> CachedStates \union {None}]
  <2>1. pools[p] \in PoolStates /\ {} \in TickWindows
    BY LiquidationAssumption DEF LiqInv, PlainTypeOK
  <2>2. WithTicks(pools[p], TickWindows) \subseteq CachedStates
    BY <2>1 DEF CachedStates
  <2>3. WithTicks(pools[p], {{}}) \subseteq WithTicks(pools[p], TickWindows)
    BY <2>1 DEF WithTicks
  <2>4. Readings(p) \subseteq CachedStates \union {None}
    BY <2>2, <2>3 DEF Readings
  <2> QED
    BY <2>4 DEF CachePool, LiqInv, PlainTypeOK
<1>2. UNCHANGED <<obVars, chainVars, priceVars, mode, deskVars>>
  BY DEF CachePool
<1>3. IndexInv'
  BY <1>2, IndexUntouched, Bounds DEF LiqInv, IndexInv, obVars
<1>4. PlainTypeOK'
  BY <1>1, <1>2 DEF LiqInv, PlainTypeOK, chainVars, priceVars, deskVars
<1>5. DeskInv'
  BY <1>2 DEF LiqInv, DeskInv, deskVars, Computed
<1> QED
  BY <1>3, <1>4, <1>5 DEF LiqInv, IndexInv

\* A price is read, the last one with the map.
LEMMA ReadPriceKeeps ==
  ASSUME LiqInv, ReadPrice
  PROVE  LiqInv'
<1> DEFINE S == (1 .. now) \union {None}
           n == Len(fetched) + 1
<1>1. fetched \in Seq(S) /\ Len(fetched) \in Nat /\ Len(fetched) < Len(Metas)
  BY LenProperties DEF LiqInv, PlainTypeOK
<1>2. Metas[n] \in Coin
  BY <1>1, SomeMeta
<1>3. PICK t \in {posted[Metas[n]], None} :
        /\ IF t = None THEN CallFails ELSE UNCHANGED failures
        /\ IF Len(Append(fetched, t)) < Len(Metas)
           THEN fetched' = Append(fetched, t) /\ UNCHANGED params
           ELSE /\ fetched' = <<>>
                /\ params' = IF Range(Append(fetched, t)) = {None} THEN params
                             ELSE Refreshed(Append(fetched, t))
        /\ UNCHANGED <<chainObs, changes, indexVars, chainVars, cached, mode, deskVars>>
  BY DEF ReadPrice
<1>4. t \in S
  BY <1>2 DEF LiqInv, PlainTypeOK
<1> DEFINE read == Append(fetched, t)
<1>5. read \in Seq(S) /\ Len(read) = n
  BY <1>1, <1>4, AppendProperties
<1>6. Refreshed(read) \in [Coin -> S]
  <2>1. \A i \in DOMAIN read : read[i] \in S
    BY <1>5, LenProperties, ElementOfSeq
  <2> HIDE DEF read, S
  <2>2. ASSUME NEW c \in Coin, \E i \in DOMAIN read : Metas[i] = c
        PROVE  read[CHOOSE i \in DOMAIN read : Metas[i] = c] \in S
    BY <2>1, <2>2
  <2>3. None \in S
    BY DEF S
  <2> QED
    BY <2>2, <2>3 DEF Refreshed
<1>7. UNCHANGED <<chainObs, changes, indexVars, chainVars, cached, mode, deskVars>>
  BY <1>3
<1>8. fetched' \in Seq(S) /\ Len(fetched') < Len(Metas)
  <2>1. CASE Len(read) < Len(Metas)
    BY <1>3, <1>5, <2>1
  <2>2. CASE ~(Len(read) < Len(Metas))
    <3>1. fetched' = <<>>
      BY <1>3, <2>2
    <3> QED
      BY <3>1, SomeMeta, EmptySeq
  <2> QED
    BY <2>1, <2>2
<1>9. params' \in [Coin -> S]
  <2>1. params \in [Coin -> S]
    BY DEF LiqInv, PlainTypeOK
  <2> HIDE DEF S
  <2> QED
    BY <1>3, <1>6, <2>1
<1>10. failures' \in 0 .. MaxFailures
  BY <1>3, Bounds, CallFailsKeeps DEF LiqInv, IndexInv
<1>11. now' = now
  BY <1>7 DEF chainVars
<1>12. IndexInv'
  BY <1>7, <1>10, IndexUntouched, Bounds DEF LiqInv, IndexInv
<1>13. PlainTypeOK'
  BY <1>7, <1>8, <1>9, <1>11 DEF LiqInv, PlainTypeOK, chainVars, deskVars
<1>14. DeskInv'
  BY <1>7 DEF LiqInv, DeskInv, deskVars, Computed
<1> QED
  BY <1>12, <1>13, <1>14 DEF LiqInv, IndexInv

\* The desk's steps touch neither the index nor the chain.
LEMMA DeskKeepsRest ==
  ASSUME LiqInv, UNCHANGED <<obVars, chainVars, priceVars, cached, mode>>,
         DeskInv', verdict' \in Verdict,
         blob' \in (1 .. now) \union {None}, blob' # None => cand' # None,
         validated' \in [Obligation -> Nat \union {None}]
  PROVE  LiqInv'
<1>1. IndexInv'
  BY IndexUntouched, Bounds DEF LiqInv, IndexInv, obVars
<1>2. PlainTypeOK'
  BY DEF LiqInv, PlainTypeOK, chainVars, priceVars
<1> QED
  BY <1>1, <1>2 DEF LiqInv, IndexInv

\* A scan.
LEMMA ScanKeeps ==
  ASSUME LiqInv, Scan
  PROVE  LiqInv'
<1>1. UNCHANGED <<obVars, chainVars, priceVars, cached, mode, validated, cand, blob>>
      /\ verdict' = "none"
  BY DEF Scan
<1>2. PICK s \in Scans :
        list' \in IF mode = "validator" THEN {s}
                  ELSE {{x} : x \in {y \in s : \A z \in s : z.opp.net <= y.opp.net}}
  BY DEF Scan
<1>3. list' \subseteq s
  BY <1>2
<1>4. \A x \in list' : Computed(x)
  BY <1>3, ScansAre DEF LiqInv
<1>5. mode = "bot" => \E x : list' = {x}
  BY <1>2
<1>6. DeskInv'
  BY <1>1, <1>4, <1>5 DEF LiqInv, DeskInv, Computed
<1> QED
  BY <1>1, <1>6, DeskKeepsRest DEF LiqInv, PlainTypeOK, Verdict

\* A candidate is taken, or passed over.
LEMMA TakeCandidateKeeps ==
  ASSUME LiqInv, NEW x \in list, TakeCandidate(x)
  PROVE  LiqInv'
<1>1. /\ UNCHANGED <<obVars, chainVars, priceVars, cached, mode, blob>>
      /\ verdict' = "none" /\ list' = list \ {x} /\ cand = None /\ blob = None
      /\ cand' = x \/ cand' = cand
      /\ validated' = validated \/ validated' = [validated EXCEPT ![x.ob] = x.opp.repay]
  BY DEF TakeCandidate, LiqInv, PlainTypeOK
<1>2. Computed(x) /\ x.opp.repay \in Nat
  BY DEF LiqInv, DeskInv, Computed, Sized
<1>3. mode = "bot" => list' = {}
  BY <1>1 DEF LiqInv, DeskInv
<1>4. DeskInv'
  BY <1>1, <1>2, <1>3 DEF LiqInv, DeskInv, Computed
<1>5. validated' \in [Obligation -> Nat \union {None}]
  BY <1>1, <1>2 DEF LiqInv, PlainTypeOK
<1> QED
  BY <1>1, <1>4, <1>5, DeskKeepsRest DEF LiqInv, PlainTypeOK, Verdict

\* A verdict is given.
LEMMA GiveKeeps ==
  ASSUME LiqInv, NEW v \in Verdict, Give(v),
         UNCHANGED <<obVars, chainVars, priceVars, cached, mode, list, validated>>
  PROVE  LiqInv'
<1>1. DeskInv'
  BY DEF Give, LiqInv, DeskInv, Computed
<1> QED
  BY <1>1, DeskKeepsRest DEF Give, LiqInv, PlainTypeOK

\* The transaction is built.
LEMMA BuildKeeps ==
  ASSUME LiqInv, Build
  PROVE  LiqInv'
<1>1. /\ UNCHANGED <<obVars, chainVars, priceVars, cached, mode, list, validated, cand, verdict>>
      /\ blob' = now /\ cand # None
  BY DEF Build
<1>2. blob' \in 1 .. now
  BY <1>1, Times DEF LiqInv, PlainTypeOK
<1>3. DeskInv'
  BY <1>1 DEF LiqInv, DeskInv, Computed
<1> QED
  BY <1>1, <1>2, <1>3, DeskKeepsRest DEF LiqInv, PlainTypeOK

\* It cannot be built, or is dry-run.
LEMMA VerdictKeeps ==
  ASSUME LiqInv, BuildFails \/ \E gas \in GasUsed : DryRun(gas)
  PROVE  LiqInv'
<1>1. CASE BuildFails
  BY <1>1, GiveKeeps DEF BuildFails, Verdict
<1>2. ASSUME NEW gas \in GasUsed, DryRun(gas) PROVE LiqInv'
  <2>1. VerdictOn(Proceeds, gas) \in Verdict
    BY DEF VerdictOn, BotVerdict, Verdict
  <2> QED
    BY <1>2, <2>1, GiveKeeps DEF DryRun
<1> QED
  BY <1>1, <1>2

\* What the index task and the owners do leaves the desk alone.
LEMMA IndexKeeps ==
  ASSUME LiqInv, IndexStep \/ PositionStep, KeepsDesk
  PROVE  LiqInv'
<1>1. IndexInv'
  BY IndexStepKeeps DEF LiqInv, IndexInv
<1>2. PlainTypeOK' /\ DeskInv'
  BY DEF KeepsDesk, LiqInv, PlainTypeOK, DeskInv, Computed, chainVars, priceVars, deskVars
<1> QED
  BY <1>1, <1>2 DEF LiqInv, IndexInv

\* Every step keeps the invariant.
LEMMA LiqNext ==
  LiqInv /\ [Next]_vars => LiqInv'
<1> SUFFICES ASSUME LiqInv, [Next]_vars PROVE LiqInv'
  OBVIOUS
<1>1. CASE UNCHANGED vars
  <2>1. IndexInv'
    BY <1>1, IndexUntouched, Bounds DEF LiqInv, IndexInv, vars, obVars
  <2>2. PlainTypeOK' /\ DeskInv'
    BY <1>1 DEF LiqInv, PlainTypeOK, DeskInv, Computed, vars, chainVars, priceVars, deskVars
  <2> QED
    BY <2>1, <2>2 DEF LiqInv, IndexInv
<1>2. CASE Next
  BY <1>2, IndexKeeps, PriceMovesKeeps, PostPriceKeeps, CachePoolKeeps, TradePoolKeeps,
     ReadPriceKeeps, ScanKeeps, TakeCandidateKeeps, BuildKeeps, VerdictKeeps DEF Next
<1> QED
  BY <1>1, <1>2

-----------------------------------------------------------------------------
(* The theorems *)

\* The invariant holds in every reachable state.
LEMMA LiqInvHolds ==
  Spec => []LiqInv
<1> QED
  BY LiqInit, LiqNext, PTL DEF Spec

\* Type correctness of the liquidation desk and its index: among the rest, a candidate
\* never repays more than the debt it was sized on (detect.rs), the bot never has two at
\* hand, and what the index is still to read was opened on chain (index.rs).
THEOREM LiquidationTypeCorrect ==
  Spec => []TypeOK
<1> QED
  BY LiqInvHolds, LiqInvTypes, PTL

\* A candidate that is dry-run on the state it was sized on executes, and the bot's gate
\* passes it exactly when the debt is the base token: detect.rs, ptb.rs and executor.rs
\* agree, for every price, position, pool and configured fee up to 100 %.
THEOREM FailuresAreStale ==
  ASSUME FlashFeeBps <= FeeDenom
  PROVE  Spec => FailsOnlyIfStale
<1> DEFINE Right ==
      \A gas \in GasUsed :
      (/\ cand # None /\ cand' = None /\ blob # None
       /\ Fresh /\ IsLiquidatable(ob[cand.ob], Effective, 0)
       /\ DryRun(gas)
       /\ gas + 2 * PythFee <= GasCost
       /\ LenderFeeBps <= FlashFeeBps /\ MinProfit > 0)
      => verdict' = IF mode = "validator" THEN "ok"
                   ELSE IF Opp.debt = Base THEN "clears" ELSE "below"
<1>1. LiqInv /\ [Next]_vars => Right
  <2> SUFFICES ASSUME LiqInv, NEW gas \in GasUsed, cand # None, Fresh,
                      IsLiquidatable(ob[cand.ob], Effective, 0), DryRun(gas),
                      gas + 2 * PythFee <= GasCost, LenderFeeBps <= FlashFeeBps, MinProfit > 0
               PROVE  verdict' = IF mode = "validator" THEN "ok"
                                 ELSE IF Opp.debt = Base THEN "clears" ELSE "below"
    OBVIOUS
  <2>1. gas \in Nat
    BY LiquidationAssumption
  <2>2. Computed(cand)
    BY DEF LiqInv, DeskInv
  <2>3. verdict' = VerdictOn(Proceeds, gas)
    BY DEF DryRun, Give
  <2> QED
    BY <2>1, <2>2, <2>3, ComputedExecutes
<1>2. LiqInv /\ [Next]_vars => [Right]_vars
  BY <1>1
<1> QED
  BY <1>2, LiqInvHolds, PTL DEF Spec, FailsOnlyIfStale
=============================================================================
