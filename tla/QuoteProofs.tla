---------------------------- MODULE QuoteProofs ----------------------------
(***************************************************************************)
(* Proofs about quoting: what a scan of the cached pools finds, and what a *)
(* block makes of the route it is sent with, for every width, fee, grid,   *)
(* route and set of tokens and pools.                                      *)
(*                                                                         *)
(* The arithmetic comes first, for RouteQuote and Scanner alike: a Rust    *)
(* quote wraps only downwards, so it never exceeds the constant-product    *)
(* formula (QuoteBelowFormula), and where Move performs a swap nothing     *)
(* wraps and both agree (MoveIsRust).  What simulate_collect returns is a  *)
(* chain of such quotes (CollectFacts, by induction on the hop).           *)
(*                                                                         *)
(* Of RouteQuote, the invariant IInv says where a block stands: its        *)
(* predictions are still the chain quoted on the snapshot (Predicted), its *)
(* hops have moved only the pools they ran through (Untouched), and the    *)
(* coin holds what was predicted of the last hop (Follows).                *)
(*                                                                         *)
(* Of Scanner: find_cycles is compared with its reference path by path;    *)
(* what is on the stack of dfs after n edges are the simple paths of n     *)
(* edges (by induction on n), and closing them gives the simple cycles.    *)
(* ternary_max is a pair of loops over shrinking windows; whatever they    *)
(* pick lies between the ends of the grid (TernaryMaxIs).  size_route and  *)
(* find_best then keep a maximum: Offers says what an opportunity promises *)
(* about its size, Sized that no size of the grid beats the one chosen for *)
(* a route, Found that none on any route beats the one chosen by the scan. *)
(* That the opportunity can be executed as quoted (BestIsExecutable) needs *)
(* that its route passes each pool once: a cycle that does not is a round  *)
(* trip through one pool (PoolsOnce), which never pays (RoundTrip).        *)
(***************************************************************************)
EXTENDS RouteQuote, Scanner, DataLemmas, SequenceTheorems

-----------------------------------------------------------------------------
(* The widths *)

\* A cast to a width stays in it, never grows, and leaves what fits alone.
LEMMA WrapFacts ==
  ASSUME NEW x \in Nat
  PROVE  /\ Wrap64(x) \in U64 /\ Wrap64(x) <= x
         /\ x <= U64Max => Wrap64(x) = x
         /\ Wrap128(x) \in 0 .. U128Max /\ Wrap128(x) <= x
         /\ x <= U128Max => Wrap128(x) = x
<1> DEFINE d == U64Max + 1
           e == U128Max + 1
<1>1. d \in Nat \ {0} /\ e \in Nat \ {0}
  BY WidthAssumption
<1> HIDE DEF d, e
<1>2. x % d \in 0 .. d - 1 /\ x % d <= x /\ (x < d => x % d = x)
  BY <1>1, RemainderBounds
<1>3. x % e \in 0 .. e - 1 /\ x % e <= x /\ (x < e => x % e = x)
  BY <1>1, RemainderBounds
<1>4. Wrap64(x) = x % d /\ Wrap128(x) = x % e
  BY DEF Wrap64, Wrap128, d, e
<1>5. d = U64Max + 1 /\ e = U128Max + 1
  BY DEF d, e
<1> QED
  BY <1>2, <1>3, <1>4, <1>5, WidthAssumption DEF U64

\* A quote is a u64, and it never exceeds the constant-product formula.
LEMMA QuoteBelowFormula ==
  ASSUME NEW in \in U64, NEW rIn \in U64, NEW rOut \in U64, NEW bps \in Nat,
         RustAmountOut(in, rIn, rOut, bps) # None
  PROVE  LET q == RustAmountOut(in, rIn, rOut, bps)
             k == FeeDenom - bps
         IN  /\ q \in U64 /\ in > 0 /\ rIn > 0 /\ rOut > 0 /\ bps < FeeDenom
             /\ q * (rIn * FeeDenom + in * k) <= in * k * rOut
<1> DEFINE k == FeeDenom - bps
           q == RustAmountOut(in, rIn, rOut, bps)
           w == QuoteInWords(in, rIn, rOut, k, FeeDenom, U64Max, U128Max)
<1>1. in # 0 /\ rIn # 0 /\ rOut # 0 /\ ~(bps >= FeeDenom)
  BY DEF RustAmountOut
<1>2. q = w
  BY <1>1, Zenon DEF RustAmountOut, Wrap64, Wrap128, QuoteInWords
<1>3. in > 0 /\ rIn > 0 /\ rOut > 0 /\ bps < FeeDenom /\ k \in 0 .. FeeDenom
      /\ in \in 0 .. U64Max /\ rIn \in 0 .. U64Max /\ rOut \in 0 .. U64Max
      /\ U64Max \in Nat /\ U128Max \in Nat /\ FeeDenom \in Nat \ {0}
      /\ 2 * (FeeDenom * U64Max) <= U128Max
  BY <1>1, WidthAssumption, QuoteAssumption DEF U64
<1> HIDE DEF k
<1>4. w \in 0 .. U64Max /\ w * (rIn * FeeDenom + in * k) <= in * k * rOut
  BY <1>3, QuoteInWordsBounds
<1> QED
  BY <1>2, <1>3, <1>4, Zenon DEF k, U64

\* A quote is a u64 or None.
LEMMA QuoteType ==
  ASSUME NEW in \in U64, NEW rIn \in U64, NEW rOut \in U64, NEW bps \in Nat
  PROVE  RustAmountOut(in, rIn, rOut, bps) \in U64 \union {None}
BY QuoteBelowFormula, Zenon

\* The reserves of a hop are u64s and the fee of its pool a natural number.
LEMMA HopFacts ==
  ASSUME NEW r \in [Pool -> Reserves], NEW h \in Hop
  PROVE  /\ ReserveIn(r, h) \in U64 /\ ReserveOut(r, h) \in U64
         /\ PoolFeeBps[h.pool] \in Nat /\ h.pool \in Pool /\ h.aToB \in BOOLEAN
         /\ r[h.pool] \in Reserves
BY QuoteAssumption DEF Hop, Reserves, ReserveIn, ReserveOut

\* Where Move performs a swap, Rust quotes exactly its output, which is less than
\* the reserve it is paid from.
LEMMA MoveIsRust ==
  ASSUME NEW r \in [Pool -> Reserves], NEW h \in Hop, NEW in \in U64,
         MoveOut(r, h, in) # None
  PROVE  /\ MoveOut(r, h, in) = QuoteHop(r, h, in)
         /\ MoveOut(r, h, in) \in U64
         /\ MoveOut(r, h, in) < ReserveOut(r, h)
         /\ ReserveIn(r, h) + in <= U64Max
<1> DEFINE rIn == ReserveIn(r, h)
           rOut == ReserveOut(r, h)
           bps == PoolFeeBps[h.pool]
           k == FeeDenom - bps
           out == (in * k * rOut) \div (rIn * FeeDenom + in * k)
           w == QuoteInWords(in, rIn, rOut, k, FeeDenom, U64Max, U128Max)
<1>1. CanQuoteOut(in, rIn, rOut, bps) /\ rIn + in <= U64Max /\ MoveOut(r, h, in) = out
  BY Zenon DEF MoveOut, GetAmountOut, OutNumerator, OutDenominator, WithFee
<1>2. rIn \in U64 /\ rOut \in U64 /\ bps \in Nat
  BY HopFacts, Zenon
<1> HIDE DEF rIn, rOut, bps
<1>3. in > 0 /\ rIn > 0 /\ rOut > 0 /\ bps < FeeDenom /\ in * k * rOut <= U128Max
  BY <1>1, Zenon DEF CanQuoteOut, OutNumerator, WithFee
<1>4. k \in 0 .. FeeDenom /\ U64Max \in Nat /\ U128Max \in Nat /\ FeeDenom \in Nat \ {0}
      /\ in \in 0 .. U64Max /\ rIn \in 0 .. U64Max /\ rOut \in 0 .. U64Max
      /\ 2 * (FeeDenom * U64Max) <= U128Max
  BY <1>2, <1>3, WidthAssumption, QuoteAssumption DEF U64
<1>5. RustAmountOut(in, rIn, rOut, bps) = w
  <2>1. in # 0 /\ rIn # 0 /\ rOut # 0 /\ ~(bps >= FeeDenom)
    BY <1>2, <1>3, WidthAssumption
  <2> QED
    BY <2>1, Zenon DEF RustAmountOut, Wrap64, Wrap128, QuoteInWords
<1> HIDE DEF k
<1>6. out \in 0 .. U64Max /\ out < rOut /\ w = out
  <2>1. in \in 0 .. U64Max
    BY <1>4
  <2>2. in * k * rOut <= U128Max /\ rIn > 0 /\ rOut > 0
    BY <1>3
  <2> QED
    BY <1>4, <2>1, <2>2, QuoteInWordsExact, SMTT(40)
<1> QED
  BY <1>1, <1>5, <1>6, Zenon DEF QuoteHop, U64, rIn, rOut, bps

-----------------------------------------------------------------------------
(* Pricing a route *)

\* One hop's quote is a u64 or None.
LEMMA QuoteHopType ==
  ASSUME NEW r \in [Pool -> Reserves], NEW h \in Hop, NEW in \in U64
  PROVE  QuoteHop(r, h, in) \in U64 \union {None}
BY HopFacts, QuoteType, Zenon DEF QuoteHop

\* A priced route carries one u64 per hop, each the quote of what the hop before
\* it returned.
LEMMA CollectFacts ==
  ASSUME NEW r \in [Pool -> Reserves], NEW rt \in Seq(Hop) \ {<<>>}, NEW in \in U64,
         SimulateCollect(r, rt, in) # None
  PROVE  LET q == SimulateCollect(r, rt, in)
         IN  /\ q \in Seq(U64) /\ Len(q) = Len(rt) /\ Len(rt) \in Nat /\ Len(rt) >= 1
             /\ q[1] = QuoteHop(r, rt[1], in)
             /\ \A i \in 1 .. Len(rt) - 1 : q[i + 1] = QuoteHop(r, rt[i + 1], q[i])
<1> DEFINE n == Len(rt)
           q == SimulateCollect(r, rt, in)
           step == [i \in 1 .. n |-> [v \in U64 |-> QuoteHop(r, rt[i], v)]]
           Price(f) == f = [i \in 0 .. n |-> IF i = 0 THEN in
                                             ELSE IF f[i - 1] = None THEN None
                                             ELSE QuoteHop(r, rt[i], f[i - 1])]
           after == CHOOSE f : Price(f)
<1>1. n \in Nat /\ n >= 1 /\ \A i \in 1 .. n : rt[i] \in Hop
  OBVIOUS
<1>2. q = IF n = 0 \/ after[n] = None THEN None ELSE [i \in 1 .. n |-> after[i]]
  BY Zenon DEF SimulateCollect
<1> HIDE DEF q, n
<1>3. \A i \in 1 .. n, v \in U64 : step[i][v] = QuoteHop(r, rt[i], v)
  OBVIOUS
<1>4. \A i \in 1 .. n, v \in U64 : step[i][v] \in U64 \union {None}
  BY <1>1, <1>3, QuoteHopType
<1>5. None \notin U64
  BY QuoteAssumption
<1> HIDE DEF step
<1>6. \E f : Price(f)
  <2>1. PICK g : Chained(g, n, U64, in, None, step)
    BY <1>1, <1>4, <1>5, ChainExists, Zenon
  <2>2. \A i \in 0 .. n : g[i] \in U64 \union {None}
    BY <1>1, <1>4, <2>1, ChainTypes
  <2> DEFINE Next1(i) == IF i = 0 THEN in
                         ELSE IF g[i - 1] = None THEN None
                         ELSE QuoteHop(r, rt[i], g[i - 1])
  <2>3. ASSUME NEW i \in 0 .. n PROVE g[i] = Next1(i)
    <3>1. CASE i = 0
      BY <2>1, <3>1 DEF Chained
    <3>2. CASE i # 0
      <4>1. i \in 1 .. n /\ i - 1 \in 0 .. n
        BY <1>1, <3>2
      <4>2. /\ g[i - 1] = None => g[i] = None
            /\ g[i - 1] \in U64 => g[i] = step[i][g[i - 1]]
        BY <2>1, <4>1, Zenon DEF Chained
      <4>3. g[i - 1] \in U64 \union {None}
        BY <2>2, <4>1, Zenon
      <4>4. g[i - 1] \in U64 => step[i][g[i - 1]] = QuoteHop(r, rt[i], g[i - 1])
        BY <1>3, <4>1, Zenon
      <4> QED
        BY <1>5, <3>2, <4>2, <4>3, <4>4, Zenon DEF Next1
    <3> QED
      BY <3>1, <3>2
  <2>4. g = [i \in 0 .. n |-> g[i]]
    BY <2>1 DEF Chained
  <2> HIDE DEF Next1
  <2>5. g = [i \in 0 .. n |-> Next1(i)]
    BY <2>3, <2>4
  <2> QED
    BY <2>5 DEF Next1
<1>7. Price(after)
  BY <1>6, Zenon
<1> HIDE DEF after
<1>8. Chained(after, n, U64, in, None, step)
  <2> DEFINE Next1(i) == IF i = 0 THEN in
                         ELSE IF after[i - 1] = None THEN None
                         ELSE QuoteHop(r, rt[i], after[i - 1])
  <2>1. after = [i \in 0 .. n |-> Next1(i)]
    BY <1>7
  <2> HIDE DEF Next1
  <2>2. (\A i \in 0 .. n : after[i] = Next1(i)) /\ after = [i \in 0 .. n |-> after[i]]
    BY <2>1
  <2>3. after[0] = in
    <3>1. 0 \in 0 .. n
      BY <1>1
    <3> QED
      BY <2>2, <3>1, Zenon DEF Next1
  <2>4. ASSUME NEW i \in 1 .. n
        PROVE  /\ after[i - 1] = None => after[i] = None
               /\ after[i - 1] \in U64 => after[i] = step[i][after[i - 1]]
    <3>1. i \in 0 .. n /\ i # 0
      BY <1>1
    <3>2. after[i] = IF after[i - 1] = None THEN None ELSE QuoteHop(r, rt[i], after[i - 1])
      BY <2>2, <3>1, Zenon DEF Next1
    <3>3. after[i - 1] \in U64 => step[i][after[i - 1]] = QuoteHop(r, rt[i], after[i - 1])
      BY <1>3, Zenon
    <3> QED
      BY <1>5, <3>2, <3>3, Zenon
  <2> QED
    BY <2>2, <2>3, <2>4, Zenon DEF Chained
<1>9. after[n] # None /\ q = [i \in 1 .. n |-> after[i]]
  BY <1>2 DEF q
<1>10. /\ after[0] = in /\ \A i \in 0 .. n : after[i] \in U64
       /\ \A i \in 1 .. n : after[i] = step[i][after[i - 1]]
  <2>1. after[n] # None
    BY <1>9
  <2>2. in \in U64
    OBVIOUS
  <2>3. n \in Nat
    BY <1>1
  <2>4. Unbroken(after, n, U64, in, step)
    BY <1>4, <1>5, <1>8, <2>1, <2>2, <2>3, ChainValues, Zenon
  <2> QED
    BY <2>4, Zenon DEF Unbroken
<1>11. ASSUME NEW i \in 1 .. n
       PROVE  q[i] = after[i] /\ q[i] \in U64 /\ q[i] = QuoteHop(r, rt[i], after[i - 1])
  <2>1. i \in 0 .. n /\ i - 1 \in 0 .. n
    BY <1>1
  <2> QED
    BY <1>3, <1>9, <1>10, <2>1
<1>12. q \in Seq(U64) /\ Len(q) = n
  <2>1. q \in [1 .. n -> U64]
    BY <1>9, <1>11
  <2> QED
    BY <1>1, <1>9, <2>1
<1>13. q[1] = QuoteHop(r, rt[1], in)
  <2>1. 1 \in 1 .. n /\ 1 - 1 = 0
    BY <1>1
  <2> QED
    BY <1>10, <1>11, <2>1
<1>14. ASSUME NEW i \in 1 .. n - 1 PROVE q[i + 1] = QuoteHop(r, rt[i + 1], q[i])
  <2>1. i \in 1 .. n /\ i + 1 \in 1 .. n /\ i + 1 - 1 = i
    BY <1>1
  <2> QED
    BY <1>11, <2>1
<1> QED
  BY <1>1, <1>12, <1>13, <1>14 DEF n, q

-----------------------------------------------------------------------------
(* The slippage floor *)

\* A floor is a natural number that never exceeds the prediction it is taken from.
LEMMA FloorBelow ==
  ASSUME NEW out \in U64, NEW bps \in Nat
  PROVE  ApplySlippageFloor(out, bps) \in U64 /\ ApplySlippageFloor(out, bps) <= out
<1> DEFINE keep == IF bps <= FeeDenom THEN FeeDenom - bps ELSE 0
           z == (out * keep) \div FeeDenom
<1>1. FeeDenom \in Nat \ {0} /\ out \in Nat
  BY WidthAssumption DEF U64
<1>2. keep \in Nat /\ keep <= FeeDenom
  BY <1>1
<1>3. ApplySlippageFloor(out, bps) = Wrap64(z)
  BY DEF ApplySlippageFloor
<1> HIDE DEF keep
<1>4. out * keep \in Nat /\ out * FeeDenom \in Nat /\ out * keep <= out * FeeDenom
  BY <1>1, <1>2, ProductGrowsWith
<1>5. z \in Nat /\ FeeDenom * z <= out * keep
  <2> DEFINE p == out * keep
  <2>1. p \in Nat
    BY <1>4
  <2> HIDE DEF p
  <2>2. p \div FeeDenom \in Nat /\ FeeDenom * (p \div FeeDenom) <= p
    BY <1>1, <2>1, QuotientBounds
  <2> QED
    BY <2>2 DEF p
<1> HIDE DEF z
<1>6. z <= out
  <2>1. ASSUME out + 1 <= z PROVE FALSE
    <3>1. FeeDenom * (out + 1) <= FeeDenom * z /\ FeeDenom * z \in Nat
      BY <1>1, <1>5, <2>1, ProductGrowsWith
    <3>2. FeeDenom * (out + 1) = out * FeeDenom + FeeDenom
      BY <1>1
    <3> QED
      BY <1>1, <1>4, <1>5, <3>1, <3>2
  <2> QED
    BY <1>1, <1>5, <2>1
<1>7. Wrap64(z) \in U64 /\ Wrap64(z) <= z
  BY <1>5, WrapFacts
<1>8. Wrap64(z) \in Nat
  BY <1>7, WidthAssumption DEF U64
<1> QED
  BY <1>1, <1>3, <1>5, <1>6, <1>7, <1>8

-----------------------------------------------------------------------------
(* Executing a hop, and the round trip through one pool *)

\* A swap keeps the reserves u64s and touches no other pool.
LEMMA SwappedType ==
  ASSUME NEW r \in [Pool -> Reserves], NEW h \in Hop, NEW in \in U64,
         MoveOut(r, h, in) # None
  PROVE  LET s == Swapped(r, h, in, MoveOut(r, h, in))
         IN  s \in [Pool -> Reserves] /\ \A p \in Pool : p # h.pool => s[p] = r[p]
<1> DEFINE out == MoveOut(r, h, in)
           s == Swapped(r, h, in, out)
           t == r[h.pool]
           new == IF h.aToB THEN [a |-> t.a + in, b |-> t.b - out]
                            ELSE [a |-> t.a - out, b |-> t.b + in]
<1>1. out \in U64 /\ out < ReserveOut(r, h) /\ ReserveIn(r, h) + in <= U64Max
  BY MoveIsRust, Zenon
<1>2. h.pool \in Pool /\ h.aToB \in BOOLEAN /\ t \in Reserves
  BY HopFacts, Zenon
<1>3. s = [r EXCEPT ![h.pool] = new]
  BY DEF Swapped
<1> HIDE DEF out
<1>4. new \in Reserves
  <2>1. t.a \in U64 /\ t.b \in U64
    BY <1>2 DEF Reserves
  <2>2. CASE h.aToB
    <3>1. t.a + in <= U64Max /\ out < t.b
      BY <1>1, <2>2 DEF ReserveIn, ReserveOut
    <3>2. t.a + in \in U64 /\ t.b - out \in U64
      BY <1>1, <2>1, <3>1, WidthAssumption DEF U64
    <3> QED
      BY <2>2, <3>2 DEF Reserves
  <2>3. CASE ~h.aToB
    <3>1. t.b + in <= U64Max /\ out < t.a
      BY <1>1, <2>3 DEF ReserveIn, ReserveOut
    <3>2. t.b + in \in U64 /\ t.a - out \in U64
      BY <1>1, <2>1, <3>1, WidthAssumption DEF U64
    <3> QED
      BY <2>3, <3>2 DEF Reserves
  <2> QED
    BY <2>2, <2>3
<1> HIDE DEF new, s
<1>5. s \in [Pool -> Reserves] /\ \A p \in Pool : p # h.pool => s[p] = r[p]
  BY <1>2, <1>3, <1>4
<1> QED
  BY <1>5 DEF s, out

\* Through one pool and back: nothing is gained.
LEMMA RoundTrip ==
  ASSUME NEW r \in [Pool -> Reserves], NEW h \in Hop, NEW in \in U64,
         SimulateCollect(r, <<h, [h EXCEPT !.aToB = ~@]>>, in) # None
  PROVE  SimulateCollect(r, <<h, [h EXCEPT !.aToB = ~@]>>, in)[2] <= in
<1> DEFINE back == [h EXCEPT !.aToB = ~@]
           rt == <<h, back>>
           q == SimulateCollect(r, rt, in)
           rIn == ReserveIn(r, h)
           rOut == ReserveOut(r, h)
           bps == PoolFeeBps[h.pool]
           k == FeeDenom - bps
<1>1. back \in Hop /\ back.pool = h.pool /\ back.aToB = ~h.aToB
  BY DEF Hop
<1>2. ReserveIn(r, back) = rOut /\ ReserveOut(r, back) = rIn
      /\ PoolFeeBps[back.pool] = bps
  <2> HIDE DEF back
  <2>1. h.aToB \in BOOLEAN
    BY HopFacts, Zenon
  <2>2. CASE h.aToB
    BY <1>1, <2>2, Zenon DEF ReserveIn, ReserveOut
  <2>3. CASE ~h.aToB
    BY <1>1, <2>3, Zenon DEF ReserveIn, ReserveOut
  <2> QED
    BY <2>2, <2>3
<1> HIDE DEF back
<1>3. rt \in Seq(Hop) \ {<<>>} /\ Len(rt) = 2 /\ rt[1] = h /\ rt[2] = back
  BY <1>1
<1>4. q # None
  BY DEF back
<1> HIDE DEF rt
<1>5. q \in Seq(U64) /\ Len(q) = 2 /\ q[1] = QuoteHop(r, h, in)
      /\ q[2] = QuoteHop(r, back, q[1])
  <2>1. /\ q \in Seq(U64) /\ Len(q) = Len(rt)
        /\ q[1] = QuoteHop(r, rt[1], in)
        /\ \A i \in 1 .. Len(rt) - 1 : q[i + 1] = QuoteHop(r, rt[i + 1], q[i])
    BY <1>3, <1>4, CollectFacts, Zenon
  <2> HIDE DEF q
  <2>2. 1 \in 1 .. Len(rt) - 1 /\ 1 + 1 = 2
    BY <1>3
  <2> QED
    BY <1>3, <2>1, <2>2
<1> HIDE DEF q
<1> DEFINE x == q[1]
           y == q[2]
<1>6. x \in U64 /\ y \in U64 /\ x # None /\ y # None
  <2>1. 1 \in 1 .. 2 /\ 2 \in 1 .. 2
    OBVIOUS
  <2>2. x \in U64 /\ y \in U64
    BY <1>5, <2>1, ElementOfSeq
  <2> QED
    BY <2>2, QuoteAssumption, Zenon
<1>7. x = RustAmountOut(in, rIn, rOut, bps) /\ y = RustAmountOut(x, rOut, rIn, bps)
  BY <1>2, <1>5, Zenon DEF QuoteHop
<1>8. rIn \in U64 /\ rOut \in U64 /\ bps \in Nat
  BY HopFacts, Zenon
<1> HIDE DEF x, y, rIn, rOut, bps
<1>9. rIn > 0 /\ rOut > 0 /\ bps < FeeDenom
      /\ x * (rIn * FeeDenom + in * k) <= in * k * rOut
  BY <1>6, <1>7, <1>8, QuoteBelowFormula, Zenon
<1>10. y * (rOut * FeeDenom + x * k) <= x * k * rIn
  BY <1>6, <1>7, <1>8, QuoteBelowFormula, Zenon
<1>11. k \in Nat /\ k <= FeeDenom /\ FeeDenom \in Nat /\ FeeDenom > 0
  BY <1>8, <1>9, WidthAssumption
<1>12. in \in Nat /\ x \in Nat /\ y \in Nat /\ rIn \in Nat /\ rOut \in Nat
  BY <1>6, <1>8, WidthAssumption DEF U64
<1> HIDE DEF k
<1>13. y <= in
  BY <1>9, <1>10, <1>11, <1>12, RoundTripLoses
<1> QED
  BY <1>13 DEF y, q, rt, back

-----------------------------------------------------------------------------
(* RouteQuote: where a block stands *)

\* hop_outputs is the chain of quotes simulate_collect made of the route on the
\* snapshot; until the first hop has run the coin holds the input.
Predicted ==
  stage # "idle" =>
    /\ route \in Route /\ outs \in Seq(U64) /\ Len(outs) = Len(route)
    /\ hop = 0 => outs[1] = QuoteHop(snap, route[1], amount)
    /\ \A i \in 1 .. Len(route) - 1 :
         outs[i + 1] = QuoteHop(snap, route[i + 1], outs[i])
    /\ stage \in {"swap", "aborted"} => hop < Len(route)

\* The block's hops have moved only the pools they ran through.
Untouched ==
  stage # "idle" =>
    \A p \in Pool :
      (\A i \in 1 .. hop : route[i].pool # p) => pools[p] = start[p]

\* What the coin holds after a hop is what was predicted of it.
Follows ==
  stage # "idle" /\ hop > 0 /\ Undisturbed /\ DistinctPools => amount = outs[hop]

IInv == TypeOK /\ Predicted /\ Untouched /\ Follows /\ FloorsAdmitPrediction

\* Nothing is quoted or traded at the start.
LEMMA InitIInv == Init => IInv
<1> SUFFICES ASSUME Init PROVE IInv
  OBVIOUS
<1>1. pools \in [Pool -> Reserves] /\ snap = pools /\ start = pools
  BY RouteQuoteAssumption DEF Init
<1>2. 0 \in U64 /\ 0 \in 0 .. MaxTrades
  BY WidthAssumption, RouteQuoteAssumption DEF U64
<1>3. route \notin Route
  BY RouteQuoteAssumption DEF Init
<1>4. TypeOK
  BY <1>1, <1>2 DEF Init, TypeOK
<1>5. stage = "idle"
  BY DEF Init
<1> QED
  BY <1>4, <1>5 DEF IInv, Predicted, Untouched, Follows, FloorsAdmitPrediction

\* A rival moves the pools as Move allows, and is remembered as a disturbance.
LEMMA TradeIInv ==
  ASSUME NEW h \in Hop, NEW in \in TradeSize, IInv, Trade(h, in)
  PROVE  IInv'
<1>1. in \in U64 /\ pools \in [Pool -> Reserves] /\ MaxTrades \in Nat
  BY RouteQuoteAssumption DEF IInv, TypeOK
<1>2. /\ MoveOut(pools, h, in) # None
      /\ pools' = Swapped(pools, h, in, MoveOut(pools, h, in))
      /\ stage = "idle" /\ stage' = "idle" /\ trades' = trades + 1 /\ trades < MaxTrades
      /\ UNCHANGED <<snap, route, outs, start, hop, amount>>
  BY DEF Trade
<1>3. pools' \in [Pool -> Reserves]
  BY <1>1, <1>2, SwappedType, Zenon
<1>4. TypeOK'
  BY <1>1, <1>2, <1>3 DEF IInv, TypeOK
<1> QED
  BY <1>2, <1>4 DEF IInv, Predicted, Untouched, Follows, FloorsAdmitPrediction

\* The cache takes over the pools as they are.
LEMMA RefreshIInv ==
  ASSUME NEW p \in Pool, IInv, Refresh(p)
  PROVE  IInv'
<1>1. stage = "idle" /\ stage' = "idle"
  BY DEF Refresh
<1>2. TypeOK'
  BY DEF IInv, TypeOK, Refresh
<1> QED
  BY <1>1, <1>2 DEF IInv, Predicted, Untouched, Follows, FloorsAdmitPrediction

\* What is sent carries the prediction for the cache of that moment.
LEMMA SendIInv ==
  ASSUME NEW rt \in Route, NEW in \in Input, IInv, Send(rt, in)
  PROVE  IInv'
<1>1. in \in U64 /\ rt \in Seq(Hop) \ {<<>>} /\ snap \in [Pool -> Reserves]
  BY RouteQuoteAssumption DEF IInv, TypeOK
<1>2. /\ outs' = SimulateCollect(snap, rt, in) /\ outs' # None
      /\ route' = rt /\ amount' = in /\ hop' = 0 /\ start' = pools /\ stage' = "swap"
      /\ UNCHANGED <<pools, snap, trades>>
  BY DEF Send
<1>3. /\ outs' \in Seq(U64) /\ Len(outs') = Len(rt) /\ Len(rt) \in Nat /\ Len(rt) >= 1
      /\ outs'[1] = QuoteHop(snap, rt[1], in)
      /\ \A i \in 1 .. Len(rt) - 1 : outs'[i + 1] = QuoteHop(snap, rt[i + 1], outs'[i])
  BY <1>1, <1>2, CollectFacts, Zenon
<1>4. TypeOK'
  BY <1>1, <1>2, <1>3 DEF IInv, TypeOK
<1>5. Predicted'
  BY <1>2, <1>3 DEF Predicted
<1>6. Untouched'
  BY <1>2 DEF Untouched
<1>7. Follows' /\ FloorsAdmitPrediction'
  BY <1>2 DEF Follows, FloorsAdmitPrediction
<1> QED
  BY <1>4, <1>5, <1>6, <1>7 DEF IInv

\* The numbers from 1 to n are n.
LEMMA IntervalSize ==
  ASSUME NEW n \in Nat
  PROVE  IsFiniteSet(1 .. n) /\ Cardinality(1 .. n) = n
<1>1. 1 \in Int /\ n \in Int
  OBVIOUS
<1>2. IsFiniteSet(1 .. n) /\ Cardinality(1 .. n) = IF 1 > n THEN 0 ELSE n - 1 + 1
  BY <1>1, FS_Interval, Zenon
<1>3. (IF 1 > n THEN 0 ELSE n - 1 + 1) = n
  OBVIOUS
<1> QED
  BY <1>2, <1>3

\* A route with as many pools as hops passes through each pool once.
LEMMA DistinctMeans ==
  ASSUME NEW rt \in Seq(Hop),
         Cardinality({rt[i].pool : i \in 1 .. Len(rt)}) = Len(rt)
  PROVE  \A i, j \in 1 .. Len(rt) : rt[i].pool = rt[j].pool => i = j
<1> DEFINE n == Len(rt)
           f == [i \in 1 .. n |-> rt[i].pool]
           T == {rt[i].pool : i \in 1 .. n}
<1>1. n \in Nat /\ IsFiniteSet(1 .. n) /\ Cardinality(1 .. n) = n
  <2>1. n \in Nat
    BY LenProperties, Zenon
  <2> QED
    BY <2>1, IntervalSize, Zenon
<1>2. f \in [1 .. n -> T] /\ \A t \in T : \E i \in 1 .. n : f[i] = t
  OBVIOUS
<1>3. f \in Surjection(1 .. n, T)
  BY <1>2, Zenon DEF Surjection
<1>4. Cardinality(T) = n
  OBVIOUS
<1> HIDE DEF f, T
<1>5. f \in Injection(1 .. n, T)
  BY <1>1, <1>3, <1>4, FS_SurjSameCardinalityImpliesInj
<1>6. \A i, j \in 1 .. n : f[i] = f[j] => i = j
  BY <1>5, Zenon DEF Injection, IsInjective
<1> QED
  BY <1>6 DEF f

\* A hop of the block follows the prediction while nobody has disturbed its route.
LEMMA SwapIInv == IInv /\ Swap => IInv'
<1> SUFFICES ASSUME IInv, Swap PROVE IInv'
  OBVIOUS
<1> DEFINE h == route[hop + 1]
           out == MoveOut(pools, h, amount)
           floor == ApplySlippageFloor(outs[hop + 1], SlippageBps)
           ok == out # None /\ out >= floor
<1>1. /\ TypeOK /\ stage = "swap" /\ stage # "idle"
      /\ UNCHANGED <<snap, route, outs, start, trades>>
  BY DEF IInv, Swap
<1>2. /\ route \in Route /\ route \in Seq(Hop) /\ route # None
      /\ outs \in Seq(U64) /\ Len(outs) = Len(route)
      /\ hop = 0 => outs[1] = QuoteHop(snap, route[1], amount)
      /\ \A i \in 1 .. Len(route) - 1 :
           outs[i + 1] = QuoteHop(snap, route[i + 1], outs[i])
      /\ hop < Len(route)
  BY <1>1, RouteQuoteAssumption DEF IInv, Predicted
<1>3. /\ hop \in Nat /\ Len(route) \in Nat /\ hop + 1 \in 1 .. Len(route)
      /\ amount \in U64 /\ pools \in [Pool -> Reserves]
      /\ snap \in [Pool -> Reserves] /\ start \in [Pool -> Reserves]
      /\ \A i \in 1 .. Len(route) : route[i] \in Hop /\ route[i].pool \in Pool
  <2>1. hop \in Nat /\ amount \in U64 /\ pools \in [Pool -> Reserves]
        /\ snap \in [Pool -> Reserves] /\ start \in [Pool -> Reserves]
    BY <1>1 DEF TypeOK
  <2>2. Len(route) \in Nat /\ \A i \in 1 .. Len(route) : route[i] \in Hop
    BY <1>2, LenProperties
  <2>3. \A i \in 1 .. Len(route) : route[i].pool \in Pool
    BY <2>2 DEF Hop
  <2> QED
    BY <1>2, <2>1, <2>2, <2>3
<1>4. h \in Hop /\ outs[hop + 1] \in U64 /\ SlippageBps \in Nat
  BY <1>2, <1>3, RouteQuoteAssumption
<1>5. floor \in U64 /\ floor <= outs[hop + 1]
  BY <1>4, FloorBelow, Zenon
<1> HIDE DEF floor
<1>6. ASSUME Undisturbed, DistinctPools, out # None
      PROVE  out = outs[hop + 1] /\ out >= floor
  <2>1. \A i, j \in 1 .. Len(route) : route[i].pool = route[j].pool => i = j
    BY <1>2, <1>6, DistinctMeans DEF DistinctPools
  <2>2. \A i \in 1 .. hop : i \in 1 .. Len(route) /\ i # hop + 1
    BY <1>2, <1>3
  <2>3. \A i \in 1 .. hop : route[i].pool # h.pool
    BY <1>3, <2>1, <2>2
  <2>4. h.pool \in Pool /\ start[h.pool] = snap[h.pool]
    BY <1>3, <1>6 DEF Undisturbed
  <2>5. pools[h.pool] = snap[h.pool]
    BY <1>1, <2>3, <2>4 DEF IInv, Untouched
  <2>6. QuoteHop(pools, h, amount) = QuoteHop(snap, h, amount)
    BY <2>5, Zenon DEF QuoteHop, ReserveIn, ReserveOut
  <2>7. out = QuoteHop(pools, h, amount) /\ out \in U64
    BY <1>3, <1>4, <1>6, MoveIsRust, Zenon
  <2>8. outs[hop + 1] = QuoteHop(snap, h, amount)
    <3>1. CASE hop = 0
      BY <1>2, <3>1
    <3>2. CASE hop # 0
      <4>1. hop > 0 /\ hop \in 1 .. Len(route) - 1
        BY <1>2, <1>3, <3>2
      <4>2. amount = outs[hop]
        BY <1>1, <1>6, <4>1 DEF IInv, Follows
      <4> QED
        BY <1>2, <4>1, <4>2
    <3> QED
      BY <3>1, <3>2
  <2>9. out = outs[hop + 1]
    BY <2>6, <2>7, <2>8
  <2> QED
    BY <1>4, <1>5, <2>9, WidthAssumption DEF U64
<1>7. Undisturbed' = Undisturbed /\ DistinctPools' = DistinctPools
  BY <1>1 DEF Undisturbed, DistinctPools
<1>8. CASE ok
  <2>1. /\ pools' = Swapped(pools, h, amount, out) /\ amount' = out /\ hop' = hop + 1
        /\ stage' = IF hop + 1 = Len(route) THEN "done" ELSE "swap"
    BY <1>8 DEF Swap, floor
  <2>2. out \in U64
    BY <1>3, <1>4, <1>8, MoveIsRust, Zenon
  <2>3. pools' \in [Pool -> Reserves] /\ \A p \in Pool : p # h.pool => pools'[p] = pools[p]
    BY <1>3, <1>4, <1>8, <2>1, SwappedType, Zenon
  <2> HIDE DEF out, h
  <2>4. TypeOK'
    BY <1>1, <1>3, <2>1, <2>2, <2>3 DEF TypeOK
  <2>5. Predicted'
    <3>1. hop' # 0 /\ (stage' \in {"swap", "aborted"} => hop' < Len(route))
      BY <1>2, <1>3, <2>1
    <3> QED
      BY <1>1, <1>2, <3>1 DEF Predicted
  <2>6. Untouched'
    <3>1. SUFFICES ASSUME NEW p \in Pool, \A i \in 1 .. hop + 1 : route[i].pool # p
                   PROVE  pools'[p] = start[p]
      BY <1>1, <2>1, Zenon DEF Untouched
    <3>2. hop + 1 \in 1 .. hop + 1 /\ \A i \in 1 .. hop : i \in 1 .. hop + 1
      BY <1>3
    <3>3. p # h.pool /\ pools[p] = start[p]
      BY <1>1, <3>1, <3>2 DEF h, IInv, Untouched
    <3> QED
      BY <2>3, <3>3
  <2>7. Follows'
    <3>1. Undisturbed /\ DistinctPools => out = outs[hop + 1]
      BY <1>6, <1>8
    <3> QED
      BY <1>1, <1>7, <2>1, <3>1 DEF Follows
  <2>8. FloorsAdmitPrediction'
    BY <2>1 DEF FloorsAdmitPrediction
  <2> QED
    BY <2>4, <2>5, <2>6, <2>7, <2>8 DEF IInv
<1>9. CASE ~ok
  <2>1. stage' = "aborted" /\ UNCHANGED <<pools, amount, hop>>
    BY <1>9 DEF Swap, floor
  <2>2. Undisturbed /\ DistinctPools => out = None
    BY <1>6, <1>9
  <2>3. FloorsAdmitPrediction'
    <3>1. MoveOut(pools, h, amount)' = MoveOut(pools, h, amount)
      BY <1>1, <2>1
    <3> QED
      BY <1>1, <1>7, <2>1, <2>2 DEF FloorsAdmitPrediction
  <2> HIDE DEF out, h
  <2>4. TypeOK'
    BY <1>1, <2>1 DEF TypeOK
  <2>5. Predicted'
    BY <1>1, <1>2, <2>1 DEF Predicted
  <2>6. Untouched' /\ Follows'
    BY <1>1, <1>7, <2>1 DEF IInv, Untouched, Follows
  <2> QED
    BY <2>3, <2>4, <2>5, <2>6 DEF IInv
<1> QED
  BY <1>8, <1>9

\* The invariant survives every step.
LEMMA NextIInv == IInv /\ [Next]_vars => IInv'
<1> SUFFICES ASSUME IInv, [Next]_vars PROVE IInv'
  OBVIOUS
<1>1. CASE UNCHANGED vars
  BY <1>1 DEF IInv, TypeOK, Predicted, Untouched, Follows, FloorsAdmitPrediction,
              Undisturbed, DistinctPools, vars
<1>2. CASE Next
  BY <1>2, TradeIInv, RefreshIInv, SendIInv, SwapIInv, Zenon DEF Next
<1> QED
  BY <1>1, <1>2

-----------------------------------------------------------------------------
(* The input of a wanted output *)

\* An input above the inverse formula pays for the output it was computed from.
LEMMA InversePays ==
  ASSUME NEW in \in Nat, NEW out \in Nat, NEW rIn \in Nat, NEW rOut \in Nat,
         NEW k \in Nat, NEW D \in Nat, out < rOut,
         rIn * out * D <= in * ((rOut - out) * k)
  PROVE  out * (rIn * D + in * k) <= in * k * rOut
<1> DEFINE a == rIn * out * D
           b == in * k * rOut
           c == in * k * out
<1>1. a \in Nat /\ b \in Nat /\ c \in Nat
  <2>1. in * k \in Nat /\ rIn * out \in Nat
    OBVIOUS
  <2> HIDE DEF a, b, c
  <2>2. in * k * rOut \in Nat /\ in * k * out \in Nat /\ rIn * out * D \in Nat
    BY <2>1
  <2> QED
    BY <2>2 DEF a, b, c
<1>2. out * (rIn * D + in * k) = a + c
  OBVIOUS
<1>3. in * ((rOut - out) * k) = b - c
  OBVIOUS
<1> HIDE DEF a, b, c
<1>4. a <= b - c
  BY <1>3 DEF a
<1>5. a + c <= b
  BY <1>1, <1>4
<1> QED
  BY <1>2, <1>5 DEF b

\* The input get_amount_in asks for buys at least the output it was asked for.
LEMMA PaysFor ==
  ASSUME NEW r \in [Pool -> Reserves], NEW h \in Hop,
         NEW out \in 1 .. ReserveOut(r, h) - 1,
         CanQuoteIn(out, ReserveIn(r, h), ReserveOut(r, h), PoolFeeBps[h.pool])
  PROVE  LET in == RustAmountIn(out, ReserveIn(r, h), ReserveOut(r, h),
                                PoolFeeBps[h.pool])
         IN  MoveOut(r, h, in) # None => MoveOut(r, h, in) >= out
<1> DEFINE rIn == ReserveIn(r, h)
           rOut == ReserveOut(r, h)
           bps == PoolFeeBps[h.pool]
           k == FeeDenom - bps
           num == rIn * out * FeeDenom
           den == (rOut - out) * k
           in == RustAmountIn(out, rIn, rOut, bps)
           got == MoveOut(r, h, in)
<1> SUFFICES ASSUME got # None PROVE got >= out
  OBVIOUS
<1>1. rIn \in U64 /\ rOut \in U64 /\ bps \in Nat
  BY HopFacts, Zenon
<1>2. rIn \in Nat /\ rOut \in Nat /\ rOut <= U64Max /\ U64Max \in Nat /\ U128Max \in Nat
      /\ FeeDenom \in Nat /\ FeeDenom > 0
  BY <1>1, WidthAssumption DEF U64
<1>3. out \in Nat /\ out > 0 /\ out < rOut
  BY <1>2
<1>4. rIn > 0 /\ bps < FeeDenom /\ num <= U128Max /\ den <= U128Max
      /\ num \div den < U64Max
  BY DEF CanQuoteIn, InNumerator, InDenominator
<1> HIDE DEF rIn, rOut, bps
<1>5. k \in Nat /\ k > 0 /\ k <= FeeDenom
  BY <1>1, <1>2, <1>4
<1>6. den \in Nat /\ den > 0
  <2>1. rOut - out \in Nat /\ rOut - out > 0
    BY <1>2, <1>3
  <2> HIDE DEF k
  <2>2. \A m \in Nat : m > 0 => m * k \in Nat /\ m * k > 0
    BY <1>5
  <2> QED
    BY <2>1, <2>2
<1>7. rIn * out \in Nat /\ num \in Nat /\ rIn * out <= num
  <2>1. rIn * out \in Nat
    BY <1>2, <1>3
  <2> DEFINE m == rIn * out
  <2> HIDE DEF m
  <2>2. m \in Nat
    BY <2>1 DEF m
  <2>3. m * FeeDenom \in Nat /\ m * 1 <= m * FeeDenom /\ m * 1 = m
    BY <1>2, <2>2, ProductGrowsWith
  <2> QED
    BY <2>1, <2>3 DEF m
<1> DEFINE z == num \div den
<1>8. Wrap128(rIn * out) = rIn * out /\ Wrap128(num) = num /\ Wrap128(den) = den
  <2>1. rIn * out <= U128Max
    <3> DEFINE m == rIn * out
    <3> HIDE DEF m, num
    <3> QED
      BY <1>2, <1>4, <1>7 DEF m
  <2> HIDE DEF num, den
  <2> QED
    BY <1>4, <1>6, <1>7, <2>1, WrapFacts
<1>9. z \in Nat /\ num < den * z + den
  <2> HIDE DEF num, den
  <2> QED
    BY <1>6, <1>7, QuotientBounds
<1>10. in = Wrap64(Wrap64(z) + 1)
  <2>1. out # 0 /\ rIn # 0 /\ ~(rOut <= out) /\ ~(bps >= FeeDenom)
    BY <1>1, <1>2, <1>3, <1>4
  <2> QED
    BY <1>8, <2>1, Zenon DEF RustAmountIn
<1>11. in = z + 1 /\ in \in U64 /\ in \in Nat
  <2>1. z < U64Max
    BY <1>4
  <2> HIDE DEF z, in
  <2>2. Wrap64(z) = z
    BY <1>2, <1>9, <2>1, WrapFacts
  <2>3. z + 1 \in Nat /\ z + 1 <= U64Max
    BY <1>2, <1>9, <2>1
  <2>4. Wrap64(z + 1) = z + 1
    BY <2>3, WrapFacts
  <2> QED
    BY <1>2, <1>10, <2>2, <2>3, <2>4 DEF U64
<1> HIDE DEF in
<1>12. num <= in * den
  <2> HIDE DEF z, num, den
  <2>1. den * z + den = in * den /\ in * den \in Nat
    <3>1. in = z + 1 /\ z \in Nat /\ den \in Nat
      BY <1>6, <1>9, <1>11
    <3>2. (z + 1) * den = z * den + den /\ z * den = den * z
      BY <3>1
    <3> QED
      BY <1>11, <3>1, <3>2
  <2> QED
    BY <1>7, <1>9, <2>1
<1> DEFINE w == in * k
           n2 == w * rOut
           d2 == rIn * FeeDenom + w
<1>13. out * d2 <= n2
  <2>1. rIn * out * FeeDenom <= in * ((rOut - out) * k)
    BY <1>12
  <2> HIDE DEF k
  <2> QED
    BY <1>2, <1>3, <1>5, <1>11, <2>1, InversePays
<1>14. got = n2 \div d2
  BY Zenon DEF MoveOut, GetAmountOut, OutNumerator, OutDenominator, WithFee,
               rIn, rOut, bps
<1>15. w \in Nat /\ n2 \in Nat /\ d2 \in Nat /\ d2 > 0
  <2> HIDE DEF k
  <2>1. w \in Nat
    BY <1>5, <1>11
  <2>2. rIn * FeeDenom \in Nat /\ rIn * FeeDenom > 0
    BY <1>2, <1>4
  <2> HIDE DEF w
  <2>3. w * rOut \in Nat
    BY <1>2, <2>1
  <2> QED
    BY <2>1, <2>2, <2>3
<1> HIDE DEF w, n2, d2, got
<1>16. got \in Nat /\ n2 < d2 * got + d2
  BY <1>14, <1>15, QuotientBounds
<1>17. ASSUME got + 1 <= out PROVE FALSE
  <2>1. (got + 1) * d2 <= out * d2 /\ out * d2 \in Nat
    BY <1>3, <1>15, <1>16, <1>17, ProductGrowsWith
  <2>2. (got + 1) * d2 = d2 * got + d2 /\ d2 * got \in Nat
    BY <1>15, <1>16
  <2> QED
    BY <1>13, <1>15, <1>16, <2>1, <2>2
<1> QED
  BY <1>3, <1>16, <1>17

-----------------------------------------------------------------------------
(* RouteQuote: the theorems *)

\* The invariant holds in every reachable state.
THEOREM QuoteInductive == Spec => []IInv
<1>1. Init => IInv
  BY InitIInv
<1>2. IInv /\ [Next]_vars => IInv'
  BY NextIInv
<1> QED
  BY <1>1, <1>2, PTL DEF Spec

\* The reserves stay u64s: no swap the Move formula allows overflows a vault or
\* takes more than it holds.
THEOREM QuoteTypeCorrect == Spec => []TypeOK
<1>1. IInv => TypeOK
  BY DEF IInv
<1> QED
  BY <1>1, QuoteInductive, PTL

\* What a block has in hand after a hop is what the scan predicted of that hop, if
\* the pools of the route were as the scan saw them and each is passed once: the
\* wrapping Rust arithmetic agrees with Move wherever Move performs the swap.
THEOREM PredictionHolds == Spec => []SlippageOnlyFromRivals
<1>1. IInv => SlippageOnlyFromRivals
  BY DEF IInv, Follows, SlippageOnlyFromRivals
<1> QED
  BY <1>1, QuoteInductive, PTL

\* No slippage setting makes the block abort on a route that nobody disturbed.
THEOREM FloorsAdmit == Spec => []FloorsAdmitPrediction
<1>1. IInv => FloorsAdmitPrediction
  BY DEF IInv
<1> QED
  BY <1>1, QuoteInductive, PTL

\* Entering and leaving through one pool is never quoted at a profit.
THEOREM NoProfitFromOnePool == Spec => []NoPhantomRoundTrip
<1>1. ASSUME IInv PROVE NoPhantomRoundTrip
  <2>1. snap \in [Pool -> Reserves] /\ Input \subseteq U64
    BY <1>1, RouteQuoteAssumption DEF IInv, TypeOK
  <2>2. SUFFICES ASSUME NEW h \in Hop, NEW in \in Input,
                        SimulateCollect(snap, <<h, [h EXCEPT !.aToB = ~@]>>, in) # None
                 PROVE  SimulateCollect(snap, <<h, [h EXCEPT !.aToB = ~@]>>, in)[2] <= in
    BY Zenon DEF NoPhantomRoundTrip
  <2>3. in \in U64
    BY <2>1
  <2> QED
    BY <2>1, <2>2, <2>3, RoundTrip, Zenon
<1>2. IInv => NoPhantomRoundTrip
  BY <1>1
<1> QED
  BY <1>2, QuoteInductive, PTL

\* Paying what get_amount_in asks for buys at least what was asked for.
THEOREM AskedIsPaid == Spec => []AmountInSuffices
<1>1. ASSUME IInv PROVE AmountInSuffices
  <2>1. pools \in [Pool -> Reserves]
    BY <1>1 DEF IInv, TypeOK
  <2> QED
    BY <2>1, PaysFor, Zenon DEF AmountInSuffices
<1>2. IInv => AmountInSuffices
  BY <1>1
<1> QED
  BY <1>2, QuoteInductive, PTL

-----------------------------------------------------------------------------
(* Scanner: find_cycles *)

\* q is the path p of n hops and one more hop e.
Longer(q, p, n, e, E) ==
  q \in [1 .. n + 1 -> E] /\ q[n + 1] = e /\ \A i \in 1 .. n : q[i] = p[i]

\* An edge added to a path is its last hop and changes no other.
LEMMA AppendIs ==
  ASSUME NEW E, NEW n \in Nat, NEW p \in [1 .. n -> E], NEW e \in E
  PROVE  Longer(Append(p, e), p, n, e, E)
<1>1. p \in Seq(E) /\ Len(p) = n
  OBVIOUS
<1> DEFINE q == Append(p, e)
<1>2. q \in Seq(E) /\ Len(q) = n + 1 /\ q[n + 1] = e /\ \A i \in 1 .. n : q[i] = p[i]
  BY <1>1, AppendProperties
<1> HIDE DEF q
<1>3. q \in [1 .. n + 1 -> E]
  BY <1>2
<1> QED
  BY <1>1, <1>2, <1>3 DEF q, Longer

IsLonger(q, n, E) == \E p \in [1 .. n -> E], e \in E : q = Append(p, e)

\* A path of at least one hop is a shorter one and a last edge.
LEMMA SplitIs ==
  ASSUME NEW E, NEW n \in Nat, NEW q \in [1 .. n + 1 -> E]
  PROVE  IsLonger(q, n, E)
<1> DEFINE p == [i \in 1 .. n |-> q[i]]
           e == q[n + 1]
           s == Append(p, e)
<1>1. p \in [1 .. n -> E] /\ e \in E /\ \A i \in 1 .. n : p[i] = q[i]
  OBVIOUS
<1> HIDE DEF p
<1>2. s \in [1 .. n + 1 -> E] /\ s[n + 1] = e /\ \A i \in 1 .. n : s[i] = p[i]
  <2>1. Longer(s, p, n, e, E)
    BY <1>1, AppendIs
  <2> QED
    BY <2>1 DEF Longer
<1> HIDE DEF s
<1>3. \A i \in 1 .. n + 1 : s[i] = q[i]
  BY <1>1, <1>2
<1>4. s = q
  BY <1>2, <1>3
<1> QED
  BY <1>1, <1>4 DEF s, IsLonger

\* The paths of n edges dfs may have on its stack.
SimplePaths(ps, n) ==
  {p \in [1 .. n -> Edges(ps)] :
     /\ n > 0 => From(p[1]) = Base
     /\ \A i \in 1 .. n : To(p[i]) # Base
     /\ \A i \in 1 .. n - 1 : To(p[i]) = From(p[i + 1])
     /\ \A i, j \in 1 .. n : To(p[i]) = To(p[j]) => i = j}

\* The cycles of n hops.
CyclesOf(ps, n) ==
  {rt \in [1 .. n -> Edges(ps)] :
     /\ From(rt[1]) = Base /\ To(rt[n]) = Base
     /\ \A i \in 1 .. n - 1 : To(rt[i]) = From(rt[i + 1]) /\ To(rt[i]) # Base
     /\ \A i, j \in 1 .. n : To(rt[i]) = To(rt[j]) => i = j}

\* What dfs pushes onto paths, and where it closes them.
Extended(P, ps) ==
  {Append(pe[1], pe[2]) : pe \in
     {x \in P \X Edges(ps) : From(x[2]) = End(x[1]) /\ To(x[2]) \notin Visited(x[1])}}
Closed(P, ps) ==
  {Append(x[1], x[2]) : x \in
     {x \in P \X Edges(ps) : From(x[2]) = End(x[1]) /\ To(x[2]) = Base}}

\* Where a path ends and what it has visited.
LEMMA EndIs ==
  ASSUME NEW ps, NEW n \in Nat, NEW p \in [1 .. n -> Edges(ps)]
  PROVE  /\ End(p) = IF n = 0 THEN Base ELSE To(p[n])
         /\ \A t : t \in Visited(p) <=> t = Base \/ \E i \in 1 .. n : t = To(p[i])
<1>1. Len(p) = n /\ (p = <<>> <=> n = 0)
  OBVIOUS
<1> QED
  BY <1>1 DEF End, Visited

\* Pushing an edge to an unvisited token is what makes a longer simple path.
LEMMA StepIs ==
  ASSUME NEW ps, NEW n \in Nat, NEW p \in [1 .. n -> Edges(ps)], NEW e \in Edges(ps)
  PROVE  (p \in SimplePaths(ps, n) /\ From(e) = End(p) /\ To(e) \notin Visited(p))
         <=> Append(p, e) \in SimplePaths(ps, n + 1)
<1> DEFINE q == Append(p, e)
<1>1. /\ q \in [1 .. n + 1 -> Edges(ps)] /\ q[n + 1] = e
      /\ \A i \in 1 .. n : q[i] = p[i]
  <2>1. n \in Nat
    OBVIOUS
  <2>2. Longer(q, p, n, e, Edges(ps))
    BY <2>1, AppendIs, Zenon
  <2> QED
    BY <2>2, Zenon DEF Longer
<1>2. /\ End(p) = IF n = 0 THEN Base ELSE To(p[n])
      /\ \A t : t \in Visited(p) <=> t = Base \/ \E i \in 1 .. n : t = To(p[i])
  BY EndIs
<1> HIDE DEF q
<1>3. ASSUME p \in SimplePaths(ps, n), From(e) = End(p), To(e) \notin Visited(p)
      PROVE  q \in SimplePaths(ps, n + 1)
  <2>1. From(q[1]) = Base
    BY <1>1, <1>2, <1>3 DEF SimplePaths
  <2>2. \A i \in 1 .. n + 1 : To(q[i]) # Base
    BY <1>1, <1>2, <1>3 DEF SimplePaths
  <2>3. \A i \in 1 .. n : To(q[i]) = From(q[i + 1])
    BY <1>1, <1>2, <1>3 DEF SimplePaths
  <2>4. \A i, j \in 1 .. n + 1 : To(q[i]) = To(q[j]) => i = j
    BY <1>1, <1>2, <1>3 DEF SimplePaths
  <2> QED
    BY <1>1, <2>1, <2>2, <2>3, <2>4 DEF SimplePaths
<1>4. ASSUME q \in SimplePaths(ps, n + 1)
      PROVE  p \in SimplePaths(ps, n) /\ From(e) = End(p) /\ To(e) \notin Visited(p)
  <2>1. /\ From(q[1]) = Base
        /\ \A i \in 1 .. n + 1 : To(q[i]) # Base
        /\ \A i \in 1 .. n : To(q[i]) = From(q[i + 1])
        /\ \A i, j \in 1 .. n + 1 : To(q[i]) = To(q[j]) => i = j
    BY <1>4 DEF SimplePaths
  <2>2. p \in SimplePaths(ps, n)
    BY <1>1, <2>1 DEF SimplePaths
  <2>3. From(e) = End(p)
    BY <1>1, <1>2, <2>1
  <2>4. To(e) \notin Visited(p)
    BY <1>1, <1>2, <2>1
  <2> QED
    BY <2>2, <2>3, <2>4
<1> QED
  BY <1>3, <1>4 DEF q

\* Closing a simple path at the base token is what makes a cycle.
LEMMA CloseIs ==
  ASSUME NEW ps, NEW n \in Nat \ {0}, NEW p \in [1 .. n -> Edges(ps)], NEW e \in Edges(ps)
  PROVE  (p \in SimplePaths(ps, n) /\ From(e) = End(p) /\ To(e) = Base)
         <=> Append(p, e) \in CyclesOf(ps, n + 1)
<1> DEFINE q == Append(p, e)
<1>1. /\ q \in [1 .. n + 1 -> Edges(ps)] /\ q[n + 1] = e
      /\ \A i \in 1 .. n : q[i] = p[i]
  <2>1. n \in Nat
    OBVIOUS
  <2>2. Longer(q, p, n, e, Edges(ps))
    BY <2>1, AppendIs, Zenon
  <2> QED
    BY <2>2, Zenon DEF Longer
<1>2. End(p) = To(p[n])
  BY EndIs
<1> HIDE DEF q
<1>3. ASSUME p \in SimplePaths(ps, n), From(e) = End(p), To(e) = Base
      PROVE  q \in CyclesOf(ps, n + 1)
  <2>1. From(q[1]) = Base /\ To(q[n + 1]) = Base
    BY <1>1, <1>2, <1>3 DEF SimplePaths
  <2>2. \A i \in 1 .. n : To(q[i]) = From(q[i + 1]) /\ To(q[i]) # Base
    BY <1>1, <1>2, <1>3 DEF SimplePaths
  <2>3. \A i, j \in 1 .. n + 1 : To(q[i]) = To(q[j]) => i = j
    BY <1>1, <1>2, <1>3 DEF SimplePaths
  <2> QED
    BY <1>1, <2>1, <2>2, <2>3 DEF CyclesOf
<1>4. ASSUME q \in CyclesOf(ps, n + 1)
      PROVE  p \in SimplePaths(ps, n) /\ From(e) = End(p) /\ To(e) = Base
  <2>1. /\ From(q[1]) = Base /\ To(q[n + 1]) = Base
        /\ \A i \in 1 .. n : To(q[i]) = From(q[i + 1]) /\ To(q[i]) # Base
        /\ \A i, j \in 1 .. n + 1 : To(q[i]) = To(q[j]) => i = j
    BY <1>4 DEF CyclesOf
  <2>2. p \in SimplePaths(ps, n)
    BY <1>1, <2>1 DEF SimplePaths
  <2> QED
    BY <1>1, <1>2, <2>1, <2>2
<1> QED
  BY <1>3, <1>4 DEF q

\* One more turn of dfs turns the paths of n edges into those of n + 1.
LEMMA ExtendedIs ==
  ASSUME NEW ps, NEW n \in Nat
  PROVE  Extended(SimplePaths(ps, n), ps) = SimplePaths(ps, n + 1)
<1>1. ASSUME NEW q \in Extended(SimplePaths(ps, n), ps) PROVE q \in SimplePaths(ps, n + 1)
  <2>1. PICK p \in SimplePaths(ps, n), e \in Edges(ps) :
          q = Append(p, e) /\ From(e) = End(p) /\ To(e) \notin Visited(p)
    BY DEF Extended
  <2>2. p \in [1 .. n -> Edges(ps)]
    BY DEF SimplePaths
  <2> QED
    BY <2>1, <2>2, StepIs, Zenon
<1>2. ASSUME NEW q \in SimplePaths(ps, n + 1) PROVE q \in Extended(SimplePaths(ps, n), ps)
  <2>1. q \in [1 .. n + 1 -> Edges(ps)]
    BY DEF SimplePaths
  <2>2. PICK p \in [1 .. n -> Edges(ps)], e \in Edges(ps) : q = Append(p, e)
    <3>1. IsLonger(q, n, Edges(ps))
      BY <2>1, SplitIs, Zenon
    <3> QED
      BY <3>1, Zenon DEF IsLonger
  <2>3. p \in SimplePaths(ps, n) /\ From(e) = End(p) /\ To(e) \notin Visited(p)
    BY <1>2, <2>2, StepIs, Zenon
  <2>4. <<p, e>> \in SimplePaths(ps, n) \X Edges(ps) /\ <<p, e>>[1] = p /\ <<p, e>>[2] = e
    BY <2>3
  <2> QED
    BY <2>2, <2>3, <2>4, Zenon DEF Extended
<1> QED
  BY <1>1, <1>2

\* The edges that close the paths of n edges give the cycles of n + 1 hops.
LEMMA ClosedIs ==
  ASSUME NEW ps, NEW n \in Nat \ {0}
  PROVE  Closed(SimplePaths(ps, n), ps) = CyclesOf(ps, n + 1)
<1>1. ASSUME NEW q \in Closed(SimplePaths(ps, n), ps) PROVE q \in CyclesOf(ps, n + 1)
  <2>1. PICK p \in SimplePaths(ps, n), e \in Edges(ps) :
          q = Append(p, e) /\ From(e) = End(p) /\ To(e) = Base
    BY DEF Closed
  <2>2. p \in [1 .. n -> Edges(ps)]
    BY DEF SimplePaths
  <2> QED
    BY <2>1, <2>2, CloseIs, Zenon
<1>2. ASSUME NEW q \in CyclesOf(ps, n + 1) PROVE q \in Closed(SimplePaths(ps, n), ps)
  <2>1. q \in [1 .. n + 1 -> Edges(ps)]
    BY DEF CyclesOf
  <2>2. PICK p \in [1 .. n -> Edges(ps)], e \in Edges(ps) : q = Append(p, e)
    <3>1. n \in Nat
      OBVIOUS
    <3>2. IsLonger(q, n, Edges(ps))
      BY <2>1, <3>1, SplitIs, Zenon
    <3> QED
      BY <3>2, Zenon DEF IsLonger
  <2>3. p \in SimplePaths(ps, n) /\ From(e) = End(p) /\ To(e) = Base
    BY <1>2, <2>2, CloseIs, Zenon
  <2>4. <<p, e>> \in SimplePaths(ps, n) \X Edges(ps) /\ <<p, e>>[1] = p /\ <<p, e>>[2] = e
    BY <2>3
  <2> QED
    BY <2>2, <2>3, <2>4, Zenon DEF Closed
<1> QED
  BY <1>1, <1>2

\* The search returns the simple cycles, all of them and nothing else.
LEMMA FindsCycles ==
  ASSUME NEW ps
  PROVE  FindCycles(ps) = SimpleCycles(ps)
<1> DEFINE Paths(f) ==
             f = [n \in Nat |->
                    IF n = 0 THEN {<<>>}
                    ELSE {Append(pe[1], pe[2]) : pe \in
                            {x \in f[n - 1] \X Edges(ps) :
                               From(x[2]) = End(x[1]) /\ To(x[2]) \notin Visited(x[1])}}]
           paths == CHOOSE f : Paths(f)
           V == SUBSET Seq(Edges(ps))
           step == [n \in Nat |-> [P \in V |-> Extended(P, ps)]]
<1>1. \A P \in V : Extended(P, ps) \in V
  BY DEF Extended
<1>2. {<<>>} \in V
  OBVIOUS
<1>3. \A n \in Nat, P \in V : step[n][P] = Extended(P, ps)
  OBVIOUS
<1> HIDE DEF step, V
<1>4. \E f : Paths(f)
  <2>1. \E f : Recurses(f, V, {<<>>}, step)
    BY <1>1, <1>2, <1>3, RecursionExists
  <2>2. PICK f : Recurses(f, V, {<<>>}, step)
    BY <2>1
  <2> DEFINE Next1(n) == IF n = 0 THEN {<<>>} ELSE Extended(f[n - 1], ps)
  <2>3. \A n \in Nat : f[n] = Next1(n)
    <3>1. TAKE n \in Nat
    <3>2. n # 0 => n - 1 \in Nat /\ n - 1 + 1 = n
      OBVIOUS
    <3>3. n # 0 => f[n - 1] \in V /\ f[n - 1 + 1] = step[n - 1][f[n - 1]]
      BY <2>2, <3>2, Zenon DEF Recurses
    <3>4. n # 0 => f[n] = Extended(f[n - 1], ps)
      BY <1>3, <3>2, <3>3
    <3> QED
      BY <2>2, <3>4 DEF Recurses
  <2>4. f = [n \in Nat |-> f[n]]
    BY <2>2 DEF Recurses
  <2> HIDE DEF Next1
  <2>5. f = [n \in Nat |-> Next1(n)]
    BY <2>3, <2>4
  <2> QED
    BY <2>5, Zenon DEF Next1, Extended
<1>5. Paths(paths)
  BY <1>4, Zenon
<1> HIDE DEF paths
<1>6. /\ paths[0] = {<<>>}
      /\ \A n \in Nat : n # 0 => paths[n] = Extended(paths[n - 1], ps)
  <2> DEFINE Next1(n) == IF n = 0 THEN {<<>>} ELSE Extended(paths[n - 1], ps)
  <2>1. paths = [n \in Nat |-> Next1(n)]
    BY <1>5, Zenon DEF Extended
  <2> HIDE DEF Next1
  <2>2. \A n \in Nat : paths[n] = Next1(n)
    BY <2>1
  <2> QED
    BY <2>2 DEF Next1
<1> DEFINE T == {n \in Nat : paths[n] = SimplePaths(ps, n)}
<1>7. 0 \in T
  <2>1. SimplePaths(ps, 0) = {<<>>}
    <3>1. 1 .. 0 = {}
      OBVIOUS
    <3>2. \A p : p \in [1 .. 0 -> Edges(ps)] <=> p = <<>>
      <4>1. ASSUME NEW p \in [{} -> Edges(ps)] PROVE p = <<>>
        OBVIOUS
      <4>2. <<>> \in [{} -> Edges(ps)]
        OBVIOUS
      <4> QED
        BY <3>1, <4>1, <4>2
    <3> QED
      BY <3>1, <3>2 DEF SimplePaths
  <2> QED
    BY <1>6, <2>1
<1>8. ASSUME NEW n \in Nat, n \in T PROVE n + 1 \in T
  <2>1. n + 1 \in Nat /\ n + 1 # 0 /\ n + 1 - 1 = n
    OBVIOUS
  <2>2. paths[n + 1] = Extended(paths[n + 1 - 1], ps)
    BY <1>6, <2>1
  <2>3. paths[n + 1] = SimplePaths(ps, n + 1)
    BY <1>8, <2>1, <2>2, ExtendedIs
  <2> QED
    BY <2>1, <2>3
<1> HIDE DEF T
<1>9. Nat \subseteq T
  BY <1>7, <1>8, SetInduction
<1>10. ASSUME NEW n \in Nat PROVE paths[n] = SimplePaths(ps, n)
  <2>1. n \in T
    BY <1>9
  <2> QED
    BY <2>1 DEF T
<1>11. FindCycles(ps) = UNION {Closed(paths[n], ps) : n \in 1 .. MaxHops - 1}
  BY Zenon DEF FindCycles, Closed, paths
<1>12. MaxHops \in Nat
  BY ScannerAssumption
<1>13. \A n \in 1 .. MaxHops - 1 : Closed(paths[n], ps) = CyclesOf(ps, n + 1)
  BY <1>10, <1>12, ClosedIs
<1>14. \A rt : rt \in SimpleCycles(ps) <=> \E n \in 2 .. MaxHops : rt \in CyclesOf(ps, n)
  <2>1. ASSUME NEW n \in 2 .. MaxHops, NEW rt \in [1 .. n -> Edges(ps)]
        PROVE  Len(rt) = n
    BY <1>12
  <2> QED
    BY <2>1 DEF SimpleCycles, CyclesOf
<1>15. \A n : n \in 2 .. MaxHops <=> \E m \in 1 .. MaxHops - 1 : n = m + 1
  BY <1>12
<1>16. \A rt : rt \in FindCycles(ps) <=> \E n \in 1 .. MaxHops - 1 : rt \in CyclesOf(ps, n + 1)
  BY <1>11, <1>13
<1> QED
  BY <1>14, <1>15, <1>16

-----------------------------------------------------------------------------
(* sizing::ternary_max *)

\* A value is an integer wherever there is one.
Valued(f, lo, hi) == \A x \in lo .. hi : f[x] # None => f[x] \in Int

\* The best point of a window is one of its points.
LEMMA FirstMaxIs ==
  ASSUME NEW f, NEW lo \in Nat, NEW hi \in Nat, Valued(f, lo, hi)
  PROVE  FirstMax(f, lo, hi) \in (lo .. hi) \union {None}
<1> DEFINE S == {x \in lo .. hi : f[x] # None}
<1>1. CASE S = {}
  BY <1>1, Zenon DEF FirstMax
<1>2. CASE S # {}
  <2>1. S \subseteq Nat /\ S \subseteq lo .. hi /\ \A x \in S : f[x] \in Int
    BY DEF Valued
  <2>2. IsFiniteSet(S)
    <3>1. IsFiniteSet(lo .. hi)
      BY FS_Interval
    <3> QED
      BY <2>1, <3>1, FS_Subset, Zenon
  <2> DEFINE Best(x) == \A y \in S : f[y] < f[x] \/ (f[y] = f[x] /\ x <= y)
  <2>3. \E x \in S : Best(x)
    <3> HIDE DEF S
    <3> QED
      BY <1>2, <2>1, <2>2, FirstGreatest, Zenon
  <2>4. FirstMax(f, lo, hi) = CHOOSE x \in S : Best(x)
    BY <1>2, Zenon DEF FirstMax
  <2> HIDE DEF S, Best
  <2>5. (CHOOSE x \in S : Best(x)) \in S
    BY <2>3, Zenon
  <2> QED
    BY <2>1, <2>4, <2>5
<1> QED
  BY <1>1, <1>2

\* A loop that narrows a window.
Width == [w \in Window |-> IF w[1] <= w[2] THEN w[2] - w[1] ELSE 0]

\* A window is the pair of its ends, and its width a natural number.
LEMMA WindowIs ==
  ASSUME NEW w \in Window
  PROVE  /\ w[1] \in Nat /\ w[2] \in Nat /\ w = <<w[1], w[2]>>
         /\ Width \in [Window -> Nat]
         /\ Width[w] = IF w[1] <= w[2] THEN w[2] - w[1] ELSE 0
<1>1. w[1] \in Nat /\ w[2] \in Nat /\ w = <<w[1], w[2]>>
  BY DEF Window
<1>2. \A x \in Window : x[1] \in Nat /\ x[2] \in Nat
  BY DEF Window
<1> QED
  BY <1>1, <1>2 DEF Width

\* A pair of natural numbers is a window.
LEMMA PairIs ==
  ASSUME NEW l \in Nat, NEW h \in Nat
  PROVE  <<l, h>> \in Window /\ <<l, h>>[1] = l /\ <<l, h>>[2] = h
BY DEF Window

\* The binary search for the largest feasible size returns one of the sizes.
LEMMA BisectIs ==
  ASSUME NEW f, NEW lo \in Nat, NEW hi \in Nat, lo <= hi
  PROVE  FeasibleUpperBound(f, lo, hi) \in (lo .. hi) \union {None}
<1> DEFINE Mid(w) == w[1] + (w[2] - w[1]) \div 2
           To1(w) == IF f[Mid(w)] # None THEN <<Mid(w), w[2]>> ELSE <<w[1], Mid(w)>>
           Leaf == {w \in Window : w[2] - w[1] <= 1}
           next == [w \in Window |-> IF w \in Leaf THEN w ELSE To1(w)]
           val == [w \in Window |-> w[1]]
           Bisects(g) == g = [w \in Window |->
                                IF w[2] - w[1] <= 1 THEN w[1]
                                ELSE LET mid == w[1] + (w[2] - w[1]) \div 2
                                     IN  g[IF f[mid] # None THEN <<mid, w[2]>>
                                                            ELSE <<w[1], mid>>]]
           bisect == CHOOSE g : Bisects(g)
           Good == {w \in Window : lo <= w[1] /\ w[1] <= w[2] /\ w[2] <= hi}
<1>1. ASSUME NEW w \in Window, w \notin Leaf
      PROVE  /\ Mid(w) \in Nat /\ w[1] < Mid(w) /\ Mid(w) < w[2]
             /\ w[1] \in Nat /\ w[2] \in Nat
  <2>1. w[1] \in Nat /\ w[2] \in Nat
    BY WindowIs
  <2>2. w[2] - w[1] > 1
    BY <1>1, <2>1
  <2> QED
    BY <2>1, <2>2
<1> HIDE DEF Mid
<1>2. ASSUME NEW w \in Window, w \notin Leaf
      PROVE  /\ To1(w) \in Window /\ Width[To1(w)] < Width[w]
             /\ w[1] <= To1(w)[1] /\ To1(w)[1] <= To1(w)[2] /\ To1(w)[2] <= w[2]
  <2> DEFINE l == w[1]
             h == w[2]
             k == Mid(w)
             n == To1(w)
  <2>1. k \in Nat /\ l < k /\ k < h /\ l \in Nat /\ h \in Nat
    BY <1>1, <1>2
  <2>2. n = <<k, h>> \/ n = <<l, k>>
    OBVIOUS
  <2> HIDE DEF l, h, k, n
  <2>3. n \in Window /\ ((n[1] = k /\ n[2] = h) \/ (n[1] = l /\ n[2] = k))
    BY <2>1, <2>2, PairIs
  <2>4. Width[n] = IF n[1] <= n[2] THEN n[2] - n[1] ELSE 0
    BY <2>3, WindowIs
  <2>5. Width[w] = IF l <= h THEN h - l ELSE 0
    BY WindowIs DEF l, h
  <2>6. Width[n] < Width[w] /\ l <= n[1] /\ n[1] <= n[2] /\ n[2] <= h
    BY <2>1, <2>3, <2>4, <2>5
  <2> QED
    BY <2>3, <2>6 DEF l, h, n
<1> HIDE DEF To1
<1>3. /\ val \in [Window -> Nat] /\ next \in [Window -> Window] /\ Width \in [Window -> Nat]
      /\ \A w \in Window : val[w] = w[1]
  <2>1. \A w \in Window : w[1] \in Nat /\ Width \in [Window -> Nat]
    BY WindowIs, Zenon
  <2>2. <<0, 0>> \in Window
    BY PairIs
  <2> QED
    BY <1>2, <2>1, <2>2
<1>4. \A w \in Window : w \notin Leaf => next[w] = To1(w) /\ Width[next[w]] < Width[w]
  BY <1>2
<1> HIDE DEF next, val
<1>4a. Descends(Width, Window, Leaf, next)
  BY <1>3, <1>4 DEF Descends
<1> DEFINE Loops(g) == TailCalls(g, Window, Leaf, val, next)
<1>5. \E g : Bisects(g)
  <2>1. PICK g \in [Window -> Nat] : Loops(g)
    <3> HIDE DEF Leaf
    <3> QED
      BY <1>3, <1>4a, TailRecursion, Zenon
  <2> DEFINE Body(w) == IF w[2] - w[1] <= 1 THEN w[1] ELSE g[To1(w)]
  <2>2. \A w \in Window : g[w] = Body(w)
    BY <1>3, <1>4, <2>1 DEF TailCalls
  <2>3. g = [w \in Window |-> g[w]]
    OBVIOUS
  <2> HIDE DEF Body
  <2>4. g = [w \in Window |-> Body(w)]
    BY <2>2, <2>3
  <2> QED
    BY <2>4, Zenon DEF Body, To1, Mid
<1>6. Bisects(bisect)
  BY <1>5, Zenon
<1> HIDE DEF bisect
<1>7. Loops(bisect)
  <2> DEFINE Body(w) == IF w[2] - w[1] <= 1 THEN w[1] ELSE bisect[To1(w)]
  <2>1. bisect = [w \in Window |-> Body(w)]
    BY <1>6, Zenon DEF To1, Mid
  <2> HIDE DEF Body
  <2>2. \A w \in Window : bisect[w] = Body(w)
    BY <2>1
  <2> QED
    BY <1>3, <1>4, <2>2 DEF Body, TailCalls
<1>8. \A w \in Good : bisect[w] \in lo .. hi
  <2>1. Good \in SUBSET Window
    OBVIOUS
  <2>2. \A w \in Good : w \in Leaf => val[w] \in lo .. hi
    <3>1. \A w \in Window : w[1] \in Nat /\ w[2] \in Nat
      BY WindowIs, Zenon
    <3> QED
      BY <1>3, <3>1
  <2>3. \A w \in Good : w \notin Leaf => next[w] \in Good
    <3>1. TAKE w \in Good
    <3>2. HAVE w \notin Leaf
    <3> DEFINE n == To1(w)
    <3>3. n \in Window /\ w[1] <= n[1] /\ n[1] <= n[2] /\ n[2] <= w[2]
      BY <1>2, <3>2
    <3>4. next[w] = n /\ w \in Window /\ lo <= w[1] /\ w[2] <= hi
      BY <1>4, <3>2
    <3> HIDE DEF n
    <3>5. n[1] \in Nat /\ n[2] \in Nat /\ w[1] \in Nat /\ w[2] \in Nat
      BY <3>3, <3>4, WindowIs
    <3> QED
      BY <3>3, <3>4, <3>5
  <2> HIDE DEF Good, Leaf
  <2>4. Keeps(Good, lo .. hi, Window, Leaf, val, next)
    BY <2>1, <2>2, <2>3 DEF Keeps
  <2>5. Returns(bisect, Good, lo .. hi)
    BY <1>4a, <1>7, <2>4, TailInvariant, Zenon
  <2> QED
    BY <2>5 DEF Returns
<1>9. <<lo, hi>> \in Good
  BY PairIs
<1>10. FeasibleUpperBound(f, lo, hi) = IF f[hi] # None THEN hi
                                       ELSE IF f[lo] = None THEN None
                                       ELSE bisect[<<lo, hi>>]
  BY Zenon DEF FeasibleUpperBound, bisect
<1> QED
  BY <1>8, <1>9, <1>10

\* The optimizer returns a size of the window it was given, or none.
LEMMA TernaryMaxIs ==
  ASSUME NEW f, NEW lo \in Nat, NEW hi \in Nat, Valued(f, lo, hi)
  PROVE  TernaryMax(f, lo, hi) \in (lo .. hi) \union {None}
<1> DEFINE top == FeasibleUpperBound(f, lo, hi)
           Third(w) == (w[2] - w[1]) \div 3
           To1(w) == IF Below(f[w[1] + Third(w)], f[w[2] - Third(w)])
                     THEN <<w[1] + Third(w) + 1, w[2]>> ELSE <<w[1], w[2] - Third(w) - 1>>
           Leaf == {w \in Window : w[2] - w[1] <= 2}
           next == [w \in Window |-> IF w \in Leaf THEN w ELSE To1(w)]
           val == [w \in Window |-> FirstMax(f, w[1], w[2])]
           V == {FirstMax(f, w[1], w[2]) : w \in Window}
           Searches(g) == g = [w \in Window |->
                                 IF w[2] - w[1] <= 2 THEN FirstMax(f, w[1], w[2])
                                 ELSE LET third == (w[2] - w[1]) \div 3
                                          m1 == w[1] + third
                                          m2 == w[2] - third
                                      IN  g[IF Below(f[m1], f[m2]) THEN <<m1 + 1, w[2]>>
                                                                   ELSE <<w[1], m2 - 1>>]]
           search == CHOOSE g : Searches(g)
           R == (lo .. hi) \union {None}
<1>1. SUFFICES ASSUME lo <= hi, top # None PROVE TernaryMax(f, lo, hi) \in R
  <2>1. lo > hi \/ top = None => TernaryMax(f, lo, hi) = None
    BY Zenon DEF TernaryMax
  <2> QED
    BY <2>1
<1>2. top \in lo .. hi
  BY <1>1, BisectIs
<1> HIDE DEF top
<1> DEFINE Good == {w \in Window : lo <= w[1] /\ w[1] <= w[2] /\ w[2] <= top}
<1>3. ASSUME NEW w \in Window, w \notin Leaf
      PROVE  /\ Third(w) \in Nat /\ Third(w) > 0 /\ w[1] + 3 * Third(w) <= w[2]
             /\ w[1] \in Nat /\ w[2] \in Nat
  <2>1. w[1] \in Nat /\ w[2] \in Nat
    BY WindowIs
  <2>2. w[2] - w[1] > 2
    BY <1>3, <2>1
  <2> QED
    BY <2>1, <2>2
<1> HIDE DEF Third
<1>4. ASSUME NEW w \in Window, w \notin Leaf
      PROVE  /\ To1(w) \in Window /\ Width[To1(w)] < Width[w]
             /\ w[1] <= To1(w)[1] /\ To1(w)[1] <= To1(w)[2] /\ To1(w)[2] <= w[2]
  <2> DEFINE l == w[1]
             h == w[2]
             k == Third(w)
             n == To1(w)
  <2>1. k \in Nat /\ k > 0 /\ l + 3 * k <= h /\ l \in Nat /\ h \in Nat
    BY <1>3, <1>4
  <2>2. n = <<l + k + 1, h>> \/ n = <<l, h - k - 1>>
    OBVIOUS
  <2> HIDE DEF l, h, k, n
  <2>3. l + k + 1 \in Nat /\ h - k - 1 \in Nat
    BY <2>1
  <2>4. n \in Window /\ ((n[1] = l + k + 1 /\ n[2] = h) \/ (n[1] = l /\ n[2] = h - k - 1))
    BY <2>1, <2>2, <2>3, PairIs
  <2>5. Width[n] = IF n[1] <= n[2] THEN n[2] - n[1] ELSE 0
    BY <2>4, WindowIs
  <2>6. Width[w] = IF l <= h THEN h - l ELSE 0
    BY WindowIs DEF l, h
  <2>7. Width[n] < Width[w] /\ l <= n[1] /\ n[1] <= n[2] /\ n[2] <= h
    BY <2>1, <2>4, <2>5, <2>6
  <2> QED
    BY <2>4, <2>7 DEF l, h, n
<1> HIDE DEF To1
<1>5. /\ val \in [Window -> V] /\ next \in [Window -> Window] /\ Width \in [Window -> Nat]
      /\ \A w \in Window : val[w] = FirstMax(f, w[1], w[2])
  <2>1. \A w \in Window : Width \in [Window -> Nat]
    BY WindowIs, Zenon
  <2>2. <<0, 0>> \in Window
    BY PairIs
  <2> QED
    BY <1>4, <2>1, <2>2
<1>6. \A w \in Window : w \notin Leaf => next[w] = To1(w) /\ Width[next[w]] < Width[w]
  BY <1>4
<1> HIDE DEF next, val, V
<1>6a. Descends(Width, Window, Leaf, next)
  BY <1>5, <1>6 DEF Descends
<1> DEFINE Loops(g) == TailCalls(g, Window, Leaf, val, next)
<1>7. \E g : Searches(g)
  <2>1. PICK g \in [Window -> V] : Loops(g)
    <3> HIDE DEF Leaf
    <3> QED
      BY <1>5, <1>6a, TailRecursion, Zenon
  <2> DEFINE Body(w) == IF w[2] - w[1] <= 2 THEN FirstMax(f, w[1], w[2]) ELSE g[To1(w)]
  <2>2. \A w \in Window : g[w] = Body(w)
    BY <1>5, <1>6, <2>1 DEF TailCalls
  <2>3. g = [w \in Window |-> g[w]]
    OBVIOUS
  <2> HIDE DEF Body
  <2>4. g = [w \in Window |-> Body(w)]
    BY <2>2, <2>3
  <2> QED
    BY <2>4, Zenon DEF Body, To1, Third
<1>8. Searches(search)
  BY <1>7, Zenon
<1> HIDE DEF search
<1>9. Loops(search)
  <2> DEFINE Body(w) == IF w[2] - w[1] <= 2 THEN FirstMax(f, w[1], w[2]) ELSE search[To1(w)]
  <2>1. search = [w \in Window |-> Body(w)]
    BY <1>8, Zenon DEF To1, Third
  <2> HIDE DEF Body
  <2>2. \A w \in Window : search[w] = Body(w)
    BY <2>1
  <2> QED
    BY <1>5, <1>6, <2>2 DEF Body, TailCalls
<1>10. \A w \in Good : search[w] \in R
  <2>1. Good \in SUBSET Window
    OBVIOUS
  <2>2. \A w \in Good : w \in Leaf => val[w] \in R
    <3>1. TAKE w \in Good
    <3> DEFINE l == w[1]
               h == w[2]
    <3>2. l \in Nat /\ h \in Nat /\ lo <= l /\ h <= top
      BY WindowIs
    <3>3. val[w] = FirstMax(f, l, h)
      BY <1>5
    <3> HIDE DEF l, h
    <3>4. l .. h \subseteq lo .. hi
      BY <1>2, <3>2
    <3>5. Valued(f, l, h)
      BY <3>4, Zenon DEF Valued
    <3>6. FirstMax(f, l, h) \in (l .. h) \union {None}
      BY <3>2, <3>5, FirstMaxIs
    <3> QED
      BY <3>3, <3>4, <3>6
  <2>3. \A w \in Good : w \notin Leaf => next[w] \in Good
    <3>1. TAKE w \in Good
    <3>2. HAVE w \notin Leaf
    <3> DEFINE n == To1(w)
    <3>3. n \in Window /\ w[1] <= n[1] /\ n[1] <= n[2] /\ n[2] <= w[2]
      BY <1>4, <3>2
    <3>4. next[w] = n /\ w \in Window /\ lo <= w[1] /\ w[2] <= top
      BY <1>6, <3>2
    <3> HIDE DEF n
    <3>5. n[1] \in Nat /\ n[2] \in Nat /\ w[1] \in Nat /\ w[2] \in Nat
      BY <3>3, <3>4, WindowIs
    <3> QED
      BY <1>2, <3>3, <3>4, <3>5
  <2> HIDE DEF Good, Leaf, R
  <2>4. Keeps(Good, R, Window, Leaf, val, next)
    BY <2>1, <2>2, <2>3 DEF Keeps
  <2>5. Returns(search, Good, R)
    BY <1>6a, <1>9, <2>4, TailInvariant, Zenon
  <2> QED
    BY <2>5 DEF Returns
<1>11. <<lo, top>> \in Good
  BY <1>2, PairIs
<1>12. TernaryMax(f, lo, hi) = IF lo > hi \/ top = None THEN None ELSE search[<<lo, top>>]
  BY Zenon DEF TernaryMax, search, top
<1> QED
  BY <1>1, <1>10, <1>11, <1>12

-----------------------------------------------------------------------------
(* size_route and find_best *)

\* The routes of a scan are routes.
LEMMA CyclesAreRoutes ==
  ASSUME NEW ps \in SUBSET Pool, NEW rt \in FindCycles(ps)
  PROVE  rt \in Seq(Hop) \ {<<>>}
<1>1. rt \in SimpleCycles(ps)
  BY FindsCycles
<1>2. PICK n \in 2 .. MaxHops : rt \in [1 .. n -> Edges(ps)]
  BY <1>1 DEF SimpleCycles
<1>3. MaxHops \in Nat
  BY ScannerAssumption
<1>4. n \in Nat /\ n > 0
  BY <1>3
<1>5. Edges(ps) \subseteq Hop
  BY DEF Edges, Hop
<1>6. rt \in [1 .. n -> Hop]
  BY <1>2, <1>5
<1>7. rt \in Seq(Hop) /\ Len(rt) = n
  BY <1>4, <1>6
<1> QED
  BY <1>4, <1>7

\* The flash fee is a natural number.
LEMMA FeeType ==
  ASSUME NEW in \in U64
  PROVE  FlashFee(in) \in Nat
<1>1. in \in Nat /\ FlashFeeBps \in Nat /\ FeeDenom \in Nat \ {0} /\ 0 \in Nat
  BY WidthAssumption, ScannerAssumption DEF U64
<1> DEFINE n == in * FlashFeeBps
           q == n \div FeeDenom + (IF n % FeeDenom = 0 THEN 0 ELSE 1)
<1>2. n \in Nat
  BY <1>1
<1> HIDE DEF n
<1>3. n \div FeeDenom \in Nat
  BY <1>1, <1>2, QuotientBounds
<1>4. q \in Nat
  BY <1>3
<1>5. QuoteFeeBps(in, FlashFeeBps) = Wrap64(q)
  BY DEF QuoteFeeBps, n
<1> HIDE DEF q
<1>6. Wrap64(q) \in Nat
  BY <1>4, WrapFacts, WidthAssumption DEF U64
<1> QED
  BY <1>1, <1>5, <1>6 DEF FlashFee

\* Where a size can be quoted, what comes out and what is left of it.
Quoted(r, rt, in) ==
  LET quotes == SimulateCollect(r, rt, in)
  IN  /\ quotes # None /\ quotes \in Seq(U64) /\ quotes[Len(rt)] \in U64
      /\ NetSigned(r, rt, in) = quotes[Len(rt)] - in - GasCost - FlashFee(in)
      /\ NetSigned(r, rt, in) \in Int

\* A size has a net exactly when it can be quoted.
LEMMA QuotedIs ==
  ASSUME NEW r \in [Pool -> Reserves], NEW rt \in Seq(Hop) \ {<<>>}, NEW in \in U64
  PROVE  /\ SimulateCollect(r, rt, in) # None => Quoted(r, rt, in)
         /\ NetSigned(r, rt, in) # None => SimulateCollect(r, rt, in) # None
<1> DEFINE quotes == SimulateCollect(r, rt, in)
           out == quotes[Len(rt)]
<1>1. ASSUME quotes # None PROVE Quoted(r, rt, in)
  <2>1. quotes \in Seq(U64) /\ Len(quotes) = Len(rt) /\ Len(rt) \in Nat /\ Len(rt) >= 1
    BY <1>1, CollectFacts, Zenon
  <2> HIDE DEF quotes
  <2>2. out \in U64
    BY <2>1
  <2>3. out # None
    BY <2>2, QuoteAssumption
  <2>4. Output(r, rt, in) = out
    BY <1>1 DEF Output, quotes
  <2>5. NetSigned(r, rt, in) = out - in - GasCost - FlashFee(in)
    BY <2>3, <2>4 DEF NetSigned
  <2>6. out \in Int /\ in \in Int /\ GasCost \in Int /\ FlashFee(in) \in Int
    BY <2>2, WidthAssumption, ScannerAssumption, FeeType DEF U64
  <2> QED
    BY <1>1, <2>1, <2>2, <2>5, <2>6 DEF Quoted, quotes
<1>2. NetSigned(r, rt, in) # None => quotes # None
  BY DEF NetSigned, Output
<1> QED
  BY <1>1, <1>2

\* An opportunity, and what it says of its size.
Offers(o, r, rt, in) ==
  /\ o # None /\ o \in Opportunity /\ Quoted(r, rt, in)
  /\ o.route = rt /\ o.input = in /\ o.outs = SimulateCollect(r, rt, in)
  /\ o.outs[Len(rt)] > in /\ o.net >= MinProfit
  /\ o.net = IF NetSigned(r, rt, in) > 0 THEN NetSigned(r, rt, in) ELSE 0

\* Two saturating subtractions give the difference, or 0 where it is negative.
LEMMA SaturatesTwice ==
  ASSUME NEW x \in Int, NEW y \in Nat, NEW z \in Nat
  PROVE  SaturatingSub(SaturatingSub(x, y), z) = IF x - y - z > 0 THEN x - y - z ELSE 0
<1>1. CASE x > y
  BY <1>1 DEF SaturatingSub
<1>2. CASE ~(x > y)
  BY <1>2 DEF SaturatingSub
<1> QED
  BY <1>1, <1>2

\* evaluate_input offers what it computed, and every size whose net clears the bar.
LEMMA EvaluateIs ==
  ASSUME NEW r \in [Pool -> Reserves], NEW rt \in Seq(Hop) \ {<<>>}, NEW in \in U64
  PROVE  /\ EvaluateInput(r, rt, in) # None => Offers(EvaluateInput(r, rt, in), r, rt, in)
         /\ NetSigned(r, rt, in) # None /\ NetSigned(r, rt, in) >= MinProfit
            /\ NetSigned(r, rt, in) > 0 => EvaluateInput(r, rt, in) # None
<1> DEFINE quotes == SimulateCollect(r, rt, in)
           out == quotes[Len(rt)]
           fee == FlashFee(in)
           net == SaturatingSub(SaturatingSub(out - in, GasCost), fee)
           o == [route |-> rt, input |-> in, outs |-> quotes, net |-> net]
           e == EvaluateInput(r, rt, in)
           ns == NetSigned(r, rt, in)
<1>1. e = IF quotes = None THEN None
          ELSE IF out <= in \/ net < MinProfit THEN None ELSE o
  BY Zenon DEF EvaluateInput
<1>2. SUFFICES ASSUME quotes # None
               PROVE  /\ e # None => Offers(e, r, rt, in)
                      /\ ns >= MinProfit /\ ns > 0 => e # None
  <2>1. quotes = None => e = None /\ ns = None
    BY <1>1, QuotedIs, Zenon
  <2> QED
    BY <2>1, Zenon
<1>3. Quoted(r, rt, in)
  BY <1>2, QuotedIs
<1>4. quotes \in Seq(U64) /\ out \in U64 /\ ns = out - in - GasCost - fee /\ ns \in Int
  BY <1>3 DEF Quoted
<1>5. /\ out \in Nat /\ out <= U64Max /\ U64Max \in Nat /\ in \in Nat /\ GasCost \in Nat
      /\ fee \in Nat /\ MinProfit \in Nat
  BY <1>4, WidthAssumption, ScannerAssumption, FeeType DEF U64
<1> HIDE DEF quotes, fee, e, ns
<1>6. out > in => net = (IF ns > 0 THEN ns ELSE 0) /\ net \in U64
  <2> HIDE DEF out
  <2>1. net = IF out - in - GasCost - fee > 0 THEN out - in - GasCost - fee ELSE 0
    BY <1>5, SaturatesTwice
  <2> HIDE DEF net
  <2> QED
    BY <1>4, <1>5, <2>1 DEF U64
<1> HIDE DEF net
<1>7. ASSUME e # None PROVE Offers(e, r, rt, in)
  <2>1. e = o /\ ~(out <= in) /\ ~(net < MinProfit)
    BY <1>1, <1>2, <1>7
  <2>2. out > in /\ net \in U64 /\ net = (IF ns > 0 THEN ns ELSE 0)
    BY <1>5, <1>6, <2>1
  <2>3. net >= MinProfit
    BY <1>5, <2>1, <2>2 DEF U64
  <2>4. o \in Opportunity
    BY <1>4, <2>2 DEF Opportunity
  <2>5. o # None
    BY <2>4, ScannerAssumption
  <2>6. o.route = rt /\ o.input = in /\ o.outs = quotes /\ o.net = net
    OBVIOUS
  <2> HIDE DEF o
  <2> QED
    BY <1>3, <2>1, <2>2, <2>3, <2>4, <2>5, <2>6 DEF Offers, quotes, ns
<1>8. ASSUME ns >= MinProfit, ns > 0 PROVE e # None
  <2>1. out > in
    BY <1>4, <1>5, <1>8
  <2>2. net = ns
    BY <1>6, <1>8, <2>1
  <2>3. ~(out <= in) /\ ~(net < MinProfit)
    BY <1>4, <1>5, <1>8, <2>1, <2>2
  <2>4. e = o
    BY <1>1, <1>2, <2>3
  <2>5. o \in Opportunity
    BY <1>4, <1>6, <2>1 DEF Opportunity
  <2> QED
    BY <2>4, <2>5, ScannerAssumption
<1> QED
  BY <1>7, <1>8

\* The ends of the grid, and its points.
LEMMA GridIs ==
  ASSUME CandidateInputs # <<>>
  PROVE  /\ Lo \in U64 /\ Hi \in U64 /\ Lo <= Hi
         /\ Lo \in Grid /\ Hi \in Grid /\ Grid \subseteq Lo .. Hi
<1>1. CandidateInputs \in Seq(U64) /\ U64Max \in Nat
  BY ScannerAssumption, WidthAssumption
<1>2. Grid \subseteq U64 /\ Grid # {}
  <2>1. Len(CandidateInputs) \in Nat /\ Len(CandidateInputs) > 0
    BY <1>1
  <2>2. \A i \in 1 .. Len(CandidateInputs) : CandidateInputs[i] \in U64
    BY <1>1
  <2>3. 1 \in 1 .. Len(CandidateInputs)
    BY <2>1
  <2> QED
    BY <2>2, <2>3 DEF Grid
<1>3. Grid \subseteq Nat /\ IsFiniteSet(Grid)
  <2>1. IsFiniteSet(U64)
    BY <1>1, FS_Interval DEF U64
  <2>2. IsFiniteSet(Grid)
    BY <1>2, <2>1, FS_Subset, Zenon
  <2> QED
    BY <1>1, <1>2, <2>2 DEF U64
<1>4. \E x \in Grid : \A y \in Grid : x <= y
  <2>1. PICK x \in Grid : \A y \in Grid : ~(y < x)
    BY <1>2, <1>3, LeastNatural, Zenon
  <2> QED
    BY <1>3, <2>1
<1>5. \E x \in Grid : \A y \in Grid : x >= y
  <2>1. Grid \subseteq Int
    BY <1>3
  <2>2. Max(Grid) \in Grid /\ \A y \in Grid : y <= Max(Grid)
    BY <1>2, <1>3, <2>1, MaxIs
  <2> QED
    BY <1>3, <2>2
<1>6. Lo \in Grid /\ \A y \in Grid : Lo <= y
  BY <1>4, Zenon DEF Lo
<1>7. Hi \in Grid /\ \A y \in Grid : Hi >= y
  BY <1>5, Zenon DEF Hi
<1> QED
  BY <1>2, <1>3, <1>6, <1>7

\* The candidates are the grid and perhaps one more size between its ends.
LEMMA CandidatesAre ==
  ASSUME NEW r \in [Pool -> Reserves], NEW rt \in Seq(Hop) \ {<<>>},
         CandidateInputs # <<>>
  PROVE  LET cs == Candidates(r, rt)
         IN  /\ Len(cs) \in Nat /\ \A i \in 1 .. Len(cs) : cs[i] \in Lo .. Hi
             /\ \A x \in Grid : \E i \in 1 .. Len(cs) : cs[i] = x
<1> DEFINE f == NetOver(r, rt)
           opt == TernaryMax(f, Lo, Hi)
           cs == Candidates(r, rt)
           n == Len(CandidateInputs)
<1>1. Lo \in U64 /\ Hi \in U64 /\ Lo <= Hi /\ Grid \subseteq Lo .. Hi
  BY GridIs
<1>2. Lo \in Nat /\ Hi \in Nat /\ Lo .. Hi \subseteq U64
  BY <1>1, WidthAssumption DEF U64
<1>3. Valued(f, Lo, Hi)
  <2>1. ASSUME NEW x \in Lo .. Hi, f[x] # None PROVE f[x] \in Int
    <3>1. f[x] = NetSigned(r, rt, x) /\ x \in U64
      BY <1>2 DEF NetOver
    <3>2. Quoted(r, rt, x)
      BY <2>1, <3>1, QuotedIs, Zenon
    <3> QED
      BY <3>1, <3>2 DEF Quoted
  <2> HIDE DEF f
  <2> QED
    BY <2>1 DEF Valued
<1>4. opt \in (Lo .. Hi) \union {None}
  <2> HIDE DEF f
  <2> QED
    BY <1>2, <1>3, TernaryMaxIs
<1>5. cs = IF Hi > Lo /\ opt # None THEN Append(CandidateInputs, opt) ELSE CandidateInputs
  BY Zenon DEF Candidates
<1> HIDE DEF opt, cs
<1>6. CandidateInputs \in Seq(Lo .. Hi) /\ n \in Nat
  <2>1. CandidateInputs \in Seq(U64)
    BY ScannerAssumption
  <2> DEFINE W == Lo .. Hi
  <2>2. n \in Nat /\ \A i \in 1 .. n : CandidateInputs[i] \in Grid
    BY <2>1 DEF Grid
  <2>3. \A i \in 1 .. n : CandidateInputs[i] \in Lo .. Hi
    BY <1>1, <2>2
  <2>4. CandidateInputs = [i \in 1 .. n |-> CandidateInputs[i]]
    BY <2>1
  <2>5. \A i \in 1 .. n : CandidateInputs[i] \in W
    BY <2>3
  <2> HIDE DEF W
  <2>6. CandidateInputs \in [1 .. n -> W]
    BY <2>4, <2>5
  <2>7. CandidateInputs \in Seq(W)
    BY <2>2, <2>6
  <2> QED
    BY <2>2, <2>7 DEF W
<1>7. /\ cs \in Seq(Lo .. Hi) /\ Len(cs) \in Nat /\ n <= Len(cs)
      /\ \A i \in 1 .. n : cs[i] = CandidateInputs[i]
  <2>1. CASE cs = CandidateInputs
    BY <1>6, <2>1
  <2>2. CASE cs # CandidateInputs
    <3>1. cs = Append(CandidateInputs, opt) /\ opt \in Lo .. Hi
      BY <1>4, <1>5, <2>2
    <3>2. /\ cs \in Seq(Lo .. Hi) /\ Len(cs) = n + 1
          /\ \A i \in 1 .. n : cs[i] = CandidateInputs[i]
      BY <1>6, <3>1, AppendProperties
    <3> QED
      BY <1>6, <3>2
  <2> QED
    BY <2>1, <2>2
<1>8. \A i \in 1 .. Len(cs) : cs[i] \in Lo .. Hi
  <2> DEFINE W == Lo .. Hi
  <2>1. cs \in Seq(W)
    BY <1>7
  <2> HIDE DEF W
  <2>2. \A i \in 1 .. Len(cs) : cs[i] \in W
    BY <2>1
  <2> QED
    BY <2>2 DEF W
<1>9. ASSUME NEW x \in Grid PROVE \E i \in 1 .. Len(cs) : cs[i] = x
  <2>1. PICK i \in 1 .. n : CandidateInputs[i] = x
    BY DEF Grid
  <2>2. i \in 1 .. Len(cs) /\ cs[i] = x
    BY <1>6, <1>7, <2>1
  <2> QED
    BY <2>2
<1> QED
  BY <1>7, <1>8, <1>9 DEF cs

\* What size_route returns is an evaluated size, and no size of the grid beats it.
Sized(o, r, rt) ==
  /\ o # None => CandidateInputs # <<>> /\ \E in \in Lo .. Hi : Offers(o, r, rt, in)
  /\ \A in \in Grid :
       LET e == EvaluateInput(r, rt, in) IN e # None => o # None /\ o.net >= e.net

\* The candidates are evaluated in turn and the best of them kept.
LEMMA SizeRouteIs ==
  ASSUME NEW r \in [Pool -> Reserves], NEW rt \in Seq(Hop) \ {<<>>}
  PROVE  Sized(SizeRoute(r, rt), r, rt)
<1> DEFINE cs == Candidates(r, rt)
           n == Len(cs)
           opp == [i \in 1 .. n |-> EvaluateInput(r, rt, cs[i])]
           ok == {i \in 1 .. n : opp[i] # None}
           First(i) == \A j \in ok :
                         opp[j].net < opp[i].net \/ (opp[j].net = opp[i].net /\ i <= j)
           o == SizeRoute(r, rt)
<1>1. o = IF CandidateInputs = <<>> \/ ok = {} THEN None
          ELSE opp[CHOOSE i \in ok : First(i)]
  BY Zenon DEF SizeRoute
<1>2. CASE CandidateInputs = <<>>
  <2>1. o = None
    BY <1>1, <1>2, Zenon
  <2>2. Grid = {}
    <3>1. Len(CandidateInputs) = 0
      BY <1>2
    <3> QED
      BY <3>1 DEF Grid
  <2> HIDE DEF o
  <2> QED
    BY <2>1, <2>2 DEF Sized, o
<1>3. CASE CandidateInputs # <<>>
  <2>1. /\ n \in Nat /\ \A i \in 1 .. n : cs[i] \in Lo .. Hi
        /\ \A x \in Grid : \E i \in 1 .. n : cs[i] = x
    BY <1>3, CandidatesAre, Zenon
  <2>2. Lo .. Hi \subseteq U64
    BY <1>3, GridIs, WidthAssumption DEF U64
  <2> HIDE DEF cs, n
  <2>3. \A i \in 1 .. n : opp[i] = EvaluateInput(r, rt, cs[i])
    OBVIOUS
  <2>4. \A i \in ok : i \in 1 .. n /\ opp[i] # None
    OBVIOUS
  <2>5. \A i \in 1 .. n : i \notin ok => opp[i] = None
    OBVIOUS
  <2>6. ok \subseteq Nat /\ IsFiniteSet(ok)
    <3>1. IsFiniteSet(1 .. n)
      BY <2>1, FS_Interval
    <3>2. ok \subseteq 1 .. n
      BY <2>4
    <3>3. IsFiniteSet(ok)
      BY <3>1, <3>2, FS_Subset, Zenon
    <3> QED
      BY <2>1, <3>2, <3>3
  <2> HIDE DEF opp, ok
  <2>7. ASSUME NEW i \in ok PROVE Offers(opp[i], r, rt, cs[i])
    <3>1. cs[i] \in U64 /\ opp[i] = EvaluateInput(r, rt, cs[i]) /\ opp[i] # None
      BY <2>1, <2>2, <2>3, <2>4
    <3> QED
      BY <3>1, EvaluateIs, Zenon
  <2>8. \A i \in ok : opp[i].net \in Int
    BY <2>7, WidthAssumption DEF Offers, Opportunity, U64
  <2>9. CASE ok = {}
    <3>1. o = None
      BY <1>1, <2>9, Zenon
    <3>2. \A in \in Grid : EvaluateInput(r, rt, in) = None
      BY <2>1, <2>3, <2>5, <2>9
    <3> HIDE DEF o
    <3> QED
      BY <3>1, <3>2 DEF Sized, o
  <2>10. CASE ok # {}
    <3> DEFINE k == CHOOSE i \in ok : First(i)
               f == [i \in ok |-> opp[i].net]
    <3>1. \E i \in ok : First(i)
      <4>1. \A i \in ok : f[i] = opp[i].net
        OBVIOUS
      <4> HIDE DEF f
      <4>2. \A i \in ok : f[i] \in Int
        BY <2>8, <4>1
      <4>3. PICK i \in ok : \A j \in ok : f[j] < f[i] \/ (f[j] = f[i] /\ i <= j)
        BY <2>6, <2>10, <4>2, FirstGreatest, Zenon
      <4> QED
        BY <4>1, <4>3
    <3>2. k \in ok /\ First(k)
      BY <3>1, Zenon
    <3>3. o = opp[k]
      BY <1>1, <1>3, <2>10, Zenon
    <3> HIDE DEF k, o
    <3>4. o # None /\ \E in \in Lo .. Hi : Offers(o, r, rt, in)
      BY <2>1, <2>4, <2>7, <3>2, <3>3
    <3>5. ASSUME NEW in \in Grid, EvaluateInput(r, rt, in) # None
          PROVE  o.net >= EvaluateInput(r, rt, in).net
      <4>1. PICK i \in 1 .. n : cs[i] = in
        BY <2>1
      <4>2. opp[i] = EvaluateInput(r, rt, in) /\ i \in ok
        BY <2>3, <2>5, <3>5, <4>1
      <4>3. opp[i].net \in Int /\ opp[k].net \in Int
        BY <2>8, <3>2, <4>2
      <4>4. opp[i].net < opp[k].net \/ opp[i].net = opp[k].net
        BY <3>2, <4>2
      <4> QED
        BY <3>3, <4>2, <4>3, <4>4
    <3> QED
      BY <1>3, <3>4, <3>5 DEF Sized, o
  <2> QED
    BY <2>9, <2>10
<1> QED
  BY <1>2, <1>3

\* What a scan finds: an offer of one of its routes that no size of the grid on any
\* route beats.
Found(o, r, ps) ==
  /\ o # None => \E rt \in FindCycles(ps) :
                   /\ CandidateInputs # <<>>
                   /\ \E in \in Lo .. Hi : Offers(o, r, rt, in)
  /\ \A rt \in FindCycles(ps), in \in Grid :
       LET e == EvaluateInput(r, rt, in) IN e # None => o # None /\ o.net >= e.net

\* find_best finds such an offer.
LEMMA FindBestIs ==
  ASSUME NEW r \in [Pool -> Reserves], NEW ps \in SUBSET Pool, NEW o \in FindBest(r, ps)
  PROVE  Found(o, r, ps)
<1> DEFINE opps == {SizeRoute(r, rt) : rt \in FindCycles(ps)} \ {None}
<1>1. o \in IF opps = {} THEN {None} ELSE {x \in opps : \A q \in opps : q.net <= x.net}
  BY Zenon DEF FindBest
<1>2. \A rt \in FindCycles(ps) : Sized(SizeRoute(r, rt), r, rt)
  BY CyclesAreRoutes, SizeRouteIs
<1>3. \A q \in opps : q # None /\ \E rt \in FindCycles(ps) : q = SizeRoute(r, rt)
  OBVIOUS
<1>4. \A rt \in FindCycles(ps) : SizeRoute(r, rt) # None => SizeRoute(r, rt) \in opps
  OBVIOUS
<1> HIDE DEF opps
<1>5. CASE opps = {}
  <2>1. o = None
    BY <1>1, <1>5
  <2>2. \A rt \in FindCycles(ps) : SizeRoute(r, rt) = None
    BY <1>4, <1>5
  <2> QED
    BY <1>2, <2>1, <2>2 DEF Sized, Found
<1>6. CASE opps # {}
  <2>1. o \in opps /\ \A q \in opps : q.net <= o.net
    BY <1>1, <1>6
  <2>2. \A q \in opps : q.net \in Int
    <3>1. TAKE q \in opps
    <3>2. PICK rt \in FindCycles(ps) : q = SizeRoute(r, rt) /\ q # None
      BY <1>3
    <3>3. PICK in \in Lo .. Hi : Offers(q, r, rt, in)
      BY <1>2, <3>2 DEF Sized
    <3> QED
      BY <3>3, WidthAssumption DEF Offers, Opportunity, U64
  <2>3. \E rt \in FindCycles(ps) :
          /\ CandidateInputs # <<>>
          /\ \E in \in Lo .. Hi : Offers(o, r, rt, in)
    BY <1>2, <1>3, <2>1 DEF Sized
  <2>4. ASSUME NEW rt \in FindCycles(ps), NEW in \in Grid,
               EvaluateInput(r, rt, in) # None
        PROVE  o # None /\ o.net >= EvaluateInput(r, rt, in).net
    <3> DEFINE e == EvaluateInput(r, rt, in)
               q == SizeRoute(r, rt)
    <3>1. q # None /\ q.net >= e.net
      BY <1>2, <2>4 DEF Sized
    <3>2. q \in opps
      BY <1>4, <3>1
    <3>3. q.net <= o.net /\ q.net \in Int /\ o.net \in Int
      BY <2>1, <2>2, <3>2
    <3>4. e.net \in Int
      <4>1. rt \in Seq(Hop) \ {<<>>}
        BY CyclesAreRoutes
      <4>2. in \in U64
        <5>1. CandidateInputs # <<>>
          BY <2>3
        <5> QED
          BY <5>1, GridIs, WidthAssumption DEF U64
      <4>3. Offers(e, r, rt, in)
        BY <2>4, <4>1, <4>2, EvaluateIs, Zenon
      <4> HIDE DEF e
      <4> QED
        BY <4>3, WidthAssumption DEF Offers, Opportunity, U64
    <3> HIDE DEF e, q
    <3>5. o.net >= e.net
      BY <3>1, <3>3, <3>4
    <3> QED
      BY <1>3, <2>1, <3>5 DEF e
  <2> QED
    BY <2>3, <2>4, Zenon DEF Found
<1> QED
  BY <1>5, <1>6

-----------------------------------------------------------------------------
(* Executing what was found *)

\* A cycle passes each pool once, unless it goes there and back through one.
LEMMA PoolsOnce ==
  ASSUME NEW ps, NEW rt \in SimpleCycles(ps), NEW i \in 1 .. Len(rt), NEW j \in 1 .. Len(rt),
         i < j, rt[i].pool = rt[j].pool
  PROVE  rt = <<rt[1], [rt[1] EXCEPT !.aToB = ~@]>>
<1>1. PICK n \in 2 .. MaxHops : rt \in [1 .. n -> Edges(ps)]
  BY DEF SimpleCycles
<1>2. n \in Nat /\ n >= 2 /\ Len(rt) = n
  BY <1>1, ScannerAssumption
<1>3. /\ From(rt[1]) = Base /\ To(rt[n]) = Base
      /\ \A k \in 1 .. n - 1 : To(rt[k]) = From(rt[k + 1]) /\ To(rt[k]) # Base
      /\ \A k, l \in 1 .. n : To(rt[k]) = To(rt[l]) => k = l
  BY <1>2 DEF SimpleCycles
<1>4. \A k \in 1 .. n : rt[k] \in Edges(ps)
  BY <1>1
<1>5. i \in 1 .. n /\ j \in 1 .. n /\ i \in Nat /\ j \in Nat /\ j - 1 \in 1 .. n - 1
  BY <1>2
<1> DEFINE g == rt[i]
           h == rt[j]
<1>6. /\ g \in Edges(ps) /\ h \in Edges(ps) /\ g.aToB \in BOOLEAN /\ h.aToB \in BOOLEAN
      /\ g.pool = h.pool
  BY <1>4, <1>5 DEF Edges
<1>7. g.aToB # h.aToB
  <2>1. ASSUME g.aToB = h.aToB PROVE FALSE
    <3>1. To(g) = To(h)
      BY <1>6, <2>1 DEF To
    <3> QED
      BY <1>3, <1>5, <3>1
  <2> QED
    BY <2>1
<1>8. From(h) = To(g) /\ To(h) = From(g)
  BY <1>6, <1>7 DEF From, To
<1>9. i = j - 1
  <2>1. To(rt[j - 1]) = From(rt[j - 1 + 1]) /\ j - 1 + 1 = j
    BY <1>3, <1>5
  <2> QED
    BY <1>2, <1>3, <1>5, <1>8, <2>1
<1>10. i = 1
  <2>1. ASSUME i # 1 PROVE FALSE
    <3>1. i - 1 \in 1 .. n - 1 /\ i - 1 + 1 = i /\ i - 1 # j /\ i - 1 \in 1 .. n
      BY <1>2, <1>5, <1>9, <2>1
    <3>2. To(rt[i - 1]) = From(rt[i])
      BY <1>3, <3>1
    <3> QED
      BY <1>3, <1>5, <1>8, <3>1, <3>2
  <2> QED
    BY <2>1
<1>11. n = 2
  <2>1. j = 2 /\ To(rt[2]) = Base
    BY <1>3, <1>5, <1>8, <1>9, <1>10
  <2>2. n # 2 => 2 \in 1 .. n - 1
    BY <1>2
  <2> QED
    BY <1>3, <2>1, <2>2
<1>12. h = [g EXCEPT !.aToB = ~@]
  <2>1. h = [pool |-> h.pool, aToB |-> h.aToB] /\ g = [pool |-> g.pool, aToB |-> g.aToB]
    BY <1>6 DEF Edges
  <2>2. h.aToB = ~g.aToB
    BY <1>6, <1>7
  <2> HIDE DEF g, h
  <2>3. [g EXCEPT !.aToB = ~@] = [pool |-> g.pool, aToB |-> ~g.aToB]
    BY <1>6 DEF Edges
  <2> QED
    BY <1>6, <2>1, <2>2, <2>3
<1>13. rt = <<rt[1], rt[2]>>
  BY <1>1, <1>11
<1> QED
  BY <1>9, <1>10, <1>12, <1>13

\* Reserves and amounts at which no product of the swap formulas leaves its width.
Fits(M) ==
  /\ M \in Nat /\ M * FeeDenom * M <= U128Max /\ 2 * M <= U64Max
  /\ Grid \subseteq 0 .. M
  /\ \A r \in Snapshots, p \in Pool : r[p].a <= M /\ r[p].b <= M

\* Within them Move performs every swap Rust can quote.
LEMMA HopExecutes ==
  ASSUME NEW M, Fits(M), NEW r \in [Pool -> Reserves], NEW h \in Hop, NEW in \in U64, in <= M,
         ReserveIn(r, h) <= M, ReserveOut(r, h) <= M, QuoteHop(r, h, in) # None
  PROVE  /\ MoveOut(r, h, in) # None /\ MoveOut(r, h, in) = QuoteHop(r, h, in)
         /\ QuoteHop(r, h, in) \in U64 /\ QuoteHop(r, h, in) <= M
<1> DEFINE rIn == ReserveIn(r, h)
           rOut == ReserveOut(r, h)
           bps == PoolFeeBps[h.pool]
           k == FeeDenom - bps
           out == (in * k * rOut) \div (rIn * FeeDenom + in * k)
<1>1. rIn \in U64 /\ rOut \in U64 /\ bps \in Nat
  BY HopFacts, Zenon
<1>2. RustAmountOut(in, rIn, rOut, bps) # None
  BY Zenon DEF QuoteHop
<1> HIDE DEF rIn, rOut, bps
<1>3. in > 0 /\ rIn > 0 /\ rOut > 0 /\ bps < FeeDenom
  BY <1>1, <1>2, QuoteBelowFormula, Zenon
<1>4. /\ U64Max \in Nat /\ U128Max \in Nat /\ FeeDenom \in Nat \ {0}
      /\ 2 * (FeeDenom * U64Max) <= U128Max
      /\ in \in 0 .. U64Max /\ rIn \in 0 .. U64Max /\ rOut \in 0 .. U64Max
      /\ k \in 0 .. FeeDenom
      /\ M \in Nat /\ M * FeeDenom * M <= U128Max /\ 2 * M <= U64Max
      /\ in <= M /\ rIn <= M /\ rOut <= M
  BY <1>1, <1>3, WidthAssumption, QuoteAssumption DEF U64, Fits, rIn, rOut
<1> HIDE DEF k
<1>5. in * k * rOut <= U128Max
  <2>1. in \in Nat /\ k \in Nat /\ rOut \in Nat /\ FeeDenom \in Nat /\ k <= FeeDenom
    BY <1>4
  <2>2. in * k \in Nat /\ M * k \in Nat /\ M * FeeDenom \in Nat
        /\ in * k <= M * k /\ M * k <= M * FeeDenom
    BY <1>4, <2>1, ProductGrowsWith
  <2> DEFINE a == in * k
             b == M * FeeDenom
  <2>3. a \in Nat /\ b \in Nat /\ a <= b
    BY <2>2
  <2> HIDE DEF a, b
  <2>4. a * rOut \in Nat /\ b * rOut \in Nat /\ a * rOut <= b * rOut
    BY <2>1, <2>3, ProductGrowsWith
  <2>5. b * M \in Nat /\ b * rOut <= b * M
    BY <1>4, <2>1, <2>3, ProductGrowsWith
  <2>6. b * M <= U128Max
    BY <1>4 DEF b
  <2>7. a * rOut <= U128Max
    BY <1>4, <2>4, <2>5, <2>6
  <2> QED
    BY <2>7 DEF a
<1>6. rIn * FeeDenom + in * k \in 1 .. U128Max
  BY <1>3, <1>4, DivisorFits
<1>7. out \in 0 .. U64Max
  <2>1. /\ U64Max \in Nat /\ U128Max \in Nat /\ FeeDenom \in Nat \ {0}
        /\ 2 * (FeeDenom * U64Max) <= U128Max /\ in \in 0 .. U64Max
        /\ rIn \in 0 .. U64Max /\ rIn > 0 /\ rOut \in 0 .. U64Max /\ rOut > 0
        /\ k \in 0 .. FeeDenom
    BY <1>3, <1>4
  <2> DEFINE w == QuoteInWords(in, rIn, rOut, k, FeeDenom, U64Max, U128Max)
  <2>2. out \in 0 .. U64Max /\ out < rOut /\ w = out
    BY <1>5, <2>1, QuoteInWordsExact, SMTT(40)
  <2> QED
    BY <2>2
<1>8. rIn + in <= U64Max
  BY <1>4
<1>9. CanQuoteOut(in, rIn, rOut, bps)
  <2>1. rIn * FeeDenom + in * k <= U128Max
    BY <1>4, <1>6
  <2> QED
    BY <1>3, <1>5, <2>1, Zenon DEF CanQuoteOut, OutNumerator, OutDenominator, WithFee, k
<1>10. MoveOut(r, h, in) = out
  BY <1>8, <1>9, Zenon DEF MoveOut, GetAmountOut, OutNumerator, OutDenominator, WithFee,
                           k, rIn, rOut, bps
<1>11. MoveOut(r, h, in) # None
  <2> HIDE DEF out
  <2> QED
    BY <1>7, <1>10, QuoteAssumption DEF U64
<1>12. /\ MoveOut(r, h, in) = QuoteHop(r, h, in) /\ MoveOut(r, h, in) \in U64
       /\ MoveOut(r, h, in) < ReserveOut(r, h)
  BY <1>11, MoveIsRust, Zenon
<1>13. MoveOut(r, h, in) <= M
  <2> DEFINE x == MoveOut(r, h, in)
  <2>1. x < rOut /\ x \in U64
    BY <1>12 DEF rOut
  <2> HIDE DEF x
  <2>2. x <= M
    BY <1>4, <2>1 DEF U64
  <2> QED
    BY <2>2 DEF x
<1> QED
  BY <1>11, <1>12, <1>13

\* The pools and the coin after one swap.
AfterHop(s, h) ==
  LET out == IF s.c = None THEN None ELSE MoveOut(s.r, h, s.c)
  IN  [r |-> IF out = None THEN s.r ELSE Swapped(s.r, h, s.c, out), c |-> out]

RunStates == [r : [Pool -> Reserves], c : U64 \union {None}]

\* A swap takes u64 reserves and a coin, or none, to the same.
LEMMA AfterHopType ==
  ASSUME NEW s \in RunStates, NEW h \in Hop
  PROVE  AfterHop(s, h) \in RunStates
<1> DEFINE out == IF s.c = None THEN None ELSE MoveOut(s.r, h, s.c)
           t == IF out = None THEN s.r ELSE Swapped(s.r, h, s.c, out)
<1>1. s.r \in [Pool -> Reserves] /\ (s.c = None \/ s.c \in U64)
  BY DEF RunStates
<1>2. AfterHop(s, h) = [r |-> t, c |-> out]
  BY Zenon DEF AfterHop
<1>3. CASE out = None
  BY <1>1, <1>2, <1>3 DEF RunStates
<1>4. CASE out # None
  <2>1. s.c # None /\ s.c \in U64 /\ out = MoveOut(s.r, h, s.c) /\ t = Swapped(s.r, h, s.c, out)
    BY <1>1, <1>4
  <2>2. MoveOut(s.r, h, s.c) # None
    BY <1>4, <2>1
  <2>3. out \in U64
    BY <1>1, <2>1, <2>2, MoveIsRust, Zenon
  <2>4. t \in [Pool -> Reserves]
    BY <1>1, <2>1, <2>2, SwappedType, Zenon
  <2> HIDE DEF out, t
  <2> QED
    BY <1>2, <2>3, <2>4 DEF RunStates
<1> QED
  BY <1>3, <1>4

\* Executed on the reserves it was quoted on, a route that passes each pool once
\* returns what was quoted.
LEMMA ExecutedIs ==
  ASSUME NEW M, Fits(M), NEW r \in Snapshots, NEW rt \in Seq(Hop) \ {<<>>}, NEW in \in U64,
         in <= M, SimulateCollect(r, rt, in) # None,
         \A i, j \in 1 .. Len(rt) : rt[i].pool = rt[j].pool => i = j
  PROVE  Executed(r, rt, in) = SimulateCollect(r, rt, in)[Len(rt)]
<1> DEFINE n == Len(rt)
           q == SimulateCollect(r, rt, in)
           Runs(g) ==
             g = [i \in 0 .. n |->
                    IF i = 0 THEN [r |-> r, c |-> in]
                    ELSE LET s == g[i - 1]
                             out == IF s.c = None THEN None ELSE MoveOut(s.r, rt[i], s.c)
                         IN  [r |-> IF out = None THEN s.r ELSE Swapped(s.r, rt[i], s.c, out),
                              c |-> out]]
           run == CHOOSE g : Runs(g)
           first == [r |-> r, c |-> in]
           step == [i \in Nat |-> [s \in RunStates |->
                      IF i + 1 \in 1 .. n THEN AfterHop(s, rt[i + 1]) ELSE s]]
<1>1. n \in Nat /\ n >= 1 /\ \A i \in 1 .. n : rt[i] \in Hop /\ rt[i].pool \in Pool
  <2>1. n \in Nat /\ n >= 1 /\ \A i \in 1 .. n : rt[i] \in Hop
    OBVIOUS
  <2> QED
    BY <2>1 DEF Hop
<1>2. r \in [Pool -> Reserves] /\ None \notin U64
  BY ScannerAssumption, QuoteAssumption
<1>3. first \in RunStates
  BY <1>2 DEF RunStates
<1>4. \A i \in Nat, s \in RunStates :
        /\ step[i][s] = IF i + 1 \in 1 .. n THEN AfterHop(s, rt[i + 1]) ELSE s
        /\ step[i][s] \in RunStates
  BY <1>1, AfterHopType
<1> HIDE DEF step, first, n, q
<1>5. \E g : Runs(g)
  <2>1. PICK g : Recurses(g, RunStates, first, step)
    BY <1>3, <1>4, RecursionExists
  <2> DEFINE f == [i \in 0 .. n |-> g[i]]
             Body(i) == IF i = 0 THEN first ELSE AfterHop(f[i - 1], rt[i])
  <2>2. \A i \in 0 .. n : f[i] = g[i]
    OBVIOUS
  <2>3. f = [i \in 0 .. n |-> f[i]]
    OBVIOUS
  <2> HIDE DEF f
  <2>4. ASSUME NEW i \in 0 .. n PROVE f[i] = Body(i)
    <3>1. CASE i = 0
      BY <2>1, <2>2, <3>1 DEF Recurses
    <3>2. CASE i # 0
      <4>1. i \in 1 .. n /\ i - 1 \in Nat /\ i - 1 \in 0 .. n /\ i - 1 + 1 = i
        BY <1>1, <3>2
      <4>2. g[i - 1 + 1] = step[i - 1][g[i - 1]] /\ g[i - 1] \in RunStates
        BY <2>1, <4>1 DEF Recurses
      <4>3. g[i] = AfterHop(g[i - 1], rt[i])
        BY <1>4, <4>1, <4>2
      <4> QED
        BY <2>2, <3>2, <4>1, <4>3
    <3> QED
      BY <3>1, <3>2
  <2> HIDE DEF Body
  <2>5. f = [i \in 0 .. n |-> Body(i)]
    BY <2>3, <2>4
  <2> QED
    BY <2>5, Zenon DEF Body, AfterHop, first
<1>6. Runs(run)
  BY <1>5, Zenon
<1> HIDE DEF run
<1>7. /\ run[0] = first
      /\ \A i \in 1 .. n : run[i] = AfterHop(run[i - 1], rt[i])
  <2> DEFINE Body(i) == IF i = 0 THEN first ELSE AfterHop(run[i - 1], rt[i])
  <2>1. run = [i \in 0 .. n |-> Body(i)]
    BY <1>6, Zenon DEF AfterHop, first
  <2> HIDE DEF Body
  <2>2. \A i \in 0 .. n : run[i] = Body(i)
    BY <2>1
  <2> QED
    BY <1>1, <2>2 DEF Body
<1>8. /\ q \in Seq(U64) /\ Len(q) = n
      /\ q[1] = QuoteHop(r, rt[1], in)
      /\ \A i \in 1 .. n - 1 : q[i + 1] = QuoteHop(r, rt[i + 1], q[i])
  <2> DEFINE p == SimulateCollect(r, rt, in)
  <2>1. /\ p \in Seq(U64) /\ Len(p) = Len(rt) /\ Len(rt) \in Nat /\ Len(rt) >= 1
        /\ p[1] = QuoteHop(r, rt[1], in)
        /\ \A i \in 1 .. Len(rt) - 1 : p[i + 1] = QuoteHop(r, rt[i + 1], p[i])
    BY <1>2, CollectFacts, ZenonT(40)
  <2> HIDE DEF p
  <2>2. p = q /\ Len(rt) = n
    BY DEF p, q, n
  <2> QED
    BY <2>1, <2>2
<1>9. \A i \in 1 .. n : q[i] \in U64 /\ q[i] # None
  BY <1>2, <1>8
<1> DEFINE Held(i) == IF i = 0 THEN in ELSE q[i]
           InStep(i) == /\ run[i] \in RunStates /\ run[i].c = Held(i) /\ Held(i) <= M
                         /\ \A p \in Pool :
                              (\A j \in 1 .. i : rt[j].pool # p) => run[i].r[p] = r[p]
           T == {i \in Nat : i <= n => InStep(i)}
<1>10. 0 \in T
  BY <1>3, <1>7 DEF first
<1>11. ASSUME NEW i \in Nat, i \in T PROVE i + 1 \in T
  <2>1. SUFFICES ASSUME i + 1 <= n PROVE InStep(i + 1)
    OBVIOUS
  <2> DEFINE s == run[i]
             h == rt[i + 1]
             a == Held(i)
             x == q[i + 1]
  <2>2. i + 1 \in 1 .. n /\ i + 1 - 1 = i /\ i <= n /\ i + 1 # 0
    BY <1>1, <2>1
  <2>3. s \in RunStates /\ s.c = a /\ a <= M
        /\ \A p \in Pool : (\A j \in 1 .. i : rt[j].pool # p) => s.r[p] = r[p]
    BY <1>11, <2>2
  <2>4. h \in Hop /\ h.pool \in Pool /\ \A j \in 1 .. i : rt[j].pool # h.pool
    BY <1>1, <2>2 DEF n
  <2>5. a \in U64 /\ a # None /\ x \in U64 /\ x # None
    <3>1. x \in U64 /\ x # None
      BY <1>9, <2>2
    <3>2. CASE i = 0
      BY <1>2, <3>1, <3>2
    <3>3. CASE i # 0
      <4>1. i \in 1 .. n
        BY <2>2, <3>3
      <4> QED
        BY <1>9, <3>1, <3>3, <4>1
    <3> QED
      BY <3>2, <3>3
  <2>6. x = QuoteHop(r, h, a)
    <3>1. CASE i = 0
      BY <1>8, <3>1
    <3>2. CASE i # 0
      <4>1. i \in 1 .. n - 1
        BY <1>1, <2>2, <3>2
      <4> QED
        BY <1>8, <3>2, <4>1
    <3> QED
      BY <3>1, <3>2
  <2>7. run[i + 1] = AfterHop(s, h)
    BY <1>7, <2>2
  <2>8. Held(i + 1) = x
    BY <2>2
  <2> HIDE DEF s, h, a, x, Held
  <2>9. s.r \in [Pool -> Reserves]
    BY <2>3 DEF RunStates
  <2>10. s.r[h.pool] = r[h.pool]
    BY <2>3, <2>4
  <2>11. ReserveIn(s.r, h) = ReserveIn(r, h) /\ ReserveOut(s.r, h) = ReserveOut(r, h)
    BY <2>10, Zenon DEF ReserveIn, ReserveOut
  <2>12. ReserveIn(r, h) <= M /\ ReserveOut(r, h) <= M
    BY <2>4 DEF Fits, ReserveIn, ReserveOut
  <2>13. QuoteHop(r, h, a) = QuoteHop(s.r, h, a)
    BY <2>11, Zenon DEF QuoteHop
  <2>14. QuoteHop(s.r, h, a) # None
    BY <2>5, <2>6, <2>13
  <2>15. /\ MoveOut(s.r, h, a) # None /\ MoveOut(s.r, h, a) = QuoteHop(s.r, h, a)
         /\ QuoteHop(s.r, h, a) <= M
    <3>1. ReserveIn(s.r, h) <= M /\ ReserveOut(s.r, h) <= M /\ a <= M
      BY <2>3, <2>11, <2>12
    <3> QED
      BY <2>4, <2>5, <2>9, <2>14, <3>1, HopExecutes, SMTT(60)
  <2>16. MoveOut(s.r, h, a) = x /\ x <= M
    BY <2>6, <2>13, <2>15
  <2>17. AfterHop(s, h) = [r |-> Swapped(s.r, h, a, x), c |-> x]
    BY <2>3, <2>5, <2>16, Zenon DEF AfterHop
  <2>18. \A p \in Pool : p # h.pool => Swapped(s.r, h, a, x)[p] = s.r[p]
    <3>1. \A p \in Pool : p # h.pool => Swapped(s.r, h, a, MoveOut(s.r, h, a))[p] = s.r[p]
      BY <2>4, <2>5, <2>9, <2>15, SwappedType, Zenon
    <3> QED
      BY <2>16, <3>1
  <2>19. run[i + 1] \in RunStates
    BY <2>3, <2>4, <2>7, AfterHopType
  <2>20. run[i + 1].c = x /\ run[i + 1].r = Swapped(s.r, h, a, x)
    BY <2>7, <2>17
  <2>21. ASSUME NEW p \in Pool, \A j \in 1 .. i + 1 : rt[j].pool # p
         PROVE  run[i + 1].r[p] = r[p]
    <3>1. i + 1 \in 1 .. i + 1 /\ \A j \in 1 .. i : j \in 1 .. i + 1
      OBVIOUS
    <3>2. p # h.pool /\ s.r[p] = r[p]
      BY <2>3, <2>21, <3>1 DEF h
    <3> QED
      BY <2>18, <2>20, <3>2
  <2> QED
    BY <2>8, <2>16, <2>19, <2>20, <2>21
<1> HIDE DEF T
<1>12. n \in T
  BY <1>1, <1>10, <1>11, SetInduction
<1>13. run[n].c = q[n]
  BY <1>1, <1>12 DEF T
<1>14. Executed(r, rt, in) = run[n].c
  BY Zenon DEF Executed, run, n
<1> QED
  BY <1>13, <1>14 DEF q, n

\* The fee the scan subtracts is the fee flash.move charges.
LEMMA FeeIsCharged ==
  ASSUME NEW in \in U64, FlashFeeBps <= FeeDenom
  PROVE  FeeAmount(in, FlashFeeBps) = FlashFee(in) /\ FlashFee(in) \in Nat
<1>1. /\ in \in Nat /\ in <= U64Max /\ U64Max \in Nat /\ FlashFeeBps \in Nat
      /\ FeeDenom \in Nat \ {0} /\ FlashFee(in) \in Nat
  BY WidthAssumption, ScannerAssumption, FeeType DEF U64
<1> DEFINE n == in * FlashFeeBps
           D == FeeDenom
           up == n \div D + (IF n % D = 0 THEN 0 ELSE 1)
<1>2. n \in Nat /\ n <= in * D /\ D \in Nat \ {0} /\ in * D \in Nat
  BY <1>1, ProductGrowsWith
<1>3. FeeAmount(in, FlashFeeBps) = (n + D - 1) \div D
  BY DEF FeeAmount
<1> HIDE DEF n, D
<1>4. (n + D - 1) \div D = up
  BY <1>2, CeilingIs
<1>5. up \in Nat /\ up <= in
  <2>1. n \div D \in Nat /\ D * (n \div D) <= n /\ n < D * (n \div D) + D
    BY <1>2, QuotientBounds
  <2> DEFINE z == n \div D
  <2> HIDE DEF z
  <2>2. z \in Nat /\ D * z <= n
    BY <2>1 DEF z
  <2>3. z <= in
    <3>1. ASSUME in + 1 <= z PROVE FALSE
      <4>1. (in + 1) * D <= z * D /\ (in + 1) * D = in * D + D /\ z * D = D * z
        BY <1>1, <1>2, <2>2, <3>1, ProductGrowsWith
      <4> QED
        BY <1>1, <1>2, <2>2, <4>1
    <3> QED
      BY <1>1, <2>2, <3>1
  <2>4. z = in => n % D = 0
    <3>1. ASSUME z = in PROVE n % D = 0
      <4>1. D * in = in * D /\ D * in = n
        BY <1>1, <1>2, <2>2, <3>1
      <4>2. n = D * z + (n % D)
        BY <1>2, DivisionIs DEF z
      <4>3. D * z = n /\ n % D \in Int
        BY <1>2, <3>1, <4>1
      <4> DEFINE m == n % D
                 v == D * z
      <4>4. n = v + m /\ v = n /\ m \in Int
        BY <4>2, <4>3
      <4> HIDE DEF m, v
      <4>5. m = 0
        BY <1>2, <4>4
      <4> QED
        BY <4>5 DEF m
    <3> QED
      BY <3>1
  <2> QED
    BY <1>1, <2>2, <2>3, <2>4 DEF z
<1>6. QuoteFeeBps(in, FlashFeeBps) = Wrap64(up)
  BY DEF QuoteFeeBps, n, D
<1> HIDE DEF up
<1>7. Wrap64(up) = up
  BY <1>1, <1>5, WrapFacts
<1>8. CASE FlashFeeBps > 0
  BY <1>1, <1>3, <1>4, <1>6, <1>7, <1>8 DEF FlashFee
<1>9. CASE FlashFeeBps = 0
  <2>1. n = 0
    BY <1>1, <1>9 DEF n
  <2>2. up = 0
    BY <1>2, <2>1 DEF up
  <2> QED
    BY <1>1, <1>3, <1>4, <1>9, <2>2 DEF FlashFee
<1> QED
  BY <1>1, <1>8, <1>9

-----------------------------------------------------------------------------
(* Scanner: what is on offer was found on the reserves on show; the theorems *)

SInv ==
  /\ ScanTypeOK
  /\ reserves \in Snapshots
  /\ best # None => best \in FindBest(reserves, cached)

\* It holds at the start.
LEMMA InitSInv == ScanInit => SInv
BY ScannerAssumption DEF ScanInit, SInv, ScanTypeOK

\* Every step keeps it.
LEMMA NextSInv == SInv /\ [ScanNext]_scanVars => SInv'
<1> SUFFICES ASSUME SInv, [ScanNext]_scanVars PROVE SInv'
  OBVIOUS
<1>1. /\ reserves \in [Pool -> Reserves] /\ cached \in SUBSET Pool
      /\ Snapshots \subseteq [Pool -> Reserves]
  BY ScannerAssumption DEF SInv, ScanTypeOK
<1>2. CASE Ingest
  BY <1>1, <1>2 DEF Ingest, SInv, ScanTypeOK
<1>3. CASE Scan
  <2>1. best' \in FindBest(reserves, cached) /\ reserves' = reserves /\ cached' = cached
    BY <1>3 DEF Scan
  <2>2. Found(best', reserves, cached)
    BY <1>1, <2>1, FindBestIs, Zenon
  <2>3. best' \in Opportunity \union {None}
    BY <2>2 DEF Found, Offers
  <2> QED
    BY <1>1, <2>1, <2>3 DEF SInv, ScanTypeOK
<1>4. CASE UNCHANGED scanVars
  BY <1>4 DEF SInv, ScanTypeOK, scanVars
<1> QED
  BY <1>2, <1>3, <1>4 DEF ScanNext

\* The invariant holds in every reachable state.
THEOREM ScanInductive == ScanSpec => []SInv
BY InitSInv, NextSInv, PTL DEF ScanSpec

\* What a scan hands on is a route of the cached pools with the u64 outputs and the u64
\* net computed for it, whatever the fees, the reserves and the configured inputs.
THEOREM ScanTypeCorrect == ScanSpec => []ScanTypeOK
BY ScanInductive, PTL DEF SInv

\* The search visits every simple cycle through the base token and nothing else, for
\* every set of pools and every hop limit (scanner.rs, dfs).
THEOREM CyclesAreExact == ScanSpec => []CyclesExact
<1>1. CyclesExact
  BY FindsCycles DEF CyclesExact
<1> QED
  BY <1>1, PTL

\* No size the operator configured, on any cycle of the cached pools, beats what a
\* scan reports: neither the ternary search nor the order of the routes loses one.
THEOREM GridIsNoBetter == ScanSpec => GridNeverBeatsBest
<1> DEFINE Beats(rt, in) ==
             LET net == NetSigned(reserves, rt, in) IN
               net # None /\ net >= MinProfit /\ net > 0 =>
                 best' # None /\ best'.net >= net
<1>1. ASSUME SInv, Scan, NEW rt \in SimpleCycles(cached), NEW in \in Grid
      PROVE  Beats(rt, in)
  <2> DEFINE net == NetSigned(reserves, rt, in)
             e == EvaluateInput(reserves, rt, in)
  <2>1. SUFFICES ASSUME net # None, net >= MinProfit, net > 0
                 PROVE  best' # None /\ best'.net >= net
    BY Zenon
  <2>2. reserves \in [Pool -> Reserves] /\ cached \in SUBSET Pool
    BY <1>1 DEF SInv, ScanTypeOK
  <2>3. rt \in FindCycles(cached) /\ rt \in Seq(Hop) \ {<<>>}
    BY <2>2, FindsCycles, CyclesAreRoutes
  <2>4. in \in U64
    <3>1. CandidateInputs # <<>>
      <4>1. CandidateInputs = <<>> => Grid = {}
        <5>1. CandidateInputs = <<>> => Len(CandidateInputs) = 0
          OBVIOUS
        <5> QED
          BY <5>1 DEF Grid
      <4> QED
        BY <4>1
    <3> QED
      BY <3>1, GridIs, WidthAssumption DEF U64
  <2>5. best' \in FindBest(reserves, cached)
    BY <1>1 DEF Scan
  <2>6. Found(best', reserves, cached)
    BY <2>2, <2>5, FindBestIs, Zenon
  <2>7. e # None /\ Offers(e, reserves, rt, in)
    BY <2>1, <2>2, <2>3, <2>4, EvaluateIs, Zenon
  <2>8. e.net = net
    BY <2>1, <2>7, Zenon DEF Offers
  <2>9. best' # None /\ best'.net >= e.net
    BY <2>3, <2>6, <2>7, Zenon DEF Found
  <2> QED
    BY <2>8, <2>9, Zenon
<1> DEFINE Step == Scan => \A rt \in SimpleCycles(cached), in \in Grid : Beats(rt, in)
<1>2. SInv => Step
  BY <1>1
<1>3. []SInv => [][Step]_scanVars
  BY <1>2, PTL
<1> QED
  BY <1>3, ScanInductive, PTL DEF GridNeverBeatsBest

\* What a scan reports, executed on the reserves it saw, passes the profit gate and
\* repays the lender, if the reserves and sizes keep the three-factor products inside
\* u128 (Rust wraps beyond it), min_profit is not 0 (a net below 0 saturates to 0) and
\* the lender's fee is at most 100 %.
THEOREM BestIsExecutable ==
  ASSUME NEW CONSTANT M, Fits(M), MinProfit > 0, FlashFeeBps <= FeeDenom
  PROVE  ScanSpec => []BestExecutes
<1>1. ASSUME SInv PROVE BestExecutes
  <2> DEFINE rt == best.route
             in == best.input
             q == SimulateCollect(reserves, rt, in)
             out == q[Len(rt)]
  <2>1. SUFFICES ASSUME best # None
                 PROVE  /\ Executed(reserves, rt, in) # None
                        /\ GatePasses(in, MinProfit, Executed(reserves, rt, in))
                        /\ Executed(reserves, rt, in)
                             >= in + FeeAmount(in, FlashFeeBps) + MinProfit
    BY Zenon DEF BestExecutes
  <2>2. /\ reserves \in [Pool -> Reserves] /\ cached \in SUBSET Pool
        /\ reserves \in Snapshots /\ best \in FindBest(reserves, cached)
    BY <1>1, <2>1 DEF SInv, ScanTypeOK
  <2>3. Found(best, reserves, cached)
    BY <2>2, FindBestIs, Zenon
  <2>4. PICK cycle \in FindCycles(cached), size \in Lo .. Hi :
          CandidateInputs # <<>> /\ Offers(best, reserves, cycle, size)
    BY <2>1, <2>3 DEF Found
  <2>5. rt = cycle /\ in = size
    BY <2>4 DEF Offers
  <2>6. rt \in FindCycles(cached) /\ in \in Lo .. Hi /\ Offers(best, reserves, rt, in)
        /\ CandidateInputs # <<>>
    BY <2>4, <2>5
  <2> HIDE DEF rt, in
  <2>7. rt \in Seq(Hop) \ {<<>>} /\ rt \in SimpleCycles(cached)
    BY <2>2, <2>6, FindsCycles, CyclesAreRoutes
  <2>8. in \in U64 /\ in <= M
    <3>1. Lo \in U64 /\ Hi \in U64 /\ Hi \in Grid
      BY <2>6, GridIs
    <3>2. Hi <= M /\ M \in Nat
      BY <3>1, WidthAssumption DEF Fits, U64
    <3> QED
      BY <2>6, <3>1, <3>2, WidthAssumption DEF U64
  <2>9. Quoted(reserves, rt, in) /\ best.outs = q /\ best.net >= MinProfit
        /\ best.outs[Len(rt)] > in
        /\ best.net = IF NetSigned(reserves, rt, in) > 0
                      THEN NetSigned(reserves, rt, in) ELSE 0
    BY <2>6, Zenon DEF Offers
  <2>10. /\ q # None /\ out \in U64
         /\ NetSigned(reserves, rt, in) = out - in - GasCost - FlashFee(in)
    BY <2>9, Zenon DEF Quoted
  <2>11. out > in
    BY <2>9
  <2>12. \A i, j \in 1 .. Len(rt) : rt[i].pool = rt[j].pool => i = j
    <3>1. ASSUME NEW i \in 1 .. Len(rt), NEW j \in 1 .. Len(rt), i < j,
                 rt[i].pool = rt[j].pool
          PROVE  FALSE
      <4> DEFINE h == rt[1]
      <4>1. rt = <<h, [h EXCEPT !.aToB = ~@]>>
        BY <2>7, <3>1, PoolsOnce
      <4>2. h \in Hop
        BY <2>7
      <4>3. Len(rt) = 2
        BY <4>1
      <4> HIDE DEF h
      <4>4. SimulateCollect(reserves, <<h, [h EXCEPT !.aToB = ~@]>>, in)[2] <= in
        BY <2>2, <2>8, <2>10, <4>1, <4>2, RoundTrip, Zenon
      <4>5. out <= in
        BY <4>1, <4>3, <4>4
      <4> QED
        BY <2>8, <2>10, <2>11, <4>5, WidthAssumption DEF U64
    <3>2. Len(rt) \in Nat
      BY <2>7
    <3>3. \A i, j \in 1 .. Len(rt) : i < j \/ j < i \/ i = j
      BY <3>2
    <3> QED
      BY <3>1, <3>3
  <2>13. Executed(reserves, rt, in) = out
    <3>1. q # None /\ reserves \in Snapshots /\ rt \in Seq(Hop) \ {<<>>}
          /\ in \in U64 /\ in <= M
      BY <2>2, <2>7, <2>8, <2>10
    <3> QED
      BY <2>12, <3>1, ExecutedIs, SMTT(60)
  <2> HIDE DEF q, out
  <2>14. FeeAmount(in, FlashFeeBps) = FlashFee(in) /\ FlashFee(in) \in Nat
    BY <2>8, FeeIsCharged
  <2>15. /\ out \in Nat /\ in \in Nat /\ GasCost \in Nat /\ MinProfit \in Nat
         /\ U64Max \in Nat /\ out <= U64Max
    BY <2>8, <2>10, WidthAssumption, ScannerAssumption DEF U64
  <2>16. out - in - GasCost - FlashFee(in) >= MinProfit
    BY <2>9, <2>10, <2>14, <2>15
  <2>17. out >= in + FeeAmount(in, FlashFeeBps) + MinProfit
    BY <2>14, <2>15, <2>16
  <2>18. GatePasses(in, MinProfit, out)
    BY <2>14, <2>15, <2>17 DEF GatePasses
  <2>19. out # None
    BY <2>10, QuoteAssumption
  <2> QED
    BY <2>13, <2>17, <2>18, <2>19
<1>2. SInv => BestExecutes
  BY <1>1
<1> QED
  BY <1>2, ScanInductive, PTL
=============================================================================
