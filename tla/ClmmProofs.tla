----------------------------- MODULE ClmmProofs -----------------------------
(***************************************************************************)
(* Proofs about the swap engine and the quotes the scanner makes with it,  *)
(* for every fee, ladder of ticks, window and history of the pool:         *)
(*   - one step (StepWithinInput, StepNeverOverstated): each rounding up   *)
(*     is bounded by a product (CeilAtMost), which leaves inequalities     *)
(*     without division;                                                   *)
(*   - a walk over boundaries, a fold made a function of the boundaries    *)
(*     already met (WalkIs), so that facts about walks are proved over a   *)
(*     growing beginning of the way;                                       *)
(*   - the venue's walk stays in the range whose liquidity it has          *)
(*     (VenueInside), so that swaps leave pools sound (SwapSound) and      *)
(*     TypesInv is inductive;                                              *)
(*   - more input leads to a walk no worse (WalkLeads): monotone quotes;   *)
(*   - the engine's walk agrees with the venue's up to the first range     *)
(*     without liquidity (WalksOfBoth), and HistoryInv says which ticks a  *)
(*     snapshot has: exact quotes and justified refusals.                  *)
(***************************************************************************)
EXTENDS Clmm, DataLemmas

\* An order of products with a common positive factor is the order of the others.
LEMMA CancelFactor ==
  ASSUME NEW a \in Int, NEW b \in Int, NEW d \in Nat \ {0}, d * a < d * b
  PROVE  a < b
<1>1. SUFFICES ASSUME a >= b PROVE FALSE
  OBVIOUS
<1>2. PICK e \in Nat : a = b + e
  BY <1>1
<1>3. d * a = d * b + d * e
  BY <1>2
<1>4. d * e >= 0
  BY <1>2
<1> QED BY <1>3, <1>4

\* Rounding down, as inequalities.
LEMMA FloorBounds ==
  ASSUME NEW n \in Nat, NEW d \in Nat \ {0}
  PROVE  n \div d \in Nat /\ d * (n \div d) <= n /\ n < d * (n \div d) + d
OBVIOUS

\* Rounding down stays below k exactly while k times the divisor exceeds the dividend.
LEMMA FloorBelow ==
  ASSUME NEW n \in Nat, NEW d \in Nat \ {0}, NEW k \in Int, n < k * d
  PROVE  n \div d < k
<1>1. n \div d \in Nat /\ d * (n \div d) <= n
  BY FloorBounds
<1>2. d * (n \div d) < d * k
  BY <1>1
<1> QED BY <1>1, <1>2, CancelFactor

\* Rounding up, as inequalities.
LEMMA CeilBounds ==
  ASSUME NEW n \in Nat, NEW d \in Nat \ {0}
  PROVE  CeilDiv(n, d) \in Nat /\ n <= d * CeilDiv(n, d) /\ d * CeilDiv(n, d) < n + d
<1>1. n + d - 1 \in Nat
  OBVIOUS
<1> QED BY <1>1, FloorBounds DEF CeilDiv

\* Rounding up is at most k when k times the divisor covers the dividend.
LEMMA CeilAtMost ==
  ASSUME NEW n \in Nat, NEW d \in Nat \ {0}, NEW k \in Int, n <= k * d
  PROVE  CeilDiv(n, d) <= k
<1>1. CeilDiv(n, d) \in Nat /\ d * CeilDiv(n, d) < n + d
  BY CeilBounds
<1>2. d * CeilDiv(n, d) < d * (k + 1)
  BY <1>1
<1>3. CeilDiv(n, d) < k + 1
  BY <1>1, <1>2, CancelFactor
<1> QED BY <1>1, <1>3

\* And it exceeds k when the dividend exceeds k times the divisor.
LEMMA CeilAbove ==
  ASSUME NEW n \in Nat, NEW d \in Nat \ {0}, NEW k \in Int, k * d < n
  PROVE  k < CeilDiv(n, d)
<1>1. CeilDiv(n, d) \in Nat /\ n <= d * CeilDiv(n, d)
  BY CeilBounds
<1>2. d * k < d * CeilDiv(n, d)
  BY <1>1
<1> QED BY <1>1, <1>2, CancelFactor

\* What lies below a rounding up lies below the fraction.
LEMMA CeilReached ==
  ASSUME NEW n \in Nat, NEW d \in Nat \ {0}, NEW k \in Int, k < CeilDiv(n, d)
  PROVE  k * d < n
<1>1. CeilDiv(n, d) \in Nat
  BY CeilBounds
<1>2. ~(n <= k * d)
  <2>1. SUFFICES ASSUME n <= k * d PROVE FALSE
    OBVIOUS
  <2>2. CeilDiv(n, d) <= k
    BY <2>1, CeilAtMost
  <2> QED BY <1>1, <2>2
<1> QED BY <1>2

\* Products of positive numbers are positive.
LEMMA ProductPositive ==
  ASSUME NEW a \in Nat \ {0}, NEW b \in Nat \ {0}
  PROVE  a * b \in Nat \ {0}
OBVIOUS

\* Products of natural numbers are natural numbers.
LEMMA ProductNat ==
  ASSUME NEW a \in Nat, NEW b \in Nat
  PROVE  a * b \in Nat
OBVIOUS

-----------------------------------------------------------------------------
(* The pieces of a step *)

\* What the fee leaves of an input is rounded down.
LEMMA LessFeeWithin ==
  ASSUME NEW amount \in Nat, NEW fee \in 0 .. PipsDenom - 1
  PROVE  /\ LessFee(amount, fee) \in Nat
         /\ PipsDenom * LessFee(amount, fee) <= amount * (PipsDenom - fee)
<1>1. PipsDenom \in Nat \ {0} /\ PipsDenom - fee \in Nat
  BY ClmmAssumption
<1>2. amount * (PipsDenom - fee) \in Nat
  BY <1>1, ProductNat
<1> QED BY <1>1, <1>2, FloorBounds DEF LessFee

\* What reaches the curve is at most the amount.
LEMMA LessFeeAtMost ==
  ASSUME NEW amount \in Nat, NEW fee \in 0 .. PipsDenom - 1
  PROVE  LessFee(amount, fee) <= amount
<1>1. PipsDenom \in Nat \ {0}
  BY ClmmAssumption
<1>2. /\ LessFee(amount, fee) \in Nat
      /\ PipsDenom * LessFee(amount, fee) <= amount * (PipsDenom - fee)
  BY LessFeeWithin
<1>3. amount * (PipsDenom - fee) = amount * PipsDenom - amount * fee
  BY <1>1
<1>4. amount * fee \in Nat
  BY ProductNat
<1>5. PipsDenom * LessFee(amount, fee) < PipsDenom * (amount + 1)
  BY <1>1, <1>2, <1>3, <1>4
<1>6. LessFee(amount, fee) < amount + 1
  BY <1>1, <1>2, <1>5, CancelFactor
<1> QED BY <1>2, <1>6

\* The fee on an input that is covered fits into what the fee set aside.
LEMMA FeeFits ==
  ASSUME NEW amount \in Nat, NEW fee \in 0 .. PipsDenom - 1, NEW in \in Nat,
         in <= LessFee(amount, fee)
  PROVE  /\ CeilDiv(in * fee, PipsDenom - fee) \in Nat
         /\ in + CeilDiv(in * fee, PipsDenom - fee) <= amount
<1>1. PipsDenom \in Nat \ {0} /\ PipsDenom - fee \in Nat \ {0}
  BY ClmmAssumption
<1>2. /\ LessFee(amount, fee) \in Nat
      /\ PipsDenom * LessFee(amount, fee) <= amount * (PipsDenom - fee)
  BY LessFeeWithin
<1>3. in * fee \in Nat
  BY ProductNat
<1>4. PipsDenom * in <= PipsDenom * LessFee(amount, fee)
  BY <1>1, <1>2
<1>5. PipsDenom * in = in * fee + in * (PipsDenom - fee)
  BY <1>1
<1>6. in * fee <= (amount - in) * (PipsDenom - fee)
  BY <1>1, <1>2, <1>3, <1>4, <1>5
<1>7. CeilDiv(in * fee, PipsDenom - fee) <= amount - in
  BY <1>1, <1>3, <1>6, CeilAtMost
<1> QED BY <1>1, <1>3, <1>7, CeilBounds

\* Token 0 in, too little to reach q below p: the price stops above q, and what the
\* move costs is covered.
LEMMA Amount0InStops ==
  ASSUME NEW p \in Nat \ {0}, NEW q \in Nat \ {0}, q < p,
         NEW l \in Nat \ {0}, NEW a \in Nat, a < Amount0Delta(q, p, l, TRUE)
  PROVE  LET n == NextSqrtFromAmount0In(p, l, a)
         IN  /\ n \in Nat /\ q < n /\ n <= p
             /\ Amount0Delta(n, p, l, TRUE) \in Nat
             /\ Amount0Delta(n, p, l, TRUE) <= a
<1> DEFINE R == l * Q64
           d == R + a * p
           n == NextSqrtFromAmount0In(p, l, a)
<1>1. R \in Nat \ {0} /\ a * p \in Nat /\ d \in Nat \ {0}
  BY ClmmAssumption, ProductPositive, ProductNat
<1>2. R * p \in Nat
  BY <1>1, ProductNat
<1> HIDE DEF R
<1>3. n = CeilDiv(R * p, d)
  BY DEF NextSqrtFromAmount0In, R
<1>4. n \in Nat /\ R * p <= d * n
  BY <1>1, <1>2, <1>3, CeilBounds
<1>5. n <= p
  <2>1. p * d = R * p + (a * p) * p
    BY <1>1
  <2>2. (a * p) * p \in Nat
    BY <1>1, ProductNat
  <2>3. R * p <= p * d
    BY <1>1, <1>2, <2>1, <2>2
  <2> QED BY <1>1, <1>2, <1>3, <2>3, CeilAtMost
<1>6. q < n
  <2>1. p * q \in Nat \ {0} /\ R * (p - q) \in Nat
    BY <1>1, ProductPositive, ProductNat
  <2>2. Amount0Delta(q, p, l, TRUE) = CeilDiv(R * (p - q), p * q)
    BY DEF Amount0Delta, Rounded, R
  <2>3. a * (p * q) < R * (p - q)
    <3>1. a < CeilDiv(R * (p - q), p * q)
      BY <2>2
    <3> DEFINE x == R * (p - q)
               y == p * q
    <3>2. x \in Nat /\ y \in Nat \ {0} /\ a < CeilDiv(x, y)
      BY <2>1, <3>1
    <3> HIDE DEF x, y
    <3>3. a * y < x
      BY <3>2, CeilReached
    <3> QED BY <3>3 DEF x, y
  <2>4. q * d = R * q + a * (p * q)
    BY <1>1
  <2>5. R * (p - q) = R * p - R * q
    BY <1>1
  <2>6. q * d < R * p
    BY <1>1, <1>2, <2>1, <2>3, <2>4, <2>5
  <2> QED BY <1>1, <1>2, <1>3, <2>6, CeilAbove
<1>7. Amount0Delta(n, p, l, TRUE) \in Nat /\ Amount0Delta(n, p, l, TRUE) <= a
  <2>1. n \in Nat \ {0} /\ p * n \in Nat \ {0} /\ p - n \in Nat /\ R * (p - n) \in Nat
    BY <1>1, <1>4, <1>5, <1>6, ProductPositive, ProductNat
  <2>2. Amount0Delta(n, p, l, TRUE) = CeilDiv(R * (p - n), p * n)
    BY DEF Amount0Delta, Rounded, R
  <2>3. d * n = R * n + a * (p * n)
    BY <1>1, <1>4
  <2>4. R * (p - n) = R * p - R * n
    BY <1>1, <1>4
  <2>5. R * (p - n) <= a * (p * n)
    BY <1>1, <1>2, <1>4, <2>1, <2>3, <2>4
  <2>6. CeilDiv(R * (p - n), p * n) \in Nat
    BY <2>1, CeilBounds
  <2>7. CeilDiv(R * (p - n), p * n) <= a
    BY <2>1, <2>5, CeilAtMost
  <2> HIDE DEF n
  <2> QED BY <2>2, <2>6, <2>7
<1> QED BY <1>4, <1>5, <1>6, <1>7

\* Token 1 in, too little to reach q above p.
LEMMA Amount1InStops ==
  ASSUME NEW p \in Nat \ {0}, NEW q \in Nat \ {0}, p < q,
         NEW l \in Nat \ {0}, NEW a \in Nat, a < Amount1Delta(p, q, l, TRUE)
  PROVE  LET n == NextSqrtFromAmount1In(p, l, a)
         IN  /\ n \in Nat /\ p <= n /\ n < q
             /\ Amount1Delta(p, n, l, TRUE) \in Nat
             /\ Amount1Delta(p, n, l, TRUE) <= a
<1> DEFINE m == (a * Q64) \div l
           n == NextSqrtFromAmount1In(p, l, a)
<1>1. Q64 \in Nat \ {0} /\ a * Q64 \in Nat
  BY ClmmAssumption, ProductNat
<1>2. m \in Nat /\ l * m <= a * Q64
  BY <1>1, FloorBounds
<1>3. m < q - p
  <2>1. l * (q - p) \in Nat
    BY ProductNat
  <2>2. a * Q64 < l * (q - p)
    BY <1>1, <2>1, CeilReached DEF Amount1Delta, Rounded
  <2>3. a * Q64 < (q - p) * l
    BY <2>2
  <2> QED BY <1>1, <2>3, FloorBelow
<1>4. n = p + m
  BY DEF NextSqrtFromAmount1In
<1> HIDE DEF m, n
<1>5. Amount1Delta(p, n, l, TRUE) = CeilDiv(l * m, Q64)
  <2>1. n - p = m
    BY <1>2, <1>4
  <2> QED BY <2>1 DEF Amount1Delta, Rounded
<1>6. l * m \in Nat
  BY <1>2, ProductNat
<1>7. CeilDiv(l * m, Q64) \in Nat /\ CeilDiv(l * m, Q64) <= a
  BY <1>1, <1>2, <1>6, CeilAtMost, CeilBounds
<1>8. n \in Nat /\ p <= n /\ n < q
  BY <1>2, <1>3, <1>4
<1> QED BY <1>5, <1>7, <1>8 DEF n

-----------------------------------------------------------------------------
(* The step *)

\* What a step charges is a natural number.
LEMMA CostNat ==
  ASSUME NEW p \in Nat \ {0}, NEW q \in Nat \ {0}, NEW l \in Nat \ {0}, NEW aToB \in BOOLEAN,
         IF aToB THEN q < p ELSE p < q
  PROVE  StepCost(p, q, l, aToB) \in Nat
<1>1. CASE aToB
  <2>1. p * q \in Nat \ {0} /\ l * Q64 \in Nat /\ p - q \in Nat
    BY <1>1, ProductPositive, ProductNat, ClmmAssumption
  <2>2. l * Q64 * (p - q) \in Nat
    BY <2>1, ProductNat
  <2>3. CeilDiv(l * Q64 * (p - q), p * q) \in Nat
    BY <2>1, <2>2, CeilBounds
  <2> QED BY <1>1, <2>3 DEF StepCost, Amount0Delta, Rounded
<1>2. CASE ~aToB
  <2>1. Q64 \in Nat \ {0} /\ q - p \in Nat
    BY <1>2, ClmmAssumption
  <2>2. l * (q - p) \in Nat
    BY <2>1, ProductNat
  <2>3. CeilDiv(l * (q - p), Q64) \in Nat
    BY <2>1, <2>2, CeilBounds
  <2> QED BY <1>2, <2>3 DEF StepCost, Amount1Delta, Rounded
<1> QED BY <1>1, <1>2

\* An input pays for the move it makes, and the price stays on the way to the target.
LEMMA StepCovered ==
  ASSUME NEW cur \in Nat \ {0}, NEW target \in Nat \ {0}, NEW l \in Nat \ {0},
         NEW a \in Nat, NEW aToB \in BOOLEAN,
         IF aToB THEN target < cur ELSE cur < target
  PROVE  LET n == StepNext(cur, target, l, a, aToB)
         IN  /\ n \in Nat
             /\ (aToB => target <= n /\ n <= cur)
             /\ (~aToB => cur <= n /\ n <= target)
             /\ StepCost(cur, n, l, aToB) \in Nat
             /\ StepCost(cur, n, l, aToB) <= a
<1> DEFINE n == StepNext(cur, target, l, a, aToB)
           c == StepCost(cur, target, l, aToB)
<1> SUFFICES /\ n \in Nat
             /\ (aToB => target <= n /\ n <= cur)
             /\ (~aToB => cur <= n /\ n <= target)
             /\ StepCost(cur, n, l, aToB) \in Nat
             /\ StepCost(cur, n, l, aToB) <= a
  OBVIOUS
<1>1. c \in Nat
  BY CostNat
<1> HIDE DEF c
<1>2. CASE a >= c
  <2>1. n = target
    BY <1>2 DEF StepNext, c
  <2> HIDE DEF n
  <2>2. StepCost(cur, n, l, aToB) = c
    BY <2>1 DEF c
  <2> QED BY <1>1, <1>2, <2>1, <2>2
<1>3. CASE a < c /\ aToB
  <2>0. target < cur /\ aToB = TRUE
    BY <1>3
  <2>1. n = NextSqrtFromAmount0In(cur, l, a)
    <3>1. ~(a >= c)
      BY <1>1, <1>3
    <3> QED BY <2>0, <3>1 DEF StepNext, c
  <2>2. a < Amount0Delta(target, cur, l, TRUE)
    BY <2>0, <1>3 DEF StepCost, c
  <2>3. LET m == NextSqrtFromAmount0In(cur, l, a)
        IN  /\ m \in Nat /\ target < m /\ m <= cur
            /\ Amount0Delta(m, cur, l, TRUE) \in Nat
            /\ Amount0Delta(m, cur, l, TRUE) <= a
    BY <2>0, <2>2, Amount0InStops
  <2>4. StepCost(cur, n, l, aToB) = Amount0Delta(n, cur, l, TRUE)
    BY <2>0 DEF StepCost
  <2> HIDE DEF n
  <2>5. /\ n \in Nat /\ target < n /\ n <= cur
        /\ StepCost(cur, n, l, aToB) \in Nat /\ StepCost(cur, n, l, aToB) <= a
    BY <2>1, <2>3, <2>4
  <2>6. target <= n /\ n <= cur
    BY <2>5
  <2> QED BY <1>3, <2>5, <2>6
<1>4. CASE a < c /\ ~aToB
  <2>0. cur < target /\ aToB = FALSE
    BY <1>4
  <2>1. n = NextSqrtFromAmount1In(cur, l, a)
    <3>1. ~(a >= c)
      BY <1>1, <1>4
    <3> QED BY <2>0, <3>1 DEF StepNext, c
  <2>2. a < Amount1Delta(cur, target, l, TRUE)
    BY <2>0, <1>4 DEF StepCost, c
  <2>3. LET m == NextSqrtFromAmount1In(cur, l, a)
        IN  /\ m \in Nat /\ cur <= m /\ m < target
            /\ Amount1Delta(cur, m, l, TRUE) \in Nat
            /\ Amount1Delta(cur, m, l, TRUE) <= a
    BY <2>0, <2>2, Amount1InStops
  <2>4. StepCost(cur, n, l, aToB) = Amount1Delta(cur, n, l, TRUE)
    BY <2>0 DEF StepCost
  <2> HIDE DEF n
  <2>5. /\ n \in Nat /\ cur <= n /\ n < target
        /\ StepCost(cur, n, l, aToB) \in Nat /\ StepCost(cur, n, l, aToB) <= a
    BY <2>1, <2>3, <2>4
  <2>6. cur <= n /\ n <= target
    BY <2>5
  <2> QED BY <1>4, <2>5, <2>6
<1>5. (a >= c) \/ (a < c)
  BY <1>1
<1> QED BY <1>2, <1>3, <1>4, <1>5

\* A step of the swap engine charges at most what it is given, input and fee together,
\* and does not pass the boundary it aims at: "amount_remaining - amount_in" in
\* compute_swap_step cannot go below 0, and the saturating subtraction of
\* quote_exact_in never saturates, so no input is ever counted twice.
THEOREM StepWithinInput ==
  ASSUME NEW cur \in Nat \ {0}, NEW target \in Nat \ {0}, NEW l \in Nat \ {0},
         NEW remaining \in Nat, NEW fee \in 0 .. PipsDenom - 1, NEW aToB \in BOOLEAN,
         IF aToB THEN target < cur ELSE cur < target
  PROVE  LET s == SwapStep(cur, target, l, remaining, fee, aToB)
         IN  /\ s.in \in Nat /\ s.fee \in Nat
             /\ s.in + s.fee <= remaining
             /\ (aToB => target <= s.next /\ s.next <= cur)
             /\ (~aToB => cur <= s.next /\ s.next <= target)
<1> DEFINE lf == LessFee(remaining, fee)
           n  == StepNext(cur, target, l, lf, aToB)
           c  == StepCost(cur, n, l, aToB)
           f  == IF n # target THEN remaining - c ELSE CeilDiv(c * fee, PipsDenom - fee)
           s  == SwapStep(cur, target, l, remaining, fee, aToB)
<1>1. s.next = n /\ s.in = c /\ s.fee = f
  BY DEF SwapStep
<1>2. lf \in Nat /\ lf <= remaining
  BY LessFeeWithin, LessFeeAtMost
<1>3. /\ n \in Nat
      /\ (aToB => target <= n /\ n <= cur)
      /\ (~aToB => cur <= n /\ n <= target)
      /\ c \in Nat /\ c <= lf
  <2> HIDE DEF lf
  <2> QED BY <1>2, StepCovered
<1> HIDE DEF n, c, s
<1>4. CASE n # target
  BY <1>1, <1>2, <1>3, <1>4 DEF s
<1>5. CASE n = target
  <2>1. /\ CeilDiv(c * fee, PipsDenom - fee) \in Nat
        /\ c + CeilDiv(c * fee, PipsDenom - fee) <= remaining
    BY <1>3, FeeFits
  <2> QED BY <1>1, <1>3, <1>5, <2>1 DEF s
<1> QED BY <1>4, <1>5

-----------------------------------------------------------------------------
(* The output of a step *)

\* What the price may move down for an input a of token 0, without division.
LEMMA MoveDown ==
  ASSUME NEW p \in Nat \ {0}, NEW q \in Nat \ {0}, q < p, NEW l \in Nat \ {0}, NEW a \in Nat
  PROVE  LET n == StepNext(p, q, l, a, TRUE)
         IN  (p - n) * (l * Q64 + a * p) <= (a * p) * p
<1> DEFINE R == l * Q64
           d == R + a * p
           n == StepNext(p, q, l, a, TRUE)
           c == StepCost(p, q, l, TRUE)
<1>1. R \in Nat \ {0} /\ a * p \in Nat /\ d \in Nat \ {0}
  BY ClmmAssumption, ProductPositive, ProductNat
<1>2. c \in Nat
  BY CostNat
<1>3. c = CeilDiv(R * (p - q), p * q)
  BY DEF StepCost, Amount0Delta, Rounded
<1>4. p * q \in Nat \ {0} /\ R * (p - q) \in Nat /\ R * p \in Nat
  BY <1>1, ProductPositive, ProductNat
<1> HIDE DEF R, n, c
<1>5. n \in Nat /\ (p - n) * d <= (a * p) * p
  <2>1. CASE a >= c
    <3>1. n = q
      BY <2>1 DEF StepNext, n, c
    <3>2. R * (p - q) <= (p * q) * c
      BY <1>3, <1>4, CeilBounds
    <3>3. PICK e \in Nat : a = c + e
      BY <1>2, <2>1
    <3>4. (p * q) * a = (p * q) * c + (p * q) * e
      BY <1>2, <3>3
    <3>5. (p * q) * e \in Nat
      BY <1>4, ProductNat
    <3>6. R * (p - q) <= (p * q) * a
      BY <1>1, <1>2, <1>4, <3>2, <3>4, <3>5
    <3>7. (p - q) * d = R * (p - q) + (a * p) * p - (p * q) * a
      BY <1>1
    <3>8. (p - q) * d <= (a * p) * p
      BY <1>1, <1>4, <3>6, <3>7
    <3> QED BY <3>1, <3>8
  <2>2. CASE a < c
    <3>1. ~(a >= c)
      BY <1>2, <2>2
    <3>2. n = CeilDiv(R * p, d)
      BY <3>1 DEF StepNext, NextSqrtFromAmount0In, R, n, c
    <3>3. n \in Nat /\ R * p <= d * n
      BY <1>1, <1>4, <3>2, CeilBounds
    <3>4. (p - n) * d = R * p + (a * p) * p - d * n
      BY <1>1, <3>3
    <3>5. d * n \in Nat /\ (a * p) * p \in Nat
      BY <1>1, <3>3, ProductNat
    <3> QED BY <1>4, <3>3, <3>4, <3>5
  <2>3. a >= c \/ a < c
    BY <1>2
  <2> QED BY <2>1, <2>2, <2>3
<1> QED BY <1>5 DEF R, n

\* And up, for an input of token 1.
LEMMA MoveUp ==
  ASSUME NEW p \in Nat \ {0}, NEW q \in Nat \ {0}, p < q, NEW l \in Nat \ {0}, NEW a \in Nat
  PROVE  l * (StepNext(p, q, l, a, FALSE) - p) <= a * Q64
<1> DEFINE n == StepNext(p, q, l, a, FALSE)
           c == StepCost(p, q, l, FALSE)
           m == (a * Q64) \div l
<1>1. Q64 \in Nat \ {0} /\ a * Q64 \in Nat /\ l * (q - p) \in Nat
  BY ClmmAssumption, ProductNat
<1>2. c \in Nat
  BY CostNat
<1>3. c = CeilDiv(l * (q - p), Q64)
  BY DEF StepCost, Amount1Delta, Rounded
<1> HIDE DEF c, n
<1>4. CASE a >= c
  <2>1. n = q
    BY <1>4 DEF StepNext, n, c
  <2>2. l * (q - p) <= Q64 * c
    BY <1>1, <1>3, CeilBounds
  <2>3. PICK e \in Nat : a = c + e
    BY <1>2, <1>4
  <2>4. a * Q64 = Q64 * c + Q64 * e
    BY <1>1, <1>2, <2>3
  <2>5. Q64 * e \in Nat /\ Q64 * c \in Nat
    BY <1>1, <1>2, ProductNat
  <2>6. l * (q - p) <= a * Q64
    BY <1>1, <2>2, <2>4, <2>5
  <2> QED BY <2>1, <2>6 DEF n
<1>5. CASE a < c
  <2>1. ~(a >= c)
    BY <1>2, <1>5
  <2>2. n = p + m
    BY <2>1 DEF StepNext, NextSqrtFromAmount1In, n, c
  <2>3. m \in Nat /\ l * m <= a * Q64
    BY <1>1, FloorBounds
  <2> HIDE DEF m
  <2>4. n - p = m
    BY <2>2, <2>3
  <2> QED BY <2>3, <2>4 DEF n
<1>6. a >= c \/ a < c
  BY <1>2
<1> QED BY <1>4, <1>5, <1>6

\* An inequality multiplied by a natural number.
LEMMA Multiply ==
  ASSUME NEW a \in Int, NEW b \in Int, NEW k \in Nat, a <= b
  PROVE  k * a <= k * b
<1>1. PICK e \in Nat : b = a + e
  OBVIOUS
<1>2. k * b = k * a + k * e
  BY <1>1
<1>3. k * e \in Nat
  BY <1>1, ProductNat
<1> QED BY <1>1, <1>2, <1>3

\* A step pays at most what the curve pays, before any rounding, for what the fee
\* leaves of the input a: l*p^2*a / (Q64*(l*Q64 + a*p)) of token 1 for token 0, and
\* l*Q64^2*a / (p*(l*p + a*Q64)) of token 0 for token 1.  It is what clmm.rs says of
\* its roundings ("the resulting output is never overstated").
THEOREM StepNeverOverstated ==
  ASSUME NEW p \in Nat \ {0}, NEW target \in Nat \ {0}, NEW l \in Nat \ {0},
         NEW remaining \in Nat, NEW fee \in 0 .. PipsDenom - 1, NEW aToB \in BOOLEAN,
         IF aToB THEN target < p ELSE p < target
  PROVE  LET s == SwapStep(p, target, l, remaining, fee, aToB)
             a == LessFee(remaining, fee)
         IN  /\ aToB => (s.out * Q64) * (l * Q64 + a * p) <= l * ((a * p) * p)
             /\ ~aToB => (s.out * p) * (l * p + a * Q64) <= (l * Q64) * (a * Q64)
<1> DEFINE a == LessFee(remaining, fee)
           s == SwapStep(p, target, l, remaining, fee, aToB)
           n == StepNext(p, target, l, a, aToB)
<1>1. a \in Nat /\ Q64 \in Nat \ {0}
  BY LessFeeWithin, ClmmAssumption
<1>2. s.out = IF aToB THEN Amount1Delta(n, p, l, FALSE) ELSE Amount0Delta(p, n, l, FALSE)
  BY DEF SwapStep
<1> HIDE DEF a, s
<1>3. n \in Nat /\ (aToB => target <= n /\ n <= p) /\ (~aToB => p <= n /\ n <= target)
  BY <1>1, StepCovered
<1> HIDE DEF n
<1>4. ASSUME aToB
      PROVE  (s.out * Q64) * (l * Q64 + a * p) <= l * ((a * p) * p)
  <2> DEFINE d == l * Q64 + a * p
             o == (l * (p - n)) \div Q64
  <2>1. p - n \in Nat /\ target < p /\ aToB = TRUE
    BY <1>3, <1>4
  <2>2. (p - n) * d <= (a * p) * p
    BY <1>1, <2>1, MoveDown DEF n
  <2>3. s.out = o
    BY <1>2, <1>4 DEF Amount1Delta, Rounded
  <2>4. d \in Nat /\ (a * p) * p \in Nat /\ l * (p - n) \in Nat
    BY <1>1, <2>1, ProductNat
  <2>5. o \in Nat /\ Q64 * o <= l * (p - n)
    BY <1>1, <2>4, FloorBounds
  <2> HIDE DEF d, o
  <2>6. d * (Q64 * o) <= d * (l * (p - n))
    BY <1>1, <2>4, <2>5, Multiply
  <2>7. l * ((p - n) * d) <= l * ((a * p) * p)
    BY <1>1, <2>1, <2>2, <2>4, Multiply
  <2>8. d * (l * (p - n)) = l * ((p - n) * d)
    BY <2>1, <2>4
  <2>9. (o * Q64) * d = d * (Q64 * o)
    BY <1>1, <2>4, <2>5
  <2>10. (o * Q64) * d <= l * ((a * p) * p)
    BY <1>1, <2>1, <2>4, <2>5, <2>6, <2>7, <2>8, <2>9
  <2> QED BY <2>3, <2>10 DEF d
<1>5. ASSUME ~aToB
      PROVE  (s.out * p) * (l * p + a * Q64) <= (l * Q64) * (a * Q64)
  <2> DEFINE m == n - p
             d == l * p + a * Q64
             R == l * Q64
             o == (R * m) \div (n * p)
  <2>1. m \in Nat /\ n \in Nat \ {0} /\ n = p + m /\ p < target /\ aToB = FALSE
    BY <1>3, <1>5
  <2>2. l * m <= a * Q64
    BY <1>1, <2>1, MoveUp DEF n
  <2>3. s.out = o
    BY <1>2, <1>5 DEF Amount0Delta, Rounded
  <2>4. R \in Nat /\ a * Q64 \in Nat /\ d \in Nat /\ n * p \in Nat \ {0} /\ R * m \in Nat
    BY <1>1, <2>1, ProductNat, ProductPositive
  <2>5. o \in Nat /\ (n * p) * o <= R * m
    BY <2>4, FloorBounds
  <2> DEFINE A == a * Q64
  <2> HIDE DEF d, o, m, R, A
  <2>6. d = l * p + A
    BY DEF d, A
  <2>7. m * d <= A * n
    <3>1. m * d = p * (l * m) + A * m
      BY <2>1, <2>4, <2>6 DEF A
    <3>2. A * n = p * A + A * m
      BY <2>1, <2>4 DEF A
    <3>3. p * (l * m) <= p * A
      BY <2>1, <2>2, <2>4, Multiply DEF A
    <3> QED BY <2>1, <2>4, <3>1, <3>2, <3>3 DEF A
  <2>8. d * ((n * p) * o) <= d * (R * m)
    BY <2>4, <2>5, Multiply
  <2>9. R * (m * d) <= R * (A * n)
    BY <2>1, <2>4, <2>7, Multiply DEF A
  <2>10. d * (R * m) = R * (m * d) /\ d * ((n * p) * o) = n * ((o * p) * d)
         /\ R * (A * n) = n * (R * A)
    BY <2>1, <2>4, <2>5 DEF A
  <2>11. n * ((o * p) * d) <= n * (R * A)
    BY <2>1, <2>4, <2>5, <2>8, <2>9, <2>10 DEF A
  <2>12. (o * p) * d \in Nat /\ R * A \in Nat
    BY <2>4, <2>5, ProductNat DEF A
  <2>13. (o * p) * d <= R * A
    <3>1. SUFFICES ASSUME R * A < (o * p) * d PROVE FALSE
      BY <2>12
    <3>2. (R * A) + 1 <= (o * p) * d
      BY <2>12, <3>1
    <3>3. n * ((R * A) + 1) <= n * ((o * p) * d)
      BY <2>1, <2>12, <3>2, Multiply
    <3>4. n * ((R * A) + 1) = n * (R * A) + n
      BY <2>1, <2>12
    <3>5. n * (R * A) \in Nat /\ n * ((o * p) * d) \in Nat
      BY <2>1, <2>12, ProductNat
    <3> QED BY <2>1, <2>11, <3>3, <3>4, <3>5
  <2> QED BY <2>3, <2>13 DEF d, R, A
<1> QED BY <1>4, <1>5 DEF a, s

-----------------------------------------------------------------------------
(* A fold over a finite set, as a function of its subsets *)

\* A function that takes a step for each element of a set, in the order pick takes them.
FoldsOver(g, S, V, base, pick, step) ==
  /\ g \in [SUBSET S -> V]
  /\ \A s \in SUBSET S : g[s] = IF s = {} THEN base ELSE step[pick[s]][g[s \ {pick[s]}]]

\* There is such a function for every finite set.
LEMMA FoldExists ==
  ASSUME NEW S, IsFiniteSet(S), NEW V, NEW base \in V,
         NEW pick, \A s \in SUBSET S : s # {} => pick[s] \in s,
         NEW step, \A x \in S, v \in V : step[x][v] \in V
  PROVE  \E g : FoldsOver(g, S, V, base, pick, step)
<1> DEFINE U == [SUBSET S -> V]
           bottom == [s \in SUBSET S |-> base]
           turn(h) == [s \in SUBSET S |->
                         IF s = {} THEN base ELSE step[pick[s]][h[s \ {pick[s]}]]]
           next == [n \in Nat |-> [h \in U |-> turn(h)]]
<1>1. bottom \in U
  OBVIOUS
<1>2. \A n \in Nat, h \in U : next[n][h] \in U
  OBVIOUS
<1>3. \A n \in Nat, h \in U : next[n][h] = turn(h)
  OBVIOUS
<1> HIDE DEF next, bottom
<1>4. PICK f : Recurses(f, U, bottom, next)
  BY <1>1, <1>2, RecursionExists, Zenon
<1>5. f \in [Nat -> U] /\ f[0] = bottom /\ \A n \in Nat : f[n + 1] = turn(f[n])
  <2>1. f \in [Nat -> U] /\ f[0] = bottom /\ \A n \in Nat : f[n + 1] = next[n][f[n]]
    BY <1>4, Zenon DEF Recurses
  <2>2. ASSUME NEW n \in Nat PROVE f[n + 1] = turn(f[n])
    <3>1. f[n] \in U
      BY <2>1
    <3> HIDE DEF U
    <3> QED
      BY <1>3, <2>1, <3>1, Zenon
  <2> QED
    BY <2>1, <2>2
<1> DEFINE g == [s \in SUBSET S |-> f[Cardinality(s)][s]]
<1>6. \A s \in SUBSET S : IsFiniteSet(s) /\ Cardinality(s) \in Nat
  BY FS_Subset, FS_CardinalityType
<1>7. g \in [SUBSET S -> V]
  BY <1>5, <1>6
<1>8. ASSUME NEW s \in SUBSET S
      PROVE  g[s] = IF s = {} THEN base ELSE step[pick[s]][g[s \ {pick[s]}]]
  <2>1. CASE s = {}
    BY <1>5, <2>1, FS_EmptySet DEF bottom
  <2>2. CASE s # {}
    <3> DEFINE r == s \ {pick[s]}
    <3>1. pick[s] \in s /\ r \in SUBSET S
      BY <2>2
    <3>2. Cardinality(r) = Cardinality(s) - 1
      BY <1>6, <3>1, FS_RemoveElement
    <3>3. Cardinality(r) \in Nat /\ Cardinality(s) = Cardinality(r) + 1
      BY <1>6, <3>1, <3>2
    <3>4. f[Cardinality(s)] = turn(f[Cardinality(r)])
      BY <1>5, <3>3
    <3>5. f[Cardinality(s)][s] = step[pick[s]][f[Cardinality(r)][r]]
      BY <2>2, <3>4
    <3>6. g[s] = f[Cardinality(s)][s] /\ g[r] = f[Cardinality(r)][r]
      BY <3>1
    <3> HIDE DEF g
    <3> QED
      BY <2>2, <3>5, <3>6
  <2> QED
    BY <2>1, <2>2
<1> HIDE DEF g
<1> QED
  BY <1>7, <1>8, Zenon DEF FoldsOver

-----------------------------------------------------------------------------
(* One turn, whatever the liquidity and however near the boundary *)

\* The states of a walk, and the boundaries it can meet.
WalkState ==
  [price : Nat \ {0}, liq : Nat, remaining : Nat, out : Nat, going : BOOLEAN]
Bounds == [price : Nat \ {0}, net : Int]

\* A swap that runs down passes q at p or after it.
Onward(aToB, p, q) == IF aToB THEN q <= p ELSE p <= q

\* Rounding nothing up leaves nothing.
LEMMA CeilNothing ==
  ASSUME NEW d \in Nat \ {0}
  PROVE  CeilDiv(0, d) = 0
<1>1. CeilDiv(0, d) \in Nat /\ d * CeilDiv(0, d) < 0 + d
  BY CeilBounds
<1>2. CeilDiv(0, d) <= 0
  BY <1>1, CeilAtMost
<1> QED
  BY <1>1, <1>2

\* Without liquidity, or at the boundary already, a step costs nothing.
LEMMA FreeCost ==
  ASSUME NEW p \in Nat \ {0}, NEW q \in Nat \ {0}, NEW l \in Nat, NEW aToB \in BOOLEAN,
         l = 0 \/ p = q
  PROVE  StepCost(p, q, l, aToB) = 0
<1>1. p * q \in Nat \ {0} /\ Q64 \in Nat \ {0} /\ p * q = q * p
  BY ProductPositive, ClmmAssumption
<1>2. l * Q64 * (p - q) = 0 /\ l * (q - p) = 0
  BY <1>1
<1>3. CeilDiv(0, p * q) = 0 /\ CeilDiv(0, Q64) = 0
  BY <1>1, CeilNothing
<1> QED
  BY <1>1, <1>2, <1>3 DEF StepCost, Amount0Delta, Amount1Delta, Rounded

\* Such a step reaches its target, and charges and pays nothing.
LEMMA FreeStep ==
  ASSUME NEW cur \in Nat \ {0}, NEW target \in Nat \ {0}, NEW l \in Nat,
         NEW remaining \in Nat, NEW fee \in 0 .. PipsDenom - 1, NEW aToB \in BOOLEAN,
         l = 0 \/ cur = target
  PROVE  LET s == SwapStep(cur, target, l, remaining, fee, aToB)
         IN  s.next = target /\ s.in = 0 /\ s.out = 0 /\ s.fee = 0
<1> DEFINE a == LessFee(remaining, fee)
           n == StepNext(cur, target, l, a, aToB)
           s == SwapStep(cur, target, l, remaining, fee, aToB)
<1>1. a \in Nat
  BY LessFeeWithin
<1>2. StepCost(cur, target, l, aToB) = 0
  BY FreeCost
<1>3. n = target
  BY <1>1, <1>2 DEF StepNext
<1>4. CeilDiv(0 * fee, PipsDenom - fee) = 0
  <2>1. PipsDenom - fee \in Nat \ {0} /\ 0 * fee = 0
    BY ClmmAssumption
  <2> QED
    BY <2>1, CeilNothing
<1>5. Amount1Delta(target, cur, l, FALSE) = 0 /\ Amount0Delta(cur, target, l, FALSE) = 0
  <2>1. cur * target \in Nat \ {0} /\ Q64 \in Nat \ {0} /\ target * cur = cur * target
    BY ProductPositive, ClmmAssumption
  <2>2. l * Q64 * (target - cur) = 0 /\ l * (cur - target) = 0
    BY <2>1
  <2>3. 0 \div (cur * target) = 0 /\ 0 \div Q64 = 0
    <3> DEFINE d == cur * target
    <3>1. d \in Nat \ {0}
      BY <2>1
    <3> HIDE DEF d
    <3>2. 0 \div d = 0 /\ 0 \div Q64 = 0
      BY <2>1, <3>1
    <3> QED
      BY <3>2 DEF d
  <2> QED
    BY <2>1, <2>2, <2>3 DEF Amount1Delta, Amount0Delta, Rounded
<1>6. /\ s.next = n /\ s.in = StepCost(cur, n, l, aToB)
      /\ s.out = IF aToB THEN Amount1Delta(n, cur, l, FALSE)
                         ELSE Amount0Delta(cur, n, l, FALSE)
      /\ s.fee = IF n # target THEN remaining - StepCost(cur, n, l, aToB)
                 ELSE CeilDiv(StepCost(cur, n, l, aToB) * fee, PipsDenom - fee)
  BY DEF SwapStep
<1> HIDE DEF n, s
<1>7. s.next = target /\ s.in = 0
  BY <1>2, <1>3, <1>6
<1>8. s.out = 0 /\ s.fee = 0
  BY <1>2, <1>3, <1>4, <1>5, <1>6
<1> QED
  BY <1>7, <1>8 DEF s

\* What a step pays is a natural number.
LEMMA OutNat ==
  ASSUME NEW p \in Nat \ {0}, NEW q \in Nat \ {0}, NEW l \in Nat, p <= q
  PROVE  Amount1Delta(p, q, l, FALSE) \in Nat /\ Amount0Delta(p, q, l, FALSE) \in Nat
<1>1. q - p \in Nat /\ q * p \in Nat \ {0} /\ Q64 \in Nat \ {0} /\ l * Q64 \in Nat
  BY ProductPositive, ProductNat, ClmmAssumption
<1>2. l * Q64 * (q - p) \in Nat /\ l * (q - p) \in Nat
  BY <1>1, ProductNat
<1> DEFINE x == l * Q64 * (q - p)
           y == l * (q - p)
           d == q * p
<1> HIDE DEF x, y, d
<1>3. x \div d \in Nat /\ y \div Q64 \in Nat
  BY <1>1, <1>2, FloorBounds DEF x, y, d
<1> QED
  BY <1>3 DEF Amount1Delta, Amount0Delta, Rounded, x, y, d

\* A step charges no more than it is given, all of it when it stops short of the
\* boundary, and moves the price towards that.
StepFits(s, cur, target, remaining, aToB) ==
  /\ s.next \in Nat \ {0} /\ s.in \in Nat /\ s.out \in Nat /\ s.fee \in Nat
  /\ s.in + s.fee <= remaining
  /\ s.next # target => s.in + s.fee = remaining
  /\ Onward(aToB, cur, s.next) /\ Onward(aToB, s.next, target)

\* A step, towards any boundary that is not behind it.
LEMMA StepTyped ==
  ASSUME NEW cur \in Nat \ {0}, NEW target \in Nat \ {0}, NEW l \in Nat,
         NEW remaining \in Nat, NEW fee \in 0 .. PipsDenom - 1, NEW aToB \in BOOLEAN,
         Onward(aToB, cur, target)
  PROVE  StepFits(SwapStep(cur, target, l, remaining, fee, aToB), cur, target, remaining, aToB)
<1> DEFINE s == SwapStep(cur, target, l, remaining, fee, aToB)
<1>1. CASE l = 0 \/ cur = target
  <2>1. s.next = target /\ s.in = 0 /\ s.out = 0 /\ s.fee = 0
    BY <1>1, FreeStep
  <2> HIDE DEF s
  <2>2. Onward(aToB, target, target)
    BY DEF Onward
  <2>3. StepFits(s, cur, target, remaining, aToB)
    BY <2>1, <2>2 DEF StepFits
  <2> QED
    BY <2>3 DEF s
<1>2. CASE l # 0 /\ cur # target
  <2>1. IF aToB THEN target < cur ELSE cur < target
    BY <1>2 DEF Onward
  <2>2. /\ s.in \in Nat /\ s.fee \in Nat /\ s.in + s.fee <= remaining
        /\ (aToB => target <= s.next /\ s.next <= cur)
        /\ (~aToB => cur <= s.next /\ s.next <= target)
    BY <1>2, <2>1, StepWithinInput
  <2>3. s.next \in Nat
    <3> DEFINE a == LessFee(remaining, fee)
               n == StepNext(cur, target, l, a, aToB)
    <3>1. a \in Nat
      BY LessFeeWithin
    <3> HIDE DEF a
    <3>2. n \in Nat
      BY <1>2, <2>1, <3>1, StepCovered
    <3>3. s.next = n
      BY DEF SwapStep, a
    <3> QED
      BY <3>2, <3>3
  <2>4. s.out = IF aToB THEN Amount1Delta(s.next, cur, l, FALSE)
                        ELSE Amount0Delta(cur, s.next, l, FALSE)
    BY DEF SwapStep
  <2>5. s.next # target => s.in + s.fee = remaining
    <3>1. s.next # target => s.fee = remaining - s.in
      BY DEF SwapStep
    <3> HIDE DEF s
    <3> QED
      BY <2>2, <3>1
  <2> HIDE DEF s
  <2>6. s.next \in Nat \ {0}
    BY <2>2, <2>3
  <2>7. Onward(aToB, cur, s.next) /\ Onward(aToB, s.next, target)
    BY <2>2, <2>6 DEF Onward
  <2>8. s.out \in Nat
    <3>1. CASE aToB
      BY <2>2, <2>4, <2>6, <3>1, OutNat
    <3>2. CASE ~aToB
      BY <2>2, <2>4, <2>6, <3>2, OutNat
    <3> QED
      BY <3>1, <3>2
  <2>9. StepFits(s, cur, target, remaining, aToB)
    BY <2>2, <2>5, <2>6, <2>7, <2>8 DEF StepFits
  <2> QED
    BY <2>9 DEF s
<1> QED
  BY <1>1, <1>2

-----------------------------------------------------------------------------
(* One turn of a walk, the engine's or the venue's *)

\* What a walk does towards boundary t.
Turn(venue, aToB, w, t) ==
  IF venue THEN VenueCross(aToB, w, t) ELSE Cross(FeePips, aToB, w, t)

\* The step a walk that goes on takes.
StepOf(aToB, w, t) == SwapStep(w.price, t.price, w.liq, w.remaining, FeePips, aToB)

\* The liquidity after a step.
LiqAfter(aToB, w, t) ==
  IF StepOf(aToB, w, t).next = t.price THEN ApplyNet(w.liq, t.net, aToB) ELSE w.liq

\* A walk that is over stays where it is.
LEMMA Stands ==
  ASSUME NEW w \in WalkState, NEW t, NEW aToB, ~w.going \/ w.remaining = 0
  PROVE  /\ Turn(FALSE, aToB, w, t) = w
         /\ Turn(TRUE, aToB, w, t) = [w EXCEPT !.going = TRUE]
<1>1. Cross(FeePips, aToB, w, t) = w
  BY DEF Cross
<1> QED
  BY <1>1 DEF Turn, VenueCross

\* Walk v is w after a step towards t.
Steps(v, venue, aToB, w, t) ==
  LET s == StepOf(aToB, w, t)
      l == LiqAfter(aToB, w, t)
  IN  /\ v = [price |-> s.next, liq |-> l, remaining |-> w.remaining - (s.in + s.fee),
              out |-> w.out + s.out, going |-> venue \/ (s.next = t.price /\ l > 0)]
      /\ s.next \in Nat \ {0} /\ s.in \in Nat /\ s.out \in Nat /\ s.fee \in Nat
      /\ s.in + s.fee <= w.remaining /\ l \in Nat
      /\ s.next # t.price => s.in + s.fee = w.remaining
      /\ Onward(aToB, w.price, s.next) /\ Onward(aToB, s.next, t.price)

\* One that is not takes a step.
LEMMA Moves ==
  ASSUME NEW w \in WalkState, NEW t \in Bounds, NEW aToB \in BOOLEAN, NEW venue \in BOOLEAN,
         w.going, w.remaining > 0, Onward(aToB, w.price, t.price)
  PROVE  Steps(Turn(venue, aToB, w, t), venue, aToB, w, t)
<1> DEFINE s == StepOf(aToB, w, t)
           l == LiqAfter(aToB, w, t)
<1>1. /\ w.price \in Nat \ {0} /\ t.price \in Nat \ {0} /\ w.liq \in Nat /\ t.net \in Int
      /\ w.remaining \in Nat /\ w.out \in Nat /\ FeePips \in 0 .. PipsDenom - 1
  BY PoolAssumption DEF WalkState, Bounds
<1>2. /\ s.next \in Nat \ {0} /\ s.in \in Nat /\ s.out \in Nat /\ s.fee \in Nat
      /\ s.in + s.fee <= w.remaining
      /\ s.next # t.price => s.in + s.fee = w.remaining
      /\ Onward(aToB, w.price, s.next) /\ Onward(aToB, s.next, t.price)
  <2> DEFINE p == w.price
             q == t.price
             k == w.liq
             r == w.remaining
             z == SwapStep(p, q, k, r, FeePips, aToB)
  <2>1. /\ p \in Nat \ {0} /\ q \in Nat \ {0} /\ k \in Nat /\ r \in Nat
        /\ Onward(aToB, p, q) /\ FeePips \in 0 .. PipsDenom - 1
    BY <1>1
  <2>2. s = z
    BY DEF StepOf
  <2> HIDE DEF p, q, k, r, s
  <2>3. StepFits(z, p, q, r, aToB)
    BY <2>1, StepTyped
  <2> HIDE DEF z
  <2> QED
    BY <2>2, <2>3 DEF p, q, r, StepFits
<1>3. l \in Nat
  BY <1>1 DEF LiqAfter, ApplyNet
<1> DEFINE c == Cross(FeePips, aToB, w, t)
           used == s.in + s.fee
<1>4. c = [price |-> s.next, liq |-> l,
           remaining |-> IF used >= w.remaining THEN 0 ELSE w.remaining - used,
           out |-> w.out + s.out, going |-> s.next = t.price /\ l > 0]
  BY <1>1 DEF Cross, StepOf, LiqAfter
<1> HIDE DEF s, l, c
<1>5. c = [price |-> s.next, liq |-> l, remaining |-> w.remaining - (s.in + s.fee),
           out |-> w.out + s.out, going |-> s.next = t.price /\ l > 0]
  <2>1. (IF used >= w.remaining THEN 0 ELSE w.remaining - used) = w.remaining - (s.in + s.fee)
    BY <1>1, <1>2
  <2> QED
    BY <1>4, <2>1
<1>6. Turn(venue, aToB, w, t) = IF venue THEN [c EXCEPT !.going = TRUE] ELSE c
  BY DEF Turn, VenueCross, c
<1>7. Turn(venue, aToB, w, t) =
        [price |-> s.next, liq |-> l, remaining |-> w.remaining - (s.in + s.fee),
         out |-> w.out + s.out, going |-> venue \/ (s.next = t.price /\ l > 0)]
  <2>1. CASE venue
    BY <1>5, <1>6, <2>1
  <2>2. CASE ~venue
    BY <1>5, <1>6, <2>2
  <2> QED
    BY <2>1, <2>2
<1> QED
  BY <1>2, <1>3, <1>7 DEF s, l, Steps

\* In any case the price moves on, towards the boundary, the input is used up and the
\* output grows.
LEMMA TurnTyped ==
  ASSUME NEW w \in WalkState, NEW t \in Bounds, NEW aToB \in BOOLEAN, NEW venue \in BOOLEAN,
         Onward(aToB, w.price, t.price)
  PROVE  LET v == Turn(venue, aToB, w, t)
         IN  /\ v \in WalkState
             /\ Onward(aToB, w.price, v.price) /\ Onward(aToB, v.price, t.price)
             /\ w.out <= v.out /\ v.remaining <= w.remaining
<1>1. /\ w.price \in Nat \ {0} /\ w.liq \in Nat /\ w.remaining \in Nat /\ w.out \in Nat
      /\ w.going \in BOOLEAN
  BY DEF WalkState
<1>2. CASE ~w.going \/ w.remaining = 0
  <2> DEFINE v == Turn(venue, aToB, w, t)
  <2>1. v = IF venue THEN [w EXCEPT !.going = TRUE] ELSE w
    BY <1>2, Stands
  <2>2. v \in WalkState /\ v.price = w.price /\ v.out = w.out /\ v.remaining = w.remaining
    BY <2>1 DEF WalkState
  <2> HIDE DEF v
  <2>3. Onward(aToB, w.price, w.price)
    BY <1>1 DEF Onward
  <2> QED
    BY <1>1, <2>2, <2>3 DEF v
<1>3. CASE ~(~w.going \/ w.remaining = 0)
  <2> DEFINE v == Turn(venue, aToB, w, t)
             s == StepOf(aToB, w, t)
             l == LiqAfter(aToB, w, t)
  <2>0. Steps(v, venue, aToB, w, t)
    <3>1. w.going /\ w.remaining > 0
      BY <1>1, <1>3
    <3> QED
      BY <3>1, Moves
  <2>1. /\ v = [price |-> s.next, liq |-> l, remaining |-> w.remaining - (s.in + s.fee),
                out |-> w.out + s.out, going |-> venue \/ (s.next = t.price /\ l > 0)]
        /\ s.next \in Nat \ {0} /\ s.in \in Nat /\ s.out \in Nat /\ s.fee \in Nat
        /\ s.in + s.fee <= w.remaining /\ l \in Nat
        /\ Onward(aToB, w.price, s.next) /\ Onward(aToB, s.next, t.price)
    BY <2>0 DEF Steps
  <2> HIDE DEF v, s, l
  <2>2. w.remaining - (s.in + s.fee) \in Nat /\ w.out + s.out \in Nat
        /\ w.remaining - (s.in + s.fee) <= w.remaining /\ w.out <= w.out + s.out
    BY <1>1, <2>1
  <2>3. v \in WalkState
    BY <2>1, <2>2 DEF WalkState
  <2> QED
    BY <2>1, <2>2, <2>3 DEF v
<1> QED
  BY <1>2, <1>3

-----------------------------------------------------------------------------
(* A whole walk *)

\* A walk over boundaries, the engine's or the venue's.
WalkOver(venue, aToB, w, S) ==
  IF venue THEN MapThenFoldSet(LAMBDA t, v : VenueCross(aToB, v, t), w, LAMBDA t : t,
                               LAMBDA ts : Furthest(ts, aToB), S)
  ELSE Walk(w, S, FeePips, aToB)

\* The boundaries lie ahead of the walk.
Before(aToB, w, S) ==
  /\ S \subseteq Bounds /\ IsFiniteSet(S)
  /\ \A t \in S : Onward(aToB, w.price, t.price)

\* Any boundaries ahead have a last one, in travel order.
LEMMA FurthestIs ==
  ASSUME NEW S, S \subseteq Bounds, IsFiniteSet(S), S # {}, NEW aToB \in BOOLEAN
  PROVE  /\ Furthest(S, aToB) \in S
         /\ \A x \in S : Onward(aToB, x.price, Furthest(S, aToB).price)
<1> DEFINE f == [t \in S |-> IF aToB THEN 0 - t.price ELSE t.price]
<1>1. \A t \in S : f[t] = (IF aToB THEN 0 - t.price ELSE t.price) /\ t.price \in Nat
  BY DEF Bounds
<1>2. \A t \in S : f[t] \in Int
  BY <1>1
<1> HIDE DEF f
<1>3. PICK x \in S : \A y \in S : f[y] <= f[x]
  BY <1>2, GreatestExists
<1>4. \A s \in S : IF aToB THEN x.price <= s.price ELSE s.price <= x.price
  BY <1>1, <1>3
<1>5. /\ Furthest(S, aToB) \in S
      /\ \A s \in S : IF aToB THEN Furthest(S, aToB).price <= s.price
                      ELSE s.price <= Furthest(S, aToB).price
  BY <1>3, <1>4, Zenon DEF Furthest
<1> QED
  BY <1>5 DEF Onward

\* A function that walks over every subset of S.
Walks(h, venue, aToB, w, S) ==
  h = [s \in SUBSET S |->
         IF s = {} THEN w
         ELSE Turn(venue, aToB, h[s \ {Furthest(s, aToB)}], Furthest(s, aToB))]

\* Walks, at one subset of the boundaries.
LEMMA WalksAt ==
  ASSUME NEW h, NEW venue, NEW aToB, NEW w, NEW S, Walks(h, venue, aToB, w, S),
         NEW s \in SUBSET S
  PROVE  h[s] = IF s = {} THEN w
                ELSE Turn(venue, aToB, h[s \ {Furthest(s, aToB)}], Furthest(s, aToB))
  BY DEF Walks

\* Two such functions agree where both are defined.
LEMMA WalksAgree ==
  ASSUME NEW venue, NEW aToB \in BOOLEAN, NEW w, NEW S, IsFiniteSet(S), S \subseteq Bounds,
         NEW T, S \subseteq T, NEW g, NEW h,
         Walks(g, venue, aToB, w, S), Walks(h, venue, aToB, w, T)
  PROVE  g[S] = h[S]
<1> DEFINE F == {s \in SUBSET S : g[s] # h[s]}
<1>1. SUFFICES ASSUME F # {} PROVE FALSE
  BY Zenon
<1>2. PICK s \in F : \A x \in s : s \ {x} \notin F
  BY <1>1, MinimalSubset
<1> DEFINE f == Furthest(s, aToB)
<1>3. s \in SUBSET S /\ s \in SUBSET T /\ IsFiniteSet(s) /\ s \subseteq Bounds /\ g[s] # h[s]
  BY <1>2, FS_Subset
<1>4. /\ g[s] = IF s = {} THEN w ELSE Turn(venue, aToB, g[s \ {f}], f)
      /\ h[s] = IF s = {} THEN w ELSE Turn(venue, aToB, h[s \ {f}], f)
  BY <1>3, WalksAt
<1>5. s # {} => f \in s
  BY <1>3, FurthestIs
<1> HIDE DEF f
<1>6. s # {} => g[s \ {f}] = h[s \ {f}]
  BY <1>2, <1>3, <1>5
<1> QED
  BY <1>3, <1>4, <1>6

\* The walk is the value of such a function.
LEMMA WalkOfWalks ==
  ASSUME NEW venue \in BOOLEAN, NEW aToB \in BOOLEAN, NEW w, NEW S, IsFiniteSet(S),
         S \subseteq Bounds, NEW g, Walks(g, venue, aToB, w, S)
  PROVE  WalkOver(venue, aToB, w, S) = g[S]
<1> DEFINE VIter(h) == h = [s \in SUBSET S |->
                             IF s = {} THEN w
                             ELSE LET x == Furthest(s, aToB)
                                  IN  VenueCross(aToB, h[s \ {x}], x)]
           EIter(h) == h = [s \in SUBSET S |->
                             IF s = {} THEN w
                             ELSE LET x == Furthest(s, aToB)
                                  IN  Cross(FeePips, aToB, h[s \ {x}], x)]
           viter == CHOOSE h : VIter(h)
           eiter == CHOOSE h : EIter(h)
<1>1. CASE venue
  <2>1. \A h : VIter(h) <=> Walks(h, venue, aToB, w, S)
    <3>1. SUFFICES ASSUME NEW h PROVE VIter(h) <=> Walks(h, venue, aToB, w, S)
      OBVIOUS
    <3> DEFINE a == [s \in SUBSET S |->
                      IF s = {} THEN w
                      ELSE LET x == Furthest(s, aToB) IN VenueCross(aToB, h[s \ {x}], x)]
               b == [s \in SUBSET S |->
                      IF s = {} THEN w
                      ELSE Turn(venue, aToB, h[s \ {Furthest(s, aToB)}], Furthest(s, aToB))]
    <3>2. \A v, t : Turn(venue, aToB, v, t) = VenueCross(aToB, v, t)
      BY <1>1 DEF Turn
    <3>3. a = b
      BY <3>2, Zenon
    <3>4. VIter(h) <=> h = a
      OBVIOUS
    <3>5. Walks(h, venue, aToB, w, S) <=> h = b
      BY Zenon DEF Walks
    <3> HIDE DEF a, b, VIter
    <3> QED
      BY <3>3, <3>4, <3>5
  <2>2. WalkOver(venue, aToB, w, S) = viter[S]
    BY <1>1 DEF WalkOver, MapThenFoldSet
  <2> HIDE DEF VIter
  <2>3. VIter(viter)
    BY <2>1
  <2> HIDE DEF viter
  <2>4. viter[S] = g[S]
    BY <2>1, <2>3, WalksAgree
  <2> QED
    BY <2>2, <2>4
<1>2. CASE ~venue
  <2>1. \A h : EIter(h) <=> Walks(h, venue, aToB, w, S)
    <3>1. SUFFICES ASSUME NEW h PROVE EIter(h) <=> Walks(h, venue, aToB, w, S)
      OBVIOUS
    <3> DEFINE a == [s \in SUBSET S |->
                      IF s = {} THEN w
                      ELSE LET x == Furthest(s, aToB) IN Cross(FeePips, aToB, h[s \ {x}], x)]
               b == [s \in SUBSET S |->
                      IF s = {} THEN w
                      ELSE Turn(venue, aToB, h[s \ {Furthest(s, aToB)}], Furthest(s, aToB))]
    <3>2. \A v, t : Turn(venue, aToB, v, t) = Cross(FeePips, aToB, v, t)
      BY <1>2 DEF Turn
    <3>3. a = b
      BY <3>2, Zenon
    <3>4. EIter(h) <=> h = a
      OBVIOUS
    <3>5. Walks(h, venue, aToB, w, S) <=> h = b
      BY Zenon DEF Walks
    <3> HIDE DEF a, b, EIter
    <3> QED
      BY <3>3, <3>4, <3>5
  <2>2. WalkOver(venue, aToB, w, S) = eiter[S]
    BY <1>2 DEF WalkOver, Walk, MapThenFoldSet
  <2> HIDE DEF EIter
  <2>3. EIter(eiter)
    BY <2>1
  <2> HIDE DEF eiter
  <2>4. eiter[S] = g[S]
    BY <2>1, <2>3, WalksAgree
  <2> QED
    BY <2>2, <2>4
<1> QED
  BY <1>1, <1>2

\* What a walk over s, a part of the boundaries S ahead, comes to.
WalkAt(venue, aToB, w, S, s) ==
  LET v == WalkOver(venue, aToB, w, s)
      f == Furthest(s, aToB)
      u == WalkOver(venue, aToB, w, s \ {f})
  IN  /\ v \in WalkState /\ Onward(aToB, w.price, v.price)
      /\ \A t \in S : (\A x \in s : Onward(aToB, x.price, t.price))
                      => Onward(aToB, v.price, t.price)
      /\ s = {} => v = w
      /\ s # {} => /\ f \in s /\ \A x \in s : Onward(aToB, x.price, f.price)
                   /\ u \in WalkState /\ Onward(aToB, u.price, f.price)
                   /\ v = Turn(venue, aToB, u, f)

\* A walk is the walk over the other boundaries and a turn towards the last one.
LEMMA WalkIs ==
  ASSUME NEW venue \in BOOLEAN, NEW aToB \in BOOLEAN, NEW w \in WalkState, NEW S,
         Before(aToB, w, S)
  PROVE  \A s \in SUBSET S : WalkAt(venue, aToB, w, S, s)
<1> DEFINE V == WalkState
           far == [s \in SUBSET S |-> Furthest(s, aToB)]
           next(t, v) == IF Onward(aToB, v.price, t.price) THEN Turn(venue, aToB, v, t) ELSE v
           step == [t \in S |-> [v \in V |-> next(t, v)]]
<1>1. S \subseteq Bounds /\ IsFiniteSet(S) /\ \A t \in S : Onward(aToB, w.price, t.price)
  BY DEF Before
<1>2. ASSUME NEW s \in SUBSET S
      PROVE  /\ IsFiniteSet(s) /\ s \subseteq Bounds /\ far[s] = Furthest(s, aToB)
             /\ s # {} => /\ Furthest(s, aToB) \in s
                          /\ \A x \in s : Onward(aToB, x.price, Furthest(s, aToB).price)
  <2>1. IsFiniteSet(s) /\ s \subseteq Bounds
    BY <1>1, FS_Subset
  <2> QED
    BY <2>1, FurthestIs
<1>3. \A t \in S, v \in V : next(t, v) \in V
  <2> SUFFICES ASSUME NEW t \in S, NEW v \in V PROVE next(t, v) \in V
    OBVIOUS
  <2>1. t \in Bounds
    BY <1>1
  <2>2. Onward(aToB, v.price, t.price) => Turn(venue, aToB, v, t) \in V
    BY <2>1, TurnTyped
  <2> QED
    BY <2>2
<1>4. \A t \in S, v \in V : step[t][v] = next(t, v)
  OBVIOUS
<1>5. \A s \in SUBSET S : s # {} => far[s] \in s
  BY <1>2
<1>6. \A t \in S, v \in V : step[t][v] \in V
  BY <1>3, <1>4
<1> HIDE DEF step, far, next
<1> HIDE DEF V
<1>7. PICK g : FoldsOver(g, S, V, w, far, step)
  <2>1. w \in V
    BY DEF V
  <2> QED
    BY <1>1, <1>5, <1>6, <2>1, FoldExists, Zenon
<1> USE DEF V
<1>8. /\ g \in [SUBSET S -> V]
       /\ \A s \in SUBSET S : g[s] = IF s = {} THEN w ELSE step[far[s]][g[s \ {far[s]}]]
  BY <1>7 DEF FoldsOver
<1>9. ASSUME NEW s \in SUBSET S, s # {}
      PROVE  /\ s \ {Furthest(s, aToB)} \in SUBSET S
             /\ g[s] = next(Furthest(s, aToB), g[s \ {Furthest(s, aToB)}])
             /\ g[s \ {Furthest(s, aToB)}] \in V
  <2> DEFINE f == Furthest(s, aToB)
  <2>1. f \in s /\ f = far[s] /\ s \ {f} \in SUBSET S
    BY <1>2, <1>9
  <2> HIDE DEF f
  <2>2. g[s] = step[f][g[s \ {f}]] /\ g[s \ {f}] \in V
    BY <1>8, <1>9, <2>1
  <2> QED
    BY <1>4, <2>1, <2>2 DEF f
<1> DEFINE Stays(s) == \A t \in S : (\A x \in s : Onward(aToB, x.price, t.price))
                                    => Onward(aToB, g[s].price, t.price)
           F == {s \in SUBSET S : ~(Stays(s) /\ Onward(aToB, w.price, g[s].price))}
<1>10. F = {}
  <2>1. SUFFICES ASSUME F # {} PROVE FALSE
    OBVIOUS
  <2>2. PICK s \in F : \A x \in s : s \ {x} \notin F
    BY <1>1, <2>1, MinimalSubset
  <2>3. CASE s = {}
    <3>1. g[s] = w
      BY <1>8, <2>3
    <3>2. Onward(aToB, w.price, w.price)
      BY DEF Onward, WalkState
    <3> QED
      BY <1>1, <2>2, <3>1, <3>2
  <2>4. CASE s # {}
    <3> DEFINE f == Furthest(s, aToB)
               u == g[s \ {f}]
    <3>1. s \in SUBSET S /\ f \in s /\ \A x \in s : Onward(aToB, x.price, f.price)
      BY <1>2, <2>2, <2>4
    <3>2. g[s] = next(f, u) /\ u \in V /\ s \ {f} \in SUBSET S
      BY <1>9, <2>4, <3>1
    <3> HIDE DEF f
    <3>3. s \ {f} \notin F
      BY <2>2, <3>1
    <3>4. Stays(s \ {f}) /\ Onward(aToB, w.price, u.price)
      BY <3>2, <3>3
    <3> HIDE DEF u
    <3>5. Onward(aToB, u.price, f.price)
      BY <3>1, <3>4 DEF u
    <3>6. g[s] = Turn(venue, aToB, u, f)
      BY <3>2, <3>5 DEF next
    <3>7. f \in Bounds
      BY <1>1, <3>1
    <3>8. /\ g[s] \in WalkState /\ Onward(aToB, u.price, g[s].price)
          /\ Onward(aToB, g[s].price, f.price)
      BY <3>2, <3>5, <3>6, <3>7, TurnTyped
    <3>9. Onward(aToB, w.price, g[s].price)
      <4>1. w.price \in Nat /\ u.price \in Nat /\ g[s].price \in Nat
        BY <3>2, <3>8 DEF WalkState
      <4> QED
        BY <3>4, <3>8, <4>1 DEF Onward
    <3>10. ASSUME NEW t \in S, \A x \in s : Onward(aToB, x.price, t.price)
           PROVE  Onward(aToB, g[s].price, t.price)
      <4>1. Onward(aToB, f.price, t.price)
        BY <3>1, <3>10
      <4>2. f.price \in Nat /\ t.price \in Nat /\ g[s].price \in Nat
        BY <1>1, <3>7, <3>8 DEF WalkState, Bounds
      <4> QED
        BY <3>8, <4>1, <4>2 DEF Onward
    <3> QED
      BY <2>2, <3>9, <3>10
  <2> QED
    BY <2>3, <2>4
<1>11. ASSUME NEW s \in SUBSET S
       PROVE  Stays(s) /\ Onward(aToB, w.price, g[s].price) /\ g[s] \in V
  BY <1>8, <1>10
<1> HIDE DEF F
<1>12. ASSUME NEW s \in SUBSET S, s # {}
       PROVE  /\ g[s] = Turn(venue, aToB, g[s \ {Furthest(s, aToB)}], Furthest(s, aToB))
              /\ Onward(aToB, g[s \ {Furthest(s, aToB)}].price, Furthest(s, aToB).price)
  <2> DEFINE f == Furthest(s, aToB)
             u == g[s \ {f}]
  <2>1. f \in s /\ (\A x \in s : Onward(aToB, x.price, f.price)) /\ s \ {f} \in SUBSET S
        /\ g[s] = next(f, u)
    BY <1>2, <1>9, <1>12
  <2> HIDE DEF f
  <2>2. Onward(aToB, u.price, f.price)
    BY <1>11, <2>1
  <2> HIDE DEF u
  <2> QED
    BY <2>1, <2>2 DEF next, f, u
<1>13. ASSUME NEW s \in SUBSET S PROVE WalkOver(venue, aToB, w, s) = g[s]
  <2> DEFINE h == [r \in SUBSET s |-> g[r]]
  <2>1. ASSUME NEW r \in SUBSET s
        PROVE  h[r] = IF r = {} THEN w
                      ELSE Turn(venue, aToB, h[r \ {Furthest(r, aToB)}], Furthest(r, aToB))
    <3>1. r \in SUBSET S /\ h[r] = g[r] /\ r \ {Furthest(r, aToB)} \in SUBSET s
      OBVIOUS
    <3>2. h[r \ {Furthest(r, aToB)}] = g[r \ {Furthest(r, aToB)}]
      BY <3>1
    <3> HIDE DEF h
    <3>3. CASE r = {}
      BY <1>8, <3>1, <3>3
    <3>4. CASE r # {}
      BY <1>12, <3>1, <3>2, <3>4
    <3> QED
      BY <3>3, <3>4
  <2>2. h = [r \in SUBSET s |-> h[r]] /\ h[s] = g[s]
    OBVIOUS
  <2> HIDE DEF h
  <2>3. Walks(h, venue, aToB, w, s)
    BY <2>1, <2>2, Zenon DEF Walks
  <2>4. WalkOver(venue, aToB, w, s) = h[s]
    BY <1>2, <2>3, WalkOfWalks
  <2> QED
    BY <2>2, <2>4
<1>14. ASSUME NEW s \in SUBSET S PROVE WalkAt(venue, aToB, w, S, s)
  <2> DEFINE f == Furthest(s, aToB)
             v == WalkOver(venue, aToB, w, s)
             u == WalkOver(venue, aToB, w, s \ {f})
  <2>1. v = g[s] /\ Stays(s) /\ Onward(aToB, w.price, v.price) /\ v \in WalkState
    BY <1>11, <1>13
  <2>2. s = {} => v = w
    BY <1>8, <2>1
  <2>3. ASSUME s # {}
        PROVE  /\ f \in s /\ \A x \in s : Onward(aToB, x.price, f.price)
               /\ u \in WalkState /\ Onward(aToB, u.price, f.price)
               /\ v = Turn(venue, aToB, u, f)
    <3>1. f \in s /\ (\A x \in s : Onward(aToB, x.price, f.price)) /\ s \ {f} \in SUBSET S
      BY <1>2, <2>3
    <3>2. u = g[s \ {f}] /\ g[s \ {f}] \in V
      BY <1>11, <1>13, <3>1
    <3>3. g[s] = Turn(venue, aToB, g[s \ {f}], f) /\ Onward(aToB, g[s \ {f}].price, f.price)
      BY <1>12, <2>3
    <3> HIDE DEF f, u, v
    <3> QED
      BY <2>1, <3>1, <3>2, <3>3
  <2> HIDE DEF f, u, v
  <2>4. \A t \in S : (\A x \in s : Onward(aToB, x.price, t.price))
                     => Onward(aToB, v.price, t.price)
    BY <2>1
  <2> QED
    BY <2>1, <2>2, <2>3, <2>4, Zenon DEF WalkAt, f, u, v
<1> QED
  BY <1>14

-----------------------------------------------------------------------------
(* Ticks, their prices and the liquidity between them *)

\* What the constants say of ticks.
LEMMA Ticks ==
  /\ LastTick \in Nat /\ Tick \subseteq Nat /\ CurrentTick \subseteq Int
  /\ Tick \subseteq CurrentTick /\ -1 \in CurrentTick
  /\ \A t \in CurrentTick : t = -1 \/ t \in Tick
  /\ \A t \in Tick : t - 1 \in CurrentTick
  /\ \A t \in CurrentTick : t < LastTick => t + 1 \in Tick
  /\ \A t \in CurrentTick : t \in Int /\ -1 <= t /\ t <= LastTick
<1>1. LastTick \in Nat
  BY PoolAssumption
<1> QED
  BY <1>1 DEF Tick, CurrentTick

\* Their prices rise, within the bounds.
LEMMA Prices ==
  /\ \A t \in CurrentTick : /\ SqrtAt[t] \in Nat \ {0}
                            /\ SqrtAt[t] \in MinSqrtPrice .. MaxSqrtPrice
  /\ \A s, t \in CurrentTick : /\ s < t <=> SqrtAt[s] < SqrtAt[t]
                               /\ s <= t <=> SqrtAt[s] <= SqrtAt[t]
                               /\ SqrtAt[s] = SqrtAt[t] => s = t
<1>1. /\ SqrtAt \in [CurrentTick -> MinSqrtPrice .. MaxSqrtPrice]
      /\ \A s, t \in CurrentTick : s < t => SqrtAt[s] < SqrtAt[t]
      /\ MinSqrtPrice \in Nat \ {0} /\ MaxSqrtPrice \in Nat
  BY PoolAssumption, ClmmAssumption
<1>2. \A t \in CurrentTick : /\ SqrtAt[t] \in Nat \ {0}
                             /\ SqrtAt[t] \in MinSqrtPrice .. MaxSqrtPrice
  BY <1>1
<1>3. ASSUME NEW s \in CurrentTick, NEW t \in CurrentTick
      PROVE  /\ s < t <=> SqrtAt[s] < SqrtAt[t]
             /\ s <= t <=> SqrtAt[s] <= SqrtAt[t]
             /\ SqrtAt[s] = SqrtAt[t] => s = t
  <2>1. s \in Int /\ t \in Int /\ SqrtAt[s] \in Nat /\ SqrtAt[t] \in Nat
    BY <1>2, Ticks
  <2>2. (s < t => SqrtAt[s] < SqrtAt[t]) /\ (t < s => SqrtAt[t] < SqrtAt[s])
    BY <1>1
  <2> QED
    BY <2>1, <2>2
<1> QED
  BY <1>2, <1>3

\* Some range of ticks a .. b holds a price between theirs.
LEMMA RangeOf ==
  ASSUME NEW a \in CurrentTick, NEW b \in CurrentTick, a <= b, NEW n \in Nat,
         SqrtAt[a] <= n, b < LastTick => n <= SqrtAt[b + 1]
  PROVE  \E c \in CurrentTick : /\ a <= c /\ c <= b /\ SqrtAt[c] <= n
                                /\ c < LastTick => n <= SqrtAt[c + 1]
<1> DEFINE T == {t \in a .. b : SqrtAt[t] <= n}
<1>1. a \in Int /\ b \in Int /\ -1 <= a /\ b <= LastTick /\ LastTick \in Nat
  BY Ticks
<1>2. a \in T /\ T \subseteq Int /\ IsFiniteSet(T)
  <2>1. IsFiniteSet(a .. b)
    BY <1>1, FS_Interval
  <2>2. T \subseteq a .. b /\ a \in T /\ a .. b \subseteq Int
    BY <1>1
  <2> QED
    BY <2>1, <2>2, FS_Subset
<1> DEFINE c == Max(T)
<1>3. c \in T /\ \A y \in T : y <= c
  BY <1>2, MaxIs
<1> HIDE DEF c
<1>4. c \in CurrentTick /\ a <= c /\ c <= b /\ SqrtAt[c] <= n /\ c \in Int
  BY <1>1, <1>3 DEF CurrentTick, Tick
<1>5. ASSUME c < LastTick PROVE n <= SqrtAt[c + 1]
  <2>1. CASE c = b
    BY <1>5, <2>1
  <2>2. CASE c < b
    <3>1. c + 1 \in a .. b /\ ~(c + 1 <= c)
      BY <1>1, <1>4, <2>2
    <3>2. c + 1 \notin T
      BY <1>3, <3>1
    <3>3. c + 1 \in CurrentTick
      BY <1>4, <1>5, Ticks
    <3> QED
      BY <3>1, <3>2, <3>3, Prices
  <2> QED
    BY <1>1, <1>4, <2>1, <2>2
<1> QED
  BY <1>4, <1>5

\* The liquidity of a range is that of the one below and its tick's.
LEMMA DepthIs ==
  ASSUME NEW net \in [Tick -> Int]
  PROVE  /\ Depth(net, -1) = 0
         /\ \A t \in CurrentTick : Depth(net, t) \in Int
         /\ \A t \in Tick : Depth(net, t) = Depth(net, t - 1) + net[t]
<1>1. \A t : Depth(net, t) = SumOf(net, 0 .. t)
  BY DEF Depth, SumOf
<1>2. Depth(net, -1) = 0
  <2>1. 0 .. -1 = {}
    OBVIOUS
  <2> QED
    BY <1>1, <2>1, SumEmpty
<1>3. ASSUME NEW t \in Tick PROVE Depth(net, t) \in Int
  <2>1. t \in Int /\ 0 .. t \subseteq Tick
    BY Ticks DEF Tick
  <2>2. IsFiniteSet(0 .. t) /\ \A x \in 0 .. t : net[x] \in Int
    BY <2>1, FS_Interval
  <2> QED
    BY <1>1, <2>2, SumInt
<1>4. ASSUME NEW t \in Tick PROVE Depth(net, t) = Depth(net, t - 1) + net[t]
  <2> DEFINE S == 0 .. t - 1
  <2>1. t \in Nat /\ t <= LastTick /\ LastTick \in Nat
    BY Ticks
  <2>2. IsFiniteSet(S) /\ t \notin S /\ S \union {t} = 0 .. t
    BY <2>1, FS_Interval
  <2>3. \A x \in S \union {t} : net[x] \in Int
    BY <2>1, <2>2 DEF Tick
  <2> HIDE DEF S
  <2>4. SumOf(net, S \union {t}) = SumOf(net, S) + net[t]
    BY <2>2, <2>3, SumAdd
  <2> QED
    BY <1>1, <2>2, <2>4 DEF S
<1> QED
  BY <1>2, <1>3, <1>4, Ticks

\* Uninitialised ticks change nothing.
LEMMA DepthConstant ==
  ASSUME NEW net \in [Tick -> Int], NEW a \in CurrentTick, NEW b \in CurrentTick, a <= b,
         \A r \in Tick : a < r /\ r <= b => net[r] = 0
  PROVE  Depth(net, a) = Depth(net, b)
<1> DEFINE T == {k \in Nat : a + k <= b => Depth(net, a + k) = Depth(net, a)}
<1>1. a \in Int /\ b \in Int /\ -1 <= a /\ b <= LastTick /\ LastTick \in Nat
  BY Ticks
<1>2. 0 \in T
  BY <1>1
<1>3. ASSUME NEW k \in Nat, k \in T PROVE k + 1 \in T
  <2>1. SUFFICES ASSUME a + (k + 1) <= b PROVE Depth(net, a + (k + 1)) = Depth(net, a)
    OBVIOUS
  <2> DEFINE r == a + (k + 1)
  <2>2. r \in Tick /\ r - 1 = a + k /\ a < r /\ r <= b
    BY <1>1, <2>1 DEF Tick
  <2>3. Depth(net, a + k) = Depth(net, a)
    BY <1>1, <1>3, <2>1
  <2> HIDE DEF r
  <2>4. Depth(net, r) = Depth(net, r - 1) + net[r] /\ net[r] = 0
    BY <2>2, DepthIs
  <2>5. Depth(net, a) \in Int
    BY DepthIs
  <2> QED
    BY <2>2, <2>3, <2>4, <2>5 DEF r
<1> HIDE DEF T
<1>4. b - a \in T
  BY <1>1, <1>2, <1>3, SetInduction
<1> DEFINE k == b - a
<1>5. k \in T /\ a + k = b
  BY <1>1, <1>4
<1> HIDE DEF k
<1>6. a + k <= b => Depth(net, a + k) = Depth(net, a)
  BY <1>5 DEF T
<1>7. Depth(net, b) = Depth(net, a)
  BY <1>1, <1>5, <1>6
<1> QED
  BY <1>7

\* Liquidity l added between two ticks.
Moved(net, lower, upper, l) == [net EXCEPT ![lower] = @ + l, ![upper] = @ - l]

\* That liquidity counts from the lower tick up to the upper one.
LEMMA DepthDeposit ==
  ASSUME NEW net \in [Tick -> Int], NEW lower \in Tick, NEW upper \in Tick, lower < upper,
         NEW l \in Int
  PROVE  /\ Moved(net, lower, upper, l) \in [Tick -> Int]
         /\ \A t \in CurrentTick :
              Depth(Moved(net, lower, upper, l), t)
                = Depth(net, t) + (IF lower <= t /\ t < upper THEN l ELSE 0)
<1> DEFINE mid == [net EXCEPT ![lower] = @ + l]
           after == [net EXCEPT ![lower] = @ + l, ![upper] = @ - l]
<1>1. lower \in Nat /\ upper \in Nat
  BY Ticks
<1>2. /\ mid \in [Tick -> Int] /\ after \in [Tick -> Int]
      /\ mid[lower] = net[lower] + l /\ \A y \in Tick \ {lower} : mid[y] = net[y]
      /\ after[upper] = mid[upper] - l /\ \A y \in Tick \ {upper} : after[y] = mid[y]
  BY <1>1
<1> HIDE DEF mid, after
<1>3. ASSUME NEW t \in CurrentTick
      PROVE  Depth(after, t) = Depth(net, t) + (IF lower <= t /\ t < upper THEN l ELSE 0)
  <2> DEFINE S == 0 .. t
  <2>1. IsFiniteSet(S) /\ S \subseteq Tick
    BY Ticks, FS_Interval DEF Tick
  <2>2. \A y \in S : net[y] \in Int /\ mid[y] \in Int /\ after[y] \in Int
    BY <1>2, <2>1
  <2>3. SumOf(mid, S) = SumOf(net, S) + (IF lower <= t THEN l ELSE 0)
    <3>1. CASE lower <= t
      <4>1. lower \in S /\ \A y \in S \ {lower} : net[y] = mid[y]
        BY <1>1, <1>2, <2>1, <3>1, Ticks
      <4>2. SumOf(mid, S) = SumOf(net, S) + (mid[lower] - net[lower])
        <5> DEFINE e == net
        <5>1. /\ \A y \in S : e[y] \in Int /\ mid[y] \in Int
              /\ lower \in S /\ \A y \in S \ {lower} : e[y] = mid[y]
          BY <2>2, <4>1
        <5> HIDE DEF S, e
        <5>2. SumOf(mid, S) = SumOf(e, S) + (mid[lower] - e[lower])
          BY <2>1, <5>1, SumChange
        <5> QED
          BY <5>2 DEF e
      <4>3. mid[lower] - net[lower] = l
        BY <1>2
      <4> QED
        BY <3>1, <4>2, <4>3
    <3>2. CASE ~(lower <= t)
      <4>1. \A y \in S : net[y] = mid[y]
        BY <1>1, <1>2, <2>1, <3>2, Ticks
      <4>2. SumOf(net, S) = SumOf(mid, S)
        <5> HIDE DEF S
        <5> QED
          BY <2>1, <4>1, SumEqual
      <4>3. SumOf(net, S) \in Int
        <5> HIDE DEF S
        <5> QED
          BY <2>1, <2>2, SumInt
      <4> QED
        BY <3>2, <4>2, <4>3
    <3> QED
      BY <3>1, <3>2
  <2>4. SumOf(after, S) = SumOf(mid, S) - (IF upper <= t THEN l ELSE 0)
    <3>1. CASE upper <= t
      <4>1. upper \in S /\ \A y \in S \ {upper} : mid[y] = after[y]
        BY <1>1, <1>2, <2>1, <3>1, Ticks
      <4>2. SumOf(after, S) = SumOf(mid, S) + (after[upper] - mid[upper])
        <5> HIDE DEF S
        <5> QED
          BY <2>1, <2>2, <4>1, SumChange
      <4>3. after[upper] - mid[upper] = 0 - l
        BY <1>2
      <4>4. SumOf(mid, S) \in Int
        <5> HIDE DEF S
        <5> QED
          BY <2>1, <2>2, SumInt
      <4> QED
        BY <3>1, <4>2, <4>3, <4>4
    <3>2. CASE ~(upper <= t)
      <4>1. \A y \in S : mid[y] = after[y]
        BY <1>1, <1>2, <2>1, <3>2, Ticks
      <4>2. SumOf(mid, S) = SumOf(after, S)
        <5> HIDE DEF S
        <5> QED
          BY <2>1, <4>1, SumEqual
      <4>3. SumOf(mid, S) \in Int
        <5> HIDE DEF S
        <5> QED
          BY <2>1, <2>2, SumInt
      <4> QED
        BY <3>2, <4>2, <4>3
    <3> QED
      BY <3>1, <3>2
  <2>5. SumOf(net, S) \in Int /\ t \in Int
    <3>1. t \in Int
      BY Ticks
    <3> HIDE DEF S
    <3> QED
      BY <2>1, <2>2, <3>1, SumInt
  <2>6. Depth(after, t) = SumOf(after, S) /\ Depth(net, t) = SumOf(net, S)
    BY DEF Depth, SumOf
  <2> HIDE DEF S
  <2> QED
    BY <1>1, <2>3, <2>4, <2>5, <2>6
<1> QED
  BY <1>2, <1>3 DEF after, Moved

-----------------------------------------------------------------------------
(* The venue's walk: which range it is in *)

\* The boundary of a tick.
BoundaryOf(p, t) == [price |-> SqrtAt[t], net |-> p.net[t]]

\* Tick r is reached no later than tick t.
Nearer(aToB, r, t) == IF aToB THEN t <= r ELSE r <= t

\* The ticks ahead of pool p that are behind tick c.
Crossed(aToB, p, c) == {t \in AheadOf(p, aToB) : IF aToB THEN c < t ELSE t <= c}

\* The ticks that a swap through p reaches first.
Begins(aToB, p, T) ==
  /\ T \subseteq AheadOf(p, aToB)
  /\ \A t \in T, r \in AheadOf(p, aToB) : Nearer(aToB, r, t) => r \in T

\* A walk through p that has crossed the ticks T is in the range of tick c.
WithinTick(aToB, p, T, v, c) ==
  /\ c \in CurrentTick /\ v.liq = Depth(p.net, c) /\ Spans(c, v.price)
  /\ IF aToB THEN c <= p.tick ELSE p.tick <= c
  /\ v.remaining > 0 => Crossed(aToB, p, c) = T
  /\ v.remaining = 0 => \A t \in AheadOf(p, aToB) :
                          SqrtAt[t] = v.price => t \in Crossed(aToB, p, c)

\* What a sound pool is made of.
LEMMA SoundPool ==
  ASSUME NEW p, IsSound(p)
  PROVE  /\ p.price \in Nat \ {0} /\ p.tick \in CurrentTick /\ p.liq \in Nat
         /\ p.net \in [Tick -> Int] /\ p.liq = Depth(p.net, p.tick)
         /\ Spans(p.tick, p.price)
         /\ \A t \in CurrentTick : Depth(p.net, t) \in Nat
<1>1. /\ p.price \in Nat \ {0} /\ p.tick \in CurrentTick /\ p.liq \in Nat
      /\ p.net \in [Tick -> Int] /\ p.liq = Depth(p.net, p.tick)
      /\ Spans(p.tick, p.price) /\ \A t \in Tick : Depth(p.net, t) >= 0
  BY ClmmAssumption DEF IsSound, IsPool
<1>2. ASSUME NEW t \in CurrentTick PROVE Depth(p.net, t) \in Nat
  <2>1. Depth(p.net, t) \in Int /\ Depth(p.net, -1) = 0
    BY <1>1, DepthIs
  <2>2. t = -1 \/ t \in Tick
    BY Ticks
  <2> QED
    BY <1>1, <2>1, <2>2
<1> QED
  BY <1>1, <1>2

\* The ticks ahead of a pool, and their prices.
LEMMA AheadIs ==
  ASSUME NEW p, IsSound(p), NEW aToB \in BOOLEAN
  PROVE  /\ AheadOf(p, aToB) \subseteq Tick
         /\ \A t \in AheadOf(p, aToB) : /\ IF aToB THEN t <= p.tick ELSE p.tick < t
                                        /\ Onward(aToB, p.price, SqrtAt[t])
         /\ \A t \in Tick : (IF aToB THEN t <= p.tick ELSE p.tick < t)
                            => t \in AheadOf(p, aToB) \/ p.net[t] = 0
<1>1. p.tick \in CurrentTick /\ p.price \in Nat /\ Spans(p.tick, p.price)
  BY SoundPool
<1>2. /\ AheadOf(p, aToB) \subseteq Tick
      /\ \A t \in AheadOf(p, aToB) : IF aToB THEN t <= p.tick ELSE p.tick < t
      /\ \A t \in Tick : (IF aToB THEN t <= p.tick ELSE p.tick < t)
                         => t \in AheadOf(p, aToB) \/ p.net[t] = 0
  <2>1. \A t \in Tick : t \in Int /\ p.tick \in Int
    BY <1>1, Ticks
  <2> QED
    BY <2>1 DEF AheadOf, Initialized
<1>3. ASSUME NEW t \in AheadOf(p, aToB) PROVE Onward(aToB, p.price, SqrtAt[t])
  <2>1. t \in CurrentTick /\ t \in Int /\ p.tick \in Int /\ SqrtAt[t] \in Nat
        /\ SqrtAt[p.tick] \in Nat
    BY <1>1, <1>2, Ticks, Prices
  <2>2. CASE aToB
    <3>1. SqrtAt[t] <= SqrtAt[p.tick] /\ SqrtAt[p.tick] <= p.price
      BY <1>1, <1>2, <2>1, <2>2, Prices DEF Spans
    <3> QED
      BY <1>1, <2>1, <2>2, <3>1 DEF Onward
  <2>3. CASE ~aToB
    <3>1. p.tick < LastTick /\ p.tick + 1 <= t /\ p.tick + 1 \in CurrentTick
      BY <1>1, <1>2, <2>1, <2>3, Ticks
    <3>2. SqrtAt[p.tick + 1] <= SqrtAt[t] /\ p.price <= SqrtAt[p.tick + 1]
      BY <1>1, <2>1, <3>1, Prices DEF Spans
    <3>3. SqrtAt[p.tick + 1] \in Nat
      BY <3>1, Prices
    <3> QED
      BY <1>1, <2>1, <2>3, <3>2, <3>3 DEF Onward
  <2> QED
    BY <2>2, <2>3
<1> QED
  BY <1>2, <1>3

\* It is one a walk can meet.
LEMMA BoundaryIs ==
  ASSUME NEW p, p.net \in [Tick -> Int], NEW t \in Tick
  PROVE  /\ BoundaryOf(p, t) \in Bounds
         /\ BoundaryOf(p, t).price = SqrtAt[t] /\ BoundaryOf(p, t).net = p.net[t]
<1>1. SqrtAt[t] \in Nat \ {0} /\ p.net[t] \in Int
  BY Ticks, Prices
<1> QED
  BY <1>1 DEF BoundaryOf, Bounds

\* The boundaries of some ticks.
LEMMA ExactIs ==
  ASSUME NEW p, p.net \in [Tick -> Int], NEW T, T \subseteq Tick
  PROVE  /\ Exact(p, T) \subseteq Bounds /\ IsFiniteSet(Exact(p, T))
         /\ \A b \in Exact(p, T) : \E t \in T : b = BoundaryOf(p, t)
         /\ \A t \in T : BoundaryOf(p, t) \in Exact(p, T)
         /\ \A t \in T : Exact(p, T) \ {BoundaryOf(p, t)} = Exact(p, T \ {t})
         /\ T # {} => Exact(p, T) # {}
         /\ Exact(p, {}) = {}
<1>1. Exact(p, T) = {BoundaryOf(p, t) : t \in T} /\ Exact(p, {}) = {}
  BY DEF Exact, BoundaryOf
<1>2. \A t \in T : t \in Tick /\ t \in CurrentTick
  BY Ticks
<1>3. \A t \in T : BoundaryOf(p, t) \in Bounds /\ BoundaryOf(p, t).price = SqrtAt[t]
  BY <1>2, BoundaryIs
<1>4. IsFiniteSet(Exact(p, T))
  <2>1. IsFiniteSet(T)
    <3>1. IsFiniteSet(Tick)
      BY PoolAssumption, FS_Interval DEF Tick
    <3> QED
      BY <3>1, FS_Subset
  <2> DEFINE f == [t \in T |-> BoundaryOf(p, t)]
  <2>2. f \in Surjection(T, Exact(p, T))
    BY <1>1 DEF Surjection
  <2> QED
    BY <2>1, <2>2, FS_Surjection
<1>5. ASSUME NEW t \in T PROVE Exact(p, T) \ {BoundaryOf(p, t)} = Exact(p, T \ {t})
  <2>1. Exact(p, T \ {t}) = {BoundaryOf(p, s) : s \in T \ {t}}
    BY DEF Exact, BoundaryOf
  <2>2. \A s \in T : BoundaryOf(p, s) = BoundaryOf(p, t) => s = t
    BY <1>2, <1>3, Prices
  <2> QED
    BY <1>1, <2>1, <2>2
<1> QED
  BY <1>1, <1>3, <1>4, <1>5

\* The last boundary of ticks T is tick f's.
IsLast(aToB, p, T, f) ==
  /\ f \in T
  /\ Furthest(Exact(p, T), aToB) = BoundaryOf(p, f)
  /\ \A t \in T : Nearer(aToB, t, f)
  /\ Exact(p, T) \ {Furthest(Exact(p, T), aToB)} = Exact(p, T \ {f})

\* Some ticks have a last one.
LEMMA LastOf ==
  ASSUME NEW p, p.net \in [Tick -> Int], NEW T, T \subseteq Tick, T # {},
         NEW aToB \in BOOLEAN
  PROVE  \E f : IsLast(aToB, p, T, f)
<1> DEFINE S == Exact(p, T)
           b == Furthest(S, aToB)
<1>1. S \subseteq Bounds /\ IsFiniteSet(S) /\ S # {}
  BY ExactIs
<1>2. b \in S /\ \A x \in S : Onward(aToB, x.price, b.price)
  BY <1>1, FurthestIs
<1>3. PICK f \in T : b = BoundaryOf(p, f)
  BY <1>2, ExactIs
<1>4. ASSUME NEW t \in T PROVE Nearer(aToB, t, f)
  <2>1. BoundaryOf(p, t) \in S
    BY ExactIs
  <2>2. Onward(aToB, SqrtAt[t], SqrtAt[f])
    BY <1>2, <1>3, <2>1 DEF BoundaryOf
  <2>3. t \in CurrentTick /\ f \in CurrentTick
    BY Ticks
  <2> QED
    BY <2>2, <2>3, Prices DEF Onward, Nearer
<1>5. S \ {b} = Exact(p, T \ {f})
  BY <1>3, ExactIs
<1>6. IsLast(aToB, p, T, f)
  BY <1>3, <1>4, <1>5 DEF IsLast
<1> QED
  BY <1>6

\* The way from the range of tick c to tick f lies within one range of liquidity.
QuietWay(aToB, p, f, c) ==
  /\ f \in Tick
  /\ aToB => /\ f <= c
             /\ \A t \in CurrentTick : f <= t /\ t <= c
                                       => Depth(p.net, t) = Depth(p.net, c)
  /\ ~aToB => /\ c <= f - 1
              /\ \A t \in CurrentTick : c <= t /\ t <= f - 1
                                        => Depth(p.net, t) = Depth(p.net, c)

\* The way to the next initialized tick does.
LEMMA RangeAhead ==
  ASSUME NEW p, IsSound(p), NEW aToB \in BOOLEAN, NEW T, Begins(aToB, p, T),
         NEW f \in T, \A t \in T : Nearer(aToB, t, f),
         NEW c \in CurrentTick, IF aToB THEN c <= p.tick ELSE p.tick <= c,
         Crossed(aToB, p, c) = T \ {f}
  PROVE  QuietWay(aToB, p, f, c)
<1>1. /\ T \subseteq AheadOf(p, aToB) /\ f \in Tick /\ f \in Int /\ c \in Int
      /\ p.net \in [Tick -> Int] /\ p.tick \in CurrentTick /\ p.tick \in Int
      /\ AheadOf(p, aToB) \subseteq Tick
  BY AheadIs, SoundPool, Ticks DEF Begins
<1>2. f \in AheadOf(p, aToB) /\ f \notin Crossed(aToB, p, c)
  BY <1>1
<1>3. ASSUME NEW r \in AheadOf(p, aToB), Nearer(aToB, r, f), r # f
      PROVE  IF aToB THEN c < r ELSE r <= c
  <2>1. r \in T \ {f}
    BY <1>3 DEF Begins
  <2> QED
    BY <2>1 DEF Crossed
<1>4. CASE aToB
  <2>1. f <= c
    <3>1. ~(c < f)
      BY <1>2, <1>4, Zenon DEF Crossed
    <3> QED
      BY <1>1, <3>1
  <2>2. ASSUME NEW r \in Tick, f < r, r <= c PROVE p.net[r] = 0
    <3>1. r \in Int
      BY Ticks
    <3>2. r <= p.tick
      BY <1>1, <1>4, <2>2, <3>1
    <3>3. r \in AheadOf(p, aToB) \/ p.net[r] = 0
      BY <1>4, <3>2, AheadIs
    <3>4. r \notin AheadOf(p, aToB)
      <4>1. SUFFICES ASSUME r \in AheadOf(p, aToB) PROVE FALSE
        OBVIOUS
      <4>2. Nearer(aToB, r, f) /\ r # f
        BY <1>1, <1>4, <2>2, <3>1 DEF Nearer
      <4>3. c < r
        BY <1>3, <1>4, <4>1, <4>2, Zenon
      <4> QED
        BY <1>1, <2>2, <3>1, <4>3
    <3> QED
      BY <3>3, <3>4
  <2>3. ASSUME NEW t \in CurrentTick, f <= t, t <= c PROVE Depth(p.net, t) = Depth(p.net, c)
    <3>1. \A r \in Tick : t < r /\ r <= c => p.net[r] = 0
      BY <1>1, <2>2, <2>3, Ticks
    <3> QED
      BY <1>1, <2>3, <3>1, DepthConstant
  <2> QED
    BY <1>1, <1>4, <2>1, <2>3, Zenon DEF QuietWay
<1>5. CASE ~aToB
  <2>1. c <= f - 1
    BY <1>1, <1>2, <1>5 DEF Crossed
  <2>2. ASSUME NEW r \in Tick, c < r, r <= f - 1 PROVE p.net[r] = 0
    <3>1. r \in Int
      BY Ticks
    <3>2. p.tick < r
      BY <1>1, <1>5, <2>2, <3>1
    <3>3. r \in AheadOf(p, aToB) \/ p.net[r] = 0
      BY <1>5, <3>2, AheadIs
    <3>4. r \notin AheadOf(p, aToB)
      BY <1>1, <1>3, <1>5, <2>2, <3>1 DEF Nearer
    <3> QED
      BY <3>3, <3>4
  <2>3. ASSUME NEW t \in CurrentTick, c <= t, t <= f - 1
        PROVE  Depth(p.net, t) = Depth(p.net, c)
    <3>1. \A r \in Tick : c < r /\ r <= t => p.net[r] = 0
      BY <1>1, <2>2, <2>3, Ticks
    <3> QED
      BY <1>1, <2>3, <3>1, DepthConstant
  <2> QED
    BY <1>1, <1>5, <2>1, <2>3, Zenon DEF QuietWay
<1> QED
  BY <1>4, <1>5

\* The first part of a beginning is one.
LEMMA BeginsLess ==
  ASSUME NEW p, IsSound(p), NEW aToB \in BOOLEAN, NEW T, Begins(aToB, p, T),
         NEW f \in T, \A t \in T : Nearer(aToB, t, f)
  PROVE  Begins(aToB, p, T \ {f})
<1>1. T \subseteq AheadOf(p, aToB) /\ AheadOf(p, aToB) \subseteq Tick
  BY AheadIs DEF Begins
<1>2. ASSUME NEW t \in T \ {f}, NEW r \in AheadOf(p, aToB), Nearer(aToB, r, t)
      PROVE  r \in T \ {f}
  <2>1. r \in T /\ Nearer(aToB, t, f)
    BY <1>2 DEF Begins
  <2>2. r \in Int /\ t \in Int /\ f \in Int
    BY <1>1, Ticks
  <2>3. r # f
    BY <1>2, <2>1, <2>2 DEF Nearer
  <2> QED
    BY <2>1, <2>3
<1> QED
  BY <1>1, <1>2 DEF Begins

\* A step down to the next tick, or short of it, ends in the range it says.
LEMMA TurnDown ==
  ASSUME NEW p, IsSound(p), NEW T, Begins(TRUE, p, T),
         NEW f \in T, \A t \in T : Nearer(TRUE, t, f),
         NEW u \in WalkState, u.going, u.remaining > 0,
         Onward(TRUE, u.price, BoundaryOf(p, f).price),
         NEW c, WithinTick(TRUE, p, T \ {f}, u, c)
  PROVE  \E d : WithinTick(TRUE, p, T, Turn(TRUE, TRUE, u, BoundaryOf(p, f)), d)
<1> DEFINE b == BoundaryOf(p, f)
           s == StepOf(TRUE, u, b)
           l == LiqAfter(TRUE, u, b)
           v == Turn(TRUE, TRUE, u, b)
<1>1. /\ c \in CurrentTick /\ u.liq = Depth(p.net, c) /\ Spans(c, u.price) /\ c <= p.tick
      /\ Crossed(TRUE, p, c) = T \ {f}
  BY DEF WithinTick
<1>2. /\ T \subseteq AheadOf(p, TRUE) /\ AheadOf(p, TRUE) \subseteq Tick
      /\ p.net \in [Tick -> Int] /\ p.tick \in CurrentTick /\ p.tick \in Int /\ c \in Int
      /\ \A t \in AheadOf(p, TRUE) : t \in CurrentTick /\ t \in Int
  BY <1>1, AheadIs, SoundPool, Ticks DEF Begins
<1>3. /\ f \in Tick /\ f <= c
      /\ \A t \in CurrentTick : f <= t /\ t <= c => Depth(p.net, t) = Depth(p.net, c)
  <2>1. IF TRUE THEN c <= p.tick ELSE p.tick <= c
    BY <1>1
  <2>2. QuietWay(TRUE, p, f, c)
    BY <1>1, <2>1, RangeAhead, Zenon
  <2> QED
    BY <2>2 DEF QuietWay
<1>4. b \in Bounds /\ b.price = SqrtAt[f] /\ b.net = p.net[f]
  BY <1>2, <1>3, BoundaryIs
<1>5. /\ v = [price |-> s.next, liq |-> l, remaining |-> u.remaining - (s.in + s.fee),
              out |-> u.out + s.out, going |-> TRUE \/ (s.next = b.price /\ l > 0)]
      /\ s.next \in Nat \ {0} /\ s.in \in Nat /\ s.fee \in Nat
      /\ s.next # b.price => s.in + s.fee = u.remaining
      /\ Onward(TRUE, u.price, s.next) /\ Onward(TRUE, s.next, b.price)
  <2>1. Steps(v, TRUE, TRUE, u, b)
    <3>1. Onward(TRUE, u.price, b.price)
      OBVIOUS
    <3> HIDE DEF b
    <3> QED
      BY <1>4, <3>1, Moves
  <2> QED
    BY <2>1 DEF Steps
<1>6. l = IF s.next = b.price THEN ApplyNet(u.liq, b.net, TRUE) ELSE u.liq
  BY DEF LiqAfter
<1> HIDE DEF b, s, l, v
<1>7. v.price = s.next /\ v.liq = l /\ v.remaining = u.remaining - (s.in + s.fee)
  BY <1>5
<1>8. u.remaining \in Nat /\ u.price \in Nat /\ u.liq \in Nat /\ s.next \in Nat
      /\ SqrtAt[f] <= s.next /\ s.next <= u.price /\ SqrtAt[f] \in Nat /\ f \in Int
      /\ f \in CurrentTick
  BY <1>2, <1>3, <1>4, <1>5, Prices, Ticks DEF WalkState, Onward
<1>9. CASE s.next = SqrtAt[f]
  <2> DEFINE d == f - 1
  <2>1. d \in CurrentTick /\ d \in Int /\ d <= p.tick
    BY <1>1, <1>2, <1>3, <1>8, Ticks
  <2>2. Depth(p.net, f) = Depth(p.net, d) + p.net[f] /\ Depth(p.net, d) \in Nat
        /\ Depth(p.net, f) = u.liq /\ p.net[f] \in Int
    BY <1>1, <1>2, <1>3, <1>8, <2>1, DepthIs, SoundPool
  <2>3. v.liq = Depth(p.net, d)
    <3>1. v.liq = ApplyNet(u.liq, p.net[f], TRUE)
      BY <1>4, <1>6, <1>7, <1>9
    <3> HIDE DEF d
    <3> QED
      BY <1>8, <2>2, <3>1 DEF ApplyNet
  <2>4. Spans(d, v.price)
    <3>1. SqrtAt[d] <= SqrtAt[f] /\ d + 1 = f
      BY <1>8, <2>1, Prices
    <3> HIDE DEF d
    <3> QED
      BY <1>7, <1>9, <3>1, <1>8 DEF Spans
  <2>5. v.remaining > 0 => Crossed(TRUE, p, d) = T
    <3>1. ASSUME NEW t \in AheadOf(p, TRUE) PROVE d < t <=> Nearer(TRUE, t, f)
      <4>1. Nearer(TRUE, t, f) <=> f <= t
        BY DEF Nearer
      <4>2. t \in Int /\ f \in Int /\ d = f - 1
        BY <1>2, <1>8
      <4> HIDE DEF d
      <4>3. d < t <=> f <= t
        BY <4>2
      <4> QED
        BY <4>1, <4>3, Zenon
    <3>2. \A t \in AheadOf(p, TRUE) : Nearer(TRUE, t, f) <=> t \in T
      BY DEF Begins
    <3> QED
      BY <1>2, <3>1, <3>2 DEF Crossed
  <2>6. ASSUME NEW t \in AheadOf(p, TRUE), SqrtAt[t] = v.price PROVE t \in Crossed(TRUE, p, d)
    <3>1. t = f
      BY <1>2, <1>7, <1>8, <1>9, <2>6, Prices
    <3>2. d < t
      BY <1>8, <3>1
    <3> QED
      BY <3>2 DEF Crossed
  <2> HIDE DEF d
  <2>7. WithinTick(TRUE, p, T, v, d)
    BY <2>1, <2>3, <2>4, <2>5, <2>6 DEF WithinTick
  <2> QED
    BY <2>7 DEF v, b
<1>10. CASE s.next # SqrtAt[f]
  <2>1. SqrtAt[f] < s.next /\ v.remaining = 0 /\ v.liq = u.liq
    BY <1>4, <1>5, <1>6, <1>7, <1>8, <1>10
  <2>2. c < LastTick => s.next <= SqrtAt[c + 1]
    <3>1. c < LastTick => SqrtAt[c + 1] \in Nat
      BY <1>1, Ticks, Prices
    <3> QED
      BY <1>1, <1>8, <3>1 DEF Spans
  <2>3. PICK d \in CurrentTick : /\ f <= d /\ d <= c /\ SqrtAt[d] <= s.next
                                 /\ d < LastTick => s.next <= SqrtAt[d + 1]
    BY <1>1, <1>3, <1>8, <2>2, RangeOf
  <2>4. v.liq = Depth(p.net, d) /\ d \in Int
    BY <1>1, <1>3, <2>1, <2>3, Ticks
  <2>5. Spans(d, v.price) /\ d <= p.tick
    BY <1>1, <1>2, <1>7, <2>3, <2>4 DEF Spans
  <2>6. ASSUME NEW t \in AheadOf(p, TRUE), SqrtAt[t] = v.price PROVE t \in Crossed(TRUE, p, d)
    <3>1. t \in CurrentTick /\ t \in Int /\ SqrtAt[f] < SqrtAt[t]
      BY <1>2, <1>7, <2>1, <2>6
    <3>2. f < t
      BY <1>8, <3>1, Prices
    <3>3. t \in T \ {f}
      <4>1. Nearer(TRUE, t, f) /\ t # f
        BY <1>8, <3>1, <3>2 DEF Nearer
      <4> QED
        BY <2>6, <4>1, Zenon DEF Begins
    <3>4. c < t
      BY <1>1, <3>3 DEF Crossed
    <3>5. d < t
      BY <1>2, <2>3, <2>4, <3>1, <3>4
    <3> QED
      BY <3>5 DEF Crossed
  <2>7. WithinTick(TRUE, p, T, v, d)
    <3>1. ~(v.remaining > 0)
      BY <2>1
    <3> QED
      BY <2>3, <2>4, <2>5, <2>6, <3>1, Zenon DEF WithinTick
  <2> QED
    BY <2>7 DEF v, b
<1> QED
  BY <1>9, <1>10

\* So does a step up.
LEMMA TurnUp ==
  ASSUME NEW p, IsSound(p), NEW T, Begins(FALSE, p, T),
         NEW f \in T, \A t \in T : Nearer(FALSE, t, f),
         NEW u \in WalkState, u.going, u.remaining > 0,
         Onward(FALSE, u.price, BoundaryOf(p, f).price),
         NEW c, WithinTick(FALSE, p, T \ {f}, u, c)
  PROVE  \E d : WithinTick(FALSE, p, T, Turn(TRUE, FALSE, u, BoundaryOf(p, f)), d)
<1> DEFINE b == BoundaryOf(p, f)
           s == StepOf(FALSE, u, b)
           l == LiqAfter(FALSE, u, b)
           v == Turn(TRUE, FALSE, u, b)
<1>1. /\ c \in CurrentTick /\ u.liq = Depth(p.net, c) /\ Spans(c, u.price) /\ p.tick <= c
      /\ Crossed(FALSE, p, c) = T \ {f}
  BY DEF WithinTick
<1>2. /\ T \subseteq AheadOf(p, FALSE) /\ AheadOf(p, FALSE) \subseteq Tick
      /\ p.net \in [Tick -> Int] /\ p.tick \in CurrentTick /\ p.tick \in Int /\ c \in Int
      /\ \A t \in AheadOf(p, FALSE) : t \in CurrentTick /\ t \in Int
  BY <1>1, AheadIs, SoundPool, Ticks DEF Begins
<1>3. /\ f \in Tick /\ c <= f - 1
      /\ \A t \in CurrentTick : c <= t /\ t <= f - 1 => Depth(p.net, t) = Depth(p.net, c)
  <2>1. IF FALSE THEN c <= p.tick ELSE p.tick <= c
    BY <1>1
  <2>2. QuietWay(FALSE, p, f, c)
    BY <1>1, <2>1, RangeAhead, Zenon
  <2> QED
    BY <2>2 DEF QuietWay
<1>4. b \in Bounds /\ b.price = SqrtAt[f] /\ b.net = p.net[f]
  BY <1>2, <1>3, BoundaryIs
<1>5. /\ v = [price |-> s.next, liq |-> l, remaining |-> u.remaining - (s.in + s.fee),
              out |-> u.out + s.out, going |-> TRUE \/ (s.next = b.price /\ l > 0)]
      /\ s.next \in Nat \ {0} /\ s.in \in Nat /\ s.fee \in Nat
      /\ s.next # b.price => s.in + s.fee = u.remaining
      /\ Onward(FALSE, u.price, s.next) /\ Onward(FALSE, s.next, b.price)
  <2>1. Steps(v, TRUE, FALSE, u, b)
    <3>1. Onward(FALSE, u.price, b.price)
      OBVIOUS
    <3> HIDE DEF b
    <3> QED
      BY <1>4, <3>1, Moves
  <2> QED
    BY <2>1 DEF Steps
<1>6. l = IF s.next = b.price THEN ApplyNet(u.liq, b.net, FALSE) ELSE u.liq
  BY DEF LiqAfter
<1> HIDE DEF b, s, l, v
<1>7. v.price = s.next /\ v.liq = l /\ v.remaining = u.remaining - (s.in + s.fee)
  BY <1>5
<1>8. u.remaining \in Nat /\ u.price \in Nat /\ u.liq \in Nat /\ s.next \in Nat
      /\ u.price <= s.next /\ s.next <= SqrtAt[f] /\ SqrtAt[f] \in Nat /\ f \in Int
      /\ f \in CurrentTick /\ f - 1 \in CurrentTick /\ f <= LastTick /\ LastTick \in Int
  BY <1>2, <1>3, <1>4, <1>5, Prices, Ticks DEF WalkState, Onward
<1>9. CASE s.next = SqrtAt[f]
  <2>1. p.tick <= f
    BY <1>1, <1>2, <1>3, <1>8
  <2>2. Depth(p.net, f) = Depth(p.net, f - 1) + p.net[f] /\ Depth(p.net, f) \in Nat
        /\ Depth(p.net, f - 1) = u.liq /\ p.net[f] \in Int
    BY <1>1, <1>2, <1>3, <1>8, DepthIs, SoundPool
  <2>3. v.liq = Depth(p.net, f)
    <3>1. v.liq = ApplyNet(u.liq, p.net[f], FALSE)
      BY <1>4, <1>6, <1>7, <1>9
    <3> QED
      BY <1>8, <2>2, <3>1 DEF ApplyNet
  <2>4. Spans(f, v.price)
    <3>1. f < LastTick => SqrtAt[f] <= SqrtAt[f + 1]
      <4>1. SUFFICES ASSUME f < LastTick PROVE SqrtAt[f] <= SqrtAt[f + 1]
        OBVIOUS
      <4>2. f + 1 \in CurrentTick /\ f <= f + 1
        BY <1>8, <4>1, Ticks
      <4> QED
        BY <1>8, <4>2, Prices
    <3> QED
      BY <1>7, <1>9, <3>1, <1>8 DEF Spans
  <2>5. v.remaining > 0 => Crossed(FALSE, p, f) = T
    <3>1. \A t \in AheadOf(p, FALSE) : t <= f <=> Nearer(FALSE, t, f)
      BY <1>2, <1>8 DEF Nearer
    <3>2. \A t \in AheadOf(p, FALSE) : Nearer(FALSE, t, f) <=> t \in T
      BY DEF Begins
    <3> QED
      BY <1>2, <3>1, <3>2 DEF Crossed
  <2>6. ASSUME NEW t \in AheadOf(p, FALSE), SqrtAt[t] = v.price
        PROVE  t \in Crossed(FALSE, p, f)
    <3>1. t = f
      BY <1>2, <1>7, <1>8, <1>9, <2>6, Prices
    <3>2. t <= f
      BY <1>8, <3>1
    <3> QED
      BY <3>2 DEF Crossed
  <2>7. WithinTick(FALSE, p, T, v, f)
    BY <1>8, <2>1, <2>3, <2>4, <2>5, <2>6 DEF WithinTick
  <2> QED
    BY <2>7 DEF v, b
<1>10. CASE s.next # SqrtAt[f]
  <2>1. s.next < SqrtAt[f] /\ v.remaining = 0 /\ v.liq = u.liq
    BY <1>4, <1>5, <1>6, <1>7, <1>8, <1>10
  <2>2. SqrtAt[c] <= s.next /\ (f - 1 < LastTick => s.next <= SqrtAt[f - 1 + 1])
    <3>1. SqrtAt[c] \in Nat /\ f - 1 + 1 = f
      BY <1>1, <1>8, Prices
    <3> QED
      BY <1>1, <1>8, <3>1 DEF Spans
  <2>3. PICK d \in CurrentTick : /\ c <= d /\ d <= f - 1 /\ SqrtAt[d] <= s.next
                                 /\ d < LastTick => s.next <= SqrtAt[d + 1]
    BY <1>1, <1>3, <1>8, <2>2, RangeOf
  <2>4. v.liq = Depth(p.net, d) /\ d \in Int
    BY <1>1, <1>3, <2>1, <2>3, Ticks
  <2>5. Spans(d, v.price) /\ p.tick <= d
    BY <1>1, <1>2, <1>7, <2>3, <2>4 DEF Spans
  <2>6. ASSUME NEW t \in AheadOf(p, FALSE), SqrtAt[t] = v.price
        PROVE  t \in Crossed(FALSE, p, d)
    <3>1. t \in CurrentTick /\ t \in Int /\ SqrtAt[t] < SqrtAt[f]
      BY <1>2, <1>7, <2>1, <2>6
    <3>2. t < f
      BY <1>8, <3>1, Prices
    <3>3. t \in T \ {f}
      <4>1. Nearer(FALSE, t, f) /\ t # f
        BY <1>8, <3>1, <3>2 DEF Nearer
      <4> QED
        BY <2>6, <4>1, Zenon DEF Begins
    <3>4. t <= c
      BY <1>1, <3>3 DEF Crossed
    <3>5. t <= d
      BY <1>2, <2>3, <2>4, <3>1, <3>4
    <3> QED
      BY <3>5 DEF Crossed
  <2>7. WithinTick(FALSE, p, T, v, d)
    <3>1. ~(v.remaining > 0)
      BY <2>1
    <3> QED
      BY <2>3, <2>4, <2>5, <2>6, <3>1, Zenon DEF WithinTick
  <2> QED
    BY <2>7 DEF v, b
<1> QED
  BY <1>9, <1>10

\* The venue's walk over the boundaries of the ticks T.
VenueAt(aToB, p, in, T) ==
  WalkOver(TRUE, aToB, Start(p.price, p.liq, in), Exact(p, T))

\* The venue's walk starts before all boundaries ahead.
LEMMA VenueBefore ==
  ASSUME NEW p, IsSound(p), NEW aToB \in BOOLEAN, NEW in \in Nat
  PROVE  /\ Start(p.price, p.liq, in) \in WalkState
         /\ Before(aToB, Start(p.price, p.liq, in), Exact(p, AheadOf(p, aToB)))
<1> DEFINE A == AheadOf(p, aToB)
           S == Exact(p, A)
<1>1. p.price \in Nat \ {0} /\ p.liq \in Nat /\ p.net \in [Tick -> Int]
  BY SoundPool
<1>2. A \subseteq Tick /\ \A t \in A : Onward(aToB, p.price, SqrtAt[t])
  BY AheadIs
<1>3. S \subseteq Bounds /\ IsFiniteSet(S) /\ \A b \in S : \E t \in A : b = BoundaryOf(p, t)
  BY <1>1, <1>2, ExactIs
<1>4. ASSUME NEW b \in S PROVE Onward(aToB, p.price, b.price)
  <2>1. PICK t \in A : b = BoundaryOf(p, t)
    BY <1>3
  <2>2. b.price = SqrtAt[t]
    BY <2>1 DEF BoundaryOf
  <2> QED
    BY <1>2, <2>1, <2>2
<1>5. Start(p.price, p.liq, in) \in WalkState /\ Start(p.price, p.liq, in).price = p.price
  BY <1>1 DEF Start, WalkState
<1> QED
  BY <1>3, <1>4, <1>5 DEF Before

\* Over no tick it stays at the start; over some, it is the walk over all but the last
\* and a turn towards that.
VenueLast(aToB, p, in, T, f) ==
  LET u == VenueAt(aToB, p, in, T \ {f})
  IN  /\ f \in T /\ \A t \in T : Nearer(aToB, t, f)
      /\ u \in WalkState /\ Onward(aToB, u.price, SqrtAt[f])
      /\ BoundaryOf(p, f) \in Bounds
      /\ VenueAt(aToB, p, in, T) = Turn(TRUE, aToB, u, BoundaryOf(p, f))

\* That is how the venue walks.
LEMMA VenueIs ==
  ASSUME NEW p, IsSound(p), NEW aToB \in BOOLEAN, NEW in \in Nat, NEW T,
         T \subseteq AheadOf(p, aToB)
  PROVE  /\ VenueAt(aToB, p, in, T) \in WalkState
         /\ Onward(aToB, p.price, VenueAt(aToB, p, in, T).price)
         /\ T = {} => VenueAt(aToB, p, in, T) = Start(p.price, p.liq, in)
         /\ T # {} => \E f : VenueLast(aToB, p, in, T, f)
<1> DEFINE A == AheadOf(p, aToB)
           S == Exact(p, A)
           w == Start(p.price, p.liq, in)
           s == Exact(p, T)
<1>1. w \in WalkState /\ Before(aToB, w, S)
  BY VenueBefore
<1>2. s \in SUBSET S /\ T \subseteq Tick /\ p.net \in [Tick -> Int] /\ w.price = p.price
  BY AheadIs, SoundPool DEF Exact, Start
<1>3. WalkAt(TRUE, aToB, w, S, s)
  <2> HIDE DEF w, S, s
  <2> QED
    BY <1>1, <1>2, WalkIs
<1> HIDE DEF w, S
<1>4. /\ VenueAt(aToB, p, in, T) \in WalkState
      /\ Onward(aToB, p.price, VenueAt(aToB, p, in, T).price)
      /\ T = {} => VenueAt(aToB, p, in, T) = w
  <2>1. T = {} => s = {}
    BY DEF Exact
  <2> HIDE DEF s
  <2> QED
    BY <1>2, <1>3, <2>1 DEF WalkAt, VenueAt, w, s
<1>5. ASSUME T # {} PROVE \E f : VenueLast(aToB, p, in, T, f)
  <2>0. PICK f : IsLast(aToB, p, T, f)
    BY <1>2, <1>5, LastOf
  <2>1. /\ f \in T /\ Furthest(s, aToB) = BoundaryOf(p, f)
        /\ \A t \in T : Nearer(aToB, t, f)
        /\ s \ {Furthest(s, aToB)} = Exact(p, T \ {f})
    BY <2>0 DEF IsLast
  <2>2. s # {} /\ BoundaryOf(p, f) \in Bounds /\ BoundaryOf(p, f).price = SqrtAt[f]
    <3>1. s \subseteq Bounds /\ BoundaryOf(p, f) \in s
      BY <1>2, <2>1, ExactIs
    <3> HIDE DEF s
    <3>2. BoundaryOf(p, f).price = SqrtAt[f]
      BY DEF BoundaryOf
    <3> QED
      BY <3>1, <3>2
  <2> DEFINE b == Furthest(s, aToB)
             u == WalkOver(TRUE, aToB, w, s \ {b})
  <2>3. /\ u \in WalkState /\ Onward(aToB, u.price, b.price)
        /\ WalkOver(TRUE, aToB, w, s) = Turn(TRUE, aToB, u, b)
    BY <1>3, <2>2 DEF WalkAt
  <2>4. u = VenueAt(aToB, p, in, T \ {f}) /\ b = BoundaryOf(p, f)
        /\ WalkOver(TRUE, aToB, w, s) = VenueAt(aToB, p, in, T)
    BY <2>1 DEF VenueAt, w
  <2> HIDE DEF s, b, u
  <2> QED
    BY <2>1, <2>2, <2>3, <2>4 DEF VenueLast
<1> QED
  BY <1>4, <1>5 DEF w

\* After each tick, the walk is in the range it should be in.
LEMMA VenueInside ==
  ASSUME NEW p, IsSound(p), NEW aToB \in BOOLEAN, NEW in \in Nat \ {0}, NEW T,
         Begins(aToB, p, T)
  PROVE  /\ VenueAt(aToB, p, in, T).going
         /\ \E c : WithinTick(aToB, p, T, VenueAt(aToB, p, in, T), c)
<1> DEFINE A == AheadOf(p, aToB)
           Inside(s) == /\ VenueAt(aToB, p, in, s).going
                        /\ \E c : WithinTick(aToB, p, s, VenueAt(aToB, p, in, s), c)
           F == {s \in SUBSET A : Begins(aToB, p, s) /\ ~Inside(s)}
<1>1. SUFFICES ASSUME F # {} PROVE FALSE
  BY DEF Begins
<1>2. IsFiniteSet(A)
  <2>1. IsFiniteSet(Tick)
    BY PoolAssumption, FS_Interval DEF Tick
  <2> QED
    BY <2>1, AheadIs, FS_Subset
<1>3. PICK s \in F : \A x \in s : s \ {x} \notin F
  BY <1>1, <1>2, MinimalSubset
<1>4. s \subseteq A /\ Begins(aToB, p, s) /\ ~Inside(s)
  BY <1>3
<1> DEFINE v == VenueAt(aToB, p, in, s)
<1>5. CASE s = {}
  <2>1. v = Start(p.price, p.liq, in)
    BY <1>5, VenueIs
  <2> HIDE DEF v
  <2>2. v.price = p.price /\ v.liq = p.liq /\ v.remaining = in /\ v.going
    BY <2>1 DEF Start
  <2>3. p.tick \in CurrentTick /\ p.liq = Depth(p.net, p.tick) /\ Spans(p.tick, p.price)
        /\ p.tick \in Int
    BY SoundPool, Ticks
  <2>4. Crossed(aToB, p, p.tick) = {}
    <3>1. ASSUME NEW t \in A PROVE ~(IF aToB THEN p.tick < t ELSE t <= p.tick)
      <4>1. t \in Int /\ IF aToB THEN t <= p.tick ELSE p.tick < t
        BY AheadIs, Ticks
      <4> QED
        BY <2>3, <4>1
    <3> QED
      BY <3>1 DEF Crossed
  <2>5. WithinTick(aToB, p, s, v, p.tick)
    BY <1>5, <2>2, <2>3, <2>4 DEF WithinTick
  <2> QED
    BY <1>4, <2>2, <2>5 DEF v
<1>6. CASE s # {}
  <2>1. PICK f : VenueLast(aToB, p, in, s, f)
    BY <1>4, <1>6, VenueIs
  <2> DEFINE u == VenueAt(aToB, p, in, s \ {f})
             b == BoundaryOf(p, f)
  <2>2. /\ f \in s /\ \A t \in s : Nearer(aToB, t, f)
        /\ u \in WalkState /\ Onward(aToB, u.price, b.price) /\ b \in Bounds
        /\ v = Turn(TRUE, aToB, u, b)
    BY <2>1 DEF VenueLast, BoundaryOf
  <2>3. Begins(aToB, p, s \ {f})
    BY <1>4, <2>2, BeginsLess
  <2>4. Inside(s \ {f})
    BY <1>3, <1>4, <2>2, <2>3
  <2>5. u.going /\ \E c : WithinTick(aToB, p, s \ {f}, u, c)
    BY <2>4
  <2> HIDE DEF u, v
  <2>6. PICK c : WithinTick(aToB, p, s \ {f}, u, c)
    BY <2>5
  <2>7. v.going
    <3>1. CASE u.remaining = 0
      <4>1. v = [u EXCEPT !.going = TRUE]
        BY <2>2, <3>1, Stands
      <4> QED
        BY <2>2, <4>1 DEF WalkState
    <3>2. CASE u.remaining # 0
      <4>1. u.remaining > 0
        BY <2>2, <3>2 DEF WalkState
      <4>2. v = [price |-> StepOf(aToB, u, b).next, liq |-> LiqAfter(aToB, u, b),
                 remaining |-> u.remaining - (StepOf(aToB, u, b).in + StepOf(aToB, u, b).fee),
                 out |-> u.out + StepOf(aToB, u, b).out,
                 going |-> TRUE \/ (StepOf(aToB, u, b).next = b.price
                                    /\ LiqAfter(aToB, u, b) > 0)]
        <5>1. Steps(v, TRUE, aToB, u, b)
          BY <2>2, <2>5, <4>1, Moves
        <5> QED
          BY <5>1 DEF Steps
      <4> QED
        BY <4>2
    <3> QED
      BY <3>1, <3>2
  <2>8. CASE u.remaining = 0
    <3>1. v = [u EXCEPT !.going = TRUE]
      BY <2>2, <2>8, Stands
    <3>2. v.liq = u.liq /\ v.price = u.price /\ v.remaining = u.remaining
      BY <2>2, <3>1 DEF WalkState
    <3>3. ~(u.remaining > 0)
      BY <2>8
    <3>4. WithinTick(aToB, p, s, v, c)
      BY <2>6, <2>8, <3>2, <3>3, Zenon DEF WithinTick
    <3> QED
      BY <1>4, <2>7, <3>4 DEF v
  <2>9. CASE u.remaining # 0
    <3>1. u.remaining > 0
      BY <2>2, <2>9 DEF WalkState
    <3>2. \E d : WithinTick(aToB, p, s, v, d)
      <4>1. CASE aToB
        <5>1. aToB = TRUE
          BY <4>1
        <5> QED
          BY <1>4, <2>2, <2>5, <2>6, <3>1, <5>1, TurnDown, Zenon
      <4>2. CASE ~aToB
        <5>1. aToB = FALSE
          BY <4>2
        <5> QED
          BY <1>4, <2>2, <2>5, <2>6, <3>1, <5>1, TurnUp, Zenon
      <4> QED
        BY <4>1, <4>2
    <3> QED
      BY <1>4, <2>7, <3>2 DEF v
  <2> QED
    BY <2>8, <2>9
<1> QED
  BY <1>5, <1>6

\* The venue's walk through all ticks ahead ends within the price bounds, in a range
\* whose liquidity it has.
LEMMA VenueEnds ==
  ASSUME NEW p, IsSound(p), NEW aToB \in BOOLEAN, NEW in \in Nat \ {0},
         VenueWalk(p, in, aToB).remaining = 0
  PROVE  LET w == VenueWalk(p, in, aToB)
         IN  /\ w \in WalkState /\ w.price \in MinSqrtPrice .. MaxSqrtPrice
             /\ Onward(aToB, p.price, w.price)
             /\ \E c : WithinTick(aToB, p, AheadOf(p, aToB), w, c)
<1> DEFINE A == AheadOf(p, aToB)
           w == VenueWalk(p, in, aToB)
<1>1. w = VenueAt(aToB, p, in, A)
  BY DEF VenueWalk, VenueAt, WalkOver
<1>2. Begins(aToB, p, A)
  BY DEF Begins
<1>3. \E c : WithinTick(aToB, p, A, w, c)
  <2> HIDE DEF A, w
  <2> QED
    BY <1>1, <1>2, VenueInside
<1>4. w \in WalkState /\ Onward(aToB, p.price, w.price)
  BY <1>1, VenueIs
<1>5. p.price \in MinSqrtPrice .. MaxSqrtPrice /\ MinSqrtPrice \in Nat /\ MaxSqrtPrice \in Nat
  BY ClmmAssumption DEF IsSound, IsPool
<1>6. w.price \in MinSqrtPrice .. MaxSqrtPrice
  <2>1. CASE A = {}
    <3>1. w = Start(p.price, p.liq, in)
      <4> HIDE DEF w
      <4> QED
        BY <1>1, <2>1, VenueIs
    <3> HIDE DEF w
    <3>2. w.price = p.price
      BY <3>1 DEF Start
    <3> QED
      BY <1>5, <3>2
  <2>2. CASE A # {}
    <3>1. PICK f : VenueLast(aToB, p, in, A, f)
      BY <2>2, VenueIs
    <3> DEFINE u == VenueAt(aToB, p, in, A \ {f})
               b == BoundaryOf(p, f)
    <3>2. /\ f \in Tick /\ u \in WalkState /\ Onward(aToB, u.price, b.price) /\ b \in Bounds
          /\ w = Turn(TRUE, aToB, u, b) /\ b.price = SqrtAt[f]
      BY <1>1, <3>1, AheadIs DEF VenueLast, BoundaryOf
    <3> HIDE DEF u, b, w
    <3>3. Onward(aToB, w.price, b.price)
      BY <3>2, TurnTyped
    <3>4. b.price \in MinSqrtPrice .. MaxSqrtPrice
      BY <3>2, Ticks, Prices
    <3> QED
      BY <1>4, <1>5, <3>3, <3>4 DEF Onward, WalkState
  <2> QED
    BY <2>1, <2>2
<1> QED
  BY <1>3, <1>4, <1>6

\* The tick a swap leaves.
TickAfter(p, w, aToB) ==
  LET reached == {t \in AheadOf(p, aToB) : SqrtAt[t] = w.price}
  IN  IF reached = {} THEN IF w.price = p.price THEN p.tick ELSE TickAt(w.price)
      ELSE CHOOSE t \in {r - (IF aToB THEN 1 ELSE 0) : r \in reached} : TRUE

\* That tick has the liquidity and the price of the range the walk ended in.
LEMMA TickAfterIs ==
  ASSUME NEW p, IsSound(p), NEW aToB \in BOOLEAN, NEW w \in WalkState,
         Onward(aToB, p.price, w.price), w.remaining = 0,
         NEW c, WithinTick(aToB, p, AheadOf(p, aToB), w, c)
  PROVE  LET d == TickAfter(p, w, aToB)
         IN  d \in CurrentTick /\ Spans(d, w.price) /\ w.liq = Depth(p.net, d)
<1> DEFINE A == AheadOf(p, aToB)
           reached == {t \in A : SqrtAt[t] = w.price}
           d == TickAfter(p, w, aToB)
<1>1. /\ c \in CurrentTick /\ w.liq = Depth(p.net, c) /\ Spans(c, w.price)
      /\ IF aToB THEN c <= p.tick ELSE p.tick <= c
      /\ \A t \in reached : IF aToB THEN c < t ELSE t <= c
  BY DEF WithinTick, Crossed
<1>2. /\ p.price \in Nat /\ p.tick \in CurrentTick /\ p.net \in [Tick -> Int]
      /\ Spans(p.tick, p.price) /\ w.price \in Nat /\ p.tick \in Int /\ c \in Int
      /\ p.tick <= LastTick /\ c <= LastTick /\ LastTick \in Int
      /\ SqrtAt[c] \in Nat /\ SqrtAt[p.tick] \in Nat
  <2>1. /\ p.price \in Nat /\ p.tick \in CurrentTick /\ p.net \in [Tick -> Int]
        /\ Spans(p.tick, p.price) /\ w.price \in Nat
    BY SoundPool DEF WalkState
  <2>2. \A t \in CurrentTick : t \in Int /\ t <= LastTick /\ SqrtAt[t] \in Nat
    BY Ticks, Prices
  <2>3. LastTick \in Int
    BY Ticks
  <2> QED
    BY <1>1, <2>1, <2>2, <2>3
<1>3. ASSUME c < LastTick, SqrtAt[c + 1] = w.price, reached = {},
             IF aToB THEN c + 1 <= p.tick ELSE p.tick <= c
      PROVE  w.liq = Depth(p.net, c + 1)
  <2> DEFINE n == c + 1
  <2>1. n \in Tick /\ n - 1 = c /\ SqrtAt[n] = w.price
    BY <1>1, <1>2, <1>3, Ticks
  <2>2. IF aToB THEN n <= p.tick ELSE p.tick < n
    BY <1>2, <1>3
  <2> HIDE DEF n
  <2>3. p.net[n] = 0
    BY <1>3, <2>1, <2>2, AheadIs
  <2>4. Depth(p.net, n) = Depth(p.net, c) + 0 /\ Depth(p.net, c) \in Int
    BY <1>1, <1>2, <2>1, <2>3, DepthIs
  <2> QED
    BY <1>1, <2>4 DEF n
<1>4. CASE reached = {} /\ w.price = p.price
  <2>1. d = p.tick
    BY <1>4 DEF TickAfter
  <2>2. CASE c = p.tick
    BY <1>1, <1>2, <2>1, <2>2
  <2>3. CASE c # p.tick /\ aToB
    <3>1. c < LastTick /\ c + 1 <= p.tick /\ c + 1 \in CurrentTick
      BY <1>1, <1>2, <2>3, Ticks
    <3>2. SqrtAt[c + 1] <= SqrtAt[p.tick] /\ w.price <= SqrtAt[c + 1]
          /\ SqrtAt[p.tick] <= w.price /\ SqrtAt[c + 1] \in Nat
      BY <1>1, <1>2, <1>4, <3>1, Prices DEF Spans
    <3>3. SqrtAt[c + 1] = w.price /\ SqrtAt[p.tick] = SqrtAt[c + 1]
      BY <1>2, <3>2
    <3>4. c + 1 = p.tick
      BY <1>2, <3>1, <3>3, Prices
    <3>5. w.liq = Depth(p.net, c + 1)
      BY <1>3, <1>4, <2>3, <3>1, <3>3
    <3> QED
      BY <1>2, <1>4, <2>1, <3>4, <3>5
  <2>4. CASE c # p.tick /\ ~aToB
    <3>1. p.tick < LastTick /\ p.tick + 1 <= c /\ p.tick + 1 \in CurrentTick
      BY <1>1, <1>2, <2>4, Ticks
    <3>2. SqrtAt[p.tick + 1] <= SqrtAt[c] /\ w.price <= SqrtAt[p.tick + 1]
          /\ SqrtAt[c] <= w.price /\ SqrtAt[p.tick + 1] \in Nat
      BY <1>1, <1>2, <1>4, <3>1, Prices DEF Spans
    <3>3. SqrtAt[c] = w.price /\ SqrtAt[p.tick + 1] = SqrtAt[c]
      BY <1>2, <3>2
    <3>4. c = p.tick + 1
      BY <1>1, <3>1, <3>3, Prices
    <3>5. c \in Tick /\ c - 1 = p.tick /\ p.tick < c
      BY <1>1, <1>2, <3>4, Ticks
    <3>6. p.net[c] = 0
      BY <1>4, <2>4, <3>3, <3>5, AheadIs
    <3>7. Depth(p.net, c) = Depth(p.net, p.tick) + 0 /\ Depth(p.net, p.tick) \in Int
      BY <1>2, <3>5, <3>6, DepthIs
    <3> QED
      BY <1>1, <1>2, <1>4, <2>1, <3>7
  <2> QED
    BY <2>2, <2>3, <2>4
<1>5. CASE reached = {} /\ w.price # p.price
  <2> DEFINE At(t) == SqrtAt[t] <= w.price /\ (t < LastTick => w.price < SqrtAt[t + 1])
  <2>1. d = TickAt(w.price)
    BY <1>5 DEF TickAfter
  <2>2. CASE c < LastTick /\ w.price = SqrtAt[c + 1]
    <3> DEFINE n == c + 1
    <3>1. n \in CurrentTick /\ n \in Int /\ w.price = SqrtAt[n] /\ c < n
      BY <1>1, <1>2, <2>2, Ticks
    <3>2. IF aToB THEN n <= p.tick ELSE p.tick <= c
      <4>1. CASE aToB
        <5>1. c # p.tick
          <6>1. SUFFICES ASSUME c = p.tick PROVE FALSE
            OBVIOUS
          <6>2. p.price <= w.price /\ w.price <= p.price
            BY <1>2, <2>2, <4>1, <6>1 DEF Spans, Onward
          <6> QED
            BY <1>2, <1>5, <6>2
        <5> QED
          BY <1>1, <1>2, <4>1, <5>1
      <4>2. CASE ~aToB
        BY <1>1, <4>2
      <4> QED
        BY <4>1, <4>2
    <3>3. w.liq = Depth(p.net, n)
      BY <1>3, <1>5, <2>2, <3>2
    <3> HIDE DEF n
    <3>4. At(n)
      <4>1. SUFFICES ASSUME n < LastTick PROVE w.price < SqrtAt[n + 1]
        BY <1>2, <3>1
      <4>2. n + 1 \in CurrentTick /\ n < n + 1
        BY <3>1, <4>1, Ticks
      <4> QED
        BY <3>1, <4>2, Prices
    <3>5. ASSUME NEW t \in CurrentTick, At(t) PROVE t = n
      <4>1. t \in Int /\ SqrtAt[t] <= SqrtAt[n] /\ t <= LastTick /\ n <= LastTick
        BY <3>1, <3>5, Ticks
      <4>2. t <= n
        BY <3>1, <4>1, Prices
      <4>3. CASE t < n
        <5>1. t < LastTick /\ t + 1 \in CurrentTick /\ t + 1 <= n
          BY <1>2, <3>1, <4>1, <4>3, Ticks
        <5>2. SqrtAt[t + 1] <= SqrtAt[n] /\ SqrtAt[n] < SqrtAt[t + 1]
          BY <3>1, <3>5, <5>1, Prices
        <5>3. SqrtAt[t + 1] \in Nat /\ SqrtAt[n] \in Nat
          BY <3>1, <5>1, Prices
        <5> QED
          BY <5>2, <5>3
      <4> QED
        BY <3>1, <4>1, <4>2, <4>3
    <3>6. d = n
      BY <2>1, <3>1, <3>4, <3>5 DEF TickAt
    <3>7. Spans(n, w.price)
      <4>1. n < LastTick => SqrtAt[n + 1] \in Nat
        BY <3>1, Ticks, Prices
      <4> QED
        BY <1>2, <3>4, <4>1 DEF Spans
    <3> QED
      BY <3>1, <3>3, <3>6, <3>7
  <2>3. CASE ~(c < LastTick /\ w.price = SqrtAt[c + 1])
    <3>1. At(c)
      <4>1. c < LastTick => SqrtAt[c + 1] \in Nat
        BY <1>1, Ticks, Prices
      <4> QED
        BY <1>1, <1>2, <2>3, <4>1 DEF Spans
    <3>2. ASSUME NEW t \in CurrentTick, At(t) PROVE t = c
      <4>1. t \in Int /\ SqrtAt[t] \in Nat /\ t <= LastTick
        BY Ticks, Prices
      <4>2. CASE t < c
        <5>1. t < LastTick /\ t + 1 \in CurrentTick /\ t + 1 <= c
          BY <1>2, <4>1, <4>2, Ticks
        <5>2. SqrtAt[t + 1] <= SqrtAt[c] /\ w.price < SqrtAt[t + 1] /\ SqrtAt[c] <= w.price
          BY <1>1, <3>1, <3>2, <5>1, Prices
        <5>3. SqrtAt[t + 1] \in Nat
          BY <5>1, Prices
        <5> QED
          BY <1>2, <5>2, <5>3
      <4>3. CASE c < t
        <5>1. c < LastTick /\ c + 1 \in CurrentTick /\ c + 1 <= t
          BY <1>1, <1>2, <4>1, <4>3, Ticks
        <5>2. SqrtAt[c + 1] <= SqrtAt[t] /\ w.price < SqrtAt[c + 1] /\ SqrtAt[t] <= w.price
          BY <3>1, <3>2, <5>1, Prices
        <5>3. SqrtAt[c + 1] \in Nat
          BY <5>1, Prices
        <5> QED
          BY <1>2, <4>1, <5>2, <5>3
      <4> QED
        BY <1>2, <4>1, <4>2, <4>3
    <3>3. d = c
      BY <1>1, <2>1, <3>1, <3>2 DEF TickAt
    <3> QED
      BY <1>1, <3>3
  <2> QED
    BY <2>2, <2>3
<1>6. CASE reached # {}
  <2>1. PICK r \in reached : TRUE
    BY <1>6
  <2>2. /\ r \in Tick /\ r \in Int /\ r <= LastTick /\ r \in CurrentTick
        /\ SqrtAt[r] = w.price /\ IF aToB THEN c < r ELSE r <= c
    BY <1>1, <2>1, AheadIs, Ticks
  <2>3. reached = {r}
    <3>1. \A t \in reached : t \in CurrentTick /\ SqrtAt[t] = SqrtAt[r]
      BY <2>2, AheadIs, Ticks
    <3>2. \A t \in reached : t = r
      BY <2>2, <3>1, Prices
    <3> QED
      BY <2>1, <3>2
  <2>4. d = r - (IF aToB THEN 1 ELSE 0)
    <3>1. d = CHOOSE t \in {x - (IF aToB THEN 1 ELSE 0) : x \in reached} : TRUE
      BY <1>6 DEF TickAfter
    <3> HIDE DEF reached, d
    <3>2. {x - (IF aToB THEN 1 ELSE 0) : x \in reached} = {r - (IF aToB THEN 1 ELSE 0)}
      BY <2>3
    <3> DEFINE n == r - (IF aToB THEN 1 ELSE 0)
    <3>3. d = CHOOSE t \in {n} : TRUE
      BY <3>1, <3>2
    <3> HIDE DEF n
    <3>4. d = n
      BY <3>3
    <3> QED
      BY <3>4 DEF n
  <2>5. CASE aToB
    <3>1. c < LastTick /\ c + 1 \in CurrentTick /\ c + 1 <= r
      BY <1>1, <1>2, <2>2, <2>5, Ticks
    <3>2. SqrtAt[r] <= SqrtAt[c + 1]
      BY <1>1, <2>2, <3>1 DEF Spans
    <3>3. r <= c + 1
      BY <2>2, <3>1, <3>2, Prices
    <3>4. r - 1 = c
      BY <1>2, <2>2, <3>1, <3>3
    <3>5. d = c
      BY <2>4, <2>5, <3>4
    <3> QED
      BY <1>1, <3>5
  <2>6. CASE ~aToB
    <3>1. SqrtAt[c] <= SqrtAt[r]
      BY <1>1, <2>2 DEF Spans
    <3>2. c <= r
      BY <1>1, <2>2, <3>1, Prices
    <3>3. d = c
      BY <1>2, <2>2, <2>4, <2>6, <3>2
    <3> QED
      BY <1>1, <3>3
  <2> QED
    BY <2>5, <2>6
<1> QED
  BY <1>4, <1>5, <1>6

\* A swap leaves a sound pool as it is: price, tick and liquidity agree.
LEMMA SwapSound ==
  ASSUME NEW p, IsSound(p), NEW aToB \in BOOLEAN, NEW in \in Nat \ {0},
         VenueWalk(p, in, aToB).remaining = 0
  PROVE  LET q == AfterSwap(p, VenueWalk(p, in, aToB), aToB)
         IN  IsSound(q) /\ q.net = p.net /\ q.deposits = p.deposits
<1> DEFINE w == VenueWalk(p, in, aToB)
           q == AfterSwap(p, w, aToB)
           d == TickAfter(p, w, aToB)
<1>1. /\ w \in WalkState /\ w.price \in MinSqrtPrice .. MaxSqrtPrice
      /\ Onward(aToB, p.price, w.price) /\ w.remaining = 0
      /\ \E c : WithinTick(aToB, p, AheadOf(p, aToB), w, c)
  BY VenueEnds
<1> HIDE DEF w
<1>2. d \in CurrentTick /\ Spans(d, w.price) /\ w.liq = Depth(p.net, d)
  BY <1>1, TickAfterIs
<1>3. DOMAIN p = {"price", "tick", "liq", "net", "deposits"}
  BY DEF IsSound, IsPool
<1>4. q = [p EXCEPT !.price = w.price, !.liq = w.liq, !.tick = d]
  BY DEF AfterSwap, TickAfter
<1> HIDE DEF d, q
<1>5. /\ q.price = w.price /\ q.liq = w.liq /\ q.tick = d /\ q.net = p.net
      /\ q.deposits = p.deposits /\ DOMAIN q = DOMAIN p
  BY <1>3, <1>4
<1>6. IsSound(q)
  BY <1>1, <1>2, <1>3, <1>5 DEF IsSound, IsPool, WalkState
<1> QED
  BY <1>5, <1>6 DEF q, w

-----------------------------------------------------------------------------
(* The window *)

\* How many elements lie below t.
Rank(S, t) == Cardinality({s \in S : s < t})

\* What ranks are.
LEMMA Ranks ==
  ASSUME NEW S, S \subseteq Int, IsFiniteSet(S)
  PROVE  /\ \A t \in Int : Rank(S, t) \in Nat
         /\ \A s, t \in Int : s <= t => Rank(S, s) <= Rank(S, t)
<1>2. ASSUME NEW t \in Int PROVE Rank(S, t) \in Nat
  <2> DEFINE B == {s \in S : s < t}
  <2>1. IsFiniteSet(B)
    BY FS_Subset, Zenon
  <2>2. Cardinality(B) \in Nat
    BY <2>1, FS_CardinalityType
  <2> QED
    BY <2>2 DEF Rank
<1>3. ASSUME NEW s \in Int, NEW t \in Int, s <= t PROVE Rank(S, s) <= Rank(S, t)
  <2> DEFINE A == {x \in S : x < s}
             B == {x \in S : x < t}
  <2>1. A \subseteq B /\ B \subseteq S
    <3>1. \A x \in S : x \in Int
      OBVIOUS
    <3>2. \A x \in S : x < s => x < t
      BY <1>3, <3>1
    <3> QED
      BY <3>2
  <2>2. IsFiniteSet(B)
    BY <2>1, FS_Subset
  <2> HIDE DEF A, B
  <2>3. Cardinality(A) <= Cardinality(B)
    BY <2>1, <2>2, FS_Subset
  <2> QED
    BY <2>3 DEF Rank, A, B
<1> QED
  BY <1>2, <1>3

\* Every rank is some element's.
LEMMA RankExists ==
  ASSUME NEW S, S \subseteq Int, IsFiniteSet(S), NEW k \in Nat, k < Cardinality(S)
  PROVE  \E t \in S : Rank(S, t) = k
<1> DEFINE F == {s \in SUBSET S : k < Cardinality(s) /\ \A t \in s : Rank(s, t) # k}
<1>1. SUFFICES ASSUME F # {} PROVE FALSE
  BY Zenon
<1>2. PICK s \in F : \A x \in s : s \ {x} \notin F
  BY <1>1, MinimalSubset
<1>3. s \subseteq Int /\ IsFiniteSet(s) /\ k < Cardinality(s) /\ \A t \in s : Rank(s, t) # k
  BY <1>2, FS_Subset
<1>4. s # {} /\ Cardinality(s) \in Nat
  BY <1>3, FS_EmptySet, FS_CardinalityType
<1> DEFINE m == Max(s)
           r == s \ {m}
<1>5. m \in s /\ \A y \in s : y <= m
  BY <1>3, <1>4, MaxIs
<1> HIDE DEF m
<1>6. Cardinality(r) = Cardinality(s) - 1
  BY <1>3, <1>5, FS_RemoveElement
<1>7. r = {x \in s : x < m}
  <2>1. \A x \in s : x \in Int /\ m \in Int
    BY <1>3, <1>5
  <2>2. \A x \in s : x < m <=> x # m
    BY <1>5, <2>1
  <2> QED
    BY <2>2
<1>8. Rank(s, m) = Cardinality(s) - 1
  BY <1>6, <1>7 DEF Rank
<1>9. k < Cardinality(r)
  BY <1>3, <1>4, <1>5, <1>6, <1>8
<1>10. r \notin F /\ r \subseteq S
  BY <1>2, <1>5
<1>11. PICK t \in r : Rank(r, t) = k
  BY <1>9, <1>10
<1>12. {x \in r : x < t} = {x \in s : x < t}
  BY <1>3, <1>5, <1>11
<1>13. Rank(s, t) = k /\ t \in s
  BY <1>11, <1>12 DEF Rank
<1> QED
  BY <1>3, <1>13

\* A window W of ticks without gaps.
IsWindow(W, ts) ==
  /\ W # {} /\ W \subseteq ts
  /\ \A s, t \in W, r \in ts : s <= r /\ r <= t => r \in W

\* What select_window picks is a window without gaps.
LEMMA WindowIs ==
  ASSUME NEW ts, ts \subseteq Tick, ts # {}, NEW center \in CurrentTick
  PROVE  IsWindow(SelectWindow(ts, center), ts)
<1> DEFINE n    == Cardinality(ts)
           pos  == Rank(ts, center)
           from == IF pos > Window \div 2 THEN pos - Window \div 2 ELSE 0
           end  == IF from + Window < n THEN from + Window ELSE n
           W    == {t \in ts : end - Window <= Rank(ts, t) /\ Rank(ts, t) < end}
<1>1. IsFiniteSet(ts) /\ ts \subseteq Int /\ center \in Int
  <2>1. IsFiniteSet(Tick) /\ Tick \subseteq Int
    BY PoolAssumption, FS_Interval DEF Tick
  <2> QED
    BY <2>1, FS_Subset, Ticks
<1>2. n \in Nat /\ pos \in Nat /\ Window \in Nat \ {0}
  <2>1. n \in Nat /\ Window \in Nat \ {0}
    BY <1>1, FS_CardinalityType, PoolAssumption
  <2>2. pos \in Nat
    BY <1>1, Ranks
  <2> QED
    BY <2>1, <2>2
<1>3. SelectWindow(ts, center) = IF n <= Window THEN ts ELSE W
  BY DEF SelectWindow, Rank
<1>4. CASE n <= Window
  BY <1>3, <1>4 DEF IsWindow
<1>5. CASE ~(n <= Window)
  <2> HIDE DEF n, pos
  <2>1. from \in Nat
    <3>1. Window \div 2 \in Nat
      BY <1>2
    <3> QED
      BY <1>2, <3>1
  <2> HIDE DEF from
  <2>2. end \in Nat /\ end - Window \in Nat /\ end - Window < n /\ end - Window < end
    BY <1>2, <1>5, <2>1
  <2> HIDE DEF end
  <2>3. PICK t \in ts : Rank(ts, t) = end - Window
    BY <1>1, <2>2, RankExists DEF n
  <2>4. t \in W
    BY <2>2, <2>3
  <2>5. ASSUME NEW a \in W, NEW b \in W, NEW r \in ts, a <= r, r <= b PROVE r \in W
    <3>1. a \in Int /\ b \in Int /\ r \in Int
      BY <1>1
    <3>2. Rank(ts, a) <= Rank(ts, r) /\ Rank(ts, r) <= Rank(ts, b)
      BY <1>1, <2>5, <3>1, Ranks
    <3>3. Rank(ts, a) \in Nat /\ Rank(ts, r) \in Nat /\ Rank(ts, b) \in Nat
      BY <1>1, <3>1, Ranks
    <3> QED
      BY <1>2, <2>2, <2>5, <3>2, <3>3
  <2>6. SelectWindow(ts, center) = W
    BY <1>3, <1>5
  <2> HIDE DEF W
  <2>7. W \subseteq ts
    BY DEF W
  <2> QED
    BY <2>4, <2>5, <2>6, <2>7, Zenon DEF IsWindow
<1> QED
  BY <1>4, <1>5

-----------------------------------------------------------------------------
(* The invariant: every pool read is sound, every boundary is a price *)

\* Ticks a walk can go over.
Loaded(ts) == ts # {} /\ ts \subseteq Bounds /\ IsFiniteSet(ts)

\* The inductive invariant: TypeOK with the soundness of every pool read and cached
\* boundaries that are prices of their own.
ObjectOK == object # None => IsSound(object)

NamesOK == names # None => /\ names.ticks \in (SUBSET Tick) \ {{}}
                           /\ names.at \in 0 .. MaxDeposits
                           /\ object # None

IsCached(c) == Loaded(c.ticks) /\ c.at \in 0 .. Torn

CacheOK == tickCache # None => IsCached(tickCache)

SnapshotOK == snapshot # None => IsSound(snapshot.object) /\ IsCached(snapshot)

TypesInv ==
  /\ IsSound(pool) /\ ObjectOK /\ NamesOK /\ CacheOK /\ SnapshotOK
  /\ discovery \in BOOLEAN /\ trades \in 0 .. MaxTrades

\* The invariant implies the type invariant.
LEMMA TypesInvTypes ==
  ASSUME TypesInv
  PROVE  TypeOK
<1>1. \A ts : Loaded(ts) => IsTicks(ts)
  <2>1. \A b \in Bounds : b \in Boundary
    BY DEF Bounds, Boundary
  <2> QED
    BY <2>1 DEF Loaded, IsTicks
<1>2. \A p : IsSound(p) => IsPool(p)
  BY DEF IsSound
<1> QED
  BY <1>1, <1>2 DEF TypesInv, ObjectOK, NamesOK, CacheOK, SnapshotOK, IsCached, TypeOK

\* Publishing the cached ticks keeps the invariant.
LEMMA PublishTypes ==
  ASSUME TypesInv, object # None, NEW c, c # None => IsCached(c), Publish(c)
  PROVE  ObjectOK' /\ NamesOK' /\ SnapshotOK'
<1>1. object' = None /\ names' = None
      /\ snapshot' = IF c = None THEN snapshot
                     ELSE [object |-> object, ticks |-> c.ticks, at |-> c.at]
  BY DEF Publish
<1>2. ObjectOK' /\ NamesOK'
  BY <1>1 DEF ObjectOK, NamesOK
<1>3. SnapshotOK'
  <2>1. CASE c = None
    BY <1>1, <2>1 DEF TypesInv, SnapshotOK
  <2>2. CASE c # None
    <3>1. snapshot'.object = object /\ snapshot'.ticks = c.ticks /\ snapshot'.at = c.at
      BY <1>1, <2>2
    <3>2. IsSound(object) /\ IsCached(c)
      BY <2>2 DEF TypesInv, ObjectOK
    <3> QED
      BY <3>1, <3>2 DEF SnapshotOK, IsCached
  <2> QED
    BY <2>1, <2>2
<1> QED
  BY <1>2, <1>3

\* A boundary price, exact or derived, is a price.
LEMMA BoundaryPricePositive ==
  ASSUME IsSound(object), NEW t \in Tick
  PROVE  BoundaryPrice(t) \in Nat \ {0}
<1> DEFINE a == SqrtAt[t]
           d == SqrtAt[object.tick]
           p == object.price
<1>1. a \in Nat \ {0} /\ d \in Nat \ {0} /\ p \in Nat /\ d <= p
  BY SoundPool, Ticks, Prices DEF Spans
<1> HIDE DEF a, d, p
<1>2. (p * a) \div d \in Nat \ {0}
  <2> DEFINE n == p * a
             q == n \div d
  <2>1. n \in Nat
    BY <1>1, ProductNat
  <2>2. n >= d
    <3>1. PICK e \in Nat : p = d + e
      BY <1>1
    <3>2. PICK m \in Nat : a = 1 + m
      <4>1. a - 1 \in Nat /\ a = 1 + (a - 1)
        BY <1>1
      <4> QED
        BY <4>1
    <3>3. d * m \in Nat /\ e * a \in Nat
      BY <1>1, <3>1, <3>2, ProductNat
    <3>4. n = d + d * m + e * a
      BY <1>1, <3>1, <3>2
    <3> QED
      BY <1>1, <3>3, <3>4
  <2> HIDE DEF n
  <2>3. q \in Nat /\ n < d * q + d
    BY <1>1, <2>1, FloorBounds
  <2> HIDE DEF q
  <2>4. q # 0
    BY <1>1, <2>1, <2>2, <2>3
  <2> QED
    BY <2>3, <2>4 DEF q, n
<1>3. BoundaryPrice(t) = IF TickSource = "Cetus" THEN a ELSE (p * a) \div d
  BY DEF BoundaryPrice, a, d, p
<1> QED
  BY <1>1, <1>2, <1>3

\* The initial states satisfy the invariant.
LEMMA TypesInit ==
  ASSUME Init
  PROVE  TypesInv
  BY InitialAssumption, PoolAssumption
     DEF Init, TypesInv, ObjectOK, NamesOK, CacheOK, SnapshotOK

\* A swap of others keeps the invariant.
LEMMA TypesTrade ==
  ASSUME TypesInv, NEW in \in TradeSize, NEW aToB \in BOOLEAN, Trade(in, aToB)
  PROVE  TypesInv'
<1>1. /\ trades < MaxTrades /\ trades' = trades + 1
      /\ VenueWalk(pool, in, aToB).remaining = 0
      /\ pool' = AfterSwap(pool, VenueWalk(pool, in, aToB), aToB)
      /\ object' = object /\ names' = names /\ tickCache' = tickCache
      /\ snapshot' = snapshot /\ discovery' = discovery
  BY DEF Trade
<1>2. in \in Nat \ {0} /\ MaxTrades \in Nat
  BY PoolAssumption
<1>3. IsSound(pool)
  BY DEF TypesInv
<1>4. IsSound(pool')
  BY <1>1, <1>2, <1>3, SwapSound
<1>5. trades' \in 0 .. MaxTrades
  BY <1>1, <1>2 DEF TypesInv
<1> QED
  BY <1>1, <1>4, <1>5 DEF TypesInv, ObjectOK, NamesOK, CacheOK, SnapshotOK

\* A position covers a range that has its price in it.
LEMMA DepositSound ==
  ASSUME IsSound(pool), NEW pos \in Positions, NEW sign \in {-1, 1}, Deposit(pos, sign)
  PROVE  IsSound(pool') /\ pool'.deposits = pool.deposits + 1
<1> DEFINE l   == sign * pos.liq
           net == [pool.net EXCEPT ![pos.lower] = @ + l, ![pos.upper] = @ - l]
           in  == pos.lower <= pool.tick /\ pool.tick < pos.upper
           liq == IF in THEN pool.liq + l ELSE pool.liq
<1>1. /\ pos.lower \in Tick /\ pos.upper \in Tick /\ pos.lower < pos.upper /\ pos.liq \in Nat
      /\ MaxDeposits \in Nat
  BY PoolAssumption
<1>2. l \in Int
  BY <1>1
<1>3. /\ pool.deposits < MaxDeposits /\ \A t \in Tick : Depth(net, t) >= 0
      /\ pool' = [pool EXCEPT !.net = net, !.liq = liq, !.deposits = @ + 1]
  BY DEF Deposit
<1>4. /\ pool.net \in [Tick -> Int] /\ pool.tick \in CurrentTick /\ pool.liq \in Nat
      /\ pool.liq = Depth(pool.net, pool.tick) /\ Spans(pool.tick, pool.price)
  BY SoundPool
<1>5. /\ pool.deposits \in 0 .. MaxDeposits /\ pool.price \in MinSqrtPrice .. MaxSqrtPrice
      /\ DOMAIN pool = {"price", "tick", "liq", "net", "deposits"}
  BY DEF IsSound, IsPool
<1>6. net \in [Tick -> Int]
      /\ Depth(net, pool.tick) = Depth(pool.net, pool.tick) + (IF in THEN l ELSE 0)
  <2> DEFINE a == pos.lower
             b == pos.upper
             e == pool.net
             after == Moved(e, a, b, l)
             t == pool.tick
  <2>1. a \in Tick /\ b \in Tick /\ a < b /\ e \in [Tick -> Int] /\ t \in CurrentTick
    BY <1>1, <1>4
  <2> HIDE DEF a, b, e, l, t
  <2>2. after \in [Tick -> Int]
        /\ Depth(after, t) = Depth(e, t) + (IF a <= t /\ t < b THEN l ELSE 0)
    <3>1. /\ after \in [Tick -> Int]
          /\ \A x \in CurrentTick :
               Depth(after, x) = Depth(e, x) + (IF a <= x /\ x < b THEN l ELSE 0)
      BY <1>2, <2>1, DepthDeposit
    <3> HIDE DEF after
    <3> QED
      BY <2>1, <3>1
  <2> HIDE DEF after
  <2>3. net = after
    BY DEF after, Moved, a, b, e
  <2> QED
    BY <2>2, <2>3 DEF t, a, b, e
<1> HIDE DEF l, net
<1>7. liq = Depth(net, pool.tick)
  BY <1>2, <1>4, <1>6
<1> HIDE DEF liq, in
<1>8. Depth(net, pool.tick) \in Nat
  <2>1. Depth(net, -1) = 0 /\ Depth(net, pool.tick) \in Int
    BY <1>4, <1>6, DepthIs
  <2>2. pool.tick = -1 \/ pool.tick \in Tick
    BY <1>4, Ticks
  <2> QED
    BY <1>3, <2>1, <2>2
<1>9. /\ pool'.price = pool.price /\ pool'.tick = pool.tick /\ pool'.liq = liq
      /\ pool'.net = net /\ pool'.deposits = pool.deposits + 1
      /\ DOMAIN pool' = {"price", "tick", "liq", "net", "deposits"}
  BY <1>3, <1>5
<1>10. pool.deposits + 1 \in 0 .. MaxDeposits
  BY <1>1, <1>3, <1>5
<1>11. IsPool(pool')
  BY <1>4, <1>5, <1>6, <1>7, <1>8, <1>9, <1>10 DEF IsPool
<1> QED
  BY <1>3, <1>4, <1>7, <1>9, <1>11 DEF IsSound

\* A move of liquidity keeps the invariant.
LEMMA TypesDeposit ==
  ASSUME TypesInv, NEW pos \in Positions, NEW sign \in {-1, 1}, Deposit(pos, sign)
  PROVE  TypesInv'
<1>1. UNCHANGED <<object, names, tickCache, snapshot, discovery, trades>>
  BY DEF Deposit
<1>2. IsSound(pool')
  BY DepositSound DEF TypesInv
<1> QED
  BY <1>1, <1>2 DEF TypesInv, ObjectOK, NamesOK, CacheOK, SnapshotOK

\* The ticks fetched are priced.
LEMMA FetchedLoaded ==
  ASSUME TypesInv, object # None, NEW ts, ts \subseteq Tick, ts # {}
  PROVE  Loaded({[price |-> BoundaryPrice(t), net |-> pool.net[t]] : t \in ts})
<1> DEFINE S == {[price |-> BoundaryPrice(t), net |-> pool.net[t]] : t \in ts}
<1>1. \A t \in ts : BoundaryPrice(t) \in Nat \ {0}
  BY BoundaryPricePositive DEF TypesInv, ObjectOK
<1>2. \A t \in ts : pool.net[t] \in Int
  BY SoundPool DEF TypesInv
<1>3. S \subseteq Bounds
  BY <1>1, <1>2 DEF Bounds
<1>4. IsFiniteSet(S)
  <2>1. IsFiniteSet(ts)
    <3>1. IsFiniteSet(Tick)
      BY PoolAssumption, FS_Interval DEF Tick
    <3> QED
      BY <3>1, FS_Subset
  <2> DEFINE f == [t \in ts |-> [price |-> BoundaryPrice(t), net |-> pool.net[t]]]
  <2>2. f \in Surjection(ts, S)
    BY DEF Surjection
  <2> HIDE DEF S
  <2> QED
    BY <2>1, <2>2, FS_Surjection
<1>5. S # {}
  OBVIOUS
<1> HIDE DEF S
<1>6. Loaded(S)
  BY <1>3, <1>4, <1>5 DEF Loaded
<1> QED
  BY <1>6 DEF S

\* The second half of a load keeps the invariant.
LEMMA TypesFetch ==
  ASSUME TypesInv, FetchTicks
  PROVE  TypesInv'
<1> DEFINE ts == names.ticks \intersect Initialized(pool)
           c  == [ticks |-> {[price |-> BoundaryPrice(t), net |-> pool.net[t]] : t \in ts},
                  at |-> IF names.at = pool.deposits THEN names.at ELSE Torn]
<1>1. /\ names # None /\ ts # {} /\ tickCache' = c /\ Publish(c)
      /\ pool' = pool /\ discovery' = discovery /\ trades' = trades
  BY DEF FetchTicks
<1>2. object # None /\ names.at \in 0 .. MaxDeposits /\ ts \subseteq Tick /\ MaxDeposits \in Nat
  BY <1>1, PoolAssumption DEF TypesInv, NamesOK
<1>3. Loaded({[price |-> BoundaryPrice(t), net |-> pool.net[t]] : t \in ts})
  <2> HIDE DEF ts
  <2> QED
    BY <1>1, <1>2, FetchedLoaded
<1>4. c.ticks = {[price |-> BoundaryPrice(t), net |-> pool.net[t]] : t \in ts}
      /\ c.at \in 0 .. Torn
  BY <1>2 DEF Torn
<1> HIDE DEF c, ts
<1>5. IsCached(c)
  BY <1>3, <1>4 DEF IsCached
<1>6. ObjectOK' /\ NamesOK' /\ SnapshotOK'
  BY <1>1, <1>2, <1>5, PublishTypes
<1>7. CacheOK'
  BY <1>1, <1>5 DEF CacheOK
<1> QED
  BY <1>1, <1>6, <1>7 DEF TypesInv

\* Every step keeps the invariant.
LEMMA TypesNext ==
  ASSUME TypesInv, [Next]_vars
  PROVE  TypesInv'
<1>1. CASE UNCHANGED vars
  BY <1>1 DEF vars, TypesInv, ObjectOK, NamesOK, CacheOK, SnapshotOK
<1>2. ASSUME NEW in \in TradeSize, NEW aToB \in BOOLEAN, Trade(in, aToB) PROVE TypesInv'
  BY <1>2, TypesTrade
<1>3. ASSUME NEW pos \in Positions, NEW sign \in {-1, 1}, Deposit(pos, sign) PROVE TypesInv'
  BY <1>3, TypesDeposit
<1>4. ASSUME NEW refetch \in BOOLEAN, ReadPool(refetch) PROVE TypesInv'
  BY <1>4 DEF ReadPool, TypesInv, ObjectOK, NamesOK, CacheOK, SnapshotOK
<1>5. ASSUME Publish(tickCache), object # None, UNCHANGED <<pool, tickCache, discovery, trades>>
      PROVE  TypesInv'
  <2>1. tickCache # None => IsCached(tickCache)
    BY DEF TypesInv, CacheOK
  <2>2. ObjectOK' /\ NamesOK' /\ SnapshotOK'
    BY <1>5, <2>1, PublishTypes
  <2> QED
    BY <1>5, <2>2 DEF TypesInv, CacheOK
<1>6. CASE FastRefresh
  BY <1>5, <1>6 DEF FastRefresh
<1>7. CASE ListTicks
  <2> DEFINE W == SelectWindow(Initialized(pool), object.tick)
  <2>1. /\ object # None /\ Initialized(pool) # {}
        /\ names' = [ticks |-> W, at |-> pool.deposits]
        /\ UNCHANGED <<pool, object, tickCache, snapshot, discovery, trades>>
    BY <1>7 DEF ListTicks, Refetches
  <2>2. object.tick \in CurrentTick /\ pool.deposits \in 0 .. MaxDeposits
    BY <2>1 DEF TypesInv, ObjectOK, IsSound, IsPool
  <2>3. Initialized(pool) \subseteq Tick
    BY DEF Initialized
  <2>4. W # {} /\ W \subseteq Tick
    BY <2>1, <2>2, <2>3, WindowIs DEF IsWindow
  <2> HIDE DEF W
  <2>5. NamesOK'
    <3>1. names'.ticks = W /\ names'.at = pool.deposits /\ object' # None
      BY <2>1
    <3>2. W \in (SUBSET Tick) \ {{}}
      BY <2>4
    <3> QED
      BY <2>2, <3>1, <3>2 DEF NamesOK
  <2> QED
    BY <2>1, <2>5 DEF TypesInv, ObjectOK, CacheOK, SnapshotOK
<1>8. CASE FetchTicks
  BY <1>8, TypesFetch
<1>9. CASE RetryTicks
  BY <1>9 DEF RetryTicks, TypesInv, ObjectOK, NamesOK, CacheOK, SnapshotOK
<1>10. CASE LoadFails
  BY <1>5, <1>10 DEF LoadFails, Refetches
<1> QED
  BY <1>1, <1>2, <1>3, <1>4, <1>6, <1>7, <1>8, <1>9, <1>10 DEF Next

\* The invariant always holds.
LEMMA TypesAlways == Spec => []TypesInv
<1>1. Init => TypesInv
  BY TypesInit
<1>2. TypesInv /\ [Next]_vars => TypesInv'
  BY TypesNext
<1> QED
  BY <1>1, <1>2, PTL DEF Spec

\* Every variable keeps its type, and the indexer caches and publishes no empty tick
\* list (indexer.rs: "we never fall back to empty ticks").
THEOREM ClmmTypes == Spec => []TypeOK
<1>1. TypesInv => TypeOK
  BY TypesInvTypes
<1> QED
  BY <1>1, TypesAlways, PTL

\* However far swaps run, the pool's liquidity is what the ticks up to the current one
\* add up to: each crossing (apply_net) adds or takes the right side's share.
THEOREM SwapsKeepLiquidity == Spec => []LiquidityIsDepth
<1>1. TypesInv => LiquidityIsDepth
  BY SoundPool DEF TypesInv, LiquidityIsDepth
<1> QED
  BY <1>1, TypesAlways, PTL

\* A quote within one range never exceeds the curve, at every snapshot.
LEMMA RangeQuote ==
  ASSUME NEW p \in MinSqrtPrice .. MaxSqrtPrice, NEW l \in Nat, NEW in \in Nat \ {0},
         NEW aToB \in BOOLEAN
  PROVE  LET q == QuoteExactIn({}, p, l, FeePips, in, aToB)
             a == LessFee(in, FeePips)
         IN  q # None =>
               IF aToB THEN q * Q64 * (l * Q64 + a * p) <= l * p * p * a
                       ELSE q * p * (l * p + a * Q64) <= l * Q64 * Q64 * a
<1> DEFINE q == QuoteExactIn({}, p, l, FeePips, in, aToB)
           a == LessFee(in, FeePips)
           b == [price |-> IF aToB THEN MinSqrtPrice ELSE MaxSqrtPrice, net |-> 0]
           w == Start(p, l, in)
           n == b.price
           s == SwapStep(p, n, l, in, FeePips, aToB)
<1>1. /\ MinSqrtPrice \in Nat \ {0} /\ MaxSqrtPrice \in Nat /\ Q64 \in Nat \ {0}
      /\ FeePips \in 0 .. PipsDenom - 1 /\ PipsDenom \in Nat /\ p \in Nat \ {0}
  BY ClmmAssumption, PoolAssumption
<1>2. SUFFICES ASSUME q # None
      PROVE  IF aToB THEN q * Q64 * (l * Q64 + a * p) <= l * p * p * a
                     ELSE q * p * (l * p + a * Q64) <= l * Q64 * Q64 * a
  OBVIOUS
<1>3. l # 0 /\ q = Cross(FeePips, aToB, w, b).out
  BY <1>1, <1>2 DEF QuoteExactIn, FitsU64
<1>4. Cross(FeePips, aToB, w, b).out = s.out
  <2>1. w.going /\ w.remaining = in /\ w.price = p /\ w.liq = l /\ w.out = 0
    BY DEF Start
  <2>2. Cross(FeePips, aToB, w, b).out = 0 + s.out
    BY <2>1 DEF Cross
  <2>3. s.out \in Nat
    <3>1. n \in Nat \ {0} /\ Onward(aToB, p, n)
      BY <1>1 DEF Onward
    <3> HIDE DEF n, b
    <3>2. StepFits(s, p, n, in, aToB)
      BY <1>1, <3>1, StepTyped
    <3> QED
      BY <3>2 DEF StepFits
  <2> HIDE DEF s
  <2> QED
    BY <2>2, <2>3
<1>5. a \in Nat
  BY <1>1, LessFeeWithin
<1>6. n \in Nat \ {0} /\ (p = n \/ IF aToB THEN n < p ELSE p < n)
  BY <1>1
<1>7. q = s.out
  BY <1>3, <1>4
<1> HIDE DEF q, n, b, w, a
<1>8. CASE p = n
  <2>1. q = 0
    <3>1. s.out = 0
      BY <1>1, <1>6, <1>8, FreeStep
    <3> HIDE DEF s
    <3> QED
      BY <1>7, <3>1
  <2>2. l * p * p * a \in Nat /\ l * Q64 * Q64 * a \in Nat
    <3>1. l * p \in Nat /\ l * Q64 \in Nat
      BY <1>1, ProductNat
    <3>2. l * p * p \in Nat /\ l * Q64 * Q64 \in Nat
      BY <1>1, <3>1, ProductNat
    <3> QED
      BY <1>5, <3>2, ProductNat
  <2>3. l * Q64 + a * p \in Nat /\ l * p + a * Q64 \in Nat
    <3>1. l * Q64 \in Nat /\ a * p \in Nat /\ l * p \in Nat /\ a * Q64 \in Nat
      BY <1>1, <1>5, ProductNat
    <3> QED
      BY <3>1
  <2>4. 0 * Q64 * (l * Q64 + a * p) = 0 /\ 0 * p * (l * p + a * Q64) = 0
    <3>1. 0 * Q64 = 0 /\ 0 * p = 0
      BY <1>1
    <3> DEFINE x == l * Q64 + a * p
               y == l * p + a * Q64
    <3>2. x \in Nat /\ y \in Nat
      BY <2>3
    <3> HIDE DEF x, y
    <3>3. 0 * x = 0 /\ 0 * y = 0
      BY <3>2
    <3> QED
      BY <3>1, <3>3 DEF x, y
  <2> DEFINE A == l * p * p * a
             B == l * Q64 * Q64 * a
  <2>5. A >= 0 /\ B >= 0
    BY <2>2
  <2>6. q * Q64 * (l * Q64 + a * p) = 0 /\ q * p * (l * p + a * Q64) = 0
    BY <2>1, <2>4
  <2> HIDE DEF A, B
  <2> QED
    BY <2>5, <2>6 DEF A, B
<1>9. CASE p # n
  <2>1. l \in Nat \ {0} /\ IF aToB THEN n < p ELSE p < n
    BY <1>3, <1>6, <1>9
  <2>2. /\ aToB => (s.out * Q64) * (l * Q64 + a * p) <= l * ((a * p) * p)
        /\ ~aToB => (s.out * p) * (l * p + a * Q64) <= (l * Q64) * (a * Q64)
    BY <1>1, <1>6, <2>1, StepNeverOverstated DEF a
  <2> HIDE DEF s
  <2>3. l * ((a * p) * p) = l * p * p * a /\ (l * Q64) * (a * Q64) = l * Q64 * Q64 * a
    BY <1>1, <1>5
  <2> QED
    BY <1>7, <2>2, <2>3
<1> QED
  BY <1>8, <1>9 DEF q, a

\* On any reachable snapshot a quote within one range is at most what the curve pays,
\* before any rounding, for what the fee leaves of the input (compute_swap_step).
THEOREM QuotesNeverOverstated == Spec => []NeverOverstated
<1>1. ASSUME TypesInv PROVE NeverOverstated
  <2>1. SUFFICES ASSUME snapshot # None, NEW in \in QuoteSize, NEW aToB \in BOOLEAN
        PROVE  LET p == snapshot.object.price
                   l == snapshot.object.liq
                   q == QuoteExactIn({}, p, l, FeePips, in, aToB)
                   a == LessFee(in, FeePips)
               IN  q # None =>
                     IF aToB THEN q * Q64 * (l * Q64 + a * p) <= l * p * p * a
                             ELSE q * p * (l * p + a * Q64) <= l * Q64 * Q64 * a
    BY Zenon DEF NeverOverstated
  <2> DEFINE p == snapshot.object.price
             l == snapshot.object.liq
  <2>2. p \in MinSqrtPrice .. MaxSqrtPrice /\ l \in Nat /\ in \in Nat \ {0}
    BY <1>1, <2>1, PoolAssumption DEF TypesInv, SnapshotOK, IsSound, IsPool
  <2> HIDE DEF p, l
  <2>3. LET q == QuoteExactIn({}, p, l, FeePips, in, aToB)
            a == LessFee(in, FeePips)
        IN  q # None =>
              IF aToB THEN q * Q64 * (l * Q64 + a * p) <= l * p * p * a
                      ELSE q * p * (l * p + a * Q64) <= l * Q64 * Q64 * a
    BY <2>2, RangeQuote, Zenon
  <2> QED
    BY <2>3, Zenon DEF p, l
<1> QED
  BY <1>1, TypesAlways, PTL

-----------------------------------------------------------------------------
(* More input: further, and more output *)

\* k times the divisor fit into the dividend.
LEMMA FloorAtLeast ==
  ASSUME NEW n \in Nat, NEW d \in Nat \ {0}, NEW k \in Int, d * k <= n
  PROVE  k <= n \div d
<1>1. n \div d \in Nat /\ n < d * (n \div d) + d
  BY FloorBounds
<1>2. d * k < d * (n \div d + 1)
  BY <1>1
<1>3. k < n \div d + 1
  BY <1>1, <1>2, CancelFactor
<1> QED
  BY <1>1, <1>3

\* More to divide, no less each.
LEMMA FloorGrows ==
  ASSUME NEW m \in Nat, NEW n \in Nat, NEW d \in Nat \ {0}, m <= n
  PROVE  m \div d <= n \div d
<1>1. m \div d \in Nat /\ d * (m \div d) <= m
  BY FloorBounds
<1>2. d * (m \div d) <= n
  BY <1>1
<1> QED
  BY <1>1, <1>2, FloorAtLeast

\* More to divide by, no more each.
LEMMA CeilShrinks ==
  ASSUME NEW n \in Nat, NEW c \in Nat \ {0}, NEW d \in Nat \ {0}, c <= d
  PROVE  CeilDiv(n, d) <= CeilDiv(n, c)
<1> DEFINE k == CeilDiv(n, c)
<1>1. k \in Nat /\ n <= c * k
  BY CeilBounds
<1> HIDE DEF k
<1>2. k * c <= k * d
  BY <1>1, Multiply
<1>3. n <= k * d
  BY <1>1, <1>2
<1>4. CeilDiv(n, d) <= k
  BY <1>1, <1>3, CeilAtMost
<1> QED
  BY <1>4 DEF k

\* More remains of more.
LEMMA LessFeeGrows ==
  ASSUME NEW m \in Nat, NEW n \in Nat, NEW fee \in 0 .. PipsDenom - 1, m <= n
  PROVE  LessFee(m, fee) <= LessFee(n, fee)
<1> DEFINE r == PipsDenom - fee
<1>1. r \in Nat /\ PipsDenom \in Nat \ {0}
  BY ClmmAssumption
<1> HIDE DEF r
<1>2. m * r <= n * r /\ m * r \in Nat /\ n * r \in Nat
  BY <1>1, Multiply, ProductNat
<1>3. (m * r) \div PipsDenom <= (n * r) \div PipsDenom
  BY <1>1, <1>2, FloorGrows
<1> QED
  BY <1>3 DEF LessFee, r

\* More input pushes the price further.
LEMMA NextGrows ==
  ASSUME NEW cur \in Nat \ {0}, NEW target \in Nat \ {0}, NEW l \in Nat \ {0},
         NEW a \in Nat, NEW b \in Nat, a <= b, NEW aToB \in BOOLEAN,
         IF aToB THEN target < cur ELSE cur < target
  PROVE  Onward(aToB, StepNext(cur, target, l, a, aToB), StepNext(cur, target, l, b, aToB))
<1> DEFINE m == StepNext(cur, target, l, a, aToB)
           n == StepNext(cur, target, l, b, aToB)
           c == StepCost(cur, target, l, aToB)
<1>1. /\ m \in Nat /\ (aToB => target <= m) /\ (~aToB => m <= target)
  BY StepCovered
<1>2. c \in Nat /\ Q64 \in Nat \ {0}
  BY CostNat, ClmmAssumption DEF Onward
<1>3. /\ m = IF a >= c THEN target
             ELSE IF aToB THEN NextSqrtFromAmount0In(cur, l, a)
                          ELSE NextSqrtFromAmount1In(cur, l, a)
      /\ n = IF b >= c THEN target
             ELSE IF aToB THEN NextSqrtFromAmount0In(cur, l, b)
                          ELSE NextSqrtFromAmount1In(cur, l, b)
  BY DEF StepNext
<1>0. SUFFICES Onward(aToB, m, n)
  OBVIOUS
<1> HIDE DEF m, n, c
<1>4. CASE b >= c
  BY <1>1, <1>3, <1>4 DEF Onward
<1>5. CASE ~(b >= c) /\ aToB
  <2> DEFINE x == l * Q64 * cur
             d == l * Q64 + a * cur
             e == l * Q64 + b * cur
  <2>1. l * Q64 \in Nat \ {0} /\ a * cur \in Nat /\ b * cur \in Nat /\ a * cur <= b * cur
    BY <1>2, ProductPositive, ProductNat, Multiply
  <2>2. x \in Nat /\ d \in Nat \ {0} /\ e \in Nat \ {0} /\ d <= e
    BY <2>1, ProductNat
  <2> HIDE DEF x, d, e
  <2>3. CeilDiv(x, e) <= CeilDiv(x, d)
    BY <2>2, CeilShrinks
  <2>4. m = CeilDiv(x, d) /\ n = CeilDiv(x, e)
    BY <1>2, <1>3, <1>5 DEF NextSqrtFromAmount0In, x, d, e
  <2> QED
    BY <1>5, <2>3, <2>4 DEF Onward
<1>6. CASE ~(b >= c) /\ ~aToB
  <2>1. a * Q64 \in Nat /\ b * Q64 \in Nat /\ a * Q64 <= b * Q64
    BY <1>2, ProductNat, Multiply
  <2> DEFINE x == (a * Q64) \div l
             y == (b * Q64) \div l
  <2>2. x <= y /\ x \in Nat /\ y \in Nat
    BY <2>1, FloorGrows, FloorBounds
  <2>3. m = cur + x /\ n = cur + y
    BY <1>2, <1>3, <1>6 DEF NextSqrtFromAmount1In
  <2> HIDE DEF x, y
  <2> QED
    BY <1>6, <2>2, <2>3 DEF Onward
<1> QED
  BY <1>4, <1>5, <1>6

\* Going down further pays no less,
LEMMA OutDown ==
  ASSUME NEW cur \in Nat \ {0}, NEW m \in Nat \ {0}, NEW n \in Nat \ {0}, NEW l \in Nat,
         m <= cur, n <= m
  PROVE  Amount1Delta(m, cur, l, FALSE) <= Amount1Delta(n, cur, l, FALSE)
<1> DEFINE x == l * (cur - m)
           y == l * (cur - n)
<1>1. cur - m \in Nat /\ cur - n \in Nat /\ cur - m <= cur - n /\ Q64 \in Nat \ {0}
  BY ClmmAssumption
<1>2. x \in Nat /\ y \in Nat /\ x <= y
  BY <1>1, ProductNat, Multiply
<1> HIDE DEF x, y
<1>3. x \div Q64 <= y \div Q64
  BY <1>1, <1>2, FloorGrows
<1> QED
  BY <1>3 DEF Amount1Delta, Rounded, x, y

\* and so does going up.
LEMMA OutUp ==
  ASSUME NEW cur \in Nat \ {0}, NEW m \in Nat \ {0}, NEW n \in Nat \ {0}, NEW l \in Nat,
         cur <= m, m <= n
  PROVE  Amount0Delta(cur, m, l, FALSE) <= Amount0Delta(cur, n, l, FALSE)
<1> DEFINE R == l * Q64
           x == R * (m - cur)
           y == R * (n - cur)
           d == m * cur
           e == n * cur
           k == x \div d
<1>1. m - cur \in Nat /\ n - cur \in Nat /\ R \in Nat
  BY ClmmAssumption, ProductNat
<1>2. x \in Nat /\ y \in Nat /\ d \in Nat \ {0} /\ e \in Nat \ {0}
  BY <1>1, ProductNat, ProductPositive
<1>3. e * x <= d * y
  <2> DEFINE u == (m - cur) * n
             v == (n - cur) * m
  <2>1. cur * m <= cur * n
    BY Multiply
  <2>2. u = m * n - cur * n /\ v = m * n - cur * m
    BY <1>1
  <2>3. u <= v /\ u \in Nat /\ v \in Nat
    BY <1>1, <2>1, <2>2, ProductNat
  <2>4. e * x = (R * cur) * u /\ d * y = (R * cur) * v
    <3> HIDE DEF R
    <3> QED
      BY <1>1
  <2> HIDE DEF u, v, R
  <2>5. R * cur \in Nat
    BY <1>1, ProductNat
  <2>6. (R * cur) * u <= (R * cur) * v
    BY <2>3, <2>5, Multiply
  <2> QED
    BY <2>4, <2>6
<1> HIDE DEF x, y, d, e
<1>4. k \in Nat /\ d * k <= x
  BY <1>2, FloorBounds
<1> HIDE DEF k
<1>5. e * k <= y
  <2>1. SUFFICES ASSUME y < e * k PROVE FALSE
    BY <1>2, <1>4, ProductNat
  <2>2. e * (d * k) <= e * x
    BY <1>2, <1>4, Multiply, ProductNat
  <2>3. d * (y + 1) <= d * (e * k)
    <3>1. y + 1 <= e * k /\ e * k \in Nat
      BY <1>2, <1>4, <2>1, ProductNat
    <3> QED
      BY <1>2, <3>1, Multiply
  <2>4. d * (e * k) = e * (d * k) /\ d * (y + 1) = d * y + d
    BY <1>2, <1>4
  <2>5. d * y \in Nat /\ e * x \in Nat /\ e * (d * k) \in Nat
    BY <1>2, <1>4, ProductNat
  <2> QED
    BY <1>2, <1>3, <2>2, <2>3, <2>4, <2>5
<1>6. k <= y \div e
  BY <1>2, <1>4, <1>5, FloorAtLeast
<1>7. Amount0Delta(cur, m, l, FALSE) = k /\ Amount0Delta(cur, n, l, FALSE) = y \div e
  BY DEF Amount0Delta, Rounded, x, y, d, e, k, R
<1> QED
  BY <1>6, <1>7

\* Step z, for more input, goes at least as far as step s.
Outdoes(z, s, target) ==
  /\ s.out <= z.out
  /\ s.next = target => z.next = target /\ s.in = z.in /\ s.fee = z.fee /\ s.out = z.out

\* More input: at least as far, for at least as much.
LEMMA StepGrows ==
  ASSUME NEW cur \in Nat \ {0}, NEW target \in Nat \ {0}, NEW l \in Nat,
         NEW m \in Nat, NEW n \in Nat, m <= n, NEW fee \in 0 .. PipsDenom - 1,
         NEW aToB \in BOOLEAN, Onward(aToB, cur, target)
  PROVE  Outdoes(SwapStep(cur, target, l, n, fee, aToB),
                 SwapStep(cur, target, l, m, fee, aToB), target)
<1> DEFINE s == SwapStep(cur, target, l, m, fee, aToB)
           z == SwapStep(cur, target, l, n, fee, aToB)
<1>0. SUFFICES Outdoes(z, s, target)
  OBVIOUS
<1>1. CASE l = 0 \/ cur = target
  <2>1. /\ s.next = target /\ s.in = 0 /\ s.out = 0 /\ s.fee = 0
        /\ z.next = target /\ z.in = 0 /\ z.out = 0 /\ z.fee = 0
    BY <1>1, FreeStep
  <2> HIDE DEF s, z
  <2> QED
    BY <2>1 DEF Outdoes
<1>2. CASE ~(l = 0 \/ cur = target)
  <2> DEFINE a == LessFee(m, fee)
             b == LessFee(n, fee)
             x == StepNext(cur, target, l, a, aToB)
             y == StepNext(cur, target, l, b, aToB)
  <2>1. a \in Nat /\ b \in Nat /\ a <= b
    BY LessFeeWithin, LessFeeGrows
  <2>2. (IF aToB THEN target < cur ELSE cur < target) /\ l \in Nat \ {0}
    BY <1>2 DEF Onward
  <2>3. /\ s.next = x /\ s.in = StepCost(cur, x, l, aToB)
        /\ s.out = (IF aToB THEN Amount1Delta(x, cur, l, FALSE)
                            ELSE Amount0Delta(cur, x, l, FALSE))
        /\ s.fee = (IF x # target THEN m - StepCost(cur, x, l, aToB)
                    ELSE CeilDiv(StepCost(cur, x, l, aToB) * fee, PipsDenom - fee))
    BY DEF SwapStep
  <2>4. /\ z.next = y /\ z.in = StepCost(cur, y, l, aToB)
        /\ z.out = (IF aToB THEN Amount1Delta(y, cur, l, FALSE)
                            ELSE Amount0Delta(cur, y, l, FALSE))
        /\ z.fee = (IF y # target THEN n - StepCost(cur, y, l, aToB)
                    ELSE CeilDiv(StepCost(cur, y, l, aToB) * fee, PipsDenom - fee))
    BY DEF SwapStep
  <2> HIDE DEF s, z, a, b
  <2>5. /\ x \in Nat /\ (aToB => target <= x /\ x <= cur) /\ (~aToB => cur <= x /\ x <= target)
        /\ y \in Nat /\ (aToB => target <= y /\ y <= cur) /\ (~aToB => cur <= y /\ y <= target)
    BY <2>1, <2>2, StepCovered
  <2>6. Onward(aToB, x, y)
    BY <2>1, <2>2, NextGrows
  <2> HIDE DEF x, y
  <2>7. x \in Nat \ {0} /\ y \in Nat \ {0}
    BY <2>5
  <2>8. s.out <= z.out
    <3>1. CASE aToB
      <4>1. x <= cur /\ y <= x
        BY <2>5, <2>6, <3>1 DEF Onward
      <4>2. Amount1Delta(x, cur, l, FALSE) <= Amount1Delta(y, cur, l, FALSE)
        BY <2>7, <4>1, OutDown
      <4> QED
        BY <2>3, <2>4, <3>1, <4>2
    <3>2. CASE ~aToB
      <4>1. cur <= x /\ x <= y
        BY <2>5, <2>6, <3>2 DEF Onward
      <4>2. Amount0Delta(cur, x, l, FALSE) <= Amount0Delta(cur, y, l, FALSE)
        BY <2>7, <4>1, OutUp
      <4> QED
        BY <2>3, <2>4, <3>2, <4>2
    <3> QED
      BY <3>1, <3>2
  <2>9. x = target => y = target
    BY <2>5, <2>6 DEF Onward
  <2>10. s.next = target => z.next = target /\ s.in = z.in /\ s.fee = z.fee /\ s.out = z.out
    <3>1. SUFFICES ASSUME s.next = target
          PROVE  z.next = target /\ s.in = z.in /\ s.fee = z.fee /\ s.out = z.out
      OBVIOUS
    <3>2. x = target /\ y = target
      BY <2>3, <2>9, <3>1
    <3> QED
      BY <2>3, <2>4, <3>2
  <2> QED
    BY <2>8, <2>10 DEF Outdoes
<1> QED
  BY <1>1, <1>2

\* A walk y on more input is where walk x is, or x has come to its end.
Leads(y, x) ==
  /\ x.out <= y.out
  /\ \/ x.remaining = 0
     \/ x.price = y.price /\ x.liq = y.liq /\ x.going = y.going /\ x.remaining <= y.remaining

\* A turn keeps the lead.
LEMMA TurnLeads ==
  ASSUME NEW x \in WalkState, NEW y \in WalkState, Leads(y, x), NEW aToB \in BOOLEAN,
         NEW t \in Bounds, Onward(aToB, x.price, t.price), Onward(aToB, y.price, t.price)
  PROVE  Leads(Turn(FALSE, aToB, y, t), Turn(FALSE, aToB, x, t))
<1> DEFINE u == Turn(FALSE, aToB, x, t)
           v == Turn(FALSE, aToB, y, t)
<1>0. SUFFICES Leads(v, u)
  OBVIOUS
<1>1. /\ x.out \in Nat /\ y.out \in Nat /\ x.remaining \in Nat /\ y.remaining \in Nat
      /\ x.going \in BOOLEAN /\ x.price \in Nat \ {0} /\ x.liq \in Nat /\ x.out <= y.out
  BY DEF WalkState, Leads
<1>2. v \in WalkState /\ y.out <= v.out
  BY TurnTyped
<1>3. v.out \in Nat
  BY <1>2 DEF WalkState
<1>4. CASE x.remaining = 0
  <2>1. u = x
    BY <1>4, Stands
  <2> HIDE DEF u, v
  <2> QED
    BY <1>1, <1>2, <1>3, <1>4, <2>1 DEF Leads
<1>5. CASE x.remaining # 0 /\ ~x.going
  <2>1. ~y.going
    BY <1>5 DEF Leads
  <2>2. u = x /\ v = y
    BY <1>5, <2>1, Stands
  <2> HIDE DEF u, v
  <2> QED
    BY <2>2
<1>6. CASE x.remaining # 0 /\ x.going
  <2>1. /\ x.price = y.price /\ x.liq = y.liq /\ y.going /\ x.remaining <= y.remaining
        /\ x.remaining > 0 /\ y.remaining > 0
    <3>1. x.price = y.price /\ x.liq = y.liq /\ x.going = y.going
          /\ x.remaining <= y.remaining
      BY <1>6 DEF Leads
    <3>2. y.going
      BY <1>6, <3>1, Zenon
    <3>3. x.remaining > 0 /\ y.remaining > 0
      BY <1>1, <1>6, <3>1
    <3> QED
      BY <3>1, <3>2, <3>3
  <2> DEFINE s == StepOf(aToB, x, t)
             z == StepOf(aToB, y, t)
             k == LiqAfter(aToB, x, t)
             l == LiqAfter(aToB, y, t)
  <2>2. /\ u = [price |-> s.next, liq |-> k, remaining |-> x.remaining - (s.in + s.fee),
                out |-> x.out + s.out, going |-> FALSE \/ (s.next = t.price /\ k > 0)]
        /\ s.in \in Nat /\ s.fee \in Nat /\ s.out \in Nat
        /\ s.next # t.price => s.in + s.fee = x.remaining
    <3>1. Steps(u, FALSE, aToB, x, t)
      BY <1>6, <2>1, Moves
    <3> QED
      BY <3>1 DEF Steps
  <2>3. /\ v = [price |-> z.next, liq |-> l, remaining |-> y.remaining - (z.in + z.fee),
                out |-> y.out + z.out, going |-> FALSE \/ (z.next = t.price /\ l > 0)]
        /\ z.in \in Nat /\ z.fee \in Nat /\ z.out \in Nat
    <3>1. Steps(v, FALSE, aToB, y, t)
      BY <2>1, Moves
    <3> QED
      BY <3>1 DEF Steps
  <2>4. Outdoes(z, s, t.price)
    <3> DEFINE c == x.price
               q == t.price
               d == x.liq
               m == x.remaining
               n == y.remaining
    <3>1. /\ c \in Nat \ {0} /\ q \in Nat \ {0} /\ d \in Nat /\ m \in Nat /\ n \in Nat /\ m <= n
          /\ FeePips \in 0 .. PipsDenom - 1 /\ Onward(aToB, c, q)
      BY <1>1, <2>1, PoolAssumption DEF Bounds
    <3>2. s = SwapStep(c, q, d, m, FeePips, aToB) /\ z = SwapStep(c, q, d, n, FeePips, aToB)
      BY <2>1 DEF StepOf
    <3> HIDE DEF c, d, q, m, n, s, z
    <3>3. Outdoes(z, s, q)
      BY <3>1, <3>2, StepGrows
    <3> QED
      BY <3>3 DEF q
  <2>5. /\ k = IF s.next = t.price THEN ApplyNet(x.liq, t.net, aToB) ELSE x.liq
        /\ l = IF z.next = t.price THEN ApplyNet(y.liq, t.net, aToB) ELSE y.liq
    BY DEF LiqAfter
  <2> HIDE DEF u, v, s, z, k, l
  <2>6. u.out <= v.out
    BY <1>1, <2>2, <2>3, <2>4 DEF Outdoes
  <2>7. CASE s.next # t.price
    <3>1. u.remaining = 0
      BY <1>1, <2>2, <2>7
    <3> QED
      BY <2>6, <3>1 DEF Leads
  <2>8. CASE s.next = t.price
    <3>1. z.next = t.price /\ s.in = z.in /\ s.fee = z.fee
      BY <2>4, <2>8 DEF Outdoes
    <3>2. k = l
      BY <2>1, <2>5, <2>8, <3>1
    <3>3. u.price = v.price /\ u.liq = v.liq /\ u.going = v.going
      BY <2>2, <2>3, <2>8, <3>1, <3>2
    <3>4. u.remaining <= v.remaining
      BY <1>1, <2>1, <2>2, <2>3, <3>1
    <3> QED
      BY <2>6, <3>3, <3>4 DEF Leads
  <2> QED
    BY <2>7, <2>8
<1> QED
  BY <1>4, <1>5, <1>6

\* A whole walk keeps the lead.
LEMMA WalkLeads ==
  ASSUME NEW x \in WalkState, NEW y \in WalkState, Leads(y, x), NEW aToB \in BOOLEAN,
         NEW S, Before(aToB, x, S), Before(aToB, y, S)
  PROVE  Leads(WalkOver(FALSE, aToB, y, S), WalkOver(FALSE, aToB, x, S))
<1> DEFINE X(s) == WalkOver(FALSE, aToB, x, s)
           Y(s) == WalkOver(FALSE, aToB, y, s)
           F == {s \in SUBSET S : ~Leads(Y(s), X(s))}
<1>1. SUFFICES ASSUME F # {} PROVE FALSE
  OBVIOUS
<1>2. IsFiniteSet(S) /\ S \subseteq Bounds
  BY DEF Before
<1>3. PICK s \in F : \A t \in s : s \ {t} \notin F
  BY <1>1, <1>2, MinimalSubset
<1>4. s \in SUBSET S /\ ~Leads(Y(s), X(s))
  BY <1>3
<1>5. WalkAt(FALSE, aToB, x, S, s) /\ WalkAt(FALSE, aToB, y, S, s)
  BY <1>4, WalkIs
<1>6. CASE s = {}
  <2>1. X(s) = x /\ Y(s) = y
    BY <1>5, <1>6 DEF WalkAt
  <2> QED
    BY <1>4, <2>1
<1>7. CASE s # {}
  <2> DEFINE f == Furthest(s, aToB)
             u == X(s \ {f})
             v == Y(s \ {f})
  <2>1. /\ f \in s /\ u \in WalkState /\ Onward(aToB, u.price, f.price)
        /\ X(s) = Turn(FALSE, aToB, u, f)
    BY <1>5, <1>7 DEF WalkAt
  <2>2. v \in WalkState /\ Onward(aToB, v.price, f.price) /\ Y(s) = Turn(FALSE, aToB, v, f)
    BY <1>5, <1>7 DEF WalkAt
  <2>3. Leads(v, u)
    <3> HIDE DEF f
    <3> QED
      BY <1>3, <1>4, <2>1
  <2>4. f \in Bounds
    BY <1>2, <1>4, <2>1
  <2> HIDE DEF u, v, f
  <2>5. Leads(Turn(FALSE, aToB, v, f), Turn(FALSE, aToB, u, f))
    BY <2>1, <2>2, <2>3, <2>4, TurnLeads
  <2> HIDE DEF X, Y
  <2> QED
    BY <1>4, <2>1, <2>2, <2>5
<1> QED
  BY <1>6, <1>7

\* The engine's walk over the loaded ticks ahead.
EngineWalk(ts, p, l, in, aToB) ==
  WalkOver(FALSE, aToB, Start(p, l, in), Ahead(ts, p, aToB))

\* A quote is such a walk's output when it uses its input up and pays a u64.
IsQuote(ts, p, l, in, aToB) ==
  LET w == EngineWalk(ts, p, l, in, aToB)
  IN  /\ Start(p, l, in) \in WalkState
      /\ Before(aToB, Start(p, l, in), Ahead(ts, p, aToB))
      /\ w \in WalkState
      /\ QuoteExactIn(ts, p, l, FeePips, in, aToB)
           = IF w.remaining > 0 \/ w.out > U64Max THEN None ELSE w.out

\* On loaded ticks, what quote_exact_in returns is a quote in this sense.
LEMMA QuoteIs ==
  ASSUME NEW ts, Loaded(ts), NEW p \in Nat \ {0}, NEW l \in Nat \ {0}, NEW in \in Nat \ {0},
         NEW aToB \in BOOLEAN
  PROVE  IsQuote(ts, p, l, in, aToB)
<1> DEFINE w == WalkOver(FALSE, aToB, Start(p, l, in), Ahead(ts, p, aToB))
           S == Ahead(ts, p, aToB)
<1>1. /\ Start(p, l, in) \in WalkState /\ Start(p, l, in).price = p
  BY DEF Start, WalkState
<1>2. S \subseteq ts /\ \A t \in S : Onward(aToB, p, t.price)
  <2>1. \A t \in ts : t.price \in Nat
    BY DEF Loaded, Bounds
  <2> QED
    BY <2>1 DEF Ahead, Onward
<1>3. Before(aToB, Start(p, l, in), S)
  <2>1. IsFiniteSet(S) /\ S \subseteq Bounds
    BY <1>2, FS_Subset DEF Loaded
  <2> QED
    BY <1>1, <1>2, <2>1 DEF Before
<1>4. WalkAt(FALSE, aToB, Start(p, l, in), S, S)
  <2> HIDE DEF S
  <2> QED
    BY <1>1, <1>3, WalkIs
<1>5. w \in WalkState
  BY <1>4 DEF WalkAt
<1>6. ts # {} /\ in # 0 /\ l # 0 /\ ~(FeePips >= PipsDenom)
  BY PoolAssumption, ClmmAssumption DEF Loaded
<1>7. w = Walk(Start(p, l, in), S, FeePips, aToB)
  BY DEF WalkOver
<1> HIDE DEF w
<1>8. QuoteExactIn(ts, p, l, FeePips, in, aToB)
        = IF w.remaining > 0 \/ w.out > U64Max THEN None ELSE w.out
  <2>1. QuoteExactIn(ts, p, l, FeePips, in, aToB)
          = IF w.remaining > 0 THEN None ELSE FitsU64(w.out)
    BY <1>6, <1>7 DEF QuoteExactIn
  <2>2. w.out \in Nat /\ U64Max \in Nat
    BY <1>5, ClmmAssumption DEF WalkState
  <2> QED
    BY <2>1, <2>2 DEF FitsU64
<1>9. w = EngineWalk(ts, p, l, in, aToB)
  BY DEF w, EngineWalk
<1> QED
  BY <1>1, <1>3, <1>5, <1>8, <1>9 DEF IsQuote

\* On any reachable snapshot, however stale or torn, a size that quote_exact_in quotes
\* has every smaller one quoted, for no more: what feasible_upper_bound bisects on.
THEOREM QuotesAreMonotone == Spec => []QuotesMonotone
<1>1. ASSUME TypesInv PROVE QuotesMonotone
  <2>1. SUFFICES ASSUME snapshot # None, NEW m \in QuoteSize, NEW n \in QuoteSize,
                        NEW aToB \in BOOLEAN, m < n, Quoted(n, aToB) # None
        PROVE  Quoted(m, aToB) # None /\ Quoted(m, aToB) <= Quoted(n, aToB)
    BY DEF QuotesMonotone
  <2> DEFINE ts == snapshot.ticks
             p  == snapshot.object.price
             l  == snapshot.object.liq
             S  == Ahead(ts, p, aToB)
             x  == EngineWalk(ts, p, l, m, aToB)
             y  == EngineWalk(ts, p, l, n, aToB)
  <2>2. /\ Loaded(ts) /\ p \in Nat \ {0} /\ l \in Nat
        /\ m \in Nat \ {0} /\ n \in Nat \ {0}
    BY <1>1, <2>1, SoundPool, PoolAssumption DEF TypesInv, SnapshotOK, IsCached
  <2>3. /\ Quoted(m, aToB) = QuoteExactIn(ts, p, l, FeePips, m, aToB)
        /\ Quoted(n, aToB) = QuoteExactIn(ts, p, l, FeePips, n, aToB)
    BY DEF Quoted
  <2> HIDE DEF ts, p, l
  <2>4. l \in Nat \ {0}
    BY <2>1, <2>2, <2>3 DEF QuoteExactIn
  <2>5. /\ Start(p, l, m) \in WalkState /\ Before(aToB, Start(p, l, m), S) /\ x \in WalkState
        /\ QuoteExactIn(ts, p, l, FeePips, m, aToB)
             = IF x.remaining > 0 \/ x.out > U64Max THEN None ELSE x.out
    <3>1. IsQuote(ts, p, l, m, aToB)
      BY <2>2, <2>4, QuoteIs
    <3> QED
      BY <3>1 DEF IsQuote
  <2>6. /\ Start(p, l, n) \in WalkState /\ Before(aToB, Start(p, l, n), S) /\ y \in WalkState
        /\ QuoteExactIn(ts, p, l, FeePips, n, aToB)
             = IF y.remaining > 0 \/ y.out > U64Max THEN None ELSE y.out
    <3>1. IsQuote(ts, p, l, n, aToB)
      BY <2>2, <2>4, QuoteIs
    <3> QED
      BY <3>1 DEF IsQuote
  <2>7. Leads(Start(p, l, n), Start(p, l, m))
    BY <2>1, <2>2 DEF Leads, Start
  <2>8. Leads(y, x)
    <3> HIDE DEF S
    <3> QED
      BY <2>5, <2>6, <2>7, WalkLeads DEF EngineWalk, S
  <2> HIDE DEF x, y
  <2>9. /\ x.remaining \in Nat /\ y.remaining \in Nat /\ x.out \in Nat /\ y.out \in Nat
        /\ U64Max \in Nat
    BY <2>5, <2>6, ClmmAssumption DEF WalkState
  <2>10. y.remaining = 0 /\ y.out <= U64Max /\ Quoted(n, aToB) = y.out
    BY <2>1, <2>3, <2>6, <2>9
  <2>11. x.remaining = 0 /\ x.out <= y.out
    BY <2>8, <2>9, <2>10 DEF Leads
  <2>12. Quoted(m, aToB) = x.out
    BY <2>3, <2>5, <2>9, <2>10, <2>11
  <2>13. x.out # None
    BY <2>9, ClmmAssumption
  <2> QED
    BY <2>10, <2>11, <2>12, <2>13
<1> QED
  BY <1>1, TypesAlways, PTL

-----------------------------------------------------------------------------
(* The engine's walk and the venue's *)

\* Beginnings, one in the other: the last tick of the longer is not in the shorter.
LEMMA LastIsNew ==
  ASSUME NEW p, NEW aToB \in BOOLEAN, NEW T, NEW s, Begins(aToB, p, T), Begins(aToB, p, s),
         T \subseteq s, s # T, NEW f \in s, \A t \in s : Nearer(aToB, t, f)
  PROVE  T \subseteq s \ {f}
<1>1. SUFFICES ASSUME f \in T PROVE FALSE
  BY Zenon
<1>2. \A t \in s : t \in T
  BY <1>1 DEF Begins
<1> QED
  BY <1>2

\* What follows walk v is walk z.
Follows(aToB, z, v) ==
  /\ Onward(aToB, v.price, z.price) /\ z.remaining <= v.remaining
  /\ v.remaining = 0 => z.remaining = 0 /\ z.out = v.out /\ z.price = v.price

\* A turn of the venue's walk goes on, or leaves it as it is.
LEMMA TurnFollows ==
  ASSUME NEW u \in WalkState, NEW t \in Bounds, NEW aToB \in BOOLEAN,
         Onward(aToB, u.price, t.price)
  PROVE  Follows(aToB, Turn(TRUE, aToB, u, t), u)
<1> DEFINE v == Turn(TRUE, aToB, u, t)
<1>1. Onward(aToB, u.price, v.price) /\ v.remaining <= u.remaining
  BY TurnTyped
<1>2. ASSUME u.remaining = 0
      PROVE  v.remaining = 0 /\ v.out = u.out /\ v.price = u.price
  <2>1. v = [u EXCEPT !.going = TRUE]
    BY <1>2, Stands
  <2> HIDE DEF v
  <2> QED
    BY <1>2, <2>1 DEF WalkState
<1> HIDE DEF v
<1>3. Follows(aToB, v, u)
  BY <1>1, <1>2 DEF Follows
<1> QED
  BY <1>3 DEF v

\* The venue's walk over more ticks goes on from that over fewer.
LEMMA VenueFollows ==
  ASSUME NEW p, IsSound(p), NEW aToB \in BOOLEAN, NEW in \in Nat, NEW T,
         Begins(aToB, p, T)
  PROVE  \A s : Begins(aToB, p, s) /\ T \subseteq s
                => Follows(aToB, VenueAt(aToB, p, in, s), VenueAt(aToB, p, in, T))
<1> DEFINE A == AheadOf(p, aToB)
           v == VenueAt(aToB, p, in, T)
           F == {s \in SUBSET A : /\ Begins(aToB, p, s) /\ T \subseteq s
                                  /\ ~Follows(aToB, VenueAt(aToB, p, in, s), v)}
<1>1. SUFFICES ASSUME F # {} PROVE FALSE
  BY DEF Begins
<1>2. IsFiniteSet(A)
  <2>1. IsFiniteSet(Tick)
    BY PoolAssumption, FS_Interval DEF Tick
  <2> QED
    BY <2>1, AheadIs, FS_Subset
<1>3. PICK s \in F : \A x \in s : s \ {x} \notin F
  <2>1. F \subseteq SUBSET A
    OBVIOUS
  <2> HIDE DEF F, A
  <2> QED
    BY <1>1, <1>2, <2>1, MinimalSubset
<1>4. s \subseteq A /\ Begins(aToB, p, s) /\ T \subseteq s
      /\ ~Follows(aToB, VenueAt(aToB, p, in, s), v)
  BY <1>3
<1>5. v \in WalkState
  BY VenueIs DEF Begins
<1> HIDE DEF v
<1>6. CASE s = T
  <2>1. Follows(aToB, v, v)
    BY <1>5 DEF Follows, Onward, WalkState
  <2> QED
    BY <1>4, <1>6, <2>1 DEF v
<1>7. CASE s # T
  <2>1. PICK f : VenueLast(aToB, p, in, s, f)
    <3>1. s # {}
      BY <1>4, <1>7
    <3> QED
      BY <1>4, <3>1, VenueIs
  <2> DEFINE u == VenueAt(aToB, p, in, s \ {f})
             z == VenueAt(aToB, p, in, s)
             b == BoundaryOf(p, f)
  <2>2. /\ f \in s /\ \A t \in s : Nearer(aToB, t, f)
        /\ u \in WalkState /\ Onward(aToB, u.price, b.price) /\ b \in Bounds
        /\ z = Turn(TRUE, aToB, u, b)
    BY <2>1 DEF VenueLast, BoundaryOf
  <2>3. Begins(aToB, p, s \ {f}) /\ T \subseteq s \ {f}
    BY <1>4, <1>7, <2>2, BeginsLess, LastIsNew
  <2>4. Follows(aToB, u, v)
    BY <1>3, <1>4, <2>2, <2>3
  <2>5. z \in WalkState
    BY <1>4, VenueIs
  <2> HIDE DEF u, z, b
  <2>6. Follows(aToB, z, u)
    BY <2>2, TurnFollows
  <2>7. Follows(aToB, z, v)
    <3>1. /\ v.price \in Nat /\ u.price \in Nat /\ z.price \in Nat
          /\ v.remaining \in Nat /\ u.remaining \in Nat /\ z.remaining \in Nat
      BY <1>5, <2>2, <2>5 DEF WalkState
    <3>2. /\ Onward(aToB, v.price, u.price) /\ u.remaining <= v.remaining
          /\ v.remaining = 0 => u.remaining = 0 /\ u.out = v.out /\ u.price = v.price
      BY <2>4 DEF Follows
    <3>3. /\ Onward(aToB, u.price, z.price) /\ z.remaining <= u.remaining
          /\ u.remaining = 0 => z.remaining = 0 /\ z.out = u.out /\ z.price = u.price
      BY <2>6 DEF Follows
    <3>4. Onward(aToB, v.price, z.price)
      BY <3>1, <3>2, <3>3 DEF Onward
    <3>5. z.remaining <= v.remaining
      BY <3>1, <3>2, <3>3
    <3> QED
      BY <3>2, <3>3, <3>4, <3>5 DEF Follows
  <2> QED
    BY <1>4, <2>7 DEF z
<1> QED
  BY <1>6, <1>7

\* The engine's walk over the boundaries of the ticks T.
EngineAt(aToB, p, in, T) ==
  WalkOver(FALSE, aToB, Start(p.price, p.liq, in), Exact(p, T))

\* Over no tick it stays at the start; over some, it is the walk over all but the last
\* and a turn towards that.
EngineLast(aToB, p, in, T, f) ==
  LET u == EngineAt(aToB, p, in, T \ {f})
  IN  /\ f \in T /\ \A t \in T : Nearer(aToB, t, f)
      /\ u \in WalkState /\ Onward(aToB, u.price, SqrtAt[f])
      /\ EngineAt(aToB, p, in, T) = Turn(FALSE, aToB, u, BoundaryOf(p, f))

\* That is how the engine walks.
LEMMA EngineIs ==
  ASSUME NEW p, IsSound(p), NEW aToB \in BOOLEAN, NEW in \in Nat, NEW T,
         T \subseteq AheadOf(p, aToB)
  PROVE  /\ EngineAt(aToB, p, in, T) \in WalkState
         /\ T = {} => EngineAt(aToB, p, in, T) = Start(p.price, p.liq, in)
         /\ T # {} => \E f : EngineLast(aToB, p, in, T, f)
<1> DEFINE A == AheadOf(p, aToB)
           S == Exact(p, A)
           w == Start(p.price, p.liq, in)
           s == Exact(p, T)
<1>1. w \in WalkState /\ Before(aToB, w, S)
  BY VenueBefore
<1>2. s \in SUBSET S /\ T \subseteq Tick /\ p.net \in [Tick -> Int]
  BY AheadIs, SoundPool DEF Exact
<1>3. WalkAt(FALSE, aToB, w, S, s)
  <2> HIDE DEF w, S, s
  <2> QED
    BY <1>1, <1>2, WalkIs
<1> HIDE DEF w, S
<1>4. /\ EngineAt(aToB, p, in, T) \in WalkState
      /\ T = {} => EngineAt(aToB, p, in, T) = w
  <2>1. T = {} => s = {}
    BY DEF Exact
  <2> HIDE DEF s
  <2> QED
    BY <1>2, <1>3, <2>1 DEF WalkAt, EngineAt, w, s
<1>5. ASSUME T # {} PROVE \E f : EngineLast(aToB, p, in, T, f)
  <2>0. PICK f : IsLast(aToB, p, T, f)
    BY <1>2, <1>5, LastOf
  <2>1. /\ f \in T /\ Furthest(s, aToB) = BoundaryOf(p, f)
        /\ \A t \in T : Nearer(aToB, t, f)
        /\ s \ {Furthest(s, aToB)} = Exact(p, T \ {f})
    BY <2>0 DEF IsLast
  <2>2. s # {} /\ BoundaryOf(p, f).price = SqrtAt[f]
    <3>1. BoundaryOf(p, f) \in s
      BY <1>2, <2>1, ExactIs
    <3> HIDE DEF s
    <3>2. BoundaryOf(p, f).price = SqrtAt[f]
      BY DEF BoundaryOf
    <3> QED
      BY <3>1, <3>2
  <2> DEFINE b == Furthest(s, aToB)
             u == WalkOver(FALSE, aToB, w, s \ {b})
  <2>3. /\ u \in WalkState /\ Onward(aToB, u.price, b.price)
        /\ WalkOver(FALSE, aToB, w, s) = Turn(FALSE, aToB, u, b)
    BY <1>3, <2>2 DEF WalkAt
  <2>4. u = EngineAt(aToB, p, in, T \ {f}) /\ b = BoundaryOf(p, f)
        /\ WalkOver(FALSE, aToB, w, s) = EngineAt(aToB, p, in, T)
    BY <2>1 DEF EngineAt, w
  <2> HIDE DEF s, b, u
  <2> QED
    BY <2>1, <2>2, <2>3, <2>4 DEF EngineLast
<1> QED
  BY <1>4, <1>5 DEF w

\* The venue's walk through p comes into a range without liquidity, with some input
\* left.
Runs(aToB, p, in, T) ==
  /\ Begins(aToB, p, T) /\ T # {}
  /\ VenueAt(aToB, p, in, T).liq = 0 /\ VenueAt(aToB, p, in, T).remaining > 0

\* It does so somewhere on its way.
RunsDry(aToB, p, in) == \E T : Runs(aToB, p, in, T)

\* From the same place, the two walks take the same step.
LEMMA TurnsOfBoth ==
  ASSUME NEW y \in WalkState, NEW b \in Bounds, NEW aToB \in BOOLEAN,
         y.going, y.remaining > 0, Onward(aToB, y.price, b.price)
  PROVE  LET s == StepOf(aToB, y, b)
             l == LiqAfter(aToB, y, b)
         IN  /\ Turn(FALSE, aToB, y, b) =
                  [price |-> s.next, liq |-> l, remaining |-> y.remaining - (s.in + s.fee),
                   out |-> y.out + s.out, going |-> FALSE \/ (s.next = b.price /\ l > 0)]
             /\ Turn(TRUE, aToB, y, b) =
                  [price |-> s.next, liq |-> l, remaining |-> y.remaining - (s.in + s.fee),
                   out |-> y.out + s.out, going |-> TRUE \/ (s.next = b.price /\ l > 0)]
             /\ s.in \in Nat /\ s.fee \in Nat /\ s.in + s.fee <= y.remaining /\ l \in Nat
             /\ s.next # b.price => s.in + s.fee = y.remaining
<1>1. /\ Steps(Turn(FALSE, aToB, y, b), FALSE, aToB, y, b)
      /\ Steps(Turn(TRUE, aToB, y, b), TRUE, aToB, y, b)
  BY Moves
<1> QED
  BY <1>1 DEF Steps

\* The two walks are at the same place; or both are done, with the same output; or the
\* engine has stopped where the venue runs dry.
Agree(aToB, p, in, e, v) ==
  \/ e = v
  \/ e.remaining = 0 /\ v.remaining = 0 /\ e.out = v.out
  \/ e.remaining > 0 /\ ~e.going /\ RunsDry(aToB, p, in)

\* A turn of both keeps the agreement.
LEMMA TurnAgrees ==
  ASSUME NEW p, IsSound(p), NEW aToB \in BOOLEAN, NEW in, NEW T, Begins(aToB, p, T), T # {},
         NEW x \in WalkState, NEW y \in WalkState, y.going, Agree(aToB, p, in, x, y),
         NEW b \in Bounds, Onward(aToB, x.price, b.price), Onward(aToB, y.price, b.price),
         VenueAt(aToB, p, in, T) = Turn(TRUE, aToB, y, b)
  PROVE  Agree(aToB, p, in, Turn(FALSE, aToB, x, b), Turn(TRUE, aToB, y, b))
<1> DEFINE e == Turn(FALSE, aToB, x, b)
           v == Turn(TRUE, aToB, y, b)
<1>0. SUFFICES Agree(aToB, p, in, e, v)
  OBVIOUS
<1>1. x.remaining \in Nat /\ y.remaining \in Nat
  BY DEF WalkState
<1>2. CASE x = y /\ y.remaining > 0
  <2> DEFINE s == StepOf(aToB, y, b)
             l == LiqAfter(aToB, y, b)
  <2>1. /\ e = [price |-> s.next, liq |-> l, remaining |-> y.remaining - (s.in + s.fee),
                out |-> y.out + s.out, going |-> FALSE \/ (s.next = b.price /\ l > 0)]
        /\ s.in \in Nat /\ s.fee \in Nat /\ s.in + s.fee <= y.remaining /\ l \in Nat
        /\ s.next # b.price => s.in + s.fee = y.remaining
    <3>1. e = Turn(FALSE, aToB, y, b)
      BY <1>2
    <3> HIDE DEF e
    <3> QED
      BY <1>2, <3>1, TurnsOfBoth, Zenon
  <2>2. v = [price |-> s.next, liq |-> l, remaining |-> y.remaining - (s.in + s.fee),
             out |-> y.out + s.out, going |-> TRUE \/ (s.next = b.price /\ l > 0)]
    BY <1>2, TurnsOfBoth, Zenon
  <2>3. v = VenueAt(aToB, p, in, T)
    OBVIOUS
  <2> HIDE DEF e, v, s, l
  <2>4. e.remaining = v.remaining /\ e.out = v.out /\ e.remaining \in Nat
        /\ e.going = (s.next = b.price /\ l > 0) /\ v.liq = l
    BY <1>1, <2>1, <2>2
  <2>5. CASE e.going
    BY <2>1, <2>2, <2>4, <2>5 DEF Agree
  <2>6. CASE e.remaining = 0
    BY <2>4, <2>6 DEF Agree
  <2>7. CASE ~e.going /\ e.remaining # 0
    <3>1. s.next = b.price
      BY <1>1, <2>1, <2>7
    <3>2. v.liq = 0
      <4>1. ~(l > 0)
        BY <2>4, <2>7, <3>1, Zenon
      <4> QED
        BY <2>1, <2>4, <4>1
    <3>3. Runs(aToB, p, in, T)
      <4>1. v.remaining > 0
        BY <2>4, <2>7
      <4> QED
        BY <2>3, <3>2, <4>1, Zenon DEF Runs
    <3> QED
      BY <2>4, <2>7, <3>3 DEF Agree, RunsDry
  <2> QED
    BY <2>5, <2>6, <2>7
<1>3. CASE x.remaining = 0 /\ y.remaining = 0 /\ x.out = y.out
  <2>1. e = x /\ v = [y EXCEPT !.going = TRUE]
    BY <1>3, Stands
  <2> HIDE DEF e, v
  <2>2. v.remaining = 0 /\ v.out = y.out
    BY <1>3, <2>1 DEF WalkState
  <2> QED
    BY <1>3, <2>1, <2>2 DEF Agree
<1>4. CASE x.remaining > 0 /\ ~x.going /\ RunsDry(aToB, p, in)
  <2>1. e = x
    BY <1>4, Stands
  <2> HIDE DEF e, v
  <2> QED
    BY <1>4, <2>1 DEF Agree
<1>5. x = y /\ y.remaining = 0 => x.remaining = 0 /\ x.out = y.out
  OBVIOUS
<1> HIDE DEF e, v
<1> QED
  BY <1>1, <1>2, <1>3, <1>4, <1>5 DEF Agree

\* So the walks agree over every beginning.
LEMMA WalksOfBoth ==
  ASSUME NEW p, IsSound(p), NEW aToB \in BOOLEAN, NEW in \in Nat \ {0}, NEW T,
         Begins(aToB, p, T)
  PROVE  Agree(aToB, p, in, EngineAt(aToB, p, in, T), VenueAt(aToB, p, in, T))
<1> DEFINE A == AheadOf(p, aToB)
           Good(s) == Agree(aToB, p, in, EngineAt(aToB, p, in, s), VenueAt(aToB, p, in, s))
           F == {s \in SUBSET A : Begins(aToB, p, s) /\ ~Good(s)}
<1>1. SUFFICES ASSUME F # {} PROVE FALSE
  BY DEF Begins
<1>2. IsFiniteSet(A)
  <2>1. IsFiniteSet(Tick)
    BY PoolAssumption, FS_Interval DEF Tick
  <2> QED
    BY <2>1, AheadIs, FS_Subset
<1>3. PICK s \in F : \A x \in s : s \ {x} \notin F
  BY <1>1, <1>2, MinimalSubset
<1>4. s \subseteq A /\ Begins(aToB, p, s) /\ ~Good(s)
  BY <1>3
<1> DEFINE e == EngineAt(aToB, p, in, s)
           v == VenueAt(aToB, p, in, s)
<1>5. CASE s = {}
  <2>1. v = Start(p.price, p.liq, in) /\ e = Start(p.price, p.liq, in)
    BY <1>5, VenueIs, EngineIs
  <2>2. Good(s)
    BY <2>1 DEF Agree
  <2> QED
    BY <1>4, <2>2
<1>6. CASE s # {}
  <2>1. PICK f : VenueLast(aToB, p, in, s, f)
    BY <1>4, <1>6, VenueIs
  <2>2. PICK g : EngineLast(aToB, p, in, s, g)
    BY <1>4, <1>6, EngineIs
  <2>3. f = g
    <3>1. f \in s /\ g \in s /\ Nearer(aToB, f, g) /\ Nearer(aToB, g, f)
      BY <2>1, <2>2 DEF VenueLast, EngineLast
    <3>2. f \in Int /\ g \in Int
      BY <1>4, <3>1, AheadIs, Ticks
    <3> QED
      BY <3>1, <3>2 DEF Nearer
  <2> DEFINE y == VenueAt(aToB, p, in, s \ {f})
             x == EngineAt(aToB, p, in, s \ {f})
             b == BoundaryOf(p, f)
  <2>4. /\ f \in s /\ \A t \in s : Nearer(aToB, t, f)
        /\ y \in WalkState /\ Onward(aToB, y.price, b.price) /\ b \in Bounds
        /\ v = Turn(TRUE, aToB, y, b)
    BY <2>1 DEF VenueLast, BoundaryOf
  <2>5. /\ x \in WalkState /\ Onward(aToB, x.price, b.price)
        /\ e = Turn(FALSE, aToB, x, b)
    BY <2>2, <2>3 DEF EngineLast, BoundaryOf
  <2>6. Begins(aToB, p, s \ {f})
    BY <1>4, <2>4, BeginsLess
  <2>7. Agree(aToB, p, in, x, y)
    BY <1>3, <1>4, <2>4, <2>6
  <2>8. y.going
    BY <2>6, VenueInside
  <2>9. v = VenueAt(aToB, p, in, s)
    OBVIOUS
  <2> HIDE DEF x, y, b, v, e
  <2>10. Agree(aToB, p, in, e, v)
    BY <1>4, <1>6, <2>4, <2>5, <2>7, <2>8, <2>9, TurnAgrees
  <2> QED
    BY <1>4, <2>10 DEF e, v
<1> QED
  BY <1>5, <1>6

-----------------------------------------------------------------------------
(* A quote on a window *)

\* An initialized tick is below the current one's range end, or above, as its price says.
LEMMA SideOf ==
  ASSUME NEW p, IsSound(p), NEW t \in Initialized(p), SqrtAt[t] # p.price
  PROVE  t <= p.tick <=> SqrtAt[t] < p.price
<1>1. /\ p.price \in Nat /\ p.tick \in Int /\ t \in Tick /\ t \in Int /\ SqrtAt[t] \in Nat
  BY SoundPool, Ticks, Prices DEF Initialized
<1>2. CASE t <= p.tick
  <2>1. t \in AheadOf(p, TRUE)
    BY <1>2 DEF AheadOf
  <2>2. Onward(TRUE, p.price, SqrtAt[t])
    BY <2>1, AheadIs
  <2> QED
    BY <1>1, <1>2, <2>2 DEF Onward
<1>3. CASE ~(t <= p.tick)
  <2>1. t \in AheadOf(p, FALSE)
    BY <1>3 DEF AheadOf
  <2>2. Onward(FALSE, p.price, SqrtAt[t])
    BY <2>1, AheadIs
  <2> QED
    BY <1>1, <1>3, <2>2 DEF Onward
<1> QED
  BY <1>2, <1>3

\* The ticks of a window that are ahead.
InWindow(p, W, aToB) == W \intersect AheadOf(p, aToB)

\* They begin the way, and the engine's boundaries are theirs.
WindowAhead(p, W, aToB) ==
  LET E == InWindow(p, W, aToB)
  IN  /\ Ahead(Exact(p, W), p.price, aToB) = Exact(p, E)
      /\ Begins(aToB, p, E) /\ E # {}
      /\ \A t \in W : t \notin E => IF aToB THEN p.tick < t ELSE t <= p.tick

\* A window is ahead in this sense when the price lies within the window and between ticks.
LEMMA WindowIsAhead ==
  ASSUME NEW p, IsSound(p), NEW W, IsWindow(W, Initialized(p)), NEW aToB \in BOOLEAN,
         \A t \in Initialized(p) : SqrtAt[t] # p.price,
         \E s, t \in Exact(p, W) : s.price < p.price /\ p.price < t.price
  PROVE  WindowAhead(p, W, aToB)
<1> DEFINE E == InWindow(p, W, aToB)
<1>1. /\ W \subseteq Initialized(p) /\ Initialized(p) \subseteq Tick /\ p.tick \in Int
      /\ p.price \in Nat /\ p.net \in [Tick -> Int]
  BY SoundPool, Ticks DEF IsWindow, Initialized
<1>2. \A t \in W : /\ t \in Int /\ SqrtAt[t] \in Nat /\ SqrtAt[t] # p.price
                   /\ t <= p.tick <=> SqrtAt[t] < p.price
                   /\ BoundaryOf(p, t).price = SqrtAt[t]
  <2>1. ASSUME NEW t \in W
        PROVE  /\ t \in Int /\ SqrtAt[t] \in Nat /\ SqrtAt[t] # p.price
               /\ t <= p.tick <=> SqrtAt[t] < p.price
    BY <1>1, SideOf, Ticks, Prices
  <2>2. \A t : BoundaryOf(p, t).price = SqrtAt[t]
    BY DEF BoundaryOf
  <2> QED
    BY <2>1, <2>2
<1>3. \A t \in W : t \in E <=> (t <= p.tick) = aToB
  BY <1>1 DEF InWindow, AheadOf
<1>4. \A t \in W : t \in E <=> IF aToB THEN SqrtAt[t] < p.price ELSE SqrtAt[t] > p.price
  <2> SUFFICES ASSUME NEW t \in W
               PROVE  t \in E <=> IF aToB THEN SqrtAt[t] < p.price ELSE SqrtAt[t] > p.price
    OBVIOUS
  <2>1. CASE aToB
    <3>1. t \in E <=> t <= p.tick
      BY <1>3, <2>1
    <3> QED
      BY <1>2, <2>1, <3>1
  <2>2. CASE ~aToB
    <3>1. t \in E <=> ~(t <= p.tick)
      BY <1>3, <2>2
    <3> QED
      BY <1>1, <1>2, <2>2, <3>1
  <2> QED
    BY <2>1, <2>2
<1>5. Exact(p, W) = {BoundaryOf(p, t) : t \in W} /\ Exact(p, E) = {BoundaryOf(p, t) : t \in E}
      /\ E \subseteq W
  BY DEF Exact, BoundaryOf, InWindow
<1>6. Ahead(Exact(p, W), p.price, aToB) = Exact(p, E)
  <2> HIDE DEF E
  <2>1. \A b : b \in Ahead(Exact(p, W), p.price, aToB)
               <=> /\ b \in Exact(p, W)
                   /\ IF aToB THEN b.price < p.price ELSE b.price > p.price
    BY DEF Ahead
  <2>2. \A t \in W : (IF aToB THEN BoundaryOf(p, t).price < p.price
                              ELSE BoundaryOf(p, t).price > p.price) <=> t \in E
    BY <1>2, <1>4
  <2>3. ASSUME NEW b \in Ahead(Exact(p, W), p.price, aToB) PROVE b \in Exact(p, E)
    <3>1. PICK t \in W : b = BoundaryOf(p, t)
      BY <1>5, <2>1
    <3>2. t \in E
      BY <2>1, <2>2, <2>3, <3>1
    <3> QED
      BY <1>5, <3>1, <3>2
  <2>4. ASSUME NEW b \in Exact(p, E) PROVE b \in Ahead(Exact(p, W), p.price, aToB)
    <3>1. PICK t \in E : b = BoundaryOf(p, t)
      BY <1>5
    <3>2. t \in W /\ b \in Exact(p, W)
      BY <1>5, <3>1
    <3> QED
      BY <2>1, <2>2, <3>1, <3>2
  <2> QED
    BY <2>3, <2>4
<1>7. PICK x \in W, y \in W : SqrtAt[x] < p.price /\ p.price < SqrtAt[y]
  <2>1. PICK a \in Exact(p, W), b \in Exact(p, W) : a.price < p.price /\ p.price < b.price
    OBVIOUS
  <2>2. PICK x \in W, y \in W : a = BoundaryOf(p, x) /\ b = BoundaryOf(p, y)
    BY <1>5
  <2> QED
    BY <1>2, <2>1, <2>2
<1>8. x <= p.tick /\ p.tick < y /\ x \in Int /\ y \in Int
  <2>1. x <= p.tick /\ ~(y <= p.tick)
    BY <1>1, <1>2, <1>7
  <2> QED
    BY <1>1, <1>2, <2>1
<1>9. E # {}
  <2>1. (x <= p.tick) = TRUE /\ (y <= p.tick) = FALSE
    BY <1>1, <1>8
  <2>2. x \in E \/ y \in E
    BY <1>3, <2>1
  <2> QED
    BY <2>2
<1>10. ASSUME NEW t \in E, NEW r \in AheadOf(p, aToB), Nearer(aToB, r, t) PROVE r \in E
  <2>1. t \in W /\ r \in Initialized(p) /\ t \in Int /\ r \in Int
        /\ IF aToB THEN r <= p.tick ELSE p.tick < r
    BY <1>1, <1>5, <1>10, AheadIs, Ticks DEF AheadOf
  <2>2. r \in W
    <3>1. CASE aToB
      <4>1. t <= r /\ r <= y
        BY <1>1, <1>8, <1>10, <2>1, <3>1 DEF Nearer
      <4> QED
        BY <2>1, <4>1 DEF IsWindow
    <3>2. CASE ~aToB
      <4>1. x <= r /\ r <= t
        BY <1>1, <1>8, <1>10, <2>1, <3>2 DEF Nearer
      <4> QED
        BY <2>1, <4>1 DEF IsWindow
    <3> QED
      BY <3>1, <3>2
  <2> QED
    BY <1>10, <2>2 DEF InWindow
<1>11. Begins(aToB, p, E)
  <2>1. E \subseteq AheadOf(p, aToB)
    BY DEF InWindow
  <2> HIDE DEF E
  <2> QED
    BY <1>10, <2>1 DEF Begins
<1>12. ASSUME NEW t \in W, t \notin E PROVE IF aToB THEN p.tick < t ELSE t <= p.tick
  <2>1. CASE aToB
    <3>1. ~(t <= p.tick)
      BY <1>3, <1>12, <2>1
    <3> QED
      BY <1>1, <1>2, <2>1, <3>1
  <2>2. CASE ~aToB
    <3>1. t <= p.tick
      BY <1>3, <1>12, <2>2
    <3> QED
      BY <2>2, <3>1
  <2> QED
    BY <2>1, <2>2
<1> QED
  BY <1>6, <1>9, <1>11, <1>12 DEF WindowAhead

\* With input left, the venue's walk is at the last tick it met.
LEMMA VenueAtLast ==
  ASSUME NEW p, IsSound(p), NEW aToB \in BOOLEAN, NEW in \in Nat \ {0}, NEW T,
         Begins(aToB, p, T), T # {}, VenueAt(aToB, p, in, T).remaining > 0
  PROVE  \E f : /\ VenueLast(aToB, p, in, T, f)
                /\ VenueAt(aToB, p, in, T).price = SqrtAt[f]
<1>1. PICK f : VenueLast(aToB, p, in, T, f)
  BY VenueIs DEF Begins
<1> DEFINE u == VenueAt(aToB, p, in, T \ {f})
           b == BoundaryOf(p, f)
           v == VenueAt(aToB, p, in, T)
<1>2. /\ f \in T /\ \A t \in T : Nearer(aToB, t, f)
      /\ u \in WalkState /\ Onward(aToB, u.price, b.price) /\ b \in Bounds
      /\ v = Turn(TRUE, aToB, u, b) /\ b.price = SqrtAt[f]
  BY <1>1 DEF VenueLast, BoundaryOf
<1>3. u.going
  <2>1. Begins(aToB, p, T \ {f})
    BY <1>2, BeginsLess
  <2> QED
    BY <2>1, VenueInside
<1>4. v.remaining > 0
  OBVIOUS
<1> HIDE DEF u, b, v
<1>5. u.remaining # 0
  <2>1. Follows(aToB, v, u)
    BY <1>2, TurnFollows
  <2> QED
    BY <1>4, <2>1 DEF Follows
<1>6. v.price = b.price
  <2> DEFINE s == StepOf(aToB, u, b)
  <2>1. u.remaining > 0 /\ u.remaining \in Nat
    BY <1>2, <1>5 DEF WalkState
  <2>2. /\ v = [price |-> s.next, liq |-> LiqAfter(aToB, u, b),
                remaining |-> u.remaining - (s.in + s.fee),
                out |-> u.out + s.out,
                going |-> TRUE \/ (s.next = b.price /\ LiqAfter(aToB, u, b) > 0)]
        /\ s.in \in Nat /\ s.fee \in Nat
        /\ s.next # b.price => s.in + s.fee = u.remaining
    <3>1. Steps(v, TRUE, aToB, u, b)
      BY <1>2, <1>3, <2>1, Moves
    <3> QED
      BY <3>1 DEF Steps
  <2> HIDE DEF s
  <2> QED
    BY <1>4, <2>1, <2>2
<1> QED
  BY <1>1, <1>2, <1>6 DEF v

\* The venue goes through a range without liquidity on its way from the price.
GapOnWay(aToB, p, w) ==
  IF aToB THEN Gap(p.net, w.price, p.price) ELSE Gap(p.net, p.price, w.price)

\* There is a next tick, to which the venue's walk gets for nothing.
DryTick(aToB, p, in, T, g, z) ==
  /\ g \notin T /\ Begins(aToB, p, T \union {g})
  /\ \A t \in T \union {g} : Nearer(aToB, t, g)
  /\ z = VenueAt(aToB, p, in, T \union {g}) /\ z \in WalkState
  /\ z.price = SqrtAt[g]

\* A walk that has run dry gets on so, while there are ticks ahead.
LEMMA DryStep ==
  ASSUME NEW p, IsSound(p), NEW aToB \in BOOLEAN, NEW in \in Nat \ {0}, NEW T,
         Runs(aToB, p, in, T), T # AheadOf(p, aToB)
  PROVE  \E g, z : DryTick(aToB, p, in, T, g, z)
<1> DEFINE A == AheadOf(p, aToB)
           F == {s \in SUBSET A : Begins(aToB, p, s) /\ T \subseteq s /\ s # T}
<1>1. IsFiniteSet(A)
  <2>1. IsFiniteSet(Tick)
    BY PoolAssumption, FS_Interval DEF Tick
  <2> QED
    BY <2>1, AheadIs, FS_Subset
<1>2. A \in F
  <2>1. Begins(aToB, p, A) /\ T \subseteq A
    BY DEF Begins, Runs
  <2> QED
    BY <2>1
<1>3. PICK s \in F : \A x \in s : s \ {x} \notin F
  <2>1. F \subseteq SUBSET A /\ F # {}
    BY <1>2
  <2> HIDE DEF F, A
  <2> QED
    BY <1>1, <2>1, MinimalSubset
<1>4. s \subseteq A /\ Begins(aToB, p, s) /\ T \subseteq s /\ s # T /\ Begins(aToB, p, T)
      /\ s # {}
  BY <1>3 DEF Runs
<1>5. PICK g : VenueLast(aToB, p, in, s, g)
  BY <1>4, VenueIs
<1>6. g \in s /\ \A t \in s : Nearer(aToB, t, g)
  BY <1>5 DEF VenueLast
<1>7. Begins(aToB, p, s \ {g}) /\ T \subseteq s \ {g}
  BY <1>4, <1>6, BeginsLess, LastIsNew
<1>8. s \ {g} = T
  BY <1>3, <1>4, <1>6, <1>7
<1>9. s = T \union {g} /\ g \notin T
  BY <1>6, <1>8
<1> DEFINE v == VenueAt(aToB, p, in, T)
           z == VenueAt(aToB, p, in, s)
           b == BoundaryOf(p, g)
<1>10. /\ v \in WalkState /\ Onward(aToB, v.price, b.price) /\ b \in Bounds
       /\ z = Turn(TRUE, aToB, v, b) /\ b.price = SqrtAt[g]
  BY <1>5, <1>8 DEF VenueLast, BoundaryOf
<1>11. v.going /\ v.liq = 0 /\ v.remaining > 0
  BY <1>4, VenueInside DEF Runs
<1>12. z \in WalkState
  BY <1>4, VenueIs
<1> HIDE DEF v, z, b
<1>13. z.price = b.price
  <2> DEFINE k == StepOf(aToB, v, b)
  <2>1. z = [price |-> k.next, liq |-> LiqAfter(aToB, v, b),
             remaining |-> v.remaining - (k.in + k.fee),
             out |-> v.out + k.out,
             going |-> TRUE \/ (k.next = b.price /\ LiqAfter(aToB, v, b) > 0)]
    <3>1. Steps(z, TRUE, aToB, v, b)
      BY <1>10, <1>11, Moves
    <3> QED
      BY <3>1 DEF Steps
  <2>2. k.next = b.price
    <3> DEFINE c == v.price
               q == b.price
               l == v.liq
               r == v.remaining
               y == SwapStep(c, q, l, r, FeePips, aToB)
    <3>1. /\ c \in Nat \ {0} /\ q \in Nat \ {0} /\ l \in Nat /\ r \in Nat /\ l = 0
          /\ FeePips \in 0 .. PipsDenom - 1
      BY <1>10, <1>11, PoolAssumption DEF WalkState, Bounds
    <3>2. k = y
      BY DEF StepOf
    <3> HIDE DEF c, q, l, r, k
    <3>3. y.next = q
      BY <3>1, FreeStep
    <3> QED
      BY <3>2, <3>3 DEF q
  <2> HIDE DEF k
  <2> QED
    BY <2>1, <2>2
<1>14. DryTick(aToB, p, in, T, g, z)
  BY <1>4, <1>6, <1>9, <1>10, <1>12, <1>13 DEF DryTick, z
<1> QED
  BY <1>14

\* Where the engine stops for want of liquidity, the venue passes a gap.
LEMMA DryGap ==
  ASSUME NEW p, IsSound(p), NEW aToB \in BOOLEAN, NEW in \in Nat \ {0},
         RunsDry(aToB, p, in), VenueWalk(p, in, aToB).remaining = 0
  PROVE  GapOnWay(aToB, p, VenueWalk(p, in, aToB))
<1> DEFINE A == AheadOf(p, aToB)
           w == VenueWalk(p, in, aToB)
<1>1. w = VenueAt(aToB, p, in, A) /\ Begins(aToB, p, A)
  BY DEF VenueWalk, VenueAt, WalkOver, Begins
<1>2. w.remaining = 0
  OBVIOUS
<1> HIDE DEF w
<1>3. PICK T : Runs(aToB, p, in, T)
  BY DEF RunsDry
<1> DEFINE v == VenueAt(aToB, p, in, T)
<1>4. Begins(aToB, p, T) /\ T # {} /\ v.liq = 0 /\ v.remaining > 0
  BY <1>3 DEF Runs
<1>5. T # A
  <2>1. SUFFICES ASSUME T = A PROVE FALSE
    OBVIOUS
  <2>2. v = w
    BY <1>1, <2>1
  <2> HIDE DEF v
  <2> QED
    BY <1>2, <1>4, <2>2
<1>6. PICK g, z : DryTick(aToB, p, in, T, g, z)
  BY <1>3, <1>5, DryStep
<1>7. PICK f : VenueLast(aToB, p, in, T, f) /\ v.price = SqrtAt[f]
  BY <1>4, VenueAtLast
<1>8. PICK c : WithinTick(aToB, p, T, v, c)
  BY <1>4, VenueInside
<1>9. f \in T
  BY <1>7 DEF VenueLast
<1> HIDE DEF v
<1>10. /\ c \in CurrentTick /\ Depth(p.net, c) = 0
       /\ IF aToB THEN c <= p.tick ELSE p.tick <= c
       /\ Crossed(aToB, p, c) = T
  BY <1>4, <1>8 DEF WithinTick
<1> DEFINE s == T \union {g}
<1>11. /\ g \in s /\ g \notin T /\ Begins(aToB, p, s) /\ \A t \in s : Nearer(aToB, t, g)
       /\ z = VenueAt(aToB, p, in, s) /\ z.price = SqrtAt[g] /\ s \ {g} = T
  BY <1>6 DEF DryTick
<1> HIDE DEF s
<1>12. QuietWay(aToB, p, g, c)
  <2>1. Crossed(aToB, p, c) = s \ {g}
    BY <1>10, <1>11
  <2> QED
    BY <1>10, <1>11, <2>1, RangeAhead, Zenon
<1>13. Onward(aToB, SqrtAt[g], w.price)
  <2>1. s \subseteq A
    BY <1>11 DEF Begins
  <2> HIDE DEF A
  <2>2. Follows(aToB, w, z)
    BY <1>1, <1>11, <2>1, VenueFollows
  <2> QED
    BY <1>11, <2>2 DEF Follows
<1>14. f \in A /\ f \in Crossed(aToB, p, c) /\ f \in Tick /\ f \in Int /\ f \in CurrentTick
  BY <1>4, <1>9, <1>10, AheadIs, Ticks DEF Begins
<1>15. Onward(aToB, p.price, SqrtAt[f])
  BY <1>14, AheadIs
<1>16. /\ g \in Tick /\ g \in Int /\ g \in CurrentTick /\ c \in Int /\ LastTick \in Int
       /\ f <= LastTick /\ 0 <= f /\ g <= LastTick /\ 0 <= g
       /\ SqrtAt[f] \in Nat /\ SqrtAt[g] \in Nat /\ SqrtAt[c] \in Nat /\ p.price \in Nat
  <2>1. g \in Tick
    BY <1>12 DEF QuietWay
  <2>2. c \in Int /\ LastTick \in Int /\ p.price \in Nat
    BY <1>10, SoundPool, Ticks
  <2>3. f <= LastTick /\ 0 <= f /\ g <= LastTick /\ 0 <= g /\ g \in Int /\ g \in CurrentTick
    BY <1>14, <2>1, Ticks DEF Tick
  <2> QED
    BY <1>10, <1>14, <2>1, <2>2, <2>3, Prices
<1>17. w.price \in Nat
  BY <1>1, VenueIs DEF WalkState
<1>18. CASE aToB
  <2>1. c < f /\ g <= c /\ \A t \in CurrentTick : g <= t /\ t <= c
                                         => Depth(p.net, t) = Depth(p.net, c)
    BY <1>12, <1>14, <1>18 DEF Crossed, QuietWay
  <2>2. Depth(p.net, g) = 0 /\ w.price <= SqrtAt[g]
    BY <1>10, <1>13, <1>16, <1>18, <2>1 DEF Onward
  <2>3. g \in 0 .. LastTick - 1 /\ g + 1 <= f /\ g + 1 \in CurrentTick
    BY <1>14, <1>16, <2>1, Ticks
  <2>4. SqrtAt[g + 1] <= SqrtAt[f] /\ SqrtAt[g + 1] \in Nat
    BY <1>14, <2>3, Prices
  <2>5. SqrtAt[g + 1] <= p.price
    BY <1>15, <1>16, <1>18, <2>4 DEF Onward
  <2>6. Gap(p.net, w.price, p.price)
    BY <2>2, <2>3, <2>5 DEF Gap
  <2> QED
    BY <1>18, <2>6 DEF GapOnWay, w
<1>19. CASE ~aToB
  <2>1. f <= c /\ c <= g - 1
    BY <1>12, <1>14, <1>19 DEF Crossed, QuietWay
  <2>2. p.price <= SqrtAt[c]
    <3>1. SqrtAt[f] <= SqrtAt[c]
      BY <1>10, <1>14, <2>1, Prices
    <3> QED
      BY <1>15, <1>16, <1>19, <3>1 DEF Onward
  <2>3. c \in 0 .. LastTick - 1 /\ c + 1 <= g /\ c + 1 \in CurrentTick
    <3>1. c < LastTick /\ c \in 0 .. LastTick - 1 /\ c + 1 <= g
      BY <1>14, <1>16, <2>1
    <3> QED
      BY <1>10, <3>1, Ticks
  <2>4. SqrtAt[c + 1] <= SqrtAt[g] /\ SqrtAt[c + 1] \in Nat
    BY <1>16, <2>3, Prices
  <2>5. SqrtAt[c + 1] <= w.price
    BY <1>13, <1>16, <1>17, <1>19, <2>4 DEF Onward
  <2>6. Gap(p.net, p.price, w.price)
    BY <1>10, <2>2, <2>3, <2>5 DEF Gap
  <2> QED
    BY <1>19, <2>6 DEF GapOnWay, w
<1> QED
  BY <1>18, <1>19

\* A quote on the ticks of a window around the price, or its refusal.
WindowQuote(p, W, in, aToB) ==
  LET q == QuoteExactIn(Exact(p, W), p.price, p.liq, FeePips, in, aToB)
      w == VenueWalk(p, in, aToB)
  IN  /\ q # None => w.remaining = 0 /\ q = w.out
      /\ q = None => \/ p.liq = 0 \/ w.remaining > 0 \/ w.out > U64Max \/ GapOnWay(aToB, p, w)
                     \/ \A t \in Exact(p, W) :
                          IF aToB THEN w.price <= t.price ELSE w.price >= t.price

\* A quote is what the venue pays; a refusal has its reason.
LEMMA WindowQuoteIs ==
  ASSUME NEW p, IsSound(p), NEW W, IsWindow(W, Initialized(p)), NEW in \in Nat \ {0},
         NEW aToB \in BOOLEAN,
         \A t \in Initialized(p) : SqrtAt[t] # p.price,
         \E s, t \in Exact(p, W) : s.price < p.price /\ p.price < t.price
  PROVE  WindowQuote(p, W, in, aToB)
<1> DEFINE A == AheadOf(p, aToB)
           E == InWindow(p, W, aToB)
           w == VenueWalk(p, in, aToB)
           e == EngineAt(aToB, p, in, E)
           v == VenueAt(aToB, p, in, E)
           q == QuoteExactIn(Exact(p, W), p.price, p.liq, FeePips, in, aToB)
<1>1. /\ Ahead(Exact(p, W), p.price, aToB) = Exact(p, E)
      /\ Begins(aToB, p, E) /\ E # {}
      /\ \A t \in W : t \notin E => IF aToB THEN p.tick < t ELSE t <= p.tick
  <2>1. WindowAhead(p, W, aToB)
    BY WindowIsAhead, Zenon
  <2> QED
    BY <2>1, Zenon DEF WindowAhead
<1>2. /\ w = VenueAt(aToB, p, in, A) /\ Begins(aToB, p, A) /\ E \subseteq A
      /\ Follows(aToB, w, v) /\ w \in WalkState /\ v \in WalkState /\ v.going
  <2>1. w = VenueAt(aToB, p, in, A) /\ Begins(aToB, p, A)
    BY DEF VenueWalk, VenueAt, WalkOver, Begins
  <2>2. E \subseteq A
    BY DEF InWindow
  <2> HIDE DEF A, E, w, v
  <2>3. Follows(aToB, w, v)
    BY <1>1, <2>1, <2>2, VenueFollows DEF v
  <2>4. w \in WalkState /\ v \in WalkState
    BY <2>1, <2>2, VenueIs DEF v, A
  <2>5. v.going
    BY <1>1, VenueInside DEF v
  <2> QED
    BY <2>1, <2>2, <2>3, <2>4, <2>5
<1>3. Agree(aToB, p, in, e, v) /\ e \in WalkState
  <2> HIDE DEF E
  <2> QED
    BY <1>1, WalksOfBoth, EngineIs DEF Begins
<1>4. p.liq # 0 => q = IF e.remaining > 0 \/ e.out > U64Max THEN None ELSE e.out
  <2>1. ASSUME p.liq # 0 PROVE IsQuote(Exact(p, W), p.price, p.liq, in, aToB)
    <3>1. p.price \in Nat \ {0} /\ p.liq \in Nat \ {0} /\ p.net \in [Tick -> Int]
      BY <2>1, SoundPool
    <3>2. W \subseteq Tick /\ W # {}
      BY DEF IsWindow, Initialized
    <3>3. Loaded(Exact(p, W))
      BY <3>1, <3>2, ExactIs DEF Loaded
    <3> QED
      BY <3>1, <3>3, QuoteIs
  <2>2. e = EngineWalk(Exact(p, W), p.price, p.liq, in, aToB)
    <3> HIDE DEF E
    <3> QED
      BY <1>1 DEF EngineAt, EngineWalk
  <2> HIDE DEF e, q
  <2> QED
    BY <2>1, <2>2 DEF IsQuote, q
<1>5. p.liq = 0 => q = None
  BY DEF QuoteExactIn
<1>6. q # None => w.remaining = 0 /\ q = w.out
  <2> HIDE DEF e, q, v, w
  <2>1. SUFFICES ASSUME q # None PROVE w.remaining = 0 /\ q = w.out
    OBVIOUS
  <2>2. e.remaining = 0 /\ q = e.out
    BY <1>3, <1>4, <1>5, <2>1 DEF WalkState
  <2>3. v.remaining = 0 /\ v.out = e.out
    BY <1>3, <2>2 DEF Agree
  <2> QED
    BY <1>2, <2>2, <2>3 DEF Follows
<1>7. ASSUME q = None, p.liq # 0, w.remaining = 0, ~(w.out > U64Max), ~GapOnWay(aToB, p, w),
             NEW t \in Exact(p, W)
      PROVE  IF aToB THEN w.price <= t.price ELSE w.price >= t.price
  <2>1. e.remaining > 0
    <3>1. e.out # None /\ e.out \in Nat /\ e.remaining \in Nat
      BY <1>3, ClmmAssumption DEF WalkState
    <3>2. e.remaining = 0 => w.out = e.out
      <4> HIDE DEF e, q, v, w
      <4> QED
        BY <1>2, <1>3 DEF Agree, Follows
    <3> HIDE DEF e, q, w
    <3> QED
      BY <1>4, <1>7, <3>1, <3>2
  <2>2. ~RunsDry(aToB, p, in)
    BY <1>7, DryGap
  <2>3. e = v
    <3> HIDE DEF e, v
    <3> QED
      BY <1>3, <2>1, <2>2 DEF Agree
  <2>4. v.remaining > 0
    <3> HIDE DEF e, v
    <3> QED
      BY <2>1, <2>3
  <2>5. PICK f : VenueLast(aToB, p, in, E, f) /\ v.price = SqrtAt[f]
    <3> HIDE DEF E
    <3> QED
      BY <1>1, <2>4, VenueAtLast
  <2>6. f \in E /\ \A x \in E : Nearer(aToB, x, f)
    BY <2>5 DEF VenueLast
  <2>7. PICK x \in W : t = BoundaryOf(p, x)
    BY <1>7 DEF Exact, BoundaryOf
  <2>8. t.price = SqrtAt[x]
    BY <2>7 DEF BoundaryOf
  <2>9. /\ f \in CurrentTick /\ x \in CurrentTick /\ f \in Int /\ x \in Int /\ p.tick \in Int
        /\ IF aToB THEN f <= p.tick ELSE p.tick < f
    <3>1. f \in A /\ x \in Tick
      BY <1>2, <2>6 DEF IsWindow, Initialized
    <3>2. f \in Tick /\ IF aToB THEN f <= p.tick ELSE p.tick < f
      BY <3>1, AheadIs
    <3> QED
      BY <3>1, <3>2, SoundPool, Ticks
  <2>10. Nearer(aToB, x, f)
    <3>1. CASE x \in E
      BY <2>6, <3>1
    <3>2. CASE x \notin E
      <4>1. IF aToB THEN p.tick < x ELSE x <= p.tick
        BY <1>1, <2>7, <3>2
      <4> QED
        BY <2>9, <4>1 DEF Nearer
    <3> QED
      BY <3>1, <3>2
  <2>11. Onward(aToB, SqrtAt[x], SqrtAt[f]) /\ SqrtAt[x] \in Nat /\ SqrtAt[f] \in Nat
    BY <2>9, <2>10, Prices DEF Nearer, Onward
  <2>12. Onward(aToB, v.price, w.price) /\ w.price \in Nat
    BY <1>2 DEF Follows, WalkState
  <2> HIDE DEF v, w
  <2> QED
    BY <2>5, <2>8, <2>11, <2>12 DEF Onward
<1> HIDE DEF q, w, v, e
<1>8. w.remaining \in Nat
  BY <1>2 DEF WalkState
<1>9. q = None => \/ p.liq = 0 \/ w.remaining > 0 \/ w.out > U64Max \/ GapOnWay(aToB, p, w)
                  \/ \A t \in Exact(p, W) :
                       IF aToB THEN w.price <= t.price ELSE w.price >= t.price
  BY <1>7, <1>8
<1> QED
  BY <1>6, <1>9, Zenon DEF WindowQuote, q, w

-----------------------------------------------------------------------------
(* Which liquidity the ticks belong to *)

\* Ticks that are a window of pool p's.
Holds(p, ts) == \E W : IsWindow(W, Initialized(p)) /\ ts = Exact(p, W)

\* Which windows a pool has depends on its liquidity only.
LEMMA HoldsSame ==
  ASSUME NEW p, NEW q, p.net = q.net, NEW ts, Holds(p, ts)
  PROVE  Holds(q, ts)
<1>1. Initialized(p) = Initialized(q)
  BY DEF Initialized
<1>2. PICK W : IsWindow(W, Initialized(p)) /\ ts = Exact(p, W)
  BY DEF Holds
<1>3. ts = Exact(q, W)
  BY <1>2 DEF Exact
<1> QED
  BY <1>1, <1>2, <1>3 DEF Holds

\* A pool object read is as old as its liquidity says.
ObjectDated == object # None =>
  /\ object.deposits <= pool.deposits
  /\ object.deposits = pool.deposits => object.net = pool.net

\* So are the names listed,
NamesDated == names # None =>
  /\ names.at <= pool.deposits
  /\ names.at = pool.deposits => IsWindow(names.ticks, Initialized(pool))

\* and the ticks cached: when they are of the pool's liquidity, or of the object's, they
\* are a window of it.
CacheDated == tickCache # None =>
  /\ tickCache.at = Torn \/ tickCache.at <= pool.deposits
  /\ tickCache.at = pool.deposits => Holds(pool, tickCache.ticks)
  /\ object # None /\ tickCache.at = object.deposits => Holds(object, tickCache.ticks)

\* The ticks published are.
SnapshotDated == Settled => Holds(snapshot.object, snapshot.ticks)

\* What the parts of a round have to do with each other.
HistoryInv == ObjectDated /\ NamesDated /\ CacheDated /\ SnapshotDated

\* At the start nothing has been read.
LEMMA HistoryInit ==
  ASSUME Init
  PROVE  HistoryInv
  BY DEF Init, HistoryInv, ObjectDated, NamesDated, CacheDated, SnapshotDated, Settled

\* While the liquidity stays the same, so does what is known of it.
LEMMA HistoryTrade ==
  ASSUME TypesInv, HistoryInv, NEW in \in TradeSize, NEW aToB \in BOOLEAN, Trade(in, aToB)
  PROVE  HistoryInv'
<1>1. /\ VenueWalk(pool, in, aToB).remaining = 0
      /\ pool' = AfterSwap(pool, VenueWalk(pool, in, aToB), aToB)
      /\ object' = object /\ names' = names /\ tickCache' = tickCache /\ snapshot' = snapshot
  BY DEF Trade
<1>2. IsSound(pool) /\ in \in Nat \ {0}
  BY PoolAssumption DEF TypesInv
<1>3. pool'.net = pool.net /\ pool'.deposits = pool.deposits
  BY <1>1, <1>2, SwapSound
<1>4. Initialized(pool') = Initialized(pool)
  BY <1>3 DEF Initialized
<1>5. \A ts : Holds(pool, ts) => Holds(pool', ts)
  BY <1>3, HoldsSame
<1>6. ObjectDated' /\ NamesDated'
  BY <1>1, <1>3, <1>4 DEF HistoryInv, ObjectDated, NamesDated
<1>7. CacheDated'
  BY <1>1, <1>3, <1>5 DEF HistoryInv, CacheDated
<1>8. SnapshotDated'
  BY <1>1 DEF HistoryInv, SnapshotDated, Settled
<1> QED
  BY <1>6, <1>7, <1>8 DEF HistoryInv

\* When it changes, everything known is older.
LEMMA HistoryDeposit ==
  ASSUME TypesInv, HistoryInv, NEW pos \in Positions, NEW sign \in {-1, 1},
         Deposit(pos, sign)
  PROVE  HistoryInv'
<1>1. object' = object /\ names' = names /\ tickCache' = tickCache /\ snapshot' = snapshot
      /\ pool.deposits < MaxDeposits
  BY DEF Deposit
<1>2. pool'.deposits = pool.deposits + 1
  BY DepositSound DEF TypesInv
<1>3. pool.deposits \in 0 .. MaxDeposits /\ MaxDeposits \in Nat
  BY PoolAssumption DEF TypesInv, IsSound, IsPool
<1>4. pool'.deposits \in Nat /\ pool'.deposits > pool.deposits /\ pool'.deposits < Torn
  BY <1>1, <1>2, <1>3 DEF Torn
<1>5. ObjectDated'
  <2>1. object # None => object.deposits \in Nat
    BY DEF TypesInv, ObjectOK, IsSound, IsPool
  <2> QED
    BY <1>1, <1>3, <1>4, <2>1 DEF HistoryInv, ObjectDated
<1>6. NamesDated'
  <2>1. names # None => names.at \in Nat
    BY DEF TypesInv, NamesOK
  <2> QED
    BY <1>1, <1>3, <1>4, <2>1 DEF HistoryInv, NamesDated
<1>7. CacheDated'
  <2>1. tickCache # None => tickCache.at \in Nat
    BY <1>3 DEF TypesInv, CacheOK, IsCached, Torn
  <2>2. Torn \in Nat
    BY <1>3 DEF Torn
  <2>3. tickCache # None => tickCache.at # pool'.deposits
                            /\ (tickCache.at = Torn \/ tickCache.at <= pool'.deposits)
    BY <1>3, <1>4, <2>1, <2>2 DEF HistoryInv, CacheDated
  <2> QED
    BY <1>1, <2>3 DEF HistoryInv, CacheDated
<1>8. SnapshotDated'
  BY <1>1 DEF HistoryInv, SnapshotDated, Settled
<1> QED
  BY <1>5, <1>6, <1>7, <1>8 DEF HistoryInv

\* A pool object just read has the pool's liquidity.
LEMMA HistoryRead ==
  ASSUME TypesInv, HistoryInv, NEW refetch \in BOOLEAN, ReadPool(refetch)
  PROVE  HistoryInv'
<1>1. object' = pool /\ UNCHANGED <<pool, names, tickCache, snapshot>>
  BY DEF ReadPool
<1>2. pool.deposits \in Nat
  BY DEF TypesInv, IsSound, IsPool
<1>3. ObjectDated' /\ NamesDated'
  BY <1>1, <1>2 DEF HistoryInv, ObjectDated, NamesDated
<1>4. CacheDated'
  BY <1>1 DEF HistoryInv, CacheDated
<1>5. SnapshotDated'
  BY <1>1 DEF HistoryInv, SnapshotDated, Settled
<1> QED
  BY <1>3, <1>4, <1>5 DEF HistoryInv

\* Publishing ticks that are the object's, when they are of its liquidity.
LEMMA HistoryPublish ==
  ASSUME TypesInv, HistoryInv, object # None, NEW c, Publish(c), pool' = pool,
         c # None /\ c.at = object.deposits => Holds(object, c.ticks)
  PROVE  ObjectDated' /\ NamesDated' /\ SnapshotDated'
<1>1. object' = None /\ names' = None
      /\ snapshot' = IF c = None THEN snapshot
                     ELSE [object |-> object, ticks |-> c.ticks, at |-> c.at]
  BY DEF Publish
<1>2. ObjectDated' /\ NamesDated'
  BY <1>1 DEF ObjectDated, NamesDated
<1>3. SnapshotDated'
  <2>1. CASE c = None
    BY <1>1, <2>1 DEF HistoryInv, SnapshotDated, Settled
  <2>2. CASE c # None
    <3>1. snapshot'.object = object /\ snapshot'.ticks = c.ticks /\ snapshot'.at = c.at
      BY <1>1, <2>2
    <3> QED
      BY <2>2, <3>1 DEF SnapshotDated, Settled
  <2> QED
    BY <2>1, <2>2
<1> QED
  BY <1>2, <1>3

\* The ticks fetched are a window of the pool's, if its liquidity stayed the same since
\* they were listed.
LEMMA HistoryFetch ==
  ASSUME TickSource = "Cetus", TypesInv, HistoryInv, FetchTicks
  PROVE  HistoryInv'
<1> DEFINE ts == names.ticks \intersect Initialized(pool)
           c  == [ticks |-> {[price |-> BoundaryPrice(t), net |-> pool.net[t]] : t \in ts},
                  at |-> IF names.at = pool.deposits THEN names.at ELSE Torn]
<1>1. /\ names # None /\ ts # {} /\ tickCache' = c /\ Publish(c) /\ pool' = pool
  BY DEF FetchTicks
<1>2. object # None
  BY <1>1 DEF TypesInv, NamesOK
<1>3. /\ pool.deposits \in 0 .. MaxDeposits /\ object.deposits \in 0 .. MaxDeposits
      /\ MaxDeposits \in Nat
  BY <1>2, PoolAssumption DEF TypesInv, ObjectOK, IsSound, IsPool
<1>4. c.ticks = Exact(pool, ts)
  BY DEF BoundaryPrice, Exact
<1>5. /\ c.at = Torn \/ (c.at = pool.deposits /\ names.at = pool.deposits)
      /\ Torn > MaxDeposits /\ Torn \in Int
  BY <1>3 DEF Torn
<1> HIDE DEF c
<1>6. ASSUME c.at = pool.deposits PROVE Holds(pool, c.ticks)
  <2>1. names.at = pool.deposits
    BY <1>3, <1>5, <1>6
  <2>2. IsWindow(names.ticks, Initialized(pool))
    BY <1>1, <2>1 DEF HistoryInv, NamesDated
  <2>3. ts = names.ticks
    BY <2>2 DEF IsWindow
  <2> HIDE DEF ts
  <2> QED
    BY <1>4, <2>2, <2>3 DEF Holds
<1>7. ASSUME c.at = object.deposits PROVE Holds(object, c.ticks)
  <2>1. c.at = pool.deposits /\ object.deposits = pool.deposits
    BY <1>3, <1>5, <1>7
  <2>2. pool.net = object.net
    BY <1>2, <2>1 DEF HistoryInv, ObjectDated
  <2> QED
    BY <1>6, <2>1, <2>2, HoldsSame
<1> HIDE DEF ts
<1>8. ObjectDated' /\ NamesDated' /\ SnapshotDated'
  BY <1>1, <1>2, <1>7, HistoryPublish
<1>9. object' = None
  BY <1>1 DEF Publish
<1>10. CacheDated'
  <2>1. c.at = Torn \/ c.at <= pool.deposits
    BY <1>3, <1>5
  <2> QED
    BY <1>1, <1>6, <1>9, <2>1 DEF CacheDated
<1> QED
  BY <1>8, <1>10 DEF HistoryInv

\* Every step keeps the history.
LEMMA HistoryNext ==
  ASSUME TickSource = "Cetus", TypesInv, HistoryInv, [Next]_vars
  PROVE  HistoryInv'
<1>1. CASE UNCHANGED vars
  BY <1>1 DEF vars, HistoryInv, ObjectDated, NamesDated, CacheDated, SnapshotDated, Settled
<1>2. ASSUME NEW in \in TradeSize, NEW aToB \in BOOLEAN, Trade(in, aToB) PROVE HistoryInv'
  BY <1>2, HistoryTrade
<1>3. ASSUME NEW pos \in Positions, NEW sign \in {-1, 1}, Deposit(pos, sign) PROVE HistoryInv'
  BY <1>3, HistoryDeposit
<1>4. ASSUME NEW refetch \in BOOLEAN, ReadPool(refetch) PROVE HistoryInv'
  BY <1>4, HistoryRead
<1>5. ASSUME Publish(tickCache), object # None, UNCHANGED <<pool, tickCache, discovery, trades>>
      PROVE  HistoryInv'
  <2>1. tickCache # None /\ tickCache.at = object.deposits => Holds(object, tickCache.ticks)
    BY <1>5 DEF HistoryInv, CacheDated
  <2>2. ObjectDated' /\ NamesDated' /\ SnapshotDated'
    BY <1>5, <2>1, HistoryPublish
  <2>3. object' = None
    BY <1>5 DEF Publish
  <2>4. CacheDated'
    BY <1>5, <2>3 DEF HistoryInv, CacheDated
  <2> QED
    BY <2>2, <2>4 DEF HistoryInv
<1>6. CASE FastRefresh
  BY <1>5, <1>6 DEF FastRefresh
<1>7. CASE ListTicks
  <2> DEFINE W == SelectWindow(Initialized(pool), object.tick)
  <2>1. /\ object # None /\ Initialized(pool) # {}
        /\ names' = [ticks |-> W, at |-> pool.deposits]
        /\ UNCHANGED <<pool, object, tickCache, snapshot, discovery, trades>>
    BY <1>7 DEF ListTicks, Refetches
  <2>2. object.tick \in CurrentTick /\ Initialized(pool) \subseteq Tick /\ pool.deposits \in Nat
    BY <2>1 DEF TypesInv, ObjectOK, IsSound, IsPool, Initialized
  <2>3. IsWindow(W, Initialized(pool))
    BY <2>1, <2>2, WindowIs
  <2> HIDE DEF W
  <2>4. names'.ticks = W /\ names'.at = pool.deposits
    BY <2>1
  <2>5. Initialized(pool)' = Initialized(pool)
    BY <2>1 DEF Initialized
  <2>6. NamesDated'
    BY <2>1, <2>2, <2>3, <2>4, <2>5 DEF NamesDated
  <2>7. ObjectDated' /\ CacheDated' /\ SnapshotDated'
    BY <2>1 DEF HistoryInv, ObjectDated, CacheDated, SnapshotDated, Settled
  <2> QED
    BY <2>6, <2>7 DEF HistoryInv
<1>8. CASE FetchTicks
  BY <1>8, HistoryFetch
<1>9. CASE RetryTicks
  <2>1. names' = None /\ UNCHANGED <<pool, object, tickCache, snapshot, discovery, trades>>
    BY <1>9 DEF RetryTicks
  <2> QED
    BY <2>1 DEF HistoryInv, ObjectDated, NamesDated, CacheDated, SnapshotDated, Settled
<1>10. CASE LoadFails
  BY <1>5, <1>10 DEF LoadFails, Refetches
<1> QED
  BY <1>1, <1>2, <1>3, <1>4, <1>6, <1>7, <1>8, <1>9, <1>10 DEF Next

\* The history invariant always holds.
LEMMA HistoryAlways ==
  ASSUME TickSource = "Cetus"
  PROVE  Spec => []HistoryInv
<1>1. Init => HistoryInv
  BY HistoryInit
<1>2. TypesInv /\ HistoryInv /\ [Next]_vars => HistoryInv'
  BY HistoryNext
<1> QED
  BY <1>1, <1>2, TypesAlways, PTL DEF Spec

\* What the invariants say of a quote on a settled snapshot.
LEMMA SettledQuote ==
  ASSUME TypesInv, HistoryInv, Settled, BetweenTicks, InSight,
         NEW in \in QuoteSize, NEW aToB \in BOOLEAN
  PROVE  \E W : /\ snapshot.ticks = Exact(snapshot.object, W)
                /\ WindowQuote(snapshot.object, W, in, aToB)
<1> DEFINE p == snapshot.object
<1>1. IsSound(p) /\ in \in Nat \ {0}
  BY PoolAssumption DEF TypesInv, SnapshotOK, Settled
<1>2. PICK W : IsWindow(W, Initialized(p)) /\ snapshot.ticks = Exact(p, W)
  BY DEF HistoryInv, SnapshotDated, Holds
<1>3. /\ \A t \in Initialized(p) : SqrtAt[t] # p.price
      /\ \E s, t \in Exact(p, W) : s.price < p.price /\ p.price < t.price
  BY <1>2 DEF BetweenTicks, InSight
<1> HIDE DEF p
<1>4. WindowQuote(p, W, in, aToB)
  BY <1>1, <1>2, <1>3, WindowQuoteIs
<1> QED
  BY <1>2, <1>4 DEF p

\* While the price stays within the window, a quote is to the unit what the venue pays,
\* however many ticks the swap crosses and whatever others do between the reads; where a
\* tick object holds its own price (Cetus).
THEOREM QuotesAreExact ==
  ASSUME TickSource = "Cetus"
  PROVE  Spec => []QuoteIsVenues
<1>1. ASSUME TypesInv, HistoryInv PROVE QuoteIsVenues
  <2>1. SUFFICES ASSUME Settled, BetweenTicks, InSight,
                        NEW in \in QuoteSize, NEW aToB \in BOOLEAN
        PROVE  Sound(in, aToB)
    BY DEF QuoteIsVenues
  <2> DEFINE p == snapshot.object
             w == VenueWalk(p, in, aToB)
  <2>2. PICK W : snapshot.ticks = Exact(p, W) /\ WindowQuote(p, W, in, aToB)
    BY <1>1, <2>1, SettledQuote
  <2>3. Quoted(in, aToB) = QuoteExactIn(Exact(p, W), p.price, p.liq, FeePips, in, aToB)
    BY <2>2 DEF Quoted
  <2> HIDE DEF p
  <2>4. Quoted(in, aToB) # None => w.remaining = 0 /\ Quoted(in, aToB) = w.out
    BY <2>2, <2>3 DEF WindowQuote
  <2> QED
    BY <2>4, Zenon DEF Sound, p
<1> QED
  BY <1>1, TypesAlways, HistoryAlways, PTL

\* For such ticks, a size is refused only for depth (clmm.rs, depth-aware refusal).
THEOREM RefusalsAreForDepth ==
  ASSUME TickSource = "Cetus"
  PROVE  Spec => []RefusesOnlyDepth
<1>1. ASSUME TypesInv, HistoryInv PROVE RefusesOnlyDepth
  <2>1. SUFFICES ASSUME Settled, BetweenTicks, InSight,
                        NEW in \in QuoteSize, NEW aToB \in BOOLEAN
        PROVE  LET p == snapshot.object
                   w == VenueWalk(p, in, aToB)
               IN  Quoted(in, aToB) = None =>
                     \/ p.liq = 0 \/ w.remaining > 0 \/ w.out > U64Max
                     \/ IF aToB THEN Gap(p.net, w.price, p.price)
                                ELSE Gap(p.net, p.price, w.price)
                     \/ \A t \in snapshot.ticks : IF aToB THEN w.price <= t.price
                                                          ELSE w.price >= t.price
    BY DEF RefusesOnlyDepth
  <2> DEFINE p == snapshot.object
             w == VenueWalk(p, in, aToB)
  <2>2. PICK W : snapshot.ticks = Exact(p, W) /\ WindowQuote(p, W, in, aToB)
    BY <1>1, <2>1, SettledQuote
  <2>3. Quoted(in, aToB) = QuoteExactIn(Exact(p, W), p.price, p.liq, FeePips, in, aToB)
    BY <2>2 DEF Quoted
  <2> HIDE DEF p
  <2>4. Quoted(in, aToB) = None =>
          \/ p.liq = 0 \/ w.remaining > 0 \/ w.out > U64Max \/ GapOnWay(aToB, p, w)
          \/ \A t \in Exact(p, W) : IF aToB THEN w.price <= t.price ELSE w.price >= t.price
    BY <2>2, <2>3 DEF WindowQuote
  <2> QED
    BY <2>2, <2>4, Zenon DEF GapOnWay, p
<1> QED
  BY <1>1, TypesAlways, HistoryAlways, PTL
=============================================================================
