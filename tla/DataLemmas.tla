----------------------------- MODULE DataLemmas ------------------------------
(***************************************************************************)
(* Facts about data that the proofs of the components share: the quote of  *)
(* a constant-product swap in fixed-width words, least and greatest        *)
(* elements, recursive functions, and finite sums.  The models add up      *)
(* balances, liquidity and results with MapThenSumSet, which takes the     *)
(* elements of a set in some order that nobody knows; the lemmas on sums   *)
(* say that the order does not matter: what a sum becomes when an element  *)
(* comes, goes or changes.                                                 *)
(*                                                                         *)
(* The induction is over sets instead of predicates: a set of              *)
(* counterexamples has a minimal element, because "less than" on the       *)
(* natural numbers and "proper subset" on the subsets of a finite set are  *)
(* well-founded.                                                           *)
(***************************************************************************)
EXTENDS Integers, FiniteSetsExt, FiniteSetTheorems, WellFoundedInduction, TLAPS

\* The sum of f[x] over the x of S.
SumOf(f, S) == MapThenSumSet(LAMBDA x : f[x], S)

-----------------------------------------------------------------------------
(* Arithmetic *)

\* A remainder is smaller than its divisor, and never larger than what was divided.
LEMMA RemainderBounds ==
  ASSUME NEW n \in Nat, NEW d \in Nat \ {0}
  PROVE  /\ n % d \in 0 .. d - 1 /\ n % d <= n
         /\ n < d => n % d = n
OBVIOUS

\* What a division returns.
LEMMA QuotientBounds ==
  ASSUME NEW n \in Nat, NEW d \in Nat \ {0}
  PROVE  n \div d \in Nat /\ d * (n \div d) <= n /\ n < d * (n \div d) + d
OBVIOUS

\* Quotient and remainder make up the dividend.
LEMMA DivisionIs ==
  ASSUME NEW n \in Nat, NEW d \in Nat \ {0}
  PROVE  n \div d \in Nat /\ n % d \in 0 .. d - 1 /\ n = d * (n \div d) + (n % d)
<1> DEFINE z == n \div d
           r == n % d
<1>1. z \in Nat /\ r \in 0 .. d - 1 /\ n = d * z + r
  OBVIOUS
<1> QED
  BY <1>1, Zenon

\* Two ways to round a division up.
LEMMA CeilingIs ==
  ASSUME NEW n \in Nat, NEW d \in Nat \ {0}
  PROVE  (n + d - 1) \div d = n \div d + (IF n % d = 0 THEN 0 ELSE 1)
<1> DEFINE z == n \div d
           r == n % d
           y == (n + d - 1) \div d
<1>1. z \in Nat /\ r \in 0 .. d - 1 /\ n = d * z + r
  OBVIOUS
<1>2. y \in Nat /\ d * y <= n + d - 1 /\ n + d - 1 < d * y + d
  BY QuotientBounds
<1> HIDE DEF z, r, y
<1> DEFINE k == y - z
<1>3. d * y = d * z + d * k /\ k \in Int
  BY <1>1, <1>2
<1> HIDE DEF k
<1>4. d * k <= r + d - 1 /\ r + d - 1 < d * k + d
  BY <1>1, <1>2, <1>3
<1>5. k >= 0 /\ k <= 1
  BY <1>1, <1>3, <1>4
<1>6. k = IF r = 0 THEN 0 ELSE 1
  BY <1>1, <1>3, <1>4, <1>5
<1> QED
  BY <1>1, <1>2, <1>6 DEF z, r, y, k

\* The product of two natural numbers grows with each of them.
LEMMA ProductGrowsWith ==
  ASSUME NEW x \in Nat, NEW y \in Nat, NEW z \in Nat, x <= y
  PROVE  x * z \in Nat /\ y * z \in Nat /\ x * z <= y * z /\ z * x <= z * y
OBVIOUS

\* A constant-product quote as the Rust code computes it: k = D - fee, with products
\* in words up to W and the result in one up to M.
QuoteInWords(in, rIn, rOut, k, D, M, W) ==
  LET withFee == (in * k) % (W + 1)
      divisor == (((rIn * D) % (W + 1)) + withFee) % (W + 1)
  IN  (((withFee * rOut) % (W + 1)) \div divisor) % (M + 1)

\* Two words in fee units fit one of the wide words: the divisor never wraps, and is
\* not zero.
LEMMA DivisorFits ==
  ASSUME NEW M \in Nat, NEW W \in Nat, NEW D \in Nat \ {0}, 2 * (D * M) <= W,
         NEW in \in 0 .. M, NEW rIn \in 0 .. M, rIn > 0, NEW k \in 0 .. D
  PROVE  /\ in * k \in 0 .. W /\ rIn * D \in 1 .. W /\ rIn * D + in * k \in 1 .. W
         /\ (in * k) % (W + 1) = in * k /\ (rIn * D) % (W + 1) = rIn * D
         /\ (rIn * D + in * k) % (W + 1) = rIn * D + in * k
<1>1. in \in Nat /\ in <= M /\ rIn \in Nat /\ rIn <= M /\ k \in Nat /\ k <= D
  OBVIOUS
<1>2. in * k \in Nat /\ in * k <= in * D /\ in * D \in Nat
  BY <1>1, ProductGrowsWith
<1>3. in * D <= D * M /\ rIn * D \in Nat /\ rIn * D <= D * M /\ D * M \in Nat
  BY <1>1, ProductGrowsWith
<1>4. rIn * D > 0
  BY <1>1
<1> DEFINE w == in * k
           v == rIn * D
           z == D * M
<1>5. w \in Nat /\ v \in Nat /\ v > 0 /\ z \in Nat /\ w <= z /\ v <= z /\ 2 * z <= W
  BY <1>2, <1>3, <1>4
<1> HIDE DEF w, v, z
<1>6. w \in 0 .. W /\ v \in 1 .. W /\ v + w \in 1 .. W /\ W + 1 \in Nat \ {0}
  BY <1>5
<1>7. w % (W + 1) = w /\ v % (W + 1) = v /\ (v + w) % (W + 1) = v + w
  <2> DEFINE e == W + 1
  <2>1. e \in Nat \ {0} /\ w < e /\ v < e /\ v + w < e /\ v + w \in Nat
    BY <1>5, <1>6
  <2> HIDE DEF e
  <2>2. w % e = w /\ v % e = v /\ (v + w) % e = v + w
    BY <1>5, <2>1, RemainderBounds
  <2> QED
    BY <2>2 DEF e
<1> QED
  BY <1>6, <1>7 DEF w, v

\* Such a quote fits its word, and never exceeds the formula: a product that wraps
\* only makes it smaller.
LEMMA QuoteInWordsBounds ==
  ASSUME NEW M \in Nat, NEW W \in Nat, NEW D \in Nat \ {0}, 2 * (D * M) <= W,
         NEW in \in 0 .. M, NEW rIn \in 0 .. M, rIn > 0, NEW rOut \in 0 .. M, NEW k \in 0 .. D
  PROVE  LET q == QuoteInWords(in, rIn, rOut, k, D, M, W)
         IN  q \in 0 .. M /\ q * (rIn * D + in * k) <= in * k * rOut
<1> DEFINE w == in * k
           den == rIn * D + w
           e == W + 1
           d == M + 1
           n == w * rOut
           num == n % e
           q == QuoteInWords(in, rIn, rOut, k, D, M, W)
<1>1. w \in 0 .. W /\ den \in 1 .. W /\ w % e = w /\ (rIn * D) % e = rIn * D /\ den % e = den
  BY DivisorFits
<1>2. q = (num \div den) % d
  BY <1>1, Zenon DEF QuoteInWords
<1>3. w \in Nat /\ den \in Nat \ {0} /\ rOut \in Nat /\ e \in Nat \ {0} /\ d \in Nat \ {0}
      /\ d = M + 1
  BY <1>1
<1> HIDE DEF w, den, e, d, q
<1>4. n \in Nat
  BY <1>3
<1> HIDE DEF n
<1>5. num \in Nat /\ num <= n
  BY <1>3, <1>4, RemainderBounds
<1> HIDE DEF num
<1> DEFINE z == num \div den
<1>6. z \in Nat /\ den * z <= num
  BY <1>3, <1>5, QuotientBounds
<1> HIDE DEF z
<1>7. q \in 0 .. d - 1 /\ q <= z
  BY <1>2, <1>3, <1>6, RemainderBounds DEF z
<1>8. q \in Nat /\ q \in 0 .. M
  BY <1>3, <1>7
<1>9. q * den <= z * den /\ q * den \in Nat /\ z * den \in Nat /\ den * z = z * den
  BY <1>3, <1>6, <1>7, <1>8, ProductGrowsWith
<1>10. q * den <= n
  BY <1>4, <1>5, <1>6, <1>9
<1> QED
  BY <1>8, <1>10 DEF w, den, n, q

\* And it is the formula's value, which is less than the reserve it is paid from, when
\* the product fits.
LEMMA QuoteInWordsExact ==
  ASSUME NEW M \in Nat, NEW W \in Nat, NEW D \in Nat \ {0}, 2 * (D * M) <= W,
         NEW in \in 0 .. M, NEW rIn \in 0 .. M, rIn > 0, NEW rOut \in 0 .. M, rOut > 0,
         NEW k \in 0 .. D, in * k * rOut <= W
  PROVE  LET out == (in * k * rOut) \div (rIn * D + in * k)
         IN  /\ out \in 0 .. M /\ out < rOut
             /\ QuoteInWords(in, rIn, rOut, k, D, M, W) = out
<1> DEFINE w == in * k
           v == rIn * D
           den == v + w
           e == W + 1
           d == M + 1
           n == w * rOut
           z == n \div den
<1>1. w \in 0 .. W /\ v \in 1 .. W /\ den \in 1 .. W
      /\ w % e = w /\ v % e = v /\ den % e = den
  BY DivisorFits
<1>2. QuoteInWords(in, rIn, rOut, k, D, M, W) = ((n % e) \div den) % d
  BY <1>1, Zenon DEF QuoteInWords
<1>3. w \in Nat /\ v \in Nat /\ v > 0 /\ den \in Nat \ {0} /\ den = v + w
      /\ rOut \in Nat /\ rOut <= M /\ e \in Nat \ {0} /\ d \in Nat \ {0} /\ d = M + 1
      /\ n <= W /\ n < e
  <2>1. n <= W
    OBVIOUS
  <2>2. n \in Nat
    <3>1. w \in Nat
      BY <1>1
    <3> HIDE DEF w
    <3> QED
      BY <3>1
  <2> HIDE DEF w, v, n
  <2> QED
    BY <1>1, <2>1, <2>2
<1> HIDE DEF w, v, den, e, d
<1>4. n \in Nat
  BY <1>3
<1>5. n < den * rOut
  <2>1. (w + 1) * rOut <= den * rOut /\ den * rOut \in Nat
    BY <1>3, ProductGrowsWith
  <2>2. (w + 1) * rOut = n + rOut
    BY <1>3
  <2> HIDE DEF n
  <2> QED
    BY <1>3, <1>4, <2>1, <2>2
<1> HIDE DEF n
<1>6. n % e = n
  BY <1>3, <1>4, RemainderBounds
<1>7. z \in Nat /\ den * z <= n
  BY <1>3, <1>4, QuotientBounds
<1> HIDE DEF z
<1>8. z < rOut
  <2>1. SUFFICES ASSUME rOut <= z PROVE FALSE
    BY <1>3, <1>7
  <2>2. den * rOut <= den * z /\ den * rOut \in Nat /\ den * z \in Nat
    BY <1>3, <1>7, <2>1, ProductGrowsWith
  <2> QED
    BY <1>4, <1>5, <1>7, <2>2
<1>9. z \in 0 .. M /\ z < d
  BY <1>3, <1>7, <1>8
<1>10. z % d = z
  BY <1>3, <1>7, <1>9, RemainderBounds
<1>11. QuoteInWords(in, rIn, rOut, k, D, M, W) = z
  BY <1>2, <1>6, <1>10 DEF z
<1> QED
  BY <1>8, <1>9, <1>11 DEF z, n, w, den, v

\* Two quotes below the formula, there and back through one pool at one fee, return
\* no more than was put in.
LEMMA RoundTripLoses ==
  ASSUME NEW in \in Nat, NEW x \in Nat, NEW y \in Nat, NEW rIn \in Nat, NEW rOut \in Nat,
         NEW k \in Nat, NEW D \in Nat, k <= D, D > 0, rOut > 0,
         x * (rIn * D + in * k) <= in * k * rOut,
         y * (rOut * D + x * k) <= x * k * rIn
  PROVE  y <= in
<1> DEFINE g == x * rIn
           h == in * rOut
           b == x * (in * k)
           e == y * (x * k)
           P == rOut * D
<1>1. g \in Nat /\ h \in Nat /\ b \in Nat /\ e \in Nat /\ P \in Nat
  <2>1. in * k \in Nat /\ x * k \in Nat
    OBVIOUS
  <2> QED
    BY <2>1
<1>2. x * (rIn * D + in * k) = g * D + b
  OBVIOUS
<1>3. in * k * rOut = h * k
  OBVIOUS
<1>4. y * (rOut * D + x * k) = y * P + e
  OBVIOUS
<1>5. x * k * rIn = g * k
  OBVIOUS
<1>6. in * P = h * D
  OBVIOUS
<1>7. P > 0
  BY D > 0, rOut > 0
<1>8. g * D + b <= h * k /\ y * P + e <= g * k
  BY <1>2, <1>3, <1>4, <1>5
<1> HIDE DEF g, h, b, e, P
<1>9. g * k <= g * D /\ h * k <= h * D
      /\ g * k \in Nat /\ g * D \in Nat /\ h * k \in Nat /\ h * D \in Nat
  BY <1>1, ProductGrowsWith
<1>10. y * P \in Nat /\ y * P <= in * P
  <2>1. y * P \in Nat
    BY <1>1
  <2> QED
    BY <1>1, <1>6, <1>8, <1>9, <2>1
<1>11. ASSUME in + 1 <= y PROVE FALSE
  <2>1. (in + 1) * P <= y * P
    BY <1>1, <1>11, ProductGrowsWith
  <2>2. (in + 1) * P = in * P + P /\ in * P \in Nat
    BY <1>1
  <2> QED
    BY <1>1, <1>7, <1>10, <2>1, <2>2
<1> QED
  BY <1>11

-----------------------------------------------------------------------------
(* Minimal counterexamples *)

\* Every nonempty set of natural numbers has a least element.
LEMMA LeastNatural ==
  ASSUME NEW S, S \subseteq Nat, S # {}
  PROVE  \E x \in S : \A y \in S : ~(y < x)
<1>1. PICK x \in S : \A y \in S : ~(<<y, x>> \in OpToRel(<, Nat))
  BY WFMin, NatLessThanWellFounded, Zenon
<1>2. \A y \in S : y < x => <<y, x>> \in OpToRel(<, Nat)
  BY Zenon DEF OpToRel
<1> QED
  BY <1>1, <1>2, Zenon

\* A set that contains 0 and with each natural number the next contains them all.
LEMMA SetInduction ==
  ASSUME NEW T, 0 \in T, \A n \in Nat : n \in T => n + 1 \in T
  PROVE  Nat \subseteq T
<1>1. SUFFICES ASSUME Nat \ T # {} PROVE FALSE
  OBVIOUS
<1>2. PICK x \in Nat \ T : \A y \in Nat \ T : ~(y < x)
  BY <1>1, LeastNatural
<1> QED
  BY <1>2

\* A nonempty family of subsets of a finite set has a member that leaves the family
\* with any of its elements.
LEMMA MinimalSubset ==
  ASSUME NEW S, IsFiniteSet(S), NEW F, F \subseteq SUBSET S, F # {}
  PROVE  \E s \in F : \A x \in s : s \ {x} \notin F
<1>1. PICK s \in F : \A y \in F : ~(<<y, s>> \in StrictSubsetOrdering(S))
  <2>1. F \subseteq FiniteSubsetsOf(S)
    BY FS_Subset DEF FiniteSubsetsOf
  <2> QED
    BY <2>1, WFMin, FS_StrictSubsetOrderingWellFounded, Zenon
<1>2. ASSUME NEW x \in s PROVE s \ {x} \notin F
  <2>1. s \ {x} \subseteq s /\ s \ {x} # s /\ s \subseteq S
    OBVIOUS
  <2>2. s \ {x} \in F => <<s \ {x}, s>> \in StrictSubsetOrdering(S)
    BY <2>1, Zenon DEF StrictSubsetOrdering
  <2> QED
    BY <1>1, <2>2
<1> QED
  BY <1>2

\* A finite set has an element of the greatest rank.
LEMMA GreatestExists ==
  ASSUME NEW S, IsFiniteSet(S), S # {}, NEW f, \A x \in S : f[x] \in Int
  PROVE  \E x \in S : \A y \in S : f[y] <= f[x]
<1> DEFINE HasTop(s) == \E x \in s : \A y \in s : f[y] <= f[x]
           F == {s \in SUBSET S : s # {} /\ ~HasTop(s)}
<1>1. SUFFICES ASSUME F # {} PROVE FALSE
  BY Zenon
<1>2. PICK s \in F : \A x \in s : s \ {x} \notin F
  BY <1>1, MinimalSubset
<1>3. PICK x \in s : TRUE
  BY <1>2
<1>4. CASE s = {x}
  BY <1>2, <1>4
<1>5. CASE s # {x}
  <2>1. s \ {x} \in SUBSET S /\ s \ {x} # {}
    BY <1>2, <1>3, <1>5
  <2>2. HasTop(s \ {x})
    BY <1>2, <1>3, <2>1, Zenon
  <2>3. PICK m \in s \ {x} : \A y \in s \ {x} : f[y] <= f[m]
    BY <2>2, Zenon
  <2>4. CASE f[x] <= f[m]
    <3>1. \A y \in s : f[y] <= f[m]
      BY <2>3, <2>4
    <3> QED
      BY <1>2, <2>3, <3>1
  <2>5. CASE ~(f[x] <= f[m])
    <3>1. \A y \in s : f[y] <= f[x]
      BY <1>2, <1>3, <2>3, <2>5
    <3> QED
      BY <1>2, <1>3, <3>1
  <2> QED
    BY <2>4, <2>5
<1> QED
  BY <1>4, <1>5

\* The first of the elements of greatest value.
LEMMA FirstGreatest ==
  ASSUME NEW S, IsFiniteSet(S), S # {}, S \subseteq Nat, NEW f, \A x \in S : f[x] \in Int
  PROVE  \E x \in S : \A y \in S : f[y] < f[x] \/ (f[y] = f[x] /\ x <= y)
<1>1. PICK top \in S : \A y \in S : f[y] <= f[top]
  BY GreatestExists, Zenon
<1> DEFINE T == {x \in S : f[x] = f[top]}
<1>2. T \subseteq Nat /\ T # {}
  OBVIOUS
<1>3. PICK x \in T : \A y \in T : ~(y < x)
  BY <1>2, LeastNatural, Zenon
<1>4. ASSUME NEW y \in S PROVE f[y] < f[x] \/ (f[y] = f[x] /\ x <= y)
  <2>1. f[y] <= f[x] /\ f[y] \in Int /\ f[x] \in Int /\ x \in Nat /\ y \in Nat
    BY <1>1, <1>3
  <2>2. f[y] = f[x] => ~(y < x)
    BY <1>3
  <2> QED
    BY <2>1, <2>2
<1> QED
  BY <1>4

\* Max is what its name says.
LEMMA MaxIs ==
  ASSUME NEW S, S \subseteq Int, IsFiniteSet(S), S # {}
  PROVE  Max(S) \in S /\ \A y \in S : y <= Max(S)
<1> DEFINE f == [x \in S |-> x]
<1>1. \A x \in S : f[x] = x /\ f[x] \in Int
  OBVIOUS
<1> HIDE DEF f
<1>2. \E x \in S : \A y \in S : f[y] <= f[x]
  BY <1>1, GreatestExists
<1>3. \E x \in S : \A y \in S : x >= y
  BY <1>1, <1>2
<1>4. Max(S) \in S /\ \A y \in S : Max(S) >= y
  BY <1>3, Zenon DEF Max
<1> QED
  BY <1>4

-----------------------------------------------------------------------------
(* Recursive functions *)

\* A value and a step define a sequence of values.
Recurses(f, V, x0, step) ==
  f \in [Nat -> V] /\ f[0] = x0 /\ \A n \in Nat : f[n + 1] = step[n][f[n]]

\* They do: the finite beginnings of the sequence agree.
LEMMA RecursionExists ==
  ASSUME NEW V, NEW x0, x0 \in V, NEW step, \A n \in Nat, v \in V : step[n][v] \in V
  PROVE  \E f : Recurses(f, V, x0, step)
<1> DEFINE Upto(g, n) == /\ g \in [0 .. n -> V] /\ g[0] = x0
                         /\ \A i \in 0 .. n - 1 : g[i + 1] = step[i][g[i]]
           T == {n \in Nat : \E g : Upto(g, n)}
           part == [n \in Nat |-> CHOOSE g : Upto(g, n)]
           f == [n \in Nat |-> part[n][n]]
<1>1. 0 \in T
  <2>1. Upto([i \in 0 .. 0 |-> x0], 0)
    OBVIOUS
  <2> QED
    BY <2>1, Zenon
<1>2. ASSUME NEW n \in Nat, n \in T PROVE n + 1 \in T
  <2>1. PICK g : Upto(g, n)
    BY <1>2
  <2> DEFINE h == [i \in 0 .. n + 1 |-> IF i <= n THEN g[i] ELSE step[n][g[n]]]
  <2>2. Upto(h, n + 1)
    <3>1. step[n][g[n]] \in V /\ \A i \in 0 .. n : g[i] \in V
      BY <2>1
    <3>2. h \in [0 .. n + 1 -> V] /\ h[0] = x0
      BY <2>1, <3>1
    <3>3. ASSUME NEW i \in 0 .. n PROVE h[i + 1] = step[i][h[i]]
      <4>1. CASE i = n
        BY <4>1
      <4>2. CASE i # n
        <5>1. i \in 0 .. n - 1 /\ i + 1 <= n /\ i + 1 \in 0 .. n + 1 /\ i \in 0 .. n + 1
          BY <4>2
        <5>2. h[i + 1] = g[i + 1] /\ h[i] = g[i]
          BY <5>1
        <5> QED
          BY <2>1, <5>1, <5>2
      <4> QED
        BY <4>1, <4>2
    <3> HIDE DEF h
    <3> QED
      BY <3>2, <3>3
  <2>3. n + 1 \in Nat
    OBVIOUS
  <2> QED
    BY <2>2, <2>3, Zenon
<1> HIDE DEF T
<1>3. Nat \subseteq T
  BY <1>1, <1>2, SetInduction
<1>4. ASSUME NEW n \in Nat PROVE Upto(part[n], n)
  <2>1. \E g : Upto(g, n)
    BY <1>3 DEF T
  <2>2. part[n] = CHOOSE g : Upto(g, n)
    OBVIOUS
  <2> HIDE DEF Upto, part
  <2> QED
    BY <2>1, <2>2
<1>5. ASSUME NEW n \in Nat PROVE part[n + 1][n] = part[n][n]
  <2> DEFINE S == {k \in Nat : k <= n => part[n + 1][k] = part[n][k]}
  <2>0. n + 1 \in Nat
    OBVIOUS
  <2>1. Upto(part[n], n) /\ Upto(part[n + 1], n + 1)
    BY <1>4, <2>0
  <2> HIDE DEF part
  <2>2. 0 \in S
    BY <2>1
  <2>3. ASSUME NEW k \in Nat, k \in S PROVE k + 1 \in S
    <3>1. SUFFICES ASSUME k + 1 <= n PROVE part[n + 1][k + 1] = part[n][k + 1]
      OBVIOUS
    <3>2. k \in 0 .. n - 1 /\ k \in 0 .. n + 1 - 1
      BY <3>1
    <3>3. part[n + 1][k] = part[n][k]
      BY <2>3, <3>2
    <3>4. part[n + 1][k + 1] = step[k][part[n + 1][k]]
      BY <2>1, <3>2
    <3>5. part[n][k + 1] = step[k][part[n][k]]
      BY <2>1, <3>2, Zenon
    <3> QED
      BY <3>3, <3>4, <3>5
  <2> HIDE DEF S
  <2>4. Nat \subseteq S
    BY <2>2, <2>3, SetInduction
  <2> QED
    BY <2>4 DEF S
<1>6. ASSUME NEW n \in Nat PROVE f[n] = part[n][n] /\ f[n] \in V
  <2>1. Upto(part[n], n)
    BY <1>4
  <2>2. f[n] = part[n][n]
    OBVIOUS
  <2> HIDE DEF part, f
  <2> QED
    BY <2>1, <2>2
<1>7. f[0] = x0
  <2>1. Upto(part[0], 0) /\ f[0] = part[0][0]
    BY <1>4
  <2> HIDE DEF part, f
  <2> QED
    BY <2>1
<1>8. ASSUME NEW n \in Nat PROVE f[n + 1] = step[n][f[n]]
  <2>0. n + 1 \in Nat /\ n \in 0 .. n + 1 - 1
    OBVIOUS
  <2>1. Upto(part[n + 1], n + 1) /\ f[n + 1] = part[n + 1][n + 1] /\ f[n] = part[n][n]
    BY <1>4, <2>0
  <2>2. part[n + 1][n] = part[n][n]
    BY <1>5
  <2> HIDE DEF part, f
  <2>3. part[n + 1][n + 1] = step[n][part[n + 1][n]]
    BY <2>0, <2>1
  <2> QED
    BY <2>1, <2>2, <2>3
<1>9. f \in [Nat -> V]
  <2>1. f = [n \in Nat |-> f[n]]
    OBVIOUS
  <2> HIDE DEF f
  <2> QED
    BY <1>6, <2>1
<1>10. Recurses(f, V, x0, step)
  <2> HIDE DEF f
  <2> QED
    BY <1>7, <1>8, <1>9 DEF Recurses
<1> QED
  BY <1>10, Zenon

\* f takes next until it reaches a leaf; m falls on the way there.
TailCalls(f, D, Leaf, val, next) ==
  \A x \in D : f[x] = IF x \in Leaf THEN val[x] ELSE f[next[x]]
Descends(m, D, Leaf, next) ==
  m \in [D -> Nat] /\ \A x \in D : x \notin Leaf => m[next[x]] < m[x]

\* A function that goes on to another argument until it reaches a leaf, and gets
\* nearer to one each time.
LEMMA TailRecursion ==
  ASSUME NEW D, NEW V, NEW Leaf, NEW val \in [D -> V], NEW next \in [D -> D],
         NEW m, Descends(m, D, Leaf, next)
  PROVE  \E f : f \in [D -> V] /\ TailCalls(f, D, Leaf, val, next)
<1>0. m \in [D -> Nat] /\ \A x \in D : x \notin Leaf => m[next[x]] < m[x]
  BY DEF Descends
<1> DEFINE step == [n \in Nat |-> [g \in [D -> V] |->
                      [x \in D |-> IF x \in Leaf THEN val[x] ELSE g[next[x]]]]]
<1>1. step \in [Nat -> [[D -> V] -> [D -> V]]]
  OBVIOUS
<1>2. \A n \in Nat, g \in [D -> V] :
        step[n][g] = [x \in D |-> IF x \in Leaf THEN val[x] ELSE g[next[x]]]
  OBVIOUS
<1> HIDE DEF step
<1>3. PICK F \in [Nat -> [D -> V]] :
        F[0] = val /\ \A n \in Nat : F[n + 1] = step[n][F[n]]
  <2> DEFINE W == [D -> V]
  <2>1. val \in W /\ \A n \in Nat, v \in W : step[n][v] \in W
    BY <1>1
  <2> HIDE DEF W
  <2>2. \E F : Recurses(F, W, val, step)
    BY <2>1, RecursionExists, Zenon
  <2> QED
    BY <2>2 DEF W, Recurses
<1>4. ASSUME NEW n \in Nat, NEW x \in D
      PROVE  F[n + 1][x] = IF x \in Leaf THEN val[x] ELSE F[n][next[x]]
  <2>1. F[n] \in [D -> V] /\ F[n + 1] = step[n][F[n]]
    BY <1>3
  <2>2. F[n + 1] = [y \in D |-> IF y \in Leaf THEN val[y] ELSE F[n][next[y]]]
    BY <1>2, <2>1
  <2> QED
    BY <2>2
<1>5. ASSUME NEW n \in Nat, NEW x \in Leaf, x \in D
      PROVE  F[n][x] = val[x]
  <2>1. CASE n = 0
    BY <1>3, <2>1
  <2>2. CASE n # 0
    <3>1. n - 1 \in Nat /\ n - 1 + 1 = n
      BY <2>2
    <3>2. F[n - 1 + 1][x] = val[x]
      BY <1>4, <1>5, <3>1
    <3> QED
      BY <3>1, <3>2
  <2> QED
    BY <2>1, <2>2
<1> DEFINE T == {n \in Nat : \A x \in D : \A j \in Nat :
                   m[x] <= n /\ m[x] <= j => F[j][x] = F[m[x]][x]}
<1>6. 0 \in T
  <2>1. ASSUME NEW x \in D, NEW j \in Nat, m[x] <= 0 PROVE F[j][x] = F[m[x]][x]
    <3>1. m[x] \in Nat /\ m[next[x]] \in Nat
      BY <1>0
    <3>2. x \in Leaf
      BY <1>0, <2>1, <3>1
    <3> QED
      BY <1>5, <3>1, <3>2
  <2> QED
    BY <2>1
<1>7. ASSUME NEW n \in Nat, n \in T PROVE n + 1 \in T
  <2>1. ASSUME NEW x \in D, NEW j \in Nat, m[x] <= n + 1, m[x] <= j
        PROVE  F[j][x] = F[m[x]][x]
    <3>1. CASE x \in Leaf
      BY <1>0, <1>5, <3>1
    <3>2. CASE x \notin Leaf
      <4>1. next[x] \in D /\ m[x] \in Nat /\ m[next[x]] \in Nat /\ m[next[x]] < m[x]
        BY <1>0, <3>2
      <4>2. ASSUME NEW i \in Nat, m[x] <= i PROVE F[i][x] = F[m[next[x]]][next[x]]
        <5>1. i - 1 \in Nat /\ i - 1 + 1 = i /\ m[next[x]] <= i - 1 /\ m[next[x]] <= n
          BY <2>1, <4>1, <4>2
        <5>2. F[i - 1 + 1][x] = F[i - 1][next[x]]
          BY <1>4, <3>2, <5>1
        <5>3. F[i - 1][next[x]] = F[m[next[x]]][next[x]]
          BY <1>7, <4>1, <5>1
        <5> QED
          BY <5>1, <5>2, <5>3
      <4> QED
        BY <2>1, <4>1, <4>2
    <3> QED
      BY <3>1, <3>2
  <2> QED
    BY <2>1
<1> HIDE DEF T
<1>8. Nat \subseteq T
  BY <1>6, <1>7, SetInduction
<1>9. ASSUME NEW x \in D, NEW j \in Nat, m[x] <= j PROVE F[j][x] = F[m[x]][x]
  <2>1. j \in T /\ m[x] \in Nat
    BY <1>0, <1>8
  <2> QED
    BY <1>9, <2>1 DEF T
<1> DEFINE f == [x \in D |-> F[m[x]][x]]
<1>10. f \in [D -> V]
  BY <1>0, <1>3
<1>11. ASSUME NEW x \in D PROVE f[x] = IF x \in Leaf THEN val[x] ELSE f[next[x]]
  <2>1. CASE x \in Leaf
    BY <1>0, <1>5, <2>1
  <2>2. CASE x \notin Leaf
    <3>1. next[x] \in D /\ m[x] \in Nat /\ m[next[x]] \in Nat /\ m[next[x]] < m[x]
      BY <1>0, <2>2
    <3>2. m[x] - 1 \in Nat /\ m[x] - 1 + 1 = m[x] /\ m[next[x]] <= m[x] - 1
      BY <3>1
    <3>3. F[m[x] - 1 + 1][x] = F[m[x] - 1][next[x]]
      BY <1>4, <2>2, <3>2
    <3>4. F[m[x] - 1][next[x]] = F[m[next[x]]][next[x]]
      BY <1>9, <3>1, <3>2
    <3> QED
      BY <2>2, <3>1, <3>2, <3>3, <3>4
  <2> QED
    BY <2>1, <2>2
<1> HIDE DEF f
<1> QED
  BY <1>10, <1>11 DEF TailCalls

\* No step from a good argument leads out of them, and a good leaf has its value in R.
Keeps(Good, R, D, Leaf, val, next) ==
  /\ Good \subseteq D
  /\ \A x \in Good : x \in Leaf => val[x] \in R
  /\ \A x \in Good : x \notin Leaf => next[x] \in Good

Returns(f, Good, R) == \A x \in Good : f[x] \in R

\* What a tail recursion returns: a property of the leaves, if no step leaves the
\* good arguments.
LEMMA TailInvariant ==
  ASSUME NEW D, NEW Leaf, NEW val, NEW next, NEW m, NEW f,
         Descends(m, D, Leaf, next), TailCalls(f, D, Leaf, val, next),
         NEW Good, NEW R, Keeps(Good, R, D, Leaf, val, next)
  PROVE  Returns(f, Good, R)
<1>0. /\ Good \subseteq D
      /\ \A x \in Good : x \in Leaf => val[x] \in R
      /\ \A x \in Good : x \notin Leaf => next[x] \in Good
  BY DEF Keeps
<1> DEFINE B == {x \in Good : f[x] \notin R}
<1>1. SUFFICES ASSUME B # {} PROVE FALSE
  BY DEF Returns
<1> DEFINE M == {m[x] : x \in B}
<1>2. M \subseteq Nat /\ M # {}
  BY <1>0, <1>1 DEF Descends
<1>3. PICK k \in M : \A j \in M : ~(j < k)
  BY <1>2, LeastNatural, Zenon
<1>4. PICK x \in B : m[x] = k
  OBVIOUS
<1>5. x \in Good /\ x \in D /\ f[x] \notin R
  BY <1>0
<1>6. x \notin Leaf
  BY <1>0, <1>5 DEF TailCalls
<1>7. next[x] \in Good /\ f[next[x]] \notin R
  BY <1>0, <1>5, <1>6 DEF TailCalls
<1>8. next[x] \in B
  BY <1>7
<1>9. m[next[x]] \in M
  BY <1>8
<1>10. m[next[x]] < k
  BY <1>4, <1>5, <1>6 DEF Descends
<1> QED
  BY <1>3, <1>9, <1>10

\* A chain of steps, each of which takes a value to a value or to none; none stays.
Chained(f, n, V, x0, none, step) ==
  /\ f = [i \in 0 .. n |-> f[i]]
  /\ f[0] = x0
  /\ \A i \in 1 .. n : /\ f[i - 1] = none => f[i] = none
                       /\ f[i - 1] \in V => f[i] = step[i][f[i - 1]]

\* There is one of every length.
LEMMA ChainExists ==
  ASSUME NEW V, NEW none, none \notin V, NEW x0 \in V, NEW n \in Nat,
         NEW step, \A i \in 1 .. n, v \in V : step[i][v] \in V \union {none}
  PROVE  \E f : Chained(f, n, V, x0, none, step)
<1> DEFINE U == V \union {none}
           next == [i \in Nat |-> [v \in U |->
                     IF i + 1 \in 1 .. n /\ v # none THEN step[i + 1][v] ELSE none]]
<1>1. x0 \in U /\ \A i \in Nat, v \in U : next[i][v] \in U
  OBVIOUS
<1>2. \A i \in Nat, v \in U :
        i + 1 \in 1 .. n => next[i][v] = IF v = none THEN none ELSE step[i + 1][v]
  OBVIOUS
<1>3. none \in U /\ V \subseteq U
  OBVIOUS
<1> HIDE DEF next, U
<1>4. PICK g : g \in [Nat -> U] /\ g[0] = x0 /\ \A i \in Nat : g[i + 1] = next[i][g[i]]
  <2>1. \E g : Recurses(g, U, x0, next)
    BY <1>1, RecursionExists, Zenon
  <2> QED
    BY <2>1 DEF Recurses
<1> DEFINE f == [i \in 0 .. n |-> g[i]]
<1>5. \A i \in 0 .. n : f[i] = g[i]
  OBVIOUS
<1>6. f = [i \in 0 .. n |-> f[i]]
  OBVIOUS
<1> HIDE DEF f
<1>7. f[0] = x0
  BY <1>4, <1>5
<1>8. ASSUME NEW i \in 1 .. n
      PROVE  /\ f[i - 1] = none => f[i] = none
             /\ f[i - 1] \in V => f[i] = step[i][f[i - 1]]
  <2>1. i - 1 \in Nat /\ i - 1 \in 0 .. n /\ i \in 0 .. n /\ i - 1 + 1 = i
    OBVIOUS
  <2>2. g[i - 1 + 1] = next[i - 1][g[i - 1]] /\ g[i - 1] \in U
    BY <1>4, <2>1
  <2>3. g[i] = IF g[i - 1] = none THEN none ELSE step[i][g[i - 1]]
    BY <1>2, <2>1, <2>2
  <2> QED
    BY <1>5, <2>1, <2>3
<1>9. Chained(f, n, V, x0, none, step)
  BY <1>6, <1>7, <1>8 DEF Chained
<1> QED
  BY <1>9, Zenon

\* Every value of a chain has the type of its values, or is none.
LEMMA ChainTypes ==
  ASSUME NEW V, NEW none, NEW x0 \in V, NEW n \in Nat,
         NEW step, \A i \in 1 .. n, v \in V : step[i][v] \in V \union {none},
         NEW f, Chained(f, n, V, x0, none, step)
  PROVE  \A i \in 0 .. n : f[i] \in V \union {none}
<1> DEFINE T == {i \in Nat : i <= n => f[i] \in V \union {none}}
<1>1. 0 \in T
  BY DEF Chained
<1>2. ASSUME NEW i \in Nat, i \in T PROVE i + 1 \in T
  <2>1. SUFFICES ASSUME i + 1 <= n PROVE f[i + 1] \in V \union {none}
    OBVIOUS
  <2>2. i + 1 \in 1 .. n /\ i + 1 - 1 = i /\ i <= n
    BY <2>1
  <2>3. f[i] \in V \union {none}
    BY <1>2, <2>2
  <2>4. f[i] \in V => step[i + 1][f[i]] \in V \union {none}
    BY <2>2
  <2>5. (f[i] = none => f[i + 1] = none) /\ (f[i] \in V => f[i + 1] = step[i + 1][f[i]])
    <3> DEFINE j == i + 1
    <3>1. /\ f[j - 1] = none => f[j] = none
          /\ f[j - 1] \in V => f[j] = step[j][f[j - 1]]
      BY <2>2, Zenon DEF Chained
    <3>2. j - 1 = i
      BY <2>2
    <3> QED
      BY <3>1, <3>2, Zenon
  <2> QED
    BY <2>3, <2>4, <2>5
<1> HIDE DEF T
<1>3. Nat \subseteq T
  BY <1>1, <1>2, SetInduction
<1>4. ASSUME NEW i \in 0 .. n PROVE f[i] \in V \union {none}
  <2>1. i \in T /\ i <= n
    BY <1>3
  <2> QED
    BY <2>1 DEF T
<1> QED
  BY <1>4

\* A chain none of whose steps returns none.
Unbroken(f, n, V, x0, step) ==
  /\ f[0] = x0 /\ \A i \in 0 .. n : f[i] \in V
  /\ \A i \in 1 .. n : f[i] = step[i][f[i - 1]]

\* A chain that ends in a value has a value everywhere.
LEMMA ChainValues ==
  ASSUME NEW V, NEW none, none \notin V, NEW x0 \in V, NEW n \in Nat,
         NEW step, \A i \in 1 .. n, v \in V : step[i][v] \in V \union {none},
         NEW f, Chained(f, n, V, x0, none, step), f[n] # none
  PROVE  Unbroken(f, n, V, x0, step)
<1>1. \A i \in 0 .. n : f[i] \in V \union {none}
  BY ChainTypes
<1> DEFINE T == {i \in Nat : i <= n => f[n - i] # none}
<1>2. 0 \in T
  OBVIOUS
<1>3. ASSUME NEW i \in Nat, i \in T PROVE i + 1 \in T
  <2>1. SUFFICES ASSUME i + 1 <= n PROVE f[n - (i + 1)] # none
    OBVIOUS
  <2>2. n - i \in 1 .. n /\ n - i - 1 = n - (i + 1) /\ i <= n
    BY <2>1
  <2>3. f[n - i] # none
    BY <1>3, <2>2
  <2>4. f[n - i - 1] = none => f[n - i] = none
    BY <2>2 DEF Chained
  <2> QED
    BY <2>2, <2>3, <2>4
<1> HIDE DEF T
<1>4. Nat \subseteq T
  BY <1>2, <1>3, SetInduction
<1>5. ASSUME NEW i \in 0 .. n PROVE f[i] \in V
  <2>1. n - i \in Nat /\ n - i <= n /\ n - (n - i) = i
    OBVIOUS
  <2>2. n - i \in T
    BY <1>4, <2>1
  <2>3. f[n - (n - i)] # none
    BY <2>1, <2>2 DEF T
  <2> QED
    BY <1>1, <2>1, <2>3
<1>6. ASSUME NEW i \in 1 .. n PROVE f[i] = step[i][f[i - 1]]
  <2>1. i - 1 \in 0 .. n
    OBVIOUS
  <2>2. f[i - 1] \in V
    BY <1>5, <2>1
  <2> QED
    BY <2>2 DEF Chained
<1> QED
  BY <1>5, <1>6 DEF Chained, Unbroken

-----------------------------------------------------------------------------
(* The function by which a sum is defined *)

Member(s) == CHOOSE x \in s : TRUE

\* g sums f over every subset of S.
Sums(g, f, S) ==
  g = [s \in SUBSET S |-> IF s = {} THEN 0 ELSE f[Member(s)] + g[s \ {Member(s)}]]

\* What such a function says of one subset.
LEMMA SumsAt ==
  ASSUME NEW g, NEW f, NEW S, Sums(g, f, S), NEW s \in SUBSET S
  PROVE  g[s] = IF s = {} THEN 0 ELSE f[Member(s)] + g[s \ {Member(s)}]
  BY DEF Sums

\* Some element is one.
LEMMA MemberIn ==
  ASSUME NEW s, s # {}
  PROVE  Member(s) \in s
  BY DEF Member

\* Two such functions agree where both sum the same values.
LEMMA SumsAgree ==
  ASSUME NEW S, IsFiniteSet(S), NEW g, NEW h, NEW e, NEW f, NEW T, S \subseteq T,
         Sums(g, e, S), Sums(h, f, T), \A x \in S : e[x] = f[x]
  PROVE  \A s \in SUBSET S : g[s] = h[s]
<1> DEFINE F == {s \in SUBSET S : g[s] # h[s]}
<1>1. SUFFICES ASSUME F # {} PROVE FALSE
  OBVIOUS
<1>2. PICK s \in F : \A x \in s : s \ {x} \notin F
  BY <1>1, MinimalSubset
<1>3. /\ g[s] = IF s = {} THEN 0 ELSE e[Member(s)] + g[s \ {Member(s)}]
      /\ h[s] = IF s = {} THEN 0 ELSE f[Member(s)] + h[s \ {Member(s)}]
  BY SumsAt
<1>4. s # {} => Member(s) \in s /\ g[s \ {Member(s)}] = h[s \ {Member(s)}]
  BY <1>2, MemberIn
<1> QED
  BY <1>2, <1>3, <1>4

\* There is one for every finite set.
LEMMA SumsExist ==
  ASSUME NEW S, IsFiniteSet(S), NEW f
  PROVE  \E g : Sums(g, f, S)
<1> DEFINE F == {s \in SUBSET S : ~\E g : Sums(g, f, s)}
<1>1. SUFFICES ASSUME F # {} PROVE FALSE
  OBVIOUS
<1>2. PICK s \in F : \A x \in s : s \ {x} \notin F
  BY <1>1, MinimalSubset
<1>3. CASE s = {}
  <2>1. Sums([t \in SUBSET s |-> 0], f, s)
    BY <1>3 DEF Sums
  <2> QED
    BY <1>2, <2>1
<1>4. CASE s # {}
  <2> DEFINE part == [x \in s |-> CHOOSE g : Sums(g, f, s \ {x})]
             out(t) == CHOOSE x \in s : x \notin t
             g == [t \in SUBSET s |->
                     IF t = s THEN f[Member(s)] + part[Member(s)][s \ {Member(s)}]
                              ELSE part[out(t)][t]]
  <2>1. ASSUME NEW x \in s PROVE Sums(part[x], f, s \ {x})
    BY <1>2, <2>1
  <2>2. ASSUME NEW x \in s, NEW y \in s, NEW t \in SUBSET s, x \notin t, y \notin t
        PROVE  part[x][t] = part[y][t]
    <3> DEFINE r == s \ {x, y}
    <3>1. IsFiniteSet(s) /\ s \subseteq S
      BY <1>2, FS_Subset
    <3>2. IsFiniteSet(r) /\ r \subseteq s \ {x} /\ r \subseteq s \ {y} /\ t \in SUBSET r
      BY <3>1, <2>2, FS_Subset
    <3>3. Sums([u \in SUBSET r |-> part[x][u]], f, r)
      <4>1. ASSUME NEW u \in SUBSET r
            PROVE  part[x][u] = IF u = {} THEN 0 ELSE f[Member(u)] + part[x][u \ {Member(u)}]
        BY <2>1, <3>2, SumsAt
      <4>2. ASSUME NEW u \in SUBSET r PROVE u \ {Member(u)} \in SUBSET r
        OBVIOUS
      <4> HIDE DEF part, r
      <4> QED
        BY <4>1, <4>2 DEF Sums
    <3> DEFINE gx == [u \in SUBSET r |-> part[x][u]]
    <3>4. Sums(part[y], f, s \ {y})
      BY <2>1
    <3>5. gx[t] = part[x][t]
      BY <3>2
    <3> HIDE DEF part, r, gx
    <3>6. \A u \in SUBSET r : gx[u] = part[y][u]
      <4> DEFINE py == part[y]
                 sy == s \ {y}
      <4>1. Sums(gx, f, r) /\ Sums(py, f, sy) /\ IsFiniteSet(r) /\ r \subseteq sy
        BY <3>2, <3>3, <3>4 DEF gx
      <4> HIDE DEF py, sy
      <4>2. \A u \in SUBSET r : gx[u] = py[u]
        BY <4>1, SumsAgree
      <4> QED
        BY <4>2 DEF py
    <3> QED
      BY <3>2, <3>5, <3>6
  <2>3. ASSUME NEW t \in SUBSET s, t # s PROVE out(t) \in s /\ out(t) \notin t
    BY <2>3
  <2>4. ASSUME NEW t \in SUBSET s
        PROVE  g[t] = IF t = {} THEN 0 ELSE f[Member(t)] + g[t \ {Member(t)}]
    <3>1. CASE t = s
      <4>1. Member(s) \in s /\ s \ {Member(s)} # s
        BY <1>4, MemberIn
      <4>2. out(s \ {Member(s)}) \in s /\ out(s \ {Member(s)}) \notin s \ {Member(s)}
        BY <4>1, <2>3
      <4>3. g[s \ {Member(s)}] = part[Member(s)][s \ {Member(s)}]
        BY <4>1, <4>2
      <4> HIDE DEF part, out
      <4> QED
        BY <1>4, <3>1, <4>3
    <3>2. CASE t # s
      <4>1. out(t) \in s /\ t \in SUBSET (s \ {out(t)})
        BY <2>3, <3>2
      <4>2. g[t] = part[out(t)][t]
        BY <3>2
      <4>3. part[out(t)][t] = IF t = {} THEN 0
                              ELSE f[Member(t)] + part[out(t)][t \ {Member(t)}]
        <5>1. Sums(part[out(t)], f, s \ {out(t)})
          BY <4>1, <2>1
        <5> HIDE DEF part, out
        <5> QED
          BY <4>1, <5>1, SumsAt
      <4>4. ASSUME t # {} PROVE g[t \ {Member(t)}] = part[out(t)][t \ {Member(t)}]
        <5> DEFINE u == t \ {Member(t)}
        <5>1. u \in SUBSET s /\ u # s /\ out(t) \notin u
          BY <4>1
        <5>2. out(u) \in s /\ out(u) \notin u
          BY <5>1, <2>3
        <5>3. g[u] = part[out(u)][u]
          BY <5>1
        <5> HIDE DEF u, part, out, g
        <5> QED
          BY <4>1, <5>1, <5>2, <5>3, <2>2 DEF u
      <4> HIDE DEF part, out, g
      <4> QED
        BY <4>2, <4>3, <4>4
    <3> QED
      BY <3>1, <3>2
  <2>5. g = [t \in SUBSET s |-> IF t = {} THEN 0 ELSE f[Member(t)] + g[t \ {Member(t)}]]
    <3>1. DOMAIN g = SUBSET s /\ g = [t \in SUBSET s |-> g[t]]
      OBVIOUS
    <3> HIDE DEF g
    <3> QED
      BY <2>4, <3>1
  <2>6. Sums(g, f, s)
    BY <2>5 DEF Sums
  <2> HIDE DEF g
  <2> QED
    BY <1>2, <2>6
<1> QED
  BY <1>3, <1>4

-----------------------------------------------------------------------------
(* Sums *)

\* A sum is the value of such a function.
LEMMA SumOfSums ==
  ASSUME NEW S, IsFiniteSet(S), NEW f, NEW g, Sums(g, f, S)
  PROVE  SumOf(f, S) = g[S]
<1> DEFINE Iter(h) == h = [s \in SUBSET S |->
                            IF s = {} THEN 0
                            ELSE LET x == CHOOSE x \in s : TRUE
                                 IN  f[x] + h[s \ {x}]]
           iter == CHOOSE h : Iter(h)
<1>1. \A h : Iter(h) <=> Sums(h, f, S)
  BY Zenon DEF Sums, Member
<1>2. SumOf(f, S) = iter[S]
  BY DEF SumOf, MapThenSumSet, MapThenFoldSet
<1> HIDE DEF Iter
<1>3. Iter(iter)
  BY <1>1
<1> HIDE DEF iter
<1>4. \A s \in SUBSET S : iter[s] = g[s]
  BY <1>1, <1>3, SumsAgree
<1> QED
  BY <1>2, <1>4

\* The sum over nothing is 0.
LEMMA SumEmpty ==
  ASSUME NEW f
  PROVE  SumOf(f, {}) = 0
<1>1. IsFiniteSet({})
  BY FS_EmptySet
<1>2. PICK g : Sums(g, f, {})
  BY <1>1, SumsExist
<1>3. g[{}] = 0
  BY <1>2, SumsAt
<1> QED
  BY <1>1, <1>2, <1>3, SumOfSums

\* A sum is one of its terms and the rest.
LEMMA SumStep ==
  ASSUME NEW S, IsFiniteSet(S), NEW f, S # {}
  PROVE  SumOf(f, S) = f[Member(S)] + SumOf(f, S \ {Member(S)})
<1> DEFINE r == S \ {Member(S)}
<1>1. IsFiniteSet(r) /\ r \subseteq S
  BY FS_Subset
<1>2. PICK g : Sums(g, f, S)
  BY SumsExist
<1>3. PICK h : Sums(h, f, r)
  BY <1>1, SumsExist
<1> HIDE DEF r
<1>4. h[r] = g[r]
  BY <1>1, <1>2, <1>3, SumsAgree
<1>5. SumOf(f, S) = g[S] /\ SumOf(f, r) = h[r]
  BY <1>1, <1>2, <1>3, SumOfSums
<1>6. g[S] = f[Member(S)] + g[r]
  BY <1>2, SumsAt DEF r
<1> QED
  BY <1>4, <1>5, <1>6 DEF r

\* A finite sum of integers is one.
LEMMA SumInt ==
  ASSUME NEW S, IsFiniteSet(S), NEW f, \A x \in S : f[x] \in Int
  PROVE  SumOf(f, S) \in Int
<1> DEFINE F == {s \in SUBSET S : SumOf(f, s) \notin Int}
<1>1. SUFFICES ASSUME F # {} PROVE FALSE
  BY Zenon
<1>2. PICK s \in F : \A x \in s : s \ {x} \notin F
  BY <1>1, MinimalSubset
<1>3. s # {}
  BY <1>2, SumEmpty
<1>4. Member(s) \in s /\ IsFiniteSet(s) /\ s \in SUBSET S
  BY <1>2, <1>3, MemberIn, FS_Subset
<1>5. SumOf(f, s) = f[Member(s)] + SumOf(f, s \ {Member(s)})
  BY <1>3, <1>4, SumStep
<1>6. s \ {Member(s)} \in SUBSET S
  BY <1>4
<1>7. SumOf(f, s \ {Member(s)}) \in Int
  BY <1>2, <1>4, <1>6, Zenon
<1> QED
  BY <1>2, <1>4, <1>5, <1>7

\* Any element may be taken out first.
LEMMA SumTake ==
  ASSUME NEW S, IsFiniteSet(S), NEW f, \A x \in S : f[x] \in Int, NEW x \in S
  PROVE  SumOf(f, S) = f[x] + SumOf(f, S \ {x})
<1> DEFINE Takes(s) == \A y \in s : SumOf(f, s) = f[y] + SumOf(f, s \ {y})
           F == {s \in SUBSET S : ~Takes(s)}
<1>1. SUFFICES ASSUME F # {} PROVE FALSE
  BY Zenon
<1>2. PICK s \in F : \A y \in s : s \ {y} \notin F
  BY <1>1, MinimalSubset
<1>3. PICK y \in s : SumOf(f, s) # f[y] + SumOf(f, s \ {y})
  BY <1>2, Zenon
<1>4. s \in SUBSET S /\ IsFiniteSet(s) /\ Member(s) \in s
  BY <1>2, <1>3, MemberIn, FS_Subset
<1> DEFINE a == Member(s)
           sa == s \ {a}
           sy == s \ {y}
           r == s \ {a, y}
<1>5. SumOf(f, s) = f[a] + SumOf(f, sa)
  BY <1>3, <1>4, SumStep
<1>6. CASE a = y
  BY <1>3, <1>5, <1>6
<1>7. CASE a # y
  <2>1. Takes(sa) /\ Takes(sy)
    <3>1. sa \in SUBSET S /\ sy \in SUBSET S
      BY <1>4
    <3> QED
      BY <1>2, <1>3, <1>4, <3>1, Zenon
  <2>2. SumOf(f, sa) = f[y] + SumOf(f, r)
    <3>1. y \in sa /\ sa \ {y} = r
      BY <1>3, <1>7
    <3> QED
      BY <2>1, <3>1, Zenon
  <2>3. SumOf(f, sy) = f[a] + SumOf(f, r)
    <3>1. a \in sy /\ sy \ {a} = r
      BY <1>4, <1>7
    <3> QED
      BY <2>1, <3>1, Zenon
  <2>4. f[a] \in Int /\ f[y] \in Int /\ SumOf(f, r) \in Int
    <3>1. IsFiniteSet(r) /\ r \subseteq S /\ a \in S /\ y \in S
      BY <1>3, <1>4, FS_Subset
    <3>2. \A z \in r : f[z] \in Int
      BY <3>1
    <3> HIDE DEF r, a
    <3>3. SumOf(f, r) \in Int
      BY <3>1, <3>2, SumInt, Zenon
    <3> QED
      BY <3>1, <3>3
  <2> HIDE DEF a, sa, r
  <2> QED
    BY <1>3, <1>5, <2>2, <2>3, <2>4
<1> QED
  BY <1>6, <1>7

\* A sum with one element more.
LEMMA SumAdd ==
  ASSUME NEW S, IsFiniteSet(S), NEW x, x \notin S, NEW f,
         \A y \in S \union {x} : f[y] \in Int
  PROVE  SumOf(f, S \union {x}) = SumOf(f, S) + f[x]
<1> DEFINE T == S \union {x}
<1>1. IsFiniteSet(T) /\ x \in T /\ T \ {x} = S
  BY FS_AddElement
<1>2. \A y \in T : f[y] \in Int
  OBVIOUS
<1>3. SumOf(f, S) \in Int
  BY SumInt
<1> HIDE DEF T
<1>4. SumOf(f, T) = f[x] + SumOf(f, T \ {x})
  BY <1>1, <1>2, SumTake
<1>5. f[x] \in Int
  BY <1>1, <1>2
<1>6. SumOf(f, T) = f[x] + SumOf(f, S)
  BY <1>1, <1>4, Zenon
<1>7. SumOf(f, T) = SumOf(f, S) + f[x]
  BY <1>3, <1>5, <1>6
<1> QED
  BY <1>7 DEF T

\* Equal terms make equal sums.
LEMMA SumEqual ==
  ASSUME NEW S, IsFiniteSet(S), NEW e, NEW f, \A x \in S : e[x] = f[x]
  PROVE  SumOf(e, S) = SumOf(f, S)
<1>1. PICK g : Sums(g, e, S)
  BY SumsExist
<1>2. PICK h : Sums(h, f, S)
  BY SumsExist
<1>3. g[S] = h[S]
  BY <1>1, <1>2, SumsAgree
<1> QED
  BY <1>1, <1>2, <1>3, SumOfSums

\* When one term changes, the sum changes by as much.
LEMMA SumChange ==
  ASSUME NEW S, IsFiniteSet(S), NEW e, NEW f, NEW x \in S,
         \A y \in S : e[y] \in Int /\ f[y] \in Int,
         \A y \in S \ {x} : e[y] = f[y]
  PROVE  SumOf(f, S) = SumOf(e, S) + (f[x] - e[x])
<1> DEFINE r == S \ {x}
<1>1. IsFiniteSet(r) /\ r \subseteq S
  BY FS_Subset
<1>2. SumOf(e, S) = e[x] + SumOf(e, r) /\ SumOf(f, S) = f[x] + SumOf(f, r)
  BY SumTake
<1>3. \A y \in r : e[y] = f[y]
  OBVIOUS
<1> HIDE DEF r
<1>4. SumOf(e, r) = SumOf(f, r)
  BY <1>1, <1>3, SumEqual, Zenon
<1>5. SumOf(e, r) \in Int
  BY <1>1, SumInt
<1> QED
  BY <1>2, <1>4, <1>5

\* No term is lost in a sum of terms that are not negative.
LEMMA SumNat ==
  ASSUME NEW S, IsFiniteSet(S), NEW f, \A x \in S : f[x] \in Nat
  PROVE  SumOf(f, S) \in Nat
<1> DEFINE F == {s \in SUBSET S : SumOf(f, s) \notin Nat}
<1>1. SUFFICES ASSUME F # {} PROVE FALSE
  BY Zenon
<1>2. PICK s \in F : \A x \in s : s \ {x} \notin F
  BY <1>1, MinimalSubset
<1>3. s # {}
  BY <1>2, SumEmpty
<1>4. Member(s) \in s /\ IsFiniteSet(s) /\ s \in SUBSET S
  BY <1>2, <1>3, MemberIn, FS_Subset
<1>5. SumOf(f, s) = f[Member(s)] + SumOf(f, s \ {Member(s)})
  BY <1>3, <1>4, SumStep
<1>6. s \ {Member(s)} \in SUBSET S
  BY <1>4
<1>7. SumOf(f, s \ {Member(s)}) \in Nat
  BY <1>2, <1>4, <1>6, Zenon
<1> QED
  BY <1>2, <1>4, <1>5, <1>7
=============================================================================
