------------------------------ MODULE ClmmMath ------------------------------
(***************************************************************************)
(* clmm.rs: the swap engine for concentrated liquidity.  Square-root       *)
(* prices are Q64.64 integers; within one tick range a swap follows the    *)
(* virtual reserves L*Q64/P and L*P/Q64, and every rounding is the one the *)
(* code chose.  Products are formed in U256 and taken as exact.            *)
(***************************************************************************)
EXTENDS Integers, FiniteSetsExt

CONSTANTS
  Q64,            \* the fixed-point unit, 2^64 in the code
  PipsDenom,      \* fee denominator, 1_000_000 in the code
  MinSqrtPrice, MaxSqrtPrice,   \* the engine's own price bounds
  U64Max,         \* largest u64, 2^64 - 1 in the code
  None            \* no quote

ASSUME ClmmAssumption ==
  /\ Q64 \in Nat \ {0} /\ PipsDenom \in Nat \ {0}
  /\ MinSqrtPrice \in Nat \ {0} /\ MaxSqrtPrice \in Nat
  /\ U64Max \in Nat /\ None \notin Nat

CeilDiv(n, d) == (n + d - 1) \div d

\* Mutant: the output of a step rounded up.
RoundedCarelessly(n, d, up) == CeilDiv(n, d)

Rounded(n, d, up) == IF up THEN CeilDiv(n, d) ELSE n \div d

\* Token amounts between two prices, p <= q, at liquidity l.
Amount0Delta(p, q, l, up) == Rounded(l * Q64 * (q - p), q * p, up)
Amount1Delta(p, q, l, up) == Rounded(l * (q - p), Q64, up)

NextSqrtFromAmount0In(p, l, amount) ==
  CeilDiv(l * Q64 * p, l * Q64 + amount * p)

NextSqrtFromAmount1In(p, l, amount) == p + (amount * Q64) \div l

\* What is left of amount for the curve once the fee is set aside.
LessFee(amount, fee) == (amount * (PipsDenom - fee)) \div PipsDenom

\* What moving the price from p to q costs, rounded up.
StepCost(p, q, l, aToB) ==
  IF aToB THEN Amount0Delta(q, p, l, TRUE) ELSE Amount1Delta(p, q, l, TRUE)

\* How far an input pushes the price on the way to target.
StepNext(cur, target, l, amount, aToB) ==
  IF amount >= StepCost(cur, target, l, aToB) THEN target
  ELSE IF aToB THEN NextSqrtFromAmount0In(cur, l, amount)
               ELSE NextSqrtFromAmount1In(cur, l, amount)

\* compute_swap_step: one exact-in step at liquidity l, towards target.
SwapStep(cur, target, l, remaining, fee, aToB) ==
  LET next == StepNext(cur, target, l, LessFee(remaining, fee), aToB)
      in   == StepCost(cur, next, l, aToB)
  IN  [next |-> next, in |-> in,
       out  |-> IF aToB THEN Amount1Delta(next, cur, l, FALSE)
                        ELSE Amount0Delta(cur, next, l, FALSE),
       fee  |-> IF next # target THEN remaining - in
                ELSE CeilDiv(in * fee, PipsDenom - fee)]

\* Mutant: the direction of the crossing forgotten.
ApplyNetUpwards(l, net, aToB) == IF l + net > 0 THEN l + net ELSE 0

\* apply_net: liquidity after crossing a tick; it saturates at 0.
ApplyNet(l, net, aToB) ==
  LET after == IF aToB THEN l - net ELSE l + net
  IN  IF after > 0 THEN after ELSE 0

-----------------------------------------------------------------------------
(* quote_exact_in: a walk over tick boundaries [price, net] *)

Start(price, liq, in) ==
  [price |-> price, liq |-> liq, remaining |-> in, out |-> 0, going |-> TRUE]

\* Mutant: the walk stops at the boundary it reaches.
CrossOnce(fee, aToB, w, t) ==
  IF ~w.going \/ w.remaining = 0 THEN w
  ELSE LET s    == SwapStep(w.price, t.price, w.liq, w.remaining, fee, aToB)
           used == s.in + s.fee
       IN  [price     |-> s.next,
            liq       |-> w.liq,
            remaining |-> IF used >= w.remaining THEN 0 ELSE w.remaining - used,
            out       |-> w.out + s.out,
            going     |-> FALSE]

\* One turn of the loop, towards boundary t.
Cross(fee, aToB, w, t) ==
  IF ~w.going \/ w.remaining = 0 THEN w
  ELSE LET s    == SwapStep(w.price, t.price, w.liq, w.remaining, fee, aToB)
           used == s.in + s.fee
           liq  == IF s.next = t.price THEN ApplyNet(w.liq, t.net, aToB) ELSE w.liq
       IN  [price     |-> s.next,
            liq       |-> liq,
            remaining |-> IF used >= w.remaining THEN 0 ELSE w.remaining - used,
            out       |-> w.out + s.out,
            going     |-> s.next = t.price /\ liq > 0]

\* The last boundary in travel order.
Furthest(boundaries, aToB) == CHOOSE t \in boundaries :
  \A s \in boundaries : IF aToB THEN t.price <= s.price ELSE s.price <= t.price

\* It is crossed after all the others.
Walk(w, boundaries, fee, aToB) ==
  MapThenFoldSet(LAMBDA t, v : Cross(fee, aToB, v, t), w, LAMBDA t : t,
                 LAMBDA ts : Furthest(ts, aToB), boundaries)

Ahead(ticks, price, aToB) ==
  {t \in ticks : IF aToB THEN t.price < price ELSE t.price > price}

\* The walk's output is a u128 and a quote a u64: a larger output is none.
FitsU64(out) == IF out \in 0 .. U64Max THEN out ELSE None

\* Mutant: a size that runs past the loaded ticks is quoted as within one range.
QuoteExactInFallback(ticks, price, liq, fee, in, aToB) ==
  LET w == Walk(Start(price, liq, in), Ahead(ticks, price, aToB), fee, aToB) IN
  IF in = 0 \/ liq = 0 \/ fee >= PipsDenom THEN None
  ELSE IF ticks # {} /\ w.remaining = 0 THEN FitsU64(w.out)
  ELSE FitsU64(Cross(fee, aToB, Start(price, liq, in),
                     [price |-> IF aToB THEN MinSqrtPrice ELSE MaxSqrtPrice, net |-> 0]).out)

\* Loaded ticks delimit the known liquidity: a size that needs more is refused.
\* Without any, the pool is one range up to the engine's price bound.
QuoteExactIn(ticks, price, liq, fee, in, aToB) ==
  IF in = 0 \/ liq = 0 \/ fee >= PipsDenom THEN None
  ELSE IF ticks = {}
       THEN FitsU64(Cross(fee, aToB, Start(price, liq, in),
                          [price |-> IF aToB THEN MinSqrtPrice ELSE MaxSqrtPrice, net |-> 0]).out)
       ELSE LET w == Walk(Start(price, liq, in), Ahead(ticks, price, aToB), fee, aToB)
            IN  IF w.remaining > 0 THEN None ELSE FitsU64(w.out)
=============================================================================
