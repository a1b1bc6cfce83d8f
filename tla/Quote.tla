------------------------------- MODULE Quote --------------------------------
(***************************************************************************)
(* Pricing a constant-product swap, a hop and a route: the Rust functions  *)
(* the scanner and the executor call (amm.rs, flashloan.rs, scanner.rs),   *)
(* which wrap where Move aborts, and the Move swap they predict.           *)
(***************************************************************************)
EXTENDS MoveMath, Sequences

CONSTANTS
  Pool,          \* constant-product pools
  PoolFeeBps,    \* their fees
  None           \* Option::None, and a Move abort

\* Two reserves in fee units fit u128 (2^64 * 20_000 in the code): only the products of
\* three factors may wrap.
ASSUME QuoteAssumption ==
  /\ 2 * (FeeDenom * U64Max) <= U128Max
  /\ PoolFeeBps \in [Pool -> Nat]
  /\ None \notin U64

Reserves == [a : U64, b : U64]
Hop == [pool : Pool, aToB : BOOLEAN]

-----------------------------------------------------------------------------
(* amm.rs and flashloan.rs: u128 products and u64 casts wrap *)

Wrap128(x) == x % (U128Max + 1)
Wrap64(x)  == x % (U64Max + 1)

\* Mutant: rounded up.
RustAmountOutRoundedUp(in, rIn, rOut, bps) ==
  IF in = 0 \/ rIn = 0 \/ rOut = 0 \/ bps >= FeeDenom THEN None
  ELSE (in * (FeeDenom - bps) * rOut) \div (rIn * FeeDenom + in * (FeeDenom - bps)) + 1

RustAmountOut(in, rIn, rOut, bps) ==
  IF in = 0 \/ rIn = 0 \/ rOut = 0 \/ bps >= FeeDenom THEN None
  ELSE LET withFee == Wrap128(in * (FeeDenom - bps))
       IN  Wrap64(Wrap128(withFee * rOut)
                  \div Wrap128(Wrap128(rIn * FeeDenom) + withFee))

\* Mutant: the final + 1 dropped.
RustAmountInRoundedDown(out, rIn, rOut, bps) ==
  IF out = 0 \/ rIn = 0 \/ rOut <= out \/ bps >= FeeDenom THEN None
  ELSE (rIn * out * FeeDenom) \div ((rOut - out) * (FeeDenom - bps))

RustAmountIn(out, rIn, rOut, bps) ==
  IF out = 0 \/ rIn = 0 \/ rOut <= out \/ bps >= FeeDenom THEN None
  ELSE Wrap64(Wrap64(Wrap128(Wrap128(rIn * out) * FeeDenom)
                     \div Wrap128((rOut - out) * (FeeDenom - bps))) + 1)

\* u128::div_ceil, then the cast.
QuoteFeeBps(in, bps) ==
  LET n == in * bps
  IN  Wrap64(n \div FeeDenom + (IF n % FeeDenom = 0 THEN 0 ELSE 1))

\* Mutant: the tolerance added.
SlippageFloorAbove(out, bps) == (out * (FeeDenom + bps)) \div FeeDenom

\* out * (1 - bps / FeeDenom), saturating, rounded down.
ApplySlippageFloor(out, bps) ==
  LET keep == IF bps <= FeeDenom THEN FeeDenom - bps ELSE 0
  IN  Wrap64((out * keep) \div FeeDenom)

-----------------------------------------------------------------------------
ReserveIn(r, h)  == IF h.aToB THEN r[h.pool].a ELSE r[h.pool].b
ReserveOut(r, h) == IF h.aToB THEN r[h.pool].b ELSE r[h.pool].a

QuoteHop(r, h, in) ==
  RustAmountOut(in, ReserveIn(r, h), ReserveOut(r, h), PoolFeeBps[h.pool])

\* Every hop is priced on the same snapshot; None as soon as one cannot be.
SimulateCollect(r, rt, in) ==
  LET after[i \in 0 .. Len(rt)] ==
        IF i = 0 THEN in
        ELSE IF after[i - 1] = None THEN None
        ELSE QuoteHop(r, rt[i], after[i - 1])
  IN  IF Len(rt) = 0 \/ after[Len(rt)] = None THEN None
      ELSE [i \in 1 .. Len(rt) |-> after[i]]

\* Mutant: the incoming balance joined without an overflow check.
MoveOutUnbounded(r, h, in) ==
  IF CanQuoteOut(in, ReserveIn(r, h), ReserveOut(r, h), PoolFeeBps[h.pool])
  THEN GetAmountOut(in, ReserveIn(r, h), ReserveOut(r, h), PoolFeeBps[h.pool])
  ELSE None

\* amm_v2::swap_a_to_b / swap_b_to_a: the output, or None when Move aborts.
MoveOut(r, h, in) ==
  IF /\ CanQuoteOut(in, ReserveIn(r, h), ReserveOut(r, h), PoolFeeBps[h.pool])
     /\ ReserveIn(r, h) + in <= U64Max
  THEN GetAmountOut(in, ReserveIn(r, h), ReserveOut(r, h), PoolFeeBps[h.pool])
  ELSE None

Swapped(r, h, in, out) ==
  [r EXCEPT ![h.pool] = IF h.aToB THEN [a |-> @.a + in, b |-> @.b - out]
                                  ELSE [a |-> @.a - out, b |-> @.b + in]]
=============================================================================
