------------------------------ MODULE MoveMath ------------------------------
(***************************************************************************)
(* The integer arithmetic of the Move package: sources/math.move (constant *)
(* product swaps), flash::fee_amount and executor::assert_profit, with the *)
(* widths the code computes in.  A Move operation aborts where a Rust one  *)
(* would wrap, so every function comes with the condition under which it   *)
(* returns; the value is meaningful only under that condition.             *)
(***************************************************************************)
EXTENDS Integers

CONSTANTS
  U64Max,     \* largest u64 (2^64 - 1 in the code)
  U128Max,    \* largest u128 (2^128 - 1 in the code)
  FeeDenom    \* FEE_DENOM (10_000 in the code)

ASSUME WidthAssumption ==
  /\ U64Max \in Nat /\ U128Max \in Nat /\ U64Max <= U128Max
  /\ FeeDenom \in Nat \ {0}

U64 == 0 .. U64Max

-----------------------------------------------------------------------------
(* math::get_amount_out *)

WithFee(in, bps) == in * (FeeDenom - bps)

OutNumerator(in, rOut, bps) == WithFee(in, bps) * rOut

OutDenominator(in, rIn, bps) == rIn * FeeDenom + WithFee(in, bps)

\* The asserts of get_amount_out and the u128 products it forms.
CanQuoteOut(in, rIn, rOut, bps) ==
  /\ in > 0 /\ rIn > 0 /\ rOut > 0 /\ bps < FeeDenom
  /\ OutNumerator(in, rOut, bps) <= U128Max
  /\ OutDenominator(in, rIn, bps) <= U128Max

\* Mutant: rounded up.
GetAmountOutRoundedUp(in, rIn, rOut, bps) ==
  OutNumerator(in, rOut, bps) \div OutDenominator(in, rIn, bps) + 1

GetAmountOut(in, rIn, rOut, bps) ==
  OutNumerator(in, rOut, bps) \div OutDenominator(in, rIn, bps)

-----------------------------------------------------------------------------
(* math::get_amount_in *)

InNumerator(out, rIn) == rIn * out * FeeDenom

InDenominator(out, rOut, bps) == (rOut - out) * (FeeDenom - bps)

\* The cast of the quotient to u64 and the "+ 1" may each abort.
CanQuoteIn(out, rIn, rOut, bps) ==
  /\ out > 0 /\ rIn > 0 /\ rOut > out /\ bps < FeeDenom
  /\ InNumerator(out, rIn) <= U128Max
  /\ InDenominator(out, rOut, bps) <= U128Max
  /\ InNumerator(out, rIn) \div InDenominator(out, rOut, bps) < U64Max

GetAmountIn(out, rIn, rOut, bps) ==
  InNumerator(out, rIn) \div InDenominator(out, rOut, bps) + 1

-----------------------------------------------------------------------------
(* flash::fee_amount, rounded up, and the profit gate of executor.move *)

FeeAmount(amount, bps) == (amount * bps + FeeDenom - 1) \div FeeDenom

\* Mutant: the baseline forgotten.
GateIgnoresInitial(initial, minProfit, final) ==
  minProfit <= U64Max - initial /\ final >= minProfit

\* assert_profit: the first conjunct keeps initial + minProfit inside u64.
GatePasses(initial, minProfit, final) ==
  /\ minProfit <= U64Max - initial
  /\ final >= initial + minProfit
=============================================================================
