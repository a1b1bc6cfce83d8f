----------------------------- MODULE MCScanner ------------------------------
(* Small instances of Scanner for TLC. *)
EXTENDS Scanner, TLC

CONSTANTS sui, usdc, weth, su, su2, uw, ws

MCTokenA == (su :> sui) @@ (su2 :> sui) @@ (uw :> usdc) @@ (ws :> weth)
MCTokenB == (su :> usdc) @@ (su2 :> usdc) @@ (uw :> weth) @@ (ws :> sui)
MCPoolFeeBps == [p \in Pool |-> 1]

\* At 10 and 20 the net of su -> su2 has plateaus the ternary search errs on.
MCSnapshots ==
  {(su :> [a |-> x, b |-> 40]) @@ (su2 :> [a |-> 56, b |-> 40])
   @@ (uw :> [a |-> 30, b |-> y]) @@ (ws :> [a |-> 30, b |-> 50]) :
     x \in {10, 20, 56}, y \in {20, 32, 56}}

MCInputs == <<8, 4, 30>>
=============================================================================
