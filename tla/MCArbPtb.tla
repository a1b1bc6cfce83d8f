------------------------------ MODULE MCArbPtb ------------------------------
(* Small instances of ArbPtb for TLC. *)
EXTENDS ArbPtb, TLC

CONSTANTS sui, usdc, cheap, dear

MCSideA == [p \in Pool |-> sui]
MCSideB == [p \in Pool |-> usdc]
AllAmmV2 == [p \in Pool |-> "AmmV2"]
CetusThenTurbos == (cheap :> "Cetus") @@ (dear :> "Turbos")
MCPoolFeeBps == [p \in Pool |-> 1]

Buy(p) == [pool |-> p, aToB |-> TRUE]
Sell(p) == [pool |-> p, aToB |-> FALSE]
MCRoute == {<<Buy(cheap), Sell(dear)>>, <<Buy(dear), Sell(cheap)>>}

\* usdc is cheap in one pool and dear in the other.
MCPoolStates == {(cheap :> [a |-> 10, b |-> 24]) @@ (dear :> [a |-> 24, b |-> 10])}
ClmmPoolStates == {(cheap :> [a |-> 4, b |-> 3]) @@ (dear :> [a |-> 7, b |-> 2])}
MCPurses == {(sui :> 6) @@ (usdc :> 0)}
=============================================================================
