--------------------------- MODULE MCLiquidation ---------------------------
(* Small instances of Liquidation for TLC: one obligation owes the base token, *)
(* the other what the first has as collateral; two pools swap the pair.        *)
EXTENDS Liquidation, TLC

CONSTANTS sui, usdc, pool, twin, lent, owed

Side(s, u) == (sui :> s) @@ (usdc :> u)
Thin   == [coll |-> Side(0, 122), debt |-> Side(100, 0)]   \* less than the bonus asks
Mirror == [coll |-> Side(122, 0), debt |-> Side(0, 100)]

MCOpensAs == (lent :> Thin) @@ (owed :> Mirror)
MCPositions == {Thin, Mirror}
MCPriceAt == (sui :> <<10, 9>>) @@ (usdc :> <<10, 10>>)
MCThreshold == [c \in Coin |-> 8]
MCWeight == [c \in Coin |-> 10]
MCFractions == <<10, 5>>

Calm    == [price |-> 1000, liq |-> 2000, ticks |-> {}]
Bounded == [price |-> 1035, liq |-> 2000,
            ticks |-> {[price |-> 985, net |-> 2000], [price |-> 1085, net |-> -2000]}]
MCPoolStates == {Calm, Bounded}
MCTickWindows == {{}, Bounded.ticks}
MCInitialPools == {(pool :> Calm) @@ (twin :> Bounded)}

MCMetas == <<sui, usdc>>
MCHistories == {<<lent>>}
\* Two pools of one pair, named the other way around.
MCCoinA == (pool :> sui) @@ (twin :> usdc)
MCCoinB == (pool :> usdc) @@ (twin :> sui)
=============================================================================
