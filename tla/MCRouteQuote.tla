---------------------------- MODULE MCRouteQuote ----------------------------
(* Small instances of RouteQuote for TLC. *)
EXTENDS RouteQuote, TLC

CONSTANTS near, far

MCPoolFeeBps == (near :> 1) @@ (far :> 0)

Buy(p) == [pool |-> p, aToB |-> TRUE]
Sell(p) == [pool |-> p, aToB |-> FALSE]
MCRoute == {<<Buy(near), Sell(far)>>, <<Buy(far), Sell(near)>>, <<Buy(near), Sell(near)>>}

MCInitialPools == {(near :> [a |-> 12, b |-> 25]) @@ (far :> [a |-> 20, b |-> 15]),
                   (near :> [a |-> 1, b |-> 9]) @@ (far :> [a |-> 30, b |-> 2])}
=============================================================================
