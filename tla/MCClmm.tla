------------------------------- MODULE MCClmm -------------------------------
(* Small instances of Clmm: five ticks at prices a half apart, a window of three. *)
EXTENDS Clmm

MCSqrtAt == [t \in -1 .. 4 |-> <<11, 16, 24, 36, 54, 81>>[t + 2]]

\* The net liquidity of a set of positions [lower, upper, liq].
Nets(ps) == [t \in 0 .. 4 |->
  MapThenSumSet(LAMBDA p : p.liq, {p \in ps : p.lower = t})
  - MapThenSumSet(LAMBDA p : p.liq, {p \in ps : p.upper = t})]

PoolOf(ps, price, tick) ==
  [price |-> price, tick |-> tick, net |-> Nets(ps), deposits |-> 0,
   liq |-> MapThenSumSet(LAMBDA p : p.liq, {p \in ps : p.lower <= tick /\ tick < p.upper})]

Wide   == [lower |-> 0, upper |-> 4, liq |-> 12]
Middle == [lower |-> 1, upper |-> 2, liq |-> 18]
Low    == [lower |-> 0, upper |-> 1, liq |-> 30]
High   == [lower |-> 2, upper |-> 3, liq |-> 16]

\* Overlapping liquidity, and a pool with nothing between its two positions.
MCInitialPools == {PoolOf({Wide, Middle, High}, 30, 1), PoolOf({Low, High}, 20, 0)}
MCPositions == {Middle, High}
=============================================================================
