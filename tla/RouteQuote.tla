----------------------------- MODULE RouteQuote -----------------------------
(***************************************************************************)
(* Off-chain quoting against on-chain execution.  The scanner prices a     *)
(* route hop by hop on its cached snapshot of the pools with the Rust copy *)
(* of the swap formula (amm.rs); the block it leads to runs the Move       *)
(* formula (math.move) on the pools as they are by then.  Rust release     *)
(* arithmetic wraps where Move aborts, and the executor turns each         *)
(* predicted output into the min_out floor of its hop.                     *)
(***************************************************************************)
EXTENDS Quote, FiniteSets

CONSTANTS
  LenderFeeBps,  \* the fee of the lender's vault
  Route,         \* the routes the cycle search may return
  Input,         \* the input sizes to try
  SlippageBps,   \* config.per_hop_slippage_bps
  InitialPools,  \* reserves the pools may start from
  TradeSize,     \* what another trader may swap in
  MaxTrades      \* bound on other traders' swaps

ASSUME RouteQuoteAssumption ==
  /\ Route \subseteq Seq(Hop) \ {<<>>}
  /\ Input \subseteq U64 /\ TradeSize \subseteq U64 /\ SlippageBps \in Nat
  /\ InitialPools \subseteq [Pool -> Reserves] /\ MaxTrades \in Nat
  /\ None \notin Route

VARIABLES
  pools,     \* reserves on chain
  snap,      \* ReserveCache snapshot the scan works on
  route,     \* the route being executed, or None
  outs,      \* hop_outputs predicted for it
  start,     \* the pools as they were when the block started
  hop,       \* hops executed so far
  amount,    \* what the coin in flight holds
  stage,     \* "idle" | "swap" | "done" | "aborted"
  trades

vars == <<pools, snap, route, outs, start, hop, amount, stage, trades>>

TypeOK ==
  /\ pools \in [Pool -> Reserves] /\ snap \in [Pool -> Reserves]
  /\ start \in [Pool -> Reserves]
  /\ route \in Route \union {None}
  /\ outs \in Seq(U64) \union {None}
  /\ hop \in Nat /\ (route # None => hop <= Len(route)) /\ amount \in U64
  /\ stage \in {"idle", "swap", "done", "aborted"}
  /\ trades \in 0 .. MaxTrades

-----------------------------------------------------------------------------
Init ==
  /\ pools \in InitialPools /\ snap = pools /\ start = pools
  /\ route = None /\ outs = None
  /\ hop = 0 /\ amount = 0 /\ stage = "idle" /\ trades = 0

\* Another trader swaps; the cache learns of it later.
Trade(h, in) ==
  LET out == MoveOut(pools, h, in) IN
  /\ stage = "idle" /\ trades < MaxTrades
  /\ out # None
  /\ pools' = Swapped(pools, h, in, out)
  /\ trades' = trades + 1
  /\ UNCHANGED <<snap, route, outs, start, hop, amount, stage>>

\* ReserveCache::upsert of a refreshed pool.
Refresh(p) ==
  /\ stage = "idle" /\ snap[p] # pools[p]
  /\ snap' = [snap EXCEPT ![p] = pools[p]]
  /\ UNCHANGED <<pools, route, outs, start, hop, amount, stage, trades>>

\* The scan prices a route; the executor sends the block that carries it.
Send(rt, in) ==
  /\ stage = "idle"
  /\ outs' = SimulateCollect(snap, rt, in)
  /\ outs' # None
  /\ route' = rt /\ amount' = in /\ hop' = 0
  /\ start' = pools
  /\ stage' = "swap"
  /\ UNCHANGED <<pools, snap, trades>>

\* The next hop on chain, on reserves the previous hops of this block moved.
Swap ==
  LET h   == route[hop + 1]
      out == MoveOut(pools, h, amount)
      ok  == out # None /\ out >= ApplySlippageFloor(outs[hop + 1], SlippageBps)
  IN
  /\ stage = "swap"
  /\ IF ok THEN /\ pools' = Swapped(pools, h, amount, out)
                /\ amount' = out /\ hop' = hop + 1
                /\ stage' = IF hop + 1 = Len(route) THEN "done" ELSE "swap"
           ELSE /\ stage' = "aborted"
                /\ UNCHANGED <<pools, amount, hop>>
  /\ UNCHANGED <<snap, route, outs, start, trades>>

Next ==
  \/ \E h \in Hop, in \in TradeSize : Trade(h, in)
  \/ \E p \in Pool : Refresh(p)
  \/ \E rt \in Route, in \in Input : Send(rt, in)
  \/ Swap

Spec == Init /\ [][Next]_vars

-----------------------------------------------------------------------------
(* Properties *)

\* The pools of the route were, when the block started, as the scan saw them.
Undisturbed == \A i \in 1 .. Len(route) : start[route[i].pool] = snap[route[i].pool]

DistinctPools == Cardinality({route[i].pool : i \in 1 .. Len(route)}) = Len(route)

\* Simulation predicts execution: after any number of hops the coin holds exactly
\* the predicted amount, unless another trader moved a pool of the route (amm.rs
\* and math.move agree, and simulate_collect threads amounts as the block does).
SlippageOnlyFromRivals ==
  stage \in {"swap", "done"} /\ hop > 0 /\ Undisturbed /\ DistinctPools =>
    amount = outs[hop]

\* A predicted route that nobody disturbed does not abort, whatever the slippage
\* setting: the floors never exceed the predictions.
FloorsAdmitPrediction ==
  stage = "aborted" /\ Undisturbed /\ DistinctPools =>
    MoveOut(pools, route[hop + 1], amount) = None

\* A route that enters and leaves through one pool is never quoted at a profit:
\* find_cycles does not exclude it, the quote must.
NoPhantomRoundTrip ==
  \A h \in Hop, in \in Input :
    LET back == [h EXCEPT !.aToB = ~@]
        q    == SimulateCollect(snap, <<h, back>>, in)
    IN  q # None => q[2] <= in

\* get_amount_in never under-quotes: paying what it asks buys what was asked for.
AmountInSuffices ==
  \A h \in Hop : \A out \in 1 .. ReserveOut(pools, h) - 1 :
    CanQuoteIn(out, ReserveIn(pools, h), ReserveOut(pools, h), PoolFeeBps[h.pool]) =>
      LET in == RustAmountIn(out, ReserveIn(pools, h), ReserveOut(pools, h),
                             PoolFeeBps[h.pool])
          got == MoveOut(pools, h, in)
      IN  got # None => got >= out
=============================================================================
