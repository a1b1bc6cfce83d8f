------------------------------ MODULE Scanner -------------------------------
(***************************************************************************)
(* scanner::find_best and sizing::ternary_max: from a snapshot of the pool *)
(* cache to the one opportunity the executor is handed.  The cache gains   *)
(* and loses pools and its reserves move between ticks; a scan works on    *)
(* one consistent snapshot.                                                *)
(***************************************************************************)
EXTENDS Quote, FiniteSets

CONSTANTS
  Token, Base,       \* coin types, and the one profit is counted in
  TokenA, TokenB,    \* the pair of each pool
  Snapshots,         \* reserves the cache may show
  CandidateInputs,   \* config.candidate_inputs, a sequence
  MaxHops,           \* config.max_hops
  GasCost,           \* config.gas_cost_estimate
  FlashFeeBps,       \* config.flash_fee_bps
  MinProfit          \* effective_min_profit_mist()

Opportunity == [route : Seq(Hop), input : U64, outs : Seq(U64), net : U64]

ASSUME ScannerAssumption ==
  /\ Base \in Token
  /\ TokenA \in [Pool -> Token] /\ TokenB \in [Pool -> Token]
  /\ \A p \in Pool : TokenA[p] # TokenB[p]
  /\ Snapshots \subseteq [Pool -> Reserves]
  /\ CandidateInputs \in Seq(U64) /\ MaxHops \in Nat
  /\ GasCost \in U64 /\ FlashFeeBps \in U64 /\ MinProfit \in U64
  /\ None \notin Opportunity

VARIABLES
  reserves,   \* the reserves the pools would show
  cached,     \* the pools the cache holds
  best        \* what the last scan of this snapshot found, or None

scanVars == <<reserves, cached, best>>

-----------------------------------------------------------------------------
(* find_cycles *)

From(h) == IF h.aToB THEN TokenA[h.pool] ELSE TokenB[h.pool]
To(h)   == IF h.aToB THEN TokenB[h.pool] ELSE TokenA[h.pool]

Edges(ps) == [pool : ps, aToB : BOOLEAN]

\* Paths[n]: the paths of n edges dfs has on its stack: out of the base token,
\* through tokens not visited before, never through the base token.
Visited(path) == {Base} \union {To(path[i]) : i \in 1 .. Len(path)}
End(path) == IF path = <<>> THEN Base ELSE To(path[Len(path)])

\* Mutant: only the token just left is not gone back to.
FindCyclesRevisiting(ps) ==
  LET paths[n \in Nat] ==
        IF n = 0 THEN {<<>>}
        ELSE {Append(pe[1], pe[2]) : pe \in
               {x \in paths[n - 1] \X Edges(ps) :
                  From(x[2]) = End(x[1]) /\ To(x[2]) \notin {Base, End(x[1])}}}
      closing(n) == {x \in paths[n] \X Edges(ps) :
                       From(x[2]) = End(x[1]) /\ To(x[2]) = Base}
  IN  UNION {{Append(x[1], x[2]) : x \in closing(n)} : n \in 1 .. MaxHops - 1}

FindCycles(ps) ==
  LET paths[n \in Nat] ==
        IF n = 0 THEN {<<>>}
        ELSE {Append(pe[1], pe[2]) : pe \in
               {x \in paths[n - 1] \X Edges(ps) :
                  From(x[2]) = End(x[1]) /\ To(x[2]) \notin Visited(x[1])}}
      closing(n) == {x \in paths[n] \X Edges(ps) :
                       From(x[2]) = End(x[1]) /\ To(x[2]) = Base}
  IN  UNION {{Append(x[1], x[2]) : x \in closing(n)} : n \in 1 .. MaxHops - 1}

-----------------------------------------------------------------------------
(* net_signed, evaluate_input *)

FlashFee(in) == IF FlashFeeBps > 0 THEN QuoteFeeBps(in, FlashFeeBps) ELSE 0

Output(r, rt, in) ==
  LET outs == SimulateCollect(r, rt, in) IN IF outs = None THEN None ELSE outs[Len(rt)]

NetSigned(r, rt, in) ==
  LET out == Output(r, rt, in)
  IN  IF out = None THEN None ELSE out - in - GasCost - FlashFee(in)

SaturatingSub(x, y) == IF x > y THEN x - y ELSE 0

\* Mutant: the early returns on a losing size left out.
EvaluateInputUnfiltered(r, rt, in) ==
  LET outs == SimulateCollect(r, rt, in)
  IN  IF outs = None THEN None
      ELSE [route |-> rt, input |-> in, outs |-> outs,
            net |-> outs[Len(rt)] - in - GasCost - FlashFee(in)]

EvaluateInput(r, rt, in) ==
  LET outs == SimulateCollect(r, rt, in)
      out  == outs[Len(rt)]
      net  == SaturatingSub(SaturatingSub(out - in, GasCost), FlashFee(in))
  IN  IF outs = None THEN None
      ELSE IF out <= in \/ net < MinProfit THEN None
      ELSE [route |-> rt, input |-> in, outs |-> outs, net |-> net]

-----------------------------------------------------------------------------
(* sizing::ternary_max of f, a function on lo .. hi into Int and None *)

\* v1 < v2, None standing for i128::MIN.
Below(v1, v2) == v2 # None /\ (v1 = None \/ v1 < v2)

\* What is left to search, its ends included.
Window == Nat \X Nat

\* The largest feasible input by binary search, when hi itself is not feasible.
FeasibleUpperBound(f, lo, hi) ==
  LET bisect[w \in Window] ==
        IF w[2] - w[1] <= 1 THEN w[1]
        ELSE LET mid == w[1] + (w[2] - w[1]) \div 2
             IN  bisect[IF f[mid] # None THEN <<mid, w[2]>> ELSE <<w[1], mid>>]
  IN  IF f[hi] # None THEN hi
      ELSE IF f[lo] = None THEN None
      ELSE bisect[<<lo, hi>>]

\* The first of the best points of a window.
FirstMax(f, lo, hi) ==
  LET feasible == {x \in lo .. hi : f[x] # None}
  IN  IF feasible = {} THEN None
      ELSE CHOOSE x \in feasible :
             \A y \in feasible : f[y] < f[x] \/ (f[y] = f[x] /\ x <= y)

TernaryMax(f, lo, hi) ==
  LET search[w \in Window] ==
        IF w[2] - w[1] <= 2 THEN FirstMax(f, w[1], w[2])
        ELSE LET third == (w[2] - w[1]) \div 3
                 m1 == w[1] + third
                 m2 == w[2] - third
             IN  search[IF Below(f[m1], f[m2]) THEN <<m1 + 1, w[2]>> ELSE <<w[1], m2 - 1>>]
      top == FeasibleUpperBound(f, lo, hi)
  IN  IF lo > hi \/ top = None THEN None ELSE search[<<lo, top>>]

-----------------------------------------------------------------------------
(* size_route, find_best *)

Grid == {CandidateInputs[i] : i \in 1 .. Len(CandidateInputs)}
Lo == CHOOSE x \in Grid : \A y \in Grid : x <= y
Hi == CHOOSE x \in Grid : \A y \in Grid : x >= y

NetOver(r, rt) == [x \in Lo .. Hi |-> NetSigned(r, rt, x)]

\* Mutant: the optimizer's size replaces the grid.
CandidatesOptimumOnly(r, rt) ==
  LET opt == TernaryMax(NetOver(r, rt), Lo, Hi)
  IN  IF Hi > Lo /\ opt # None THEN <<opt>> ELSE CandidateInputs

\* The grid, and the optimizer's size appended to it.
Candidates(r, rt) ==
  LET opt == TernaryMax(NetOver(r, rt), Lo, Hi)
  IN  IF Hi > Lo /\ opt # None THEN Append(CandidateInputs, opt) ELSE CandidateInputs

\* The earliest candidate of the highest net.
SizeRoute(r, rt) ==
  LET cs == Candidates(r, rt)
      opp == [i \in 1 .. Len(cs) |-> EvaluateInput(r, rt, cs[i])]
      ok == {i \in 1 .. Len(cs) : opp[i] # None}
  IN  IF CandidateInputs = <<>> \/ ok = {} THEN None
      ELSE opp[CHOOSE i \in ok : \A j \in ok :
                 opp[j].net < opp[i].net \/ (opp[j].net = opp[i].net /\ i <= j)]

\* Whichever of the best routes the hash map's order puts first.
FindBest(r, ps) ==
  LET opps == {SizeRoute(r, rt) : rt \in FindCycles(ps)} \ {None}
  IN  IF opps = {} THEN {None}
      ELSE {o \in opps : \A q \in opps : q.net <= o.net}

-----------------------------------------------------------------------------
ScanTypeOK ==
  /\ reserves \in [Pool -> Reserves]
  /\ cached \subseteq Pool
  /\ best \in Opportunity \union {None}

ScanInit == reserves \in Snapshots /\ cached = {} /\ best = None

\* The ingest tasks: a pool comes or goes, reserves move.
Ingest ==
  /\ \/ \E p \in Pool : cached' \in {cached \union {p}, cached \ {p}} /\ reserves' = reserves
     \/ reserves' \in Snapshots /\ cached' = cached
  /\ best' = None

Scan ==
  /\ best' \in FindBest(reserves, cached)
  /\ UNCHANGED <<reserves, cached>>

ScanNext == Ingest \/ Scan

ScanSpec == ScanInit /\ [][ScanNext]_scanVars

-----------------------------------------------------------------------------
(* Properties *)

\* The searches dfs makes are exactly the simple cycles through the base token of
\* 2 to max_hops hops over the cached pools (reference: all hop sequences).
SimpleCycles(ps) ==
  {rt \in UNION {[1 .. n -> Edges(ps)] : n \in 2 .. MaxHops} :
     /\ From(rt[1]) = Base /\ To(rt[Len(rt)]) = Base
     /\ \A i \in 1 .. Len(rt) - 1 : To(rt[i]) = From(rt[i + 1]) /\ To(rt[i]) # Base
     /\ \A i, j \in 1 .. Len(rt) : To(rt[i]) = To(rt[j]) => i = j}

CyclesExact == FindCycles(cached) = SimpleCycles(cached)

\* Nothing on the configured grid beats what the scan reports, and a scan that
\* reports nothing left nothing on the grid that clears the bar.
GridNeverBeatsBest ==
  [][Scan => \A rt \in SimpleCycles(cached), in \in Grid :
       LET net == NetSigned(reserves, rt, in) IN
         net # None /\ net >= MinProfit /\ net > 0 =>
           best' # None /\ best'.net >= net]_scanVars

\* The Move execution of a route on given reserves; None if a swap aborts.
Executed(r, rt, in) ==
  LET run[i \in 0 .. Len(rt)] ==
        IF i = 0 THEN [r |-> r, c |-> in]
        ELSE LET s == run[i - 1]
                 out == IF s.c = None THEN None ELSE MoveOut(s.r, rt[i], s.c)
             IN  [r |-> IF out = None THEN s.r ELSE Swapped(s.r, rt[i], s.c, out),
                  c |-> out]
  IN  run[Len(rt)].c

\* What the scan reports would, executed on the very reserves it saw, pass the
\* profit gate at its min_profit and still repay what flash.move charges at FlashFeeBps.
BestExecutes ==
  best # None =>
    LET out == Executed(reserves, best.route, best.input) IN
      /\ out # None
      /\ GatePasses(best.input, MinProfit, out)
      /\ out >= best.input + FeeAmount(best.input, FlashFeeBps) + MinProfit

=============================================================================
