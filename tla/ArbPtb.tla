------------------------------- MODULE ArbPtb -------------------------------
(***************************************************************************)
(* The bot's arbitrage transaction, call by call.  ptb::live::build and    *)
(* build_owned assemble                                                    *)
(*                                                                         *)
(*   flash:  borrow -> begin -> swap* -> settle_and_return -> repay        *)
(*           -> TransferObjects                                            *)
(*   owned:  SplitCoins(gas) -> begin -> swap* -> settle                   *)
(*                                                                         *)
(* and Sui runs it as one Programmable Transaction Block on the shared     *)
(* pools and the lender.  The executor first dry-runs the very block and   *)
(* goes on only if the simulated net clears the floor; between the scan,   *)
(* the dry run and the execution rivals trade on the same pools.  The      *)
(* committed objects are vault, pools and purse; a running block works on  *)
(* the copies xvault, xpools and xpurse, which only Commit publishes.      *)
(***************************************************************************)
EXTENDS MoveMath, Sequences, FiniteSetsExt

CONSTANTS
  Token, Base, Sui,   \* coin types; the base token; the gas token
  Pool,               \* pool objects
  SideA, SideB,       \* the type arguments A and B of each pool
  Dex,                \* "AmmV2" | "Cetus" | "Turbos" for each pool
  PoolFeeBps,         \* fee_bps of each AmmV2 pool
  FlashStyle,         \* "MockVault" | "Scallop": the configured provider
  LenderFees,         \* the fees the lender may charge on chain; the vault has one for good
  QuotedFeeBps,       \* config.flash_fee_bps, the fee the bot believes
  GasBudget,          \* config.gas_budget
  GasUsed,            \* what a block may really burn
  Route, Amount, MinProfit, MinOut,   \* what the scanner may hand over
  Vaults, PoolStates, Purses,         \* what the chain may hold at the start
  RivalAmount,        \* sizes of other traders' swaps
  MaxJobs, MaxRivals, \* bounds of the exploration
  None                \* no coin, no receipt, no job

ASSUME PtbAssumption ==
  /\ Base \in Token /\ Sui \in Token
  /\ SideA \in [Pool -> Token] /\ SideB \in [Pool -> Token]
  /\ Dex \in [Pool -> {"AmmV2", "Cetus", "Turbos"}]
  /\ PoolFeeBps \in [Pool -> 0 .. FeeDenom - 1]
  /\ FlashStyle \in {"MockVault", "Scallop"}
  /\ LenderFees \subseteq 0 .. FeeDenom - 1 /\ QuotedFeeBps \in Nat
  /\ GasBudget \in Nat /\ GasUsed \subseteq 0 .. GasBudget
  /\ Route \subseteq Seq([pool : Pool, aToB : BOOLEAN]) \ {<<>>}
  /\ Vaults \subseteq U64 /\ Purses \subseteq [Token -> Nat]
  /\ PoolStates \subseteq [Pool -> [a : U64, b : U64]]
  /\ Amount \subseteq U64 /\ MinProfit \subseteq U64
  /\ MinOut \subseteq U64 /\ RivalAmount \subseteq U64
  /\ MaxJobs \in Nat /\ MaxRivals \in Nat

VARIABLES
  vault, pools, purse,      \* committed objects
  job,                      \* the built transaction, or None
  stage,                    \* the next call of the block
  run,                      \* "dry" while dry_run simulates the block, else "live"
  hop,                      \* the next hop of job.route
  xvault, xpools, xpurse,   \* the block's working copies
  coin,                     \* the coin threaded through the calls
  loan,                     \* FlashReceipt hot potato
  receipt,                  \* ArbReceipt hot potato
  jobs, rivals              \* how many orders and rival trades so far

shared == <<vault, pools, purse>>
working == <<xvault, xpools, xpurse>>
potatoes == <<coin, loan, receipt>>
bounds == <<jobs, rivals>>
vars == <<shared, job, stage, run, hop, working, potatoes, bounds>>

Reserves == [a : U64, b : U64]
Coin == [token : Token, value : U64]
Job == [mode : {"flash", "owned"}, route : Route, amount : Amount,
        minProfit : MinProfit, floors : Seq(MinOut), lenderFee : LenderFees]
FlashReceipt == [amount : U64, fee : U64]
ArbReceipt == [initial : U64, minProfit : U64]
Running == {"fund", "begin", "swap", "settle", "repay", "deliver", "done"}

ASSUME NoneAssumption ==
  /\ None \notin Job /\ None \notin Coin
  /\ None \notin FlashReceipt /\ None \notin ArbReceipt
  /\ None \notin [minProfit : Nat, charge : Nat, due : Nat]

TypeOK ==
  /\ vault \in U64 /\ xvault \in U64
  /\ pools \in [Pool -> Reserves] /\ xpools \in [Pool -> Reserves]
  /\ purse \in [Token -> Nat] /\ xpurse \in [Token -> Nat]
  /\ job \in Job \union {None}
  /\ stage \in Running \union {"idle", "built", "ready"}
  /\ run \in {"dry", "live"}
  /\ hop \in Nat \ {0}
  /\ coin \in Coin \union {None}
  /\ loan \in FlashReceipt \union {None}
  /\ receipt \in ArbReceipt \union {None}
  /\ jobs \in Nat /\ rivals \in Nat

-----------------------------------------------------------------------------
(* Quantities of a job *)

\* FlashLoanProvider::repay_total, with its saturating addition.
RepayTotal(amount) ==
  LET due == amount + FeeAmount(amount, QuotedFeeBps)
  IN  IF due <= U64Max THEN due ELSE U64Max

\* What the loan of a job ends up costing its borrower.
Charge(j) ==
  CASE j.mode = "owned" -> 0
    [] j.mode = "flash" /\ FlashStyle = "MockVault" ->
         FeeAmount(j.amount, j.lenderFee)
    [] OTHER -> RepayTotal(j.amount) - j.amount

\* What the lender itself asks for the loan of a job.
Due(j) ==
  IF j.mode = "owned" THEN 0 ELSE FeeAmount(j.amount, j.lenderFee)

\* What the sender must own to have the block accepted: gas, and the input
\* that owned mode splits off the gas coin.
Needed(j) == GasBudget + (IF j.mode = "owned" THEN j.amount ELSE 0)

-----------------------------------------------------------------------------
(* One swap of one hop h on reserves r *)

TokenIn(h)  == IF h.aToB THEN SideA[h.pool] ELSE SideB[h.pool]
TokenOut(h) == IF h.aToB THEN SideB[h.pool] ELSE SideA[h.pool]
ReserveIn(r, h)  == IF h.aToB THEN r[h.pool].a ELSE r[h.pool].b
ReserveOut(r, h) == IF h.aToB THEN r[h.pool].b ELSE r[h.pool].a

Traded(r, h, used, out) ==
  [r EXCEPT ![h.pool] =
     IF h.aToB THEN [a |-> @.a + used, b |-> @.b - out]
               ELSE [a |-> @.a - out, b |-> @.b + used]]

\* What pool h.pool may do with an exact input of in: an AmmV2 pool pays by
\* formula; a CLMM pool is outside the package and pays what it likes, the
\* Cetus adapter insisting that all of the input is taken (E_INEXACT_REPAY).
Outcome(r, h, in, used, out) ==
  /\ out <= ReserveOut(r, h)
  /\ ReserveIn(r, h) + used <= U64Max
  /\ CASE Dex[h.pool] = "AmmV2" ->
            /\ CanQuoteOut(in, ReserveIn(r, h), ReserveOut(r, h), PoolFeeBps[h.pool])
            /\ used = in
            /\ out = GetAmountOut(in, ReserveIn(r, h), ReserveOut(r, h),
                                  PoolFeeBps[h.pool])
       [] Dex[h.pool] = "Cetus"  -> used = in
       [] Dex[h.pool] = "Turbos" -> used <= in

-----------------------------------------------------------------------------
Init ==
  /\ vault \in Vaults /\ xvault = vault
  /\ pools \in PoolStates /\ xpools = pools
  /\ purse \in Purses /\ xpurse = purse
  /\ job = None /\ stage = "idle" /\ run = "live" /\ hop = 1
  /\ coin = None /\ loan = None /\ receipt = None
  /\ jobs = 0 /\ rivals = 0

\* The executor builds the block for an opportunity the scanner found earlier;
\* the floors come from that scan's hop outputs.  The lender's own fee, whatever it
\* is by then, is nothing the executor reads.
Build(mode, route, amount, minProfit, floors, lenderFee) ==
  /\ stage = "idle" /\ jobs < MaxJobs
  /\ mode = "owned" => Base = Sui
  /\ job' = [mode |-> mode, route |-> route, amount |-> amount,
             minProfit |-> minProfit, floors |-> floors, lenderFee |-> lenderFee]
  /\ stage' = "built"
  /\ jobs' = jobs + 1
  /\ UNCHANGED <<shared, run, hop, working, potatoes, rivals>>

\* dry_run simulates the block on the current objects.
DryRun ==
  /\ stage = "built"
  /\ purse[Sui] >= Needed(job)
  /\ stage' = "fund" /\ run' = "dry"
  /\ UNCHANGED <<shared, job, hop, working, potatoes, bounds>>

\* The block is submitted and runs, if the sender's coins still cover it.
Start ==
  /\ stage = "ready"
  /\ purse[Sui] >= Needed(job)
  /\ stage' = "fund"
  /\ UNCHANGED <<shared, job, run, hop, working, potatoes, bounds>>

\* The risk guard, the quote's age or an RPC error stops an order before Sui
\* executes it.
Discard ==
  /\ stage \in {"built", "ready"}
  /\ job' = None /\ stage' = "idle"
  /\ UNCHANGED <<shared, run, hop, working, potatoes, bounds>>

\* flash::borrow (or the provider's): the loan coin and its receipt.
Borrow ==
  /\ stage = "fund" /\ job.mode = "flash"
  /\ job.amount <= xvault
  /\ FeeAmount(job.amount, job.lenderFee) <= U64Max
  /\ xvault' = xvault - job.amount
  /\ coin' = [token |-> Base, value |-> job.amount]
  /\ loan' = [amount |-> job.amount, fee |-> FeeAmount(job.amount, job.lenderFee)]
  /\ stage' = "begin"
  /\ UNCHANGED <<shared, job, run, hop, xpools, xpurse, receipt, bounds>>

\* SplitCoins(GasCoin, [amount]).
SplitInput ==
  /\ stage = "fund" /\ job.mode = "owned"
  /\ xpurse' = [xpurse EXCEPT ![Base] = @ - job.amount]
  /\ coin' = [token |-> Base, value |-> job.amount]
  /\ stage' = "begin"
  /\ UNCHANGED <<shared, job, run, hop, xvault, xpools, loan, receipt, bounds>>

\* executor::begin: the profit baseline is what the coin really holds.
Begin ==
  /\ stage = "begin"
  /\ receipt' = [initial |-> coin.value, minProfit |-> job.minProfit]
  /\ stage' = "swap" /\ hop' = 1
  /\ UNCHANGED <<shared, job, run, working, coin, loan, bounds>>

\* Mutant: the unspent input not sent back.
SwapForgetsChange(used, out) ==
  LET h == job.route[hop] IN
  /\ stage = "swap" /\ hop <= Len(job.route)
  /\ coin.token = TokenIn(h)
  /\ Outcome(xpools, h, coin.value, used, out)
  /\ out >= job.floors[hop]
  /\ xpools' = Traded(xpools, h, used, out)
  /\ coin' = [token |-> TokenOut(h), value |-> out]
  /\ hop' = hop + 1
  /\ stage' = IF hop = Len(job.route) THEN "settle" ELSE "swap"
  /\ UNCHANGED <<shared, job, run, xvault, xpurse, loan, receipt, bounds>>

\* <adapter>::swap_exact_in_*: min_out enforced, unspent input sent back to the
\* sender (Turbos' return_change), the output coin threaded on.
Swap(used, out) ==
  LET h == job.route[hop] IN
  /\ stage = "swap" /\ hop <= Len(job.route)
  /\ coin.token = TokenIn(h)
  /\ Outcome(xpools, h, coin.value, used, out)
  /\ out >= job.floors[hop]
  /\ xpools' = Traded(xpools, h, used, out)
  /\ xpurse' = [xpurse EXCEPT ![TokenIn(h)] = @ + (coin.value - used)]
  /\ coin' = [token |-> TokenOut(h), value |-> out]
  /\ hop' = hop + 1
  /\ stage' = IF hop = Len(job.route) THEN "settle" ELSE "swap"
  /\ UNCHANGED <<shared, job, run, xvault, loan, receipt, bounds>>

\* Mutant: the receipt consumed without the profit assertion.
GateUnchecked == coin.token = Base /\ receipt' = None

\* The profit gate: both settle functions take a Coin<Base> and the receipt.
Gate ==
  /\ coin.token = Base
  /\ GatePasses(receipt.initial, receipt.minProfit, coin.value)
  /\ receipt' = None

\* executor::settle_and_return: the proceeds go on to the repayment.
SettleAndReturn ==
  /\ stage = "settle" /\ job.mode = "flash"
  /\ Gate
  /\ stage' = "repay"
  /\ UNCHANGED <<shared, job, run, hop, working, coin, loan, bounds>>

\* executor::settle: the proceeds go to the initiator, the sender.
Settle ==
  /\ stage = "settle" /\ job.mode = "owned"
  /\ Gate
  /\ xpurse' = [xpurse EXCEPT ![coin.token] = @ + coin.value]
  /\ coin' = None
  /\ stage' = "done"
  /\ UNCHANGED <<shared, job, run, hop, xvault, xpools, loan, bounds>>

\* Mutant: the repayment not checked against what is due.
RepayVaultUnchecked ==
  LET due == loan.amount + loan.fee IN
  /\ stage = "repay" /\ FlashStyle = "MockVault"
  /\ due <= U64Max /\ xvault + due <= U64Max
  /\ xvault' = xvault + due
  /\ coin' = [coin EXCEPT !.value = @ - due]
  /\ loan' = None
  /\ stage' = "deliver"
  /\ UNCHANGED <<shared, job, run, hop, xpools, xpurse, receipt, bounds>>

\* flash::repay takes exactly what is due and returns the change.
RepayVault ==
  LET due == loan.amount + loan.fee IN
  /\ stage = "repay" /\ FlashStyle = "MockVault"
  /\ due <= U64Max /\ xvault + due <= U64Max
  /\ coin.value >= due
  /\ xvault' = xvault + due
  /\ coin' = [coin EXCEPT !.value = @ - due]
  /\ loan' = None
  /\ stage' = "deliver"
  /\ UNCHANGED <<shared, job, run, hop, xpools, xpurse, receipt, bounds>>

\* Mutant: a market that takes back whatever the builder split off.
RepayScallopUnchecked ==
  LET owed == RepayTotal(job.amount) IN
  /\ stage = "repay" /\ FlashStyle = "Scallop"
  /\ coin.value >= owed
  /\ xvault + owed <= U64Max
  /\ xvault' = xvault + owed
  /\ coin' = [coin EXCEPT !.value = @ - owed]
  /\ loan' = None
  /\ stage' = "deliver"
  /\ UNCHANGED <<shared, job, run, hop, xpools, xpurse, receipt, bounds>>

\* Scallop keeps the coin it is handed, so the builder first splits off what the
\* configured fee says is owed; the market refuses less than its own fee.
RepayScallop ==
  LET owed == RepayTotal(job.amount) IN
  /\ stage = "repay" /\ FlashStyle = "Scallop"
  /\ coin.value >= owed
  /\ owed >= loan.amount + loan.fee
  /\ xvault + owed <= U64Max
  /\ xvault' = xvault + owed
  /\ coin' = [coin EXCEPT !.value = @ - owed]
  /\ loan' = None
  /\ stage' = "deliver"
  /\ UNCHANGED <<shared, job, run, hop, xpools, xpurse, receipt, bounds>>

\* TransferObjects([change], sender).
Deliver ==
  /\ stage = "deliver"
  /\ xpurse' = [xpurse EXCEPT ![coin.token] = @ + coin.value]
  /\ coin' = None
  /\ stage' = "done"
  /\ UNCHANGED <<shared, job, run, hop, xvault, xpools, loan, receipt, bounds>>

\* Between blocks the working copies are the committed objects.
EndBlock(v, r, w) ==
  /\ vault' = v /\ xvault' = v
  /\ pools' = r /\ xpools' = r
  /\ purse' = w /\ xpurse' = w
  /\ run' = "live" /\ hop' = 1
  /\ coin' = None /\ loan' = None /\ receipt' = None
  /\ UNCHANGED bounds

Burn(w, gas) == [w EXCEPT ![Sui] = @ - gas]

\* Sui accepts the effects only if no hot potato is left.
Discharged == coin = None /\ loan = None /\ receipt = None

\* The simulated balance change, gas included, clears the floor.
DryRunClears(gas) ==
  /\ stage = "done" /\ run = "dry" /\ Discharged
  /\ Burn(xpurse, gas)[Base] - purse[Base] >= job.minProfit
  /\ stage' = "ready" /\ job' = job
  /\ EndBlock(vault, pools, purse)

\* It does not, or the simulation reverts: the order is dropped.
DryRunSkips ==
  /\ stage \in Running /\ run = "dry"
  /\ stage' = "idle" /\ job' = None
  /\ EndBlock(vault, pools, purse)

Commit(gas) ==
  /\ stage = "done" /\ run = "live" /\ Discharged
  /\ stage' = "idle" /\ job' = None
  /\ EndBlock(xvault, xpools, Burn(xpurse, gas))

\* Any call may abort, by its own assertion or by running out of gas.
Abort(gas) ==
  /\ stage \in Running /\ run = "live"
  /\ stage' = "idle" /\ job' = None
  /\ EndBlock(vault, pools, Burn(purse, gas))

\* Other traders, before our block runs.
RivalSwap(h, in, used, out) ==
  /\ stage \notin Running /\ rivals < MaxRivals
  /\ used <= in
  /\ Outcome(pools, h, in, used, out)
  /\ pools' = Traded(pools, h, used, out)
  /\ xpools' = pools'
  /\ rivals' = rivals + 1
  /\ UNCHANGED <<vault, purse, job, stage, run, hop, xvault, xpurse, potatoes, jobs>>

\* The admin's flash::fund and the fees of other borrowers only add to the
\* package's vault; a third-party market has depositors who come and go.
LenderMoves(v) ==
  /\ stage \notin Running /\ rivals < MaxRivals
  /\ FlashStyle = "MockVault" => v >= vault
  /\ vault' = v /\ xvault' = v
  /\ rivals' = rivals + 1
  /\ UNCHANGED <<pools, purse, job, stage, run, hop, xpools, xpurse, potatoes, jobs>>

Hop == [pool : Pool, aToB : BOOLEAN]

Scan == \E mode \in {"flash", "owned"}, route \in Route, amount \in Amount,
           minProfit \in MinProfit, lenderFee \in LenderFees :
          \E floors \in [1 .. Len(route) -> MinOut] :
            Build(mode, route, amount, minProfit, floors, lenderFee)

SwapStep == /\ stage = "swap"
            /\ \E used \in 0 .. coin.value :
                 \E out \in 0 .. ReserveOut(xpools, job.route[hop]) : Swap(used, out)

Rival ==
  \/ \E h \in Hop, in \in RivalAmount :
       \E used \in 0 .. in, out \in 0 .. ReserveOut(pools, h) :
         RivalSwap(h, in, used, out)
  \/ \E v \in Vaults : LenderMoves(v)

Block == \/ Borrow \/ SplitInput \/ Begin \/ SwapStep \/ SettleAndReturn \/ Settle
         \/ RepayVault \/ RepayScallop \/ Deliver

Next ==
  \/ Scan \/ DryRun \/ DryRunSkips \/ Start \/ Discard
  \/ Block
  \/ \E gas \in GasUsed : DryRunClears(gas) \/ Commit(gas) \/ Abort(gas)
  \/ Rival

Spec == Init /\ [][Next]_vars

-----------------------------------------------------------------------------
(* Properties *)

\* All that exists of a token in a lender, a set of reserves, a purse and a hand.
Supply(t, v, r, w, c) ==
  MapThenSumSet(LAMBDA p : (IF SideA[p] = t THEN r[p].a ELSE 0)
                           + (IF SideB[p] = t THEN r[p].b ELSE 0), Pool)
  + w[t] + (IF t = Base THEN v ELSE 0)
  + (IF c # None THEN (IF c.token = t THEN c.value ELSE 0) ELSE 0)

\* A block neither mints nor burns: at every call, pools, lender, sender and the
\* coin in flight together hold exactly what was there before the block
\* (Balance join / split / take across flash, amm_v2, the adapters, settle).
InFlightConserved ==
  stage \in Running =>
    \A t \in Token : Supply(t, xvault, xpools, xpurse, coin)
                     = Supply(t, vault, pools, purse, None)

\* No committed trade, ours or a rival's, lowers an AmmV2 pool's reserve product,
\* whatever the rounding (math::get_amount_out rounds the output down).
ProductNeverFalls ==
  [][\A p \in Pool : Dex[p] = "AmmV2" =>
       pools'[p].a * pools'[p].b >= pools[p].a * pools[p].b]_pools

\* Once the profit gate has passed, a floor that includes the loan's fee is
\* enough for the repayment that follows it not to abort.
FloorWithFeeRepays ==
  stage = "repay" /\ job.minProfit >= Charge(job) =>
    coin.value >= job.amount + Charge(job)

\* The block implements the all-or-nothing order of AtomicArb: the lender never
\* gets less than its own fee even when the configured one is too low, and what
\* the configured one overpays leaves no order half done.
Atomic == INSTANCE AtomicArb WITH
  VaultIsOurs <- FlashStyle = "MockVault",
  NoOrder <- None,
  order <- IF job = None THEN None
           ELSE [minProfit |-> job.minProfit, charge |-> Charge(job),
                 due |-> Due(job)]

ImplementsAtomicArb == Atomic!Spec
=============================================================================
