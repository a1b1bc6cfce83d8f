---------------------------- MODULE ArbPtbProofs ----------------------------
(***************************************************************************)
(* Proofs about ArbPtb, for every set of tokens, pools, routes, fees and   *)
(* widths: the block's types, that it neither mints nor burns, that no     *)
(* committed trade lowers a pool's product, and that the call-by-call block *)
(* implements the all-or-nothing order of AtomicArb.                       *)
(*                                                                         *)
(* The argument: at each call of a block, what the hot potatoes and the    *)
(* coin in flight hold is determined by the job (InBlock below), so that   *)
(* when the last call is done the lender has its loan and charge back and  *)
(* the sender its floor.  TypeOK alone is not inductive: that a balance    *)
(* stays a natural number after a split or a gas payment rests on the      *)
(* coins checked before the block started.                                 *)
(* What there is of a token is split into the sum over the pools and the   *)
(* rest (SupplySplits): a call changes one term of the sum (TradedHolding) *)
(* and the rest by the opposite.                                           *)
(***************************************************************************)
EXTENDS ArbPtb, DataLemmas, SequenceTheorems, TLAPS

LoanOut == stage \in {"begin", "swap", "settle", "repay"}

\* The receipts and the lender while the loan is out.
Borrowed ==
  job.mode = "flash" =>
    /\ loan = [amount |-> job.amount, fee |-> FeeAmount(job.amount, job.lenderFee)]
    /\ xvault = vault - job.amount

\* The sender gave the input at most, and only in owned mode.
Spent(t) == IF job.mode = "owned" /\ t = Base THEN job.amount ELSE 0

InBlock ==
  /\ purse[Sui] >= Needed(job)
  /\ job.mode = "owned" => loan = None /\ xvault = vault
  /\ stage = "fund" =>
       /\ xvault = vault /\ xpools = pools /\ xpurse = purse
       /\ coin = None /\ loan = None /\ receipt = None
  /\ LoanOut => Borrowed /\ coin # None
  /\ stage = "begin" =>
       receipt = None /\ coin = [token |-> Base, value |-> job.amount]
  /\ stage \in {"swap", "settle"} =>
       receipt = [initial |-> job.amount, minProfit |-> job.minProfit]
  /\ stage = "swap" => hop <= Len(job.route)
  /\ LoanOut \/ stage = "deliver" =>
       \A t \in Token : xpurse[t] >= purse[t] - Spent(t)
  /\ stage = "repay" =>
       /\ job.mode = "flash" /\ receipt = None /\ coin.token = Base
       /\ coin.value >= job.amount + job.minProfit
  /\ stage = "deliver" =>
       /\ job.mode = "flash" /\ receipt = None /\ loan = None
       /\ coin # None /\ coin.token = Base
       /\ xvault = vault + Charge(job) /\ Charge(job) >= Due(job)
       /\ coin.value >= job.minProfit - Charge(job)
  /\ stage = "done" =>
       /\ coin = None /\ loan = None /\ receipt = None
       /\ xvault = vault + Charge(job) /\ Charge(job) >= Due(job)
       /\ \A t \in Token : xpurse[t] >= purse[t]
       /\ xpurse[Base] >= purse[Base] + job.minProfit - Charge(job)

IInv ==
  /\ TypeOK
  /\ stage = "idle" <=> job = None
  /\ stage # "idle" => (job.mode = "owned" => Base = Sui)
  /\ stage \in Running => InBlock
  /\ stage \notin Running =>
       /\ xvault = vault /\ xpools = pools /\ xpurse = purse
       /\ coin = None /\ loan = None /\ receipt = None
       /\ run = "live"

-----------------------------------------------------------------------------
(* The amounts a job deals in are natural numbers. *)

\* The fee is a natural number (flash::fee_amount cannot go negative).
LEMMA FeeAmountNat ==
  ASSUME NEW amount \in Nat, NEW bps \in Nat
  PROVE  FeeAmount(amount, bps) \in Nat
<1> DEFINE n == amount * bps + FeeDenom - 1
<1>1. FeeDenom \in Nat /\ FeeDenom > 0
  BY WidthAssumption
<1>2. amount * bps \in Nat
  OBVIOUS
<1>3. n \in Nat
  BY <1>1, <1>2
<1> HIDE DEF n
<1>4. n \div FeeDenom \in Nat
  BY <1>1, <1>3
<1> QED
  BY <1>4 DEF FeeAmount, n

\* Every u64 is a natural number, and so are a job's figures.
LEMMA U64Nat == U64 \subseteq Nat
  BY WidthAssumption DEF U64

\* The fees are natural numbers.
LEMMA FeesNat == LenderFees \subseteq Nat /\ QuotedFeeBps \in Nat
  BY PtbAssumption, WidthAssumption

\* What a job names has the types of the configured sets.
LEMMA JobFacts ==
  ASSUME NEW j \in Job
  PROVE  /\ j.mode \in {"flash", "owned"}
         /\ j.route \in Seq(Hop) /\ Len(j.route) \in Nat \ {0}
         /\ j.amount \in U64 /\ j.amount \in Nat
         /\ j.minProfit \in U64 /\ j.minProfit \in Nat /\ j.lenderFee \in Nat
<1>1. /\ j.mode \in {"flash", "owned"} /\ j.route \in Route
      /\ j.amount \in Amount /\ j.minProfit \in MinProfit /\ j.lenderFee \in LenderFees
  BY DEF Job
<1>2. j.route \in Seq(Hop) /\ j.route # <<>>
  BY <1>1, PtbAssumption DEF Hop
<1>3. Len(j.route) \in Nat \ {0}
  BY <1>2, EmptySeq, LenProperties
<1> QED
  BY <1>1, <1>2, <1>3, PtbAssumption, U64Nat, FeesNat

\* A natural number is what a job's loan costs it, what the lender asks for it, and the provider's total is the loan plus
\* that cost.
LEMMA ChargeNat ==
  ASSUME NEW j \in Job
  PROVE  /\ Charge(j) \in Nat /\ Due(j) \in Nat
         /\ j.mode = "owned" => Charge(j) = 0 /\ Due(j) = 0
         /\ j.mode = "flash" => Due(j) = FeeAmount(j.amount, j.lenderFee)
         /\ j.mode = "flash" /\ FlashStyle = "MockVault" =>
              Charge(j) = FeeAmount(j.amount, j.lenderFee)
         /\ j.mode = "flash" /\ FlashStyle = "Scallop" =>
              RepayTotal(j.amount) = j.amount + Charge(j)
<1>1. /\ j.amount \in U64 /\ j.amount \in Nat /\ j.mode \in {"flash", "owned"}
      /\ j.lenderFee \in Nat
  BY JobFacts
<1>2. /\ FeeAmount(j.amount, j.lenderFee) \in Nat
      /\ FeeAmount(j.amount, QuotedFeeBps) \in Nat
  BY <1>1, FeeAmountNat, FeesNat
<1>3. RepayTotal(j.amount) \in Nat /\ RepayTotal(j.amount) >= j.amount
  BY <1>1, <1>2, WidthAssumption DEF RepayTotal, U64
<1> QED
  BY <1>1, <1>2, <1>3, PtbAssumption DEF Charge, Due

-----------------------------------------------------------------------------
(* The inductive invariant *)

\* No block runs at the start.
LEMMA InitIInv == Init => IInv
<1> SUFFICES ASSUME Init PROVE IInv
  OBVIOUS
<1>1. vault \in U64 /\ pools \in [Pool -> Reserves] /\ purse \in [Token -> Nat]
  BY PtbAssumption DEF Init, Reserves
<1>2. TypeOK
  BY <1>1 DEF Init, TypeOK
<1> QED
  BY <1>2 DEF Init, IInv, Running

\* What is built only becomes the next job.
LEMMA ScanIInv == IInv /\ Scan => IInv'
<1> SUFFICES ASSUME IInv,
                    NEW mode \in {"flash", "owned"}, NEW route \in Route,
                    NEW amount \in Amount, NEW minProfit \in MinProfit,
                    NEW floors \in [1 .. Len(route) -> MinOut], NEW lenderFee \in LenderFees,
                    Build(mode, route, amount, minProfit, floors, lenderFee)
             PROVE  IInv'
  BY DEF Scan
<1>1. floors \in Seq(MinOut)
  <2>1. Len(route) \in Nat
    BY PtbAssumption, LenProperties
  <2> QED
    BY <2>1, SeqDef
<1>2. job' \in Job /\ job' # None
  BY <1>1, NoneAssumption DEF Build, Job
<1> QED
  BY <1>2 DEF IInv, TypeOK, Build, Running, shared, working, potatoes

\* Steps outside a block: nothing is borrowed, the copies follow the objects.
LEMMA DryRunIInv == IInv /\ DryRun => IInv'
<1> SUFFICES ASSUME IInv, DryRun PROVE IInv'
  OBVIOUS
<1>1. job \in Job /\ purse[Sui] >= Needed(job)
  BY DEF IInv, TypeOK, DryRun
<1>2. job.mode = "owned" => Base = Sui
  BY DEF IInv, DryRun
<1> QED
  BY <1>1, <1>2 DEF IInv, TypeOK, InBlock, LoanOut, DryRun, Needed, Running,
     shared, working, potatoes, bounds

\* A block starts on the committed objects.
LEMMA StartIInv == IInv /\ Start => IInv'
  BY DEF IInv, TypeOK, InBlock, LoanOut, Start, Needed, Running,
     shared, working, potatoes, bounds

\* What is thrown away leaves nothing behind.
LEMMA DiscardIInv == IInv /\ Discard => IInv'
  BY DEF IInv, TypeOK, Discard, Running, shared, working, potatoes, bounds

\* Ending a block restores the idle state around whatever objects it leaves.
LEMMA EndBlockIInv ==
  ASSUME IInv, NEW v \in U64, NEW r \in [Pool -> Reserves], NEW w \in [Token -> Nat],
         EndBlock(v, r, w),
         \/ stage' = "idle" /\ job' = None
         \/ stage' = "ready" /\ stage # "idle" /\ job' = job
  PROVE  IInv'
<1>1. TypeOK'
  BY DEF IInv, TypeOK, EndBlock, bounds, Running
<1>2. job' = None <=> stage' = "idle"
  BY DEF IInv
<1>3. stage' # "idle" => (job'.mode = "owned" => Base = Sui)
  BY DEF IInv
<1> QED
  BY <1>1, <1>2, <1>3 DEF IInv, EndBlock, Running

\* A dry run that clears has run every call and published none.
LEMMA DryRunClearsIInv ==
  ASSUME IInv, NEW gas \in GasUsed, DryRunClears(gas)
  PROVE  IInv'
<1>1. vault \in U64 /\ pools \in [Pool -> Reserves] /\ purse \in [Token -> Nat]
  BY DEF IInv, TypeOK
<1> QED
  BY <1>1, EndBlockIInv DEF DryRunClears

\* A dry run that fails publishes nothing either.
LEMMA DryRunSkipsIInv ==
  ASSUME IInv, DryRunSkips
  PROVE  IInv'
<1>1. vault \in U64 /\ pools \in [Pool -> Reserves] /\ purse \in [Token -> Nat]
  BY DEF IInv, TypeOK
<1> QED
  BY <1>1, EndBlockIInv DEF DryRunSkips

\* Gas never exceeds what the sender was checked to own.
LEMMA BurnNat ==
  ASSUME NEW w \in [Token -> Nat], NEW gas \in GasUsed, w[Sui] >= GasBudget
  PROVE  /\ Burn(w, gas) \in [Token -> Nat]
         /\ \A t \in Token : Burn(w, gas)[t] = w[t] - (IF t = Sui THEN gas ELSE 0)
<1>1. gas \in Nat /\ gas <= GasBudget /\ GasBudget \in Nat /\ Sui \in Token
  BY PtbAssumption
<1> QED
  BY <1>1 DEF Burn

\* While a block runs, its job and its gas are known.
LEMMA RunningFacts ==
  ASSUME IInv, stage \in Running
  PROVE  /\ job \in Job /\ InBlock /\ purse[Sui] >= GasBudget
         /\ stage \notin {"idle", "built", "ready"}
<1>1. job \in Job /\ InBlock
  BY DEF IInv, TypeOK, Running
<1>2. purse[Sui] \in Nat /\ job.amount \in Nat /\ GasBudget \in Nat
  BY <1>1, JobFacts, PtbAssumption DEF IInv, TypeOK
<1> QED
  BY <1>1, <1>2 DEF InBlock, Needed, Running

\* An abort burns gas and forgets the block.
LEMMA AbortIInv ==
  ASSUME IInv, NEW gas \in GasUsed, Abort(gas)
  PROVE  IInv'
<1>1. /\ vault \in U64 /\ pools \in [Pool -> Reserves] /\ purse \in [Token -> Nat]
      /\ purse[Sui] >= GasBudget
  BY RunningFacts DEF IInv, TypeOK, Abort
<1>2. Burn(purse, gas) \in [Token -> Nat]
  BY <1>1, BurnNat
<1> QED
  BY <1>1, <1>2, EndBlockIInv DEF Abort

\* The last call leaves balances fit to be published.
LEMMA CommitIInv ==
  ASSUME IInv, NEW gas \in GasUsed, Commit(gas)
  PROVE  IInv'
<1>1. stage \in Running /\ stage = "done"
  BY DEF Commit, Running
<1>2. /\ xvault \in U64 /\ xpools \in [Pool -> Reserves]
      /\ purse \in [Token -> Nat] /\ xpurse \in [Token -> Nat]
  BY DEF IInv, TypeOK
<1>3. xpurse[Sui] >= GasBudget
  <2>1. InBlock /\ purse[Sui] >= GasBudget /\ Sui \in Token /\ GasBudget \in Nat
    BY <1>1, RunningFacts, PtbAssumption
  <2>2. xpurse[Sui] >= purse[Sui]
    BY <1>1, <2>1 DEF InBlock
  <2> QED
    BY <1>2, <2>1, <2>2
<1>4. Burn(xpurse, gas) \in [Token -> Nat]
  BY <1>2, <1>3, BurnNat
<1> QED
  BY <1>2, <1>4, EndBlockIInv DEF Commit

\* A trade keeps reserves inside u64: it never pays out more than the pool has.
LEMMA TradedType ==
  ASSUME NEW r \in [Pool -> Reserves], NEW h \in Hop, NEW in \in Nat,
         NEW used \in Nat, NEW out \in Nat, Outcome(r, h, in, used, out)
  PROVE  Traded(r, h, used, out) \in [Pool -> Reserves]
<1>1. /\ h.pool \in Pool /\ h.aToB \in BOOLEAN
      /\ r[h.pool].a \in U64 /\ r[h.pool].b \in U64
  BY DEF Hop, Reserves
<1>2. out <= ReserveOut(r, h) /\ ReserveIn(r, h) + used <= U64Max
  BY DEF Outcome
<1>3. CASE h.aToB = TRUE
  <2>1. r[h.pool].a + used \in U64 /\ r[h.pool].b - out \in U64
    BY <1>1, <1>2, <1>3, WidthAssumption DEF ReserveIn, ReserveOut, U64
  <2> QED
    BY <1>1, <1>3, <2>1 DEF Traded, Reserves
<1>4. CASE h.aToB = FALSE
  <2>1. r[h.pool].b + used \in U64 /\ r[h.pool].a - out \in U64
    BY <1>1, <1>2, <1>4, WidthAssumption DEF ReserveIn, ReserveOut, U64
  <2> QED
    BY <1>1, <1>4, <2>1 DEF Traded, Reserves
<1> QED
  BY <1>1, <1>3, <1>4

\* A rival trades between blocks only.
LEMMA RivalIInv == IInv /\ Rival => IInv'
<1> SUFFICES ASSUME IInv, Rival PROVE IInv'
  OBVIOUS
<1>1. ASSUME NEW h \in Hop, NEW in \in RivalAmount, NEW used \in 0 .. in,
             NEW out \in 0 .. ReserveOut(pools, h), RivalSwap(h, in, used, out)
      PROVE  IInv'
  <2>1. in \in Nat /\ used \in Nat /\ pools \in [Pool -> Reserves]
    BY PtbAssumption, U64Nat DEF IInv, TypeOK
  <2>2. ReserveOut(pools, h) \in Nat
    BY <2>1, U64Nat DEF ReserveOut, Hop, Reserves
  <2>3. pools' \in [Pool -> Reserves]
    BY <1>1, <2>1, <2>2, TradedType DEF RivalSwap
  <2> QED
    BY <1>1, <2>3 DEF IInv, TypeOK, RivalSwap, Running, potatoes
<1>2. ASSUME NEW v \in Vaults, LenderMoves(v)
      PROVE  IInv'
  <2>1. v \in U64
    BY PtbAssumption
  <2> QED
    BY <1>2, <2>1 DEF IInv, TypeOK, LenderMoves, Running, potatoes
<1> QED
  BY <1>1, <1>2 DEF Rival

-----------------------------------------------------------------------------
(* The calls of a block *)

\* The loan comes out of the lender's balance.
LEMMA BorrowIInv == IInv /\ Borrow => IInv'
<1> SUFFICES ASSUME IInv, Borrow PROVE IInv'
  OBVIOUS
<1>1. job \in Job /\ InBlock /\ stage = "fund" /\ job.mode = "flash"
  BY RunningFacts DEF Borrow, Running
<1>2. job.amount \in U64 /\ job.amount \in Nat /\ vault \in U64 /\ vault \in Nat
  BY <1>1, JobFacts, U64Nat DEF IInv, TypeOK
<1> DEFINE fee == FeeAmount(job.amount, job.lenderFee)
<1>3. fee \in U64
  <2>1. fee \in Nat
    BY <1>1, <1>2, JobFacts, FeeAmountNat
  <2>2. fee <= U64Max
    BY DEF Borrow
  <2> HIDE DEF fee
  <2> QED
    BY <2>1, <2>2, WidthAssumption DEF U64
<1> HIDE DEF fee
<1>4. /\ loan' = [amount |-> job.amount, fee |-> fee]
      /\ coin' = [token |-> Base, value |-> job.amount]
      /\ xvault' = vault - job.amount /\ xpurse' = purse /\ receipt' = None
      /\ UNCHANGED <<shared, job, run, hop, xpools, bounds>> /\ stage' = "begin"
  BY <1>1 DEF Borrow, InBlock, fee
<1>5. /\ xvault' \in U64 /\ coin' \in Coin /\ loan' \in FlashReceipt
      /\ coin' # None
  BY <1>1, <1>2, <1>3, <1>4, PtbAssumption, WidthAssumption, NoneAssumption
  DEF Borrow, Coin, FlashReceipt, InBlock, U64
<1>6. TypeOK'
  BY <1>4, <1>5 DEF IInv, TypeOK, shared, bounds, Running
<1>7. \A t \in Token : xpurse'[t] >= purse'[t] - Spent(t)'
  BY <1>1, <1>4 DEF Spent, shared, IInv, TypeOK
<1>8. InBlock'
  BY <1>1, <1>4, <1>5, <1>7 DEF InBlock, LoanOut, Borrowed, shared, Needed, fee
<1> QED
  BY <1>1, <1>4, <1>6, <1>8 DEF IInv, Running

\* In owned mode the input comes out of the sender's coins.
LEMMA SplitInputIInv == IInv /\ SplitInput => IInv'
<1> SUFFICES ASSUME IInv, SplitInput PROVE IInv'
  OBVIOUS
<1>1. /\ job \in Job /\ InBlock /\ stage = "fund" /\ job.mode = "owned" /\ Base = Sui
      /\ job # None
  BY RunningFacts, NoneAssumption DEF SplitInput, Running, IInv
<1>2. /\ job.amount \in U64 /\ job.amount \in Nat /\ GasBudget \in Nat
      /\ purse \in [Token -> Nat] /\ Base \in Token
  BY <1>1, JobFacts, PtbAssumption DEF IInv, TypeOK
<1>3. purse[Base] >= job.amount
  BY <1>1, <1>2 DEF InBlock, Needed
<1>4. /\ xpurse' = [purse EXCEPT ![Base] = @ - job.amount]
      /\ coin' = [token |-> Base, value |-> job.amount]
      /\ receipt' = None /\ loan' = None /\ xvault' = vault
      /\ UNCHANGED <<shared, job, run, hop, xpools, bounds>> /\ stage' = "begin"
  BY <1>1 DEF SplitInput, InBlock
<1>5. xpurse' \in [Token -> Nat] /\ coin' \in Coin /\ coin' # None
  BY <1>2, <1>3, <1>4, NoneAssumption DEF Coin
<1>6. TypeOK'
  BY <1>4, <1>5 DEF IInv, TypeOK, shared, bounds, Running
<1>7. \A t \in Token : xpurse'[t] >= purse'[t] - Spent(t)'
  BY <1>1, <1>2, <1>4 DEF Spent, shared
<1>8. InBlock'
  BY <1>1, <1>4, <1>5, <1>7 DEF InBlock, LoanOut, Borrowed, shared, Needed
<1> QED
  BY <1>1, <1>4, <1>6, <1>8 DEF IInv, Running

\* The receipt records the input and the floor.
LEMMA BeginIInv == IInv /\ Begin => IInv'
<1> SUFFICES ASSUME IInv, Begin PROVE IInv'
  OBVIOUS
<1>1. job \in Job /\ InBlock /\ stage = "begin" /\ job # None
  BY RunningFacts, NoneAssumption DEF Begin, Running
<1>2. /\ job.amount \in U64 /\ job.minProfit \in U64
      /\ Len(job.route) \in Nat \ {0}
  BY <1>1, JobFacts
<1>3. /\ receipt' = [initial |-> job.amount, minProfit |-> job.minProfit]
      /\ stage' = "swap" /\ hop' = 1
      /\ UNCHANGED <<shared, job, run, working, coin, loan, bounds>>
  BY <1>1 DEF Begin, InBlock
<1>4. TypeOK'
  BY <1>2, <1>3 DEF IInv, TypeOK, ArbReceipt, Running, shared, working, bounds
<1>5. InBlock'
  BY <1>1, <1>2, <1>3 DEF InBlock, LoanOut, Borrowed, Spent, Needed, shared, working
<1> QED
  BY <1>1, <1>3, <1>4, <1>5 DEF IInv, Running

\* A hop exchanges the coin in flight and touches no one but its pool.
LEMMA SwapStepIInv == IInv /\ SwapStep => IInv'
<1> SUFFICES ASSUME IInv, stage = "swap", NEW used \in 0 .. coin.value,
                    NEW out \in 0 .. ReserveOut(xpools, job.route[hop]),
                    Swap(used, out)
             PROVE  IInv'
  BY DEF SwapStep
<1> DEFINE h == job.route[hop]
<1>1. job \in Job /\ InBlock /\ job # None /\ coin # None
  BY RunningFacts, NoneAssumption DEF Running, InBlock, LoanOut
<1>2. coin \in Coin /\ coin.token \in Token /\ coin.value \in Nat
  BY <1>1, U64Nat DEF IInv, TypeOK, Coin
<1>3. /\ h \in Hop /\ hop \in Nat \ {0} /\ hop <= Len(job.route)
      /\ Len(job.route) \in Nat
  <2>1. job.route \in Seq(Hop) /\ Len(job.route) \in Nat
    BY <1>1, JobFacts
  <2>2. hop \in 1 .. Len(job.route)
    BY <2>1 DEF Swap, IInv, TypeOK
  <2> QED
    BY <2>1, <2>2, ElementOfSeq
<1>4. xpools \in [Pool -> Reserves] /\ xpurse \in [Token -> Nat]
  BY DEF IInv, TypeOK
<1>5. ReserveOut(xpools, h) \in U64
  BY <1>3, <1>4 DEF ReserveOut, Hop, Reserves
<1>6. /\ used \in Nat /\ used <= coin.value /\ coin.value - used \in Nat
      /\ out \in U64 /\ out \in Nat
  BY <1>2, <1>5, WidthAssumption DEF U64
<1> HIDE DEF h
<1>7. /\ Outcome(xpools, h, coin.value, used, out)
      /\ xpools' = Traded(xpools, h, used, out)
      /\ xpurse' = [xpurse EXCEPT ![TokenIn(h)] = @ + (coin.value - used)]
      /\ coin' = [token |-> TokenOut(h), value |-> out]
      /\ hop' = hop + 1
      /\ stage' = IF hop = Len(job.route) THEN "settle" ELSE "swap"
      /\ UNCHANGED <<shared, job, run, xvault, loan, receipt, bounds>>
  BY DEF Swap, h
<1>8. xpools' \in [Pool -> Reserves]
  BY <1>2, <1>3, <1>4, <1>6, <1>7, TradedType
<1>9. TokenIn(h) \in Token /\ TokenOut(h) \in Token
  BY <1>3, PtbAssumption DEF TokenIn, TokenOut, Hop
<1>10. /\ xpurse' \in [Token -> Nat]
       /\ \A t \in Token : xpurse'[t] >= xpurse[t]
  BY <1>4, <1>6, <1>7, <1>9
<1>11. coin' \in Coin /\ coin' # None
  BY <1>6, <1>7, <1>9, NoneAssumption DEF Coin
<1>12. stage' \in {"swap", "settle"}
  BY <1>7
<1>13. TypeOK'
  BY <1>3, <1>7, <1>8, <1>10, <1>11, <1>12
  DEF IInv, TypeOK, Running, shared, bounds
<1>14. \A t \in Token : xpurse'[t] >= purse'[t] - Spent(t)'
  <2> SUFFICES ASSUME NEW t \in Token PROVE xpurse'[t] >= purse'[t] - Spent(t)'
    OBVIOUS
  <2>1. xpurse[t] >= purse[t] - Spent(t) /\ Spent(t)' = Spent(t) /\ purse' = purse
    BY <1>1, <1>7 DEF InBlock, LoanOut, Spent, shared
  <2>2. xpurse'[t] \in Nat /\ xpurse[t] \in Nat /\ purse[t] \in Nat
        /\ Spent(t) \in Nat /\ xpurse'[t] >= xpurse[t]
    BY <1>1, <1>4, <1>10, JobFacts DEF IInv, TypeOK, Spent
  <2> QED
    BY <2>1, <2>2
<1>15. stage' = "swap" => hop' <= Len(job'.route)
  BY <1>3, <1>7
<1>16. InBlock'
  BY <1>1, <1>7, <1>11, <1>12, <1>14, <1>15
  DEF InBlock, LoanOut, Borrowed, Needed, shared
<1> QED
  BY <1>1, <1>7, <1>12, <1>13, <1>16 DEF IInv, Running

\* A passed gate leaves at least the principal and the floor in the coin.
LEMMA GateFacts ==
  ASSUME IInv, stage = "settle", Gate
  PROVE  /\ job \in Job /\ InBlock /\ job # None
         /\ job.amount \in Nat /\ job.minProfit \in Nat
         /\ coin \in Coin /\ coin # None
         /\ coin.token = Base /\ Base \in Token /\ coin.value \in Nat
         /\ coin.value >= job.amount + job.minProfit
<1>1. job \in Job /\ InBlock /\ job # None /\ coin # None
  BY RunningFacts, NoneAssumption DEF Running, InBlock, LoanOut
<1>2. job.amount \in Nat /\ job.minProfit \in Nat /\ Base \in Token
  BY <1>1, JobFacts, PtbAssumption
<1>3. coin \in Coin /\ coin.value \in Nat
  BY <1>1, U64Nat DEF IInv, TypeOK, Coin
<1>4. receipt = [initial |-> job.amount, minProfit |-> job.minProfit]
  BY <1>1 DEF InBlock
<1> QED
  BY <1>1, <1>2, <1>3, <1>4 DEF Gate, GatePasses

\* The gate passes the coin on only above its floor.
LEMMA SettleAndReturnIInv == IInv /\ SettleAndReturn => IInv'
<1> SUFFICES ASSUME IInv, SettleAndReturn PROVE IInv'
  OBVIOUS
<1>1. /\ job \in Job /\ InBlock /\ job # None
      /\ coin.token = Base /\ coin.value >= job.amount + job.minProfit
      /\ coin # None
  BY GateFacts DEF SettleAndReturn
<1>2. /\ stage = "settle" /\ job.mode = "flash" /\ receipt' = None
      /\ stage' = "repay"
      /\ UNCHANGED <<shared, job, run, hop, working, coin, loan, bounds>>
  BY DEF SettleAndReturn, Gate
<1>3. TypeOK'
  BY <1>2 DEF IInv, TypeOK, Running, shared, working, bounds
<1>4. InBlock'
  BY <1>1, <1>2 DEF InBlock, LoanOut, Borrowed, Spent, Needed, shared, working
<1> QED
  BY <1>1, <1>2, <1>3, <1>4 DEF IInv, Running

\* In owned mode the gate pays the sender.
LEMMA SettleIInv == IInv /\ Settle => IInv'
<1> SUFFICES ASSUME IInv, Settle PROVE IInv'
  OBVIOUS
<1>1. /\ job \in Job /\ InBlock /\ job # None
      /\ job.amount \in Nat /\ job.minProfit \in Nat
      /\ coin.token = Base /\ Base \in Token /\ coin.value \in Nat
      /\ coin.value >= job.amount + job.minProfit
  BY GateFacts DEF Settle
<1>2. /\ stage = "settle" /\ job.mode = "owned" /\ receipt' = None /\ coin' = None
      /\ stage' = "done"
      /\ xpurse' = [xpurse EXCEPT ![Base] = @ + coin.value]
      /\ UNCHANGED <<shared, job, run, hop, xvault, xpools, loan, bounds>>
  BY <1>1 DEF Settle, Gate
<1>3. xpurse \in [Token -> Nat] /\ purse \in [Token -> Nat] /\ vault \in Nat
  BY U64Nat DEF IInv, TypeOK
<1>4. xpurse' \in [Token -> Nat]
  BY <1>1, <1>2, <1>3
<1>5. TypeOK'
  BY <1>2, <1>4 DEF IInv, TypeOK, Running, shared, bounds
<1>6. \A t \in Token : xpurse[t] >= purse[t] - (IF t = Base THEN job.amount ELSE 0)
  BY <1>1, <1>2 DEF InBlock, LoanOut, Spent
<1>7. /\ \A t \in Token : xpurse'[t] >= purse[t]
      /\ xpurse'[Base] >= purse[Base] + job.minProfit
  BY <1>1, <1>2, <1>3, <1>6
<1>8. Charge(job) = 0 /\ Due(job) = 0
  BY <1>1, <1>2, ChargeNat
<1>9. /\ xvault = vault /\ loan = None
  BY <1>1, <1>2 DEF InBlock
<1>10. /\ xvault' = vault' + Charge(job') /\ Charge(job') >= Due(job')
       /\ \A t \in Token : xpurse'[t] >= purse'[t]
       /\ xpurse'[Base] >= purse'[Base] + job'.minProfit - Charge(job')
       /\ loan' = None
  BY <1>1, <1>2, <1>3, <1>7, <1>8, <1>9 DEF shared
<1>11. InBlock'
  BY <1>1, <1>2, <1>9, <1>10 DEF InBlock, LoanOut, Needed, shared
<1> QED
  BY <1>1, <1>2, <1>5, <1>11 DEF IInv, Running

\* The two repayments leave the lender its loan plus the job's charge, and the
\* coin at least the floor less that charge.
LEMMA RepaidIInv ==
  ASSUME IInv, stage = "repay", NEW due \in Nat,
         due = job.amount + Charge(job), Charge(job) >= Due(job),
         coin.value >= due, xvault + due <= U64Max,
         xvault' = xvault + due,
         coin' = [coin EXCEPT !.value = @ - due],
         loan' = None, stage' = "deliver",
         UNCHANGED <<shared, job, run, hop, xpools, xpurse, receipt, bounds>>
  PROVE  IInv'
<1>1. job \in Job /\ InBlock /\ job # None /\ coin # None
  BY RunningFacts, NoneAssumption DEF Running, InBlock, LoanOut
<1>2. /\ job.mode = "flash" /\ receipt = None /\ coin.token = Base
      /\ coin.value >= job.amount + job.minProfit
      /\ xvault = vault - job.amount
  BY <1>1 DEF InBlock, LoanOut, Borrowed
<1>3. /\ job.amount \in Nat /\ job.minProfit \in Nat /\ Charge(job) \in Nat
      /\ vault \in Nat /\ Base \in Token /\ xvault \in Nat
  BY <1>1, JobFacts, ChargeNat, U64Nat, PtbAssumption DEF IInv, TypeOK
<1>4. coin \in Coin /\ coin.value \in U64 /\ coin.value \in Nat
  BY <1>1, U64Nat DEF IInv, TypeOK, Coin
<1>5. /\ coin' = [token |-> Base, value |-> coin.value - due]
      /\ coin.value - due \in U64
  BY <1>2, <1>4, WidthAssumption DEF Coin, U64
<1>6. coin' \in Coin /\ coin' # None
  <2>1. [token |-> Base, value |-> coin.value - due] \in Coin
    BY <1>3, <1>5 DEF Coin
  <2> QED
    BY <1>5, <2>1, NoneAssumption
<1>7. xvault' \in U64
  BY <1>3, WidthAssumption DEF U64
<1>8. TypeOK'
  BY <1>6, <1>7 DEF IInv, TypeOK, Running, shared, bounds
<1>9. /\ xvault' = vault' + Charge(job') /\ Charge(job') >= Due(job')
      /\ coin'.token = Base
      /\ coin'.value >= job'.minProfit - Charge(job')
  BY <1>2, <1>3, <1>4, <1>5 DEF shared
<1>10. \A t \in Token : xpurse'[t] >= purse'[t] - Spent(t)'
  BY <1>1 DEF InBlock, LoanOut, Spent, shared
<1>11. InBlock'
  BY <1>1, <1>2, <1>6, <1>9, <1>10 DEF InBlock, LoanOut, Needed, shared
<1> QED
  BY <1>1, <1>8, <1>11 DEF IInv, Running

\* The vault takes what its receipt says.
LEMMA RepayVaultIInv == IInv /\ RepayVault => IInv'
<1> SUFFICES ASSUME IInv, RepayVault PROVE IInv'
  OBVIOUS
<1>1. /\ job \in Job /\ job.mode = "flash"
      /\ loan.amount = job.amount /\ loan.fee = FeeAmount(job.amount, job.lenderFee)
  BY RunningFacts DEF Running, InBlock, LoanOut, Borrowed, RepayVault
<1>2. /\ job.amount \in Nat /\ Charge(job) \in Nat
      /\ loan.fee = Charge(job) /\ Charge(job) = Due(job)
  BY <1>1, JobFacts, ChargeNat DEF RepayVault
<1> DEFINE due == loan.amount + loan.fee
<1>3. due \in Nat /\ due = job.amount + Charge(job)
  BY <1>1, <1>2
<1>4. /\ stage = "repay" /\ coin.value >= due /\ xvault + due <= U64Max
      /\ xvault' = xvault + due
      /\ coin' = [coin EXCEPT !.value = @ - due]
      /\ loan' = None /\ stage' = "deliver"
      /\ UNCHANGED <<shared, job, run, hop, xpools, xpurse, receipt, bounds>>
  BY DEF RepayVault
<1> HIDE DEF due
<1> QED
  BY <1>2, <1>3, <1>4, RepaidIInv

\* The market gets what the configured fee sets aside, if that covers its own.
LEMMA RepayScallopIInv == IInv /\ RepayScallop => IInv'
<1> SUFFICES ASSUME IInv, RepayScallop PROVE IInv'
  OBVIOUS
<1>1. /\ job \in Job /\ job.mode = "flash"
      /\ loan.amount = job.amount /\ loan.fee = FeeAmount(job.amount, job.lenderFee)
  BY RunningFacts DEF Running, InBlock, LoanOut, Borrowed, RepayScallop
<1> DEFINE owed == RepayTotal(job.amount)
<1>2. owed \in Nat /\ owed = job.amount + Charge(job)
  BY <1>1, JobFacts, ChargeNat DEF RepayScallop
<1>3. /\ stage = "repay" /\ coin.value >= owed /\ xvault + owed <= U64Max
      /\ xvault' = xvault + owed
      /\ coin' = [coin EXCEPT !.value = @ - owed]
      /\ loan' = None /\ stage' = "deliver"
      /\ UNCHANGED <<shared, job, run, hop, xpools, xpurse, receipt, bounds>>
  BY DEF RepayScallop
<1>4. Charge(job) >= Due(job)
  <2>1. owed >= loan.amount + loan.fee
    BY DEF RepayScallop
  <2>2. /\ Charge(job) \in Nat /\ Due(job) \in Nat /\ Due(job) = loan.fee
        /\ job.amount \in Nat
    BY <1>1, JobFacts, ChargeNat
  <2> HIDE DEF owed
  <2> QED
    BY <1>1, <1>2, <2>1, <2>2
<1> HIDE DEF owed
<1> QED
  BY <1>2, <1>3, <1>4, RepaidIInv

\* What is left goes to the sender.
LEMMA DeliverIInv == IInv /\ Deliver => IInv'
<1> SUFFICES ASSUME IInv, Deliver PROVE IInv'
  OBVIOUS
<1>1. /\ job \in Job /\ InBlock /\ job # None /\ stage = "deliver"
  BY RunningFacts, NoneAssumption DEF Deliver, Running
<1>2. /\ job.mode = "flash" /\ receipt = None /\ loan = None
      /\ coin # None /\ coin.token = Base
      /\ xvault = vault + Charge(job) /\ Charge(job) >= Due(job)
      /\ coin.value >= job.minProfit - Charge(job)
  BY <1>1 DEF InBlock
<1>3. /\ job.minProfit \in Nat /\ Charge(job) \in Nat /\ coin.value \in Nat
      /\ Base \in Token /\ xpurse \in [Token -> Nat] /\ purse \in [Token -> Nat]
  BY <1>1, <1>2, JobFacts, ChargeNat, U64Nat, PtbAssumption DEF IInv, TypeOK, Coin
<1>4. /\ xpurse' = [xpurse EXCEPT ![Base] = @ + coin.value]
      /\ coin' = None /\ stage' = "done"
      /\ UNCHANGED <<shared, job, run, hop, xvault, xpools, loan, receipt, bounds>>
  BY <1>2 DEF Deliver
<1>5. \A t \in Token : xpurse[t] >= purse[t]
  <2>1. \A t \in Token : Spent(t) = 0
    BY <1>2 DEF Spent
  <2> QED
    BY <1>1, <1>3, <2>1 DEF InBlock
<1>6. /\ xpurse' \in [Token -> Nat]
      /\ \A t \in Token : xpurse'[t] >= purse'[t]
      /\ xpurse'[Base] >= purse'[Base] + job'.minProfit - Charge(job')
      /\ xvault' = vault' + Charge(job') /\ Charge(job') >= Due(job')
  BY <1>2, <1>3, <1>4, <1>5 DEF shared
<1>7. TypeOK'
  BY <1>4, <1>6 DEF IInv, TypeOK, Running, shared, bounds
<1>8. InBlock'
  BY <1>1, <1>2, <1>4, <1>6 DEF InBlock, LoanOut, Needed, shared
<1> QED
  BY <1>1, <1>4, <1>7, <1>8 DEF IInv, Running

\* The invariant survives every step.
LEMMA NextIInv == IInv /\ [Next]_vars => IInv'
<1> SUFFICES ASSUME IInv, [Next]_vars PROVE IInv'
  OBVIOUS
<1>1. CASE Scan
  BY <1>1, ScanIInv
<1>2. CASE DryRun \/ DryRunSkips \/ Start \/ Discard
  BY <1>2, DryRunIInv, DryRunSkipsIInv, StartIInv, DiscardIInv
<1>3. CASE Block
  BY <1>3, BorrowIInv, SplitInputIInv, BeginIInv, SwapStepIInv, SettleAndReturnIInv,
     SettleIInv, RepayVaultIInv, RepayScallopIInv, DeliverIInv DEF Block
<1>4. CASE \E gas \in GasUsed : DryRunClears(gas) \/ Commit(gas) \/ Abort(gas)
  BY <1>4, DryRunClearsIInv, CommitIInv, AbortIInv
<1>5. CASE Rival
  BY <1>5, RivalIInv
<1>6. CASE UNCHANGED vars
  BY <1>6 DEF vars, shared, working, potatoes, bounds, IInv, TypeOK, InBlock,
     LoanOut, Borrowed, Spent, Needed, Charge, Due, RepayTotal, Running
<1> QED
  BY <1>1, <1>2, <1>3, <1>4, <1>5, <1>6 DEF Next

\* At every reachable state of every instance, the inductive invariant holds.
THEOREM Inductive == Spec => []IInv
<1>1. Init => IInv
  BY InitIInv
<1>2. IInv /\ [Next]_vars => IInv'
  BY NextIInv
<1> QED
  BY <1>1, <1>2, PTL DEF Spec

-----------------------------------------------------------------------------
(* What a block conserves *)

\* What the pools hold of a token, and what everybody else does.
Holding(t, r) == [p \in Pool |-> (IF SideA[p] = t THEN r[p].a ELSE 0)
                                 + (IF SideB[p] = t THEN r[p].b ELSE 0)]

InCoin(t, c) == IF c # None THEN (IF c.token = t THEN c.value ELSE 0) ELSE 0

Hand(t, v, w, c) == w[t] + (IF t = Base THEN v ELSE 0) + InCoin(t, c)

\* What the pools hold of a token is never negative.
LEMMA HoldingNat ==
  ASSUME NEW t, NEW r \in [Pool -> Reserves]
  PROVE  \A p \in Pool : Holding(t, r)[p] \in Nat
<1>1. \A p \in Pool : r[p].a \in Nat /\ r[p].b \in Nat
  BY U64Nat DEF Reserves
<1> QED
  BY <1>1 DEF Holding

\* All there is of a token is what the pools hold, summed, and what is elsewhere.
LEMMA SupplySplits ==
  ASSUME IsFiniteSet(Pool), NEW t \in Token, NEW v \in Nat, NEW r \in [Pool -> Reserves],
         NEW w \in [Token -> Nat], NEW c \in Coin \union {None}
  PROVE  /\ Supply(t, v, r, w, c) = SumOf(Holding(t, r), Pool) + Hand(t, v, w, c)
         /\ SumOf(Holding(t, r), Pool) \in Int /\ Hand(t, v, w, c) \in Int
<1> DEFINE held == MapThenSumSet(LAMBDA p : (IF SideA[p] = t THEN r[p].a ELSE 0)
                                            + (IF SideB[p] = t THEN r[p].b ELSE 0), Pool)
<1> DEFINE f == Holding(t, r)
<1>1. held = SumOf(f, Pool)
  <2>1. \A p \in Pool : f[p] = (IF SideA[p] = t THEN r[p].a ELSE 0)
                               + (IF SideB[p] = t THEN r[p].b ELSE 0)
    BY DEF Holding
  <2> DEFINE term(p) == (IF SideA[p] = t THEN r[p].a ELSE 0)
                        + (IF SideB[p] = t THEN r[p].b ELSE 0)
             Iter(g) == g = [s \in SUBSET Pool |->
                               IF s = {} THEN 0
                               ELSE LET p == CHOOSE p \in s : TRUE
                                    IN  term(p) + g[s \ {p}]]
             iter == CHOOSE g : Iter(g)
  <2>2. held = iter[Pool]
    BY DEF MapThenSumSet, MapThenFoldSet
  <2>3. \A p \in Pool : f[p] = term(p)
    BY <2>1
  <2> HIDE DEF f, term
  <2>4. \A g : Iter(g) <=> Sums(g, f, Pool)
    BY <2>3 DEF Sums, Member
  <2> HIDE DEF Iter
  <2>5. Sums(iter, f, Pool)
    BY <2>4, SumsExist
  <2> HIDE DEF iter
  <2> QED
    BY <2>2, <2>5, SumOfSums
<1>2. SumOf(Holding(t, r), Pool) \in Int
  <2>1. \A p \in Pool : f[p] \in Int
    BY HoldingNat
  <2> HIDE DEF f
  <2>2. SumOf(f, Pool) \in Int
    BY <2>1, SumInt
  <2> QED
    BY <2>2 DEF f
<1>3. w[t] \in Int /\ InCoin(t, c) \in Int
  <2>1. CASE c = None
    BY <2>1 DEF InCoin
  <2>2. CASE c # None
    <3>1. c \in Coin
      BY <2>2
    <3>2. c.value \in Nat
      BY <3>1, U64Nat DEF Coin
    <3> QED
      BY <3>2 DEF InCoin
  <2> QED
    BY <2>1, <2>2
<1>4. Supply(t, v, r, w, c) = held + w[t] + (IF t = Base THEN v ELSE 0) + InCoin(t, c)
  BY DEF Supply, InCoin
<1> HIDE DEF held
<1>5. Hand(t, v, w, c) = w[t] + (IF t = Base THEN v ELSE 0) + InCoin(t, c)
      /\ Hand(t, v, w, c) \in Int
  BY <1>3 DEF Hand
<1> QED
  BY <1>1, <1>2, <1>3, <1>4, <1>5

\* A call that leaves the pools alone conserves if what it takes in one hand it puts
\* into the other.
LEMMA HandsConserve ==
  ASSUME IsFiniteSet(Pool), IInv, IInv', InFlightConserved, stage \in Running,
         xpools' = xpools, UNCHANGED shared,
         \A t \in Token : Hand(t, xvault', xpurse', coin') = Hand(t, xvault, xpurse, coin)
  PROVE  InFlightConserved'
<1> SUFFICES ASSUME NEW t \in Token
             PROVE  Supply(t, xvault', xpools', xpurse', coin')
                    = Supply(t, vault', pools', purse', None)
  BY DEF InFlightConserved
<1>1. /\ xvault \in Nat /\ xpools \in [Pool -> Reserves] /\ xpurse \in [Token -> Nat]
      /\ coin \in Coin \union {None}
      /\ xvault' \in Nat /\ xpurse' \in [Token -> Nat] /\ coin' \in Coin \union {None}
  BY U64Nat DEF IInv, TypeOK
<1>2. Supply(t, xvault', xpools, xpurse', coin') = Supply(t, xvault, xpools, xpurse, coin)
  BY <1>1, SupplySplits
<1>3. Supply(t, xvault, xpools, xpurse, coin) = Supply(t, vault, pools, purse, None)
  BY DEF InFlightConserved
<1> QED
  BY <1>2, <1>3 DEF shared

\* What a trade moves between a pool and its two tokens.
LEMMA TradedHolding ==
  ASSUME IsFiniteSet(Pool), NEW t \in Token, NEW r \in [Pool -> Reserves], NEW h \in Hop,
         NEW in \in Nat, NEW used \in Nat, NEW out \in Nat, Outcome(r, h, in, used, out)
  PROVE  SumOf(Holding(t, Traded(r, h, used, out)), Pool)
         = SumOf(Holding(t, r), Pool)
           + (IF TokenIn(h) = t THEN used ELSE 0) - (IF TokenOut(h) = t THEN out ELSE 0)
<1> DEFINE q == Traded(r, h, used, out)
           e == Holding(t, r)
           f == Holding(t, q)
<1>1. q \in [Pool -> Reserves]
  BY TradedType
<1>2. h.pool \in Pool /\ h.aToB \in BOOLEAN /\ r[h.pool].a \in Nat /\ r[h.pool].b \in Nat
  BY U64Nat DEF Hop, Reserves
<1>3. \A p \in Pool : e[p] \in Int /\ f[p] \in Int
  BY <1>1, HoldingNat
<1>4. \A p \in Pool \ {h.pool} : q[p] = r[p]
  BY DEF Traded
<1>5. \A p \in Pool \ {h.pool} : e[p] = f[p]
  BY <1>4 DEF Holding
<1>6. f[h.pool] - e[h.pool] = (IF TokenIn(h) = t THEN used ELSE 0)
                              - (IF TokenOut(h) = t THEN out ELSE 0)
  <2>1. CASE h.aToB = TRUE
    <3>1. q[h.pool] = [a |-> r[h.pool].a + used, b |-> r[h.pool].b - out]
      BY <1>2, <2>1 DEF Traded
    <3>2. /\ f[h.pool] = (IF SideA[h.pool] = t THEN r[h.pool].a + used ELSE 0)
                         + (IF SideB[h.pool] = t THEN r[h.pool].b - out ELSE 0)
          /\ e[h.pool] = (IF SideA[h.pool] = t THEN r[h.pool].a ELSE 0)
                         + (IF SideB[h.pool] = t THEN r[h.pool].b ELSE 0)
      BY <1>2, <3>1 DEF Holding
    <3>3. TokenIn(h) = SideA[h.pool] /\ TokenOut(h) = SideB[h.pool]
      BY <2>1 DEF TokenIn, TokenOut
    <3> HIDE DEF e, f
    <3> QED
      BY <1>2, <3>2, <3>3
  <2>2. CASE h.aToB = FALSE
    <3>1. q[h.pool] = [a |-> r[h.pool].a - out, b |-> r[h.pool].b + used]
      BY <1>2, <2>2 DEF Traded
    <3> QED
      BY <1>2, <2>2, <3>1 DEF Holding, TokenIn, TokenOut
  <2> QED
    BY <1>2, <2>1, <2>2
<1> HIDE DEF e, f
<1>7. SumOf(f, Pool) = SumOf(e, Pool) + (f[h.pool] - e[h.pool])
  <2>1. h.pool \in Pool
    BY <1>2
  <2>2. \A p \in Pool : e[p] \in Int /\ f[p] \in Int
    BY <1>3
  <2> DEFINE x == h.pool
  <2>3. x \in Pool /\ \A p \in Pool \ {x} : e[p] = f[p]
    BY <1>5, <2>1
  <2> HIDE DEF q, x
  <2>4. SumOf(f, Pool) = SumOf(e, Pool) + (f[x] - e[x])
    BY <2>2, <2>3, SumChange, SMTT(60)
  <2> QED
    BY <2>4 DEF x
<1>8. SumOf(e, Pool) \in Int
  BY <1>3, SumInt
<1> QED
  BY <1>6, <1>7, <1>8 DEF e, f

\* A swap moves its input into the pool and its output into the hand, the rest of the
\* input into the purse.
LEMMA SwapConserves ==
  ASSUME IsFiniteSet(Pool), IInv, IInv', InFlightConserved, SwapStep
  PROVE  InFlightConserved'
<1>1. PICK used \in 0 .. coin.value : \E out \in 0 .. ReserveOut(xpools, job.route[hop]) :
             Swap(used, out)
  BY DEF SwapStep
<1>2. PICK out \in 0 .. ReserveOut(xpools, job.route[hop]) : Swap(used, out)
  BY <1>1
<1> DEFINE h == job.route[hop]
<1>3. stage = "swap" /\ job \in Job /\ coin # None
  BY RunningFacts DEF SwapStep, Running, InBlock, LoanOut
<1>4. /\ coin \in Coin /\ coin.token \in Token /\ coin.value \in Nat
      /\ xpools \in [Pool -> Reserves] /\ xpurse \in [Token -> Nat] /\ xvault \in Nat
      /\ xpools' \in [Pool -> Reserves] /\ xpurse' \in [Token -> Nat]
      /\ coin' \in Coin \union {None}
  BY <1>3, U64Nat DEF IInv, TypeOK, Coin
<1>5. h \in Hop
  <2>1. job.route \in Seq(Hop) /\ Len(job.route) \in Nat
    BY <1>3, JobFacts
  <2>2. hop \in 1 .. Len(job.route)
    BY <1>2, <2>1 DEF Swap, IInv, TypeOK
  <2> QED
    BY <2>1, <2>2, ElementOfSeq
<1>6. ReserveOut(xpools, h) \in Nat
  BY <1>4, <1>5, U64Nat DEF ReserveOut, Hop, Reserves
<1> HIDE DEF h
<1>7. used \in Nat /\ out \in Nat /\ coin.value - used \in Nat
  BY <1>1, <1>2, <1>4, <1>6 DEF h
<1>8. /\ Outcome(xpools, h, coin.value, used, out) /\ coin.token = TokenIn(h)
      /\ xpools' = Traded(xpools, h, used, out)
      /\ xpurse' = [xpurse EXCEPT ![TokenIn(h)] = @ + (coin.value - used)]
      /\ coin' = [token |-> TokenOut(h), value |-> out]
      /\ xvault' = xvault /\ UNCHANGED shared
  BY <1>2 DEF Swap, h
<1>9. TokenIn(h) \in Token /\ TokenOut(h) \in Token /\ coin' # None
  <2>1. TokenIn(h) \in Token /\ TokenOut(h) \in Token
    BY <1>5, PtbAssumption DEF TokenIn, TokenOut, Hop
  <2>2. stage' \in {"swap", "settle"}
    BY <1>2 DEF Swap
  <2> QED
    BY <2>1, <2>2 DEF IInv, InBlock, LoanOut, Running
<1> SUFFICES ASSUME NEW t \in Token
             PROVE  Supply(t, xvault', xpools', xpurse', coin')
                    = Supply(t, vault', pools', purse', None)
  BY DEF InFlightConserved
<1> DEFINE into == IF TokenIn(h) = t THEN used ELSE 0
           from == IF TokenOut(h) = t THEN out ELSE 0
<1>10. SumOf(Holding(t, xpools'), Pool) = SumOf(Holding(t, xpools), Pool) + into - from
  BY <1>4, <1>5, <1>7, <1>8, TradedHolding
<1>11. Hand(t, xvault', xpurse', coin') = Hand(t, xvault, xpurse, coin) - into + from
  <2>1. InCoin(t, coin) = (IF TokenIn(h) = t THEN coin.value ELSE 0) /\ InCoin(t, coin') = from
    BY <1>3, <1>8, <1>9 DEF InCoin
  <2>2. xpurse'[t] = xpurse[t] + (IF TokenIn(h) = t THEN coin.value - used ELSE 0)
    BY <1>4, <1>7, <1>8, <1>9
  <2> QED
    BY <1>4, <1>7, <1>8, <2>1, <2>2 DEF Hand
<1>12. /\ Supply(t, xvault, xpools, xpurse, coin)
          = SumOf(Holding(t, xpools), Pool) + Hand(t, xvault, xpurse, coin)
       /\ SumOf(Holding(t, xpools), Pool) \in Int /\ Hand(t, xvault, xpurse, coin) \in Int
       /\ Supply(t, xvault', xpools', xpurse', coin')
          = SumOf(Holding(t, xpools'), Pool) + Hand(t, xvault', xpurse', coin')
  <2>1. coin \in Coin \union {None} /\ xvault' \in Nat
    BY <1>4, <1>8
  <2> QED
    BY <1>4, <2>1, SupplySplits
<1>13. Supply(t, xvault, xpools, xpurse, coin) = Supply(t, vault, pools, purse, None)
  BY <1>3 DEF InFlightConserved, Running
<1>14. into \in Int /\ from \in Int
  BY <1>7
<1> HIDE DEF into, from
<1>15. Supply(t, xvault', xpools', xpurse', coin') = Supply(t, xvault, xpools, xpurse, coin)
  BY <1>10, <1>11, <1>12, <1>14
<1> QED
  BY <1>8, <1>13, <1>15 DEF shared

\* The other calls only move coins between lender, purse and hand.
LEMMA CallsConserve ==
  ASSUME IsFiniteSet(Pool), IInv, IInv', InFlightConserved,
         Borrow \/ SplitInput \/ Begin \/ SettleAndReturn \/ Settle
         \/ RepayVault \/ RepayScallop \/ Deliver
  PROVE  InFlightConserved'
<1>1. stage \in Running /\ xpools' = xpools /\ UNCHANGED shared
  BY DEF Borrow, SplitInput, Begin, SettleAndReturn, Settle, RepayVault, RepayScallop, Deliver,
     Running, working
<1>2. /\ job \in Job /\ InBlock /\ xvault \in Nat /\ xpurse \in [Token -> Nat]
      /\ coin \in Coin \union {None} /\ Base \in Token /\ job.amount \in Nat
      /\ job.amount \in U64
  BY <1>1, RunningFacts, JobFacts, U64Nat, PtbAssumption DEF IInv, TypeOK
<1>3. coin # None => coin \in Coin /\ coin.token \in Token /\ coin.value \in Nat
  BY <1>2, U64Nat DEF Coin
<1>4. coin' # None => coin' \in Coin
  BY DEF IInv, TypeOK
<1> SUFFICES ASSUME NEW t \in Token
             PROVE  Hand(t, xvault', xpurse', coin') = Hand(t, xvault, xpurse, coin)
  BY <1>1, HandsConserve
<1>5. CASE Borrow
  <2>1. coin = None /\ coin' = [token |-> Base, value |-> job.amount] /\ coin' # None
        /\ xpurse' = xpurse /\ xvault' = xvault - job.amount
    BY <1>5, <1>2, NoneAssumption DEF Borrow, InBlock, IInv, LoanOut, Running
  <2> QED
    BY <1>2, <2>1 DEF Hand, InCoin
<1>6. CASE SplitInput
  <2>1. coin = None /\ coin' = [token |-> Base, value |-> job.amount] /\ coin' # None
        /\ xpurse' = [xpurse EXCEPT ![Base] = @ - job.amount] /\ xvault' = xvault
    BY <1>6, <1>2, NoneAssumption DEF SplitInput, InBlock, IInv, LoanOut, Running
  <2> QED
    BY <1>2, <2>1 DEF Hand, InCoin
<1>7. CASE Begin \/ SettleAndReturn
  BY <1>7 DEF Begin, SettleAndReturn, working, Hand
<1>8. CASE Settle \/ Deliver
  <2>1. coin # None /\ coin' = None /\ xvault' = xvault
        /\ xpurse' = [xpurse EXCEPT ![coin.token] = @ + coin.value]
    BY <1>8, <1>2 DEF Settle, Deliver, InBlock, LoanOut
  <2> QED
    BY <1>2, <1>3, <2>1 DEF Hand, InCoin
<1>9. ASSUME NEW due \in Nat, coin # None, coin.token = Base, coin' = [coin EXCEPT !.value = @ - due],
             coin' # None, xvault' = xvault + due, xpurse' = xpurse
      PROVE  Hand(t, xvault', xpurse', coin') = Hand(t, xvault, xpurse, coin)
  <2>1. coin' = [token |-> Base, value |-> coin.value - due]
    BY <1>3, <1>9 DEF Coin
  <2> QED
    BY <1>2, <1>3, <1>9, <2>1 DEF Hand, InCoin
<1>10. CASE RepayVault
  <2>1. loan.amount + loan.fee \in Nat
    <3>1. job.mode = "flash" /\ loan = [amount |-> job.amount, fee |-> FeeAmount(job.amount, job.lenderFee)]
      BY <1>2, <1>10 DEF RepayVault, InBlock, LoanOut, Borrowed
    <3>2. FeeAmount(job.amount, job.lenderFee) \in Nat
      BY <1>2, JobFacts, FeeAmountNat
    <3> QED
      BY <1>2, <3>1, <3>2
  <2>2. coin # None /\ coin.token = Base /\ coin' # None
    BY <1>1, <1>2, <1>10 DEF RepayVault, InBlock, LoanOut, IInv, Running
  <2> QED
    BY <1>9, <1>10, <2>1, <2>2 DEF RepayVault
<1>11. CASE RepayScallop
  <2>1. RepayTotal(job.amount) \in Nat
    <3>1. job.mode = "flash"
      BY <1>2, <1>11 DEF RepayScallop, InBlock
    <3> QED
      BY <1>2, <1>11, <3>1, ChargeNat DEF RepayScallop
  <2>2. coin # None /\ coin.token = Base /\ coin' # None
    BY <1>1, <1>2, <1>11 DEF RepayScallop, InBlock, LoanOut, IInv, Running
  <2> QED
    BY <1>9, <1>11, <2>1, <2>2 DEF RepayScallop
<1> QED
  BY <1>5, <1>6, <1>7, <1>8, <1>10, <1>11

\* No step of a block mints or burns: the calls one by one.
LEMMA NextConserves ==
  ASSUME IsFiniteSet(Pool)
  PROVE  IInv /\ InFlightConserved /\ [Next]_vars => InFlightConserved'
<1> SUFFICES ASSUME IInv, InFlightConserved, [Next]_vars PROVE InFlightConserved'
  OBVIOUS
<1>1. IInv'
  BY NextIInv
<1>2. CASE stage' \notin Running
  BY <1>2 DEF InFlightConserved
<1>3. CASE DryRun \/ Start
  <2>1. xvault' = vault' /\ xpools' = pools' /\ xpurse' = purse' /\ coin' = None
    BY <1>3 DEF DryRun, Start, IInv, Running, shared, working, potatoes
  <2> QED
    BY <2>1 DEF InFlightConserved
<1>4. CASE SwapStep
  BY <1>1, <1>4, SwapConserves
<1>5. CASE Borrow \/ SplitInput \/ Begin \/ SettleAndReturn \/ Settle
           \/ RepayVault \/ RepayScallop \/ Deliver
  BY <1>1, <1>5, CallsConserve
<1>6. CASE UNCHANGED vars
  BY <1>6 DEF vars, shared, working, potatoes, InFlightConserved
<1> QED
  BY <1>2, <1>3, <1>4, <1>5, <1>6
  DEF Next, Scan, Build, DryRunSkips, Discard, Block, DryRunClears, Commit, Abort, EndBlock,
      Rival, RivalSwap, LenderMoves, Running

-----------------------------------------------------------------------------
(* The reserve product *)

\* What math::get_amount_out pays for an input, multiplied out: the output times the
\* new reserve is at most the input times what it was taken from.
LEMMA OutputCovered ==
  ASSUME NEW in \in Nat, NEW rIn \in Nat, NEW rOut \in Nat, NEW bps \in 0 .. FeeDenom - 1,
         NEW out \in Nat, rIn > 0, out <= rOut, out = GetAmountOut(in, rIn, rOut, bps)
  PROVE  (rIn + in) * out <= in * rOut
<1> DEFINE D == FeeDenom
           w == WithFee(in, bps)
           n == w * rOut
           d == rIn * D + w
           e == in * bps
<1>1. D \in Nat \ {0} /\ bps \in Nat /\ D - bps \in Nat
  BY WidthAssumption
<1>2. w = in * (D - bps) /\ w \in Nat /\ e \in Nat
  BY <1>1 DEF WithFee
<1>3. in * D = w + e
  BY <1>1, <1>2
<1>4. out = n \div d
  BY DEF GetAmountOut, OutNumerator, OutDenominator
<1> HIDE DEF D, w, e
<1>5. rIn * D \in Nat \ {0}
  BY <1>1
<1>6. n \in Nat /\ d \in Nat \ {0}
  BY <1>2, <1>5
<1> HIDE DEF n, d
<1>7. d * out <= n
  BY <1>4, <1>6
<1>8. rIn * D * out + w * out <= w * rOut
  BY <1>1, <1>2, <1>7 DEF n, d
<1>9. e * out <= e * rOut
  <2>1. PICK k \in Nat : rOut = out + k
    <3>1. rOut - out \in Nat /\ rOut = out + (rOut - out)
      OBVIOUS
    <3> QED
      BY <3>1
  <2>2. e * rOut = e * out + e * k /\ e * k >= 0
    BY <1>2, <2>1
  <2> QED
    BY <1>2, <2>2
<1>10. (w + e) * out = w * out + e * out /\ (w + e) * rOut = w * rOut + e * rOut
  BY <1>2
<1>11. rIn * D * out + (w + e) * out <= (w + e) * rOut
  <2> DEFINE x == rIn * D * out
             y == w * out
             z == w * rOut
             u == e * out
             v == e * rOut
  <2>1. x \in Int /\ y \in Int /\ z \in Int /\ u \in Int /\ v \in Int
    BY <1>1, <1>2
  <2>2. x + y <= z /\ u <= v /\ (w + e) * out = y + u /\ (w + e) * rOut = z + v
    BY <1>8, <1>9, <1>10
  <2>3. x + (w + e) * out <= (w + e) * rOut
    <3> HIDE DEF x, y, z, u, v
    <3> QED
      BY <2>1, <2>2
  <2> QED
    BY <2>3
<1>12. /\ rIn * D * out + in * D * out = D * ((rIn + in) * out)
       /\ in * D * rOut = D * (in * rOut)
  BY <1>1
<1>13. D * ((rIn + in) * out) <= D * (in * rOut)
  BY <1>3, <1>11, <1>12
<1> DEFINE l == (rIn + in) * out
           r == in * rOut
<1>14. l \in Nat /\ r \in Nat /\ D * l <= D * r
  BY <1>13
<1> HIDE DEF l, r
<1>15. l <= r
  <2>1. SUFFICES ASSUME ~(l <= r) PROVE FALSE
    OBVIOUS
  <2>2. PICK k \in Nat : l = r + k /\ k > 0
    BY <1>14, <2>1
  <2>3. D * l = D * r + D * k /\ D * k > 0
    BY <1>1, <1>14, <2>2
  <2> QED
    BY <1>1, <1>14, <2>3
<1> QED
  BY <1>15 DEF l, r

\* A pool that pays no more than its formula keeps its product.
LEMMA ProductGrows ==
  ASSUME NEW in \in Nat, NEW rIn \in Nat, NEW rOut \in Nat, NEW out \in Nat,
         (rIn + in) * out <= in * rOut
  PROVE  (rIn + in) * (rOut - out) >= rIn * rOut
<1>1. (rIn + in) * (rOut - out) = rIn * rOut + in * rOut - (rIn + in) * out
  OBVIOUS
<1> QED
  BY <1>1

Product(r, p) == r[p].a * r[p].b

\* A trade on an AmmV2 pool does not lower its product, nor touch the others.
LEMMA TradedProduct ==
  ASSUME NEW r \in [Pool -> Reserves], NEW h \in Hop, NEW in \in Nat,
         NEW used \in Nat, NEW out \in Nat, Outcome(r, h, in, used, out),
         NEW p \in Pool, Dex[p] = "AmmV2"
  PROVE  Product(Traded(r, h, used, out), p) >= Product(r, p)
<1>1. r[p].a \in Nat /\ r[p].b \in Nat /\ h.aToB \in BOOLEAN /\ h.pool \in Pool
  BY U64Nat DEF Reserves, Hop
<1>2. CASE p # h.pool
  <2>1. Traded(r, h, used, out)[p] = r[p]
    BY <1>2 DEF Traded
  <2> QED
    BY <1>1, <2>1 DEF Product
<1>3. CASE p = h.pool
  <2> DEFINE rIn == ReserveIn(r, h)
             rOut == ReserveOut(r, h)
  <2>1. /\ CanQuoteOut(in, rIn, rOut, PoolFeeBps[p]) /\ used = in /\ out <= rOut
        /\ out = GetAmountOut(in, rIn, rOut, PoolFeeBps[p])
    BY <1>3 DEF Outcome
  <2>2. rIn \in Nat /\ rOut \in Nat /\ PoolFeeBps[p] \in 0 .. FeeDenom - 1
    BY <1>1, <1>3, PtbAssumption DEF ReserveIn, ReserveOut
  <2>3. rIn > 0
    BY <2>1 DEF CanQuoteOut
  <2> HIDE DEF rIn, rOut
  <2>4. (rIn + in) * out <= in * rOut
    BY <2>1, <2>2, <2>3, OutputCovered
  <2>5. (rIn + in) * (rOut - out) >= rIn * rOut
    BY <2>2, <2>4, ProductGrows
  <2>6. CASE h.aToB = TRUE
    <3>1. Traded(r, h, used, out)[p] = [a |-> r[p].a + in, b |-> r[p].b - out]
      BY <1>1, <1>3, <2>1, <2>6 DEF Traded
    <3>2. rIn = r[p].a /\ rOut = r[p].b
      BY <1>3, <2>6 DEF rIn, rOut, ReserveIn, ReserveOut
    <3> QED
      BY <2>5, <3>1, <3>2 DEF Product
  <2>7. CASE h.aToB = FALSE
    <3>1. Traded(r, h, used, out)[p] = [a |-> r[p].a - out, b |-> r[p].b + in]
      BY <1>1, <1>3, <2>1, <2>7 DEF Traded
    <3>2. rIn = r[p].b /\ rOut = r[p].a
      BY <1>3, <2>7 DEF rIn, rOut, ReserveIn, ReserveOut
    <3>3. (rOut - out) * (rIn + in) >= rOut * rIn
      <4>1. /\ (rOut - out) * (rIn + in) = (rIn + in) * (rOut - out)
            /\ rOut * rIn = rIn * rOut
        BY <2>2
      <4> QED
        BY <2>5, <4>1
    <3> QED
      BY <3>1, <3>2, <3>3 DEF Product
  <2> QED
    BY <1>1, <2>6, <2>7
<1> QED
  BY <1>2, <1>3

\* A block's copies of the AmmV2 pools have not lost product.
ProductKept ==
  \A p \in Pool : Dex[p] = "AmmV2" => Product(xpools, p) >= Product(pools, p)

\* No step lowers the product of a pool, in a block or for good.
LEMMA NextProduct ==
  ASSUME IInv, ProductKept, [Next]_vars
  PROVE  /\ ProductKept'
         /\ \A p \in Pool : Dex[p] = "AmmV2" => Product(pools', p) >= Product(pools, p)
<1>1. /\ pools \in [Pool -> Reserves] /\ xpools \in [Pool -> Reserves]
      /\ pools' \in [Pool -> Reserves] /\ xpools' \in [Pool -> Reserves]
  BY NextIInv DEF IInv, TypeOK
<1>2. ASSUME NEW r \in [Pool -> Reserves] PROVE \A p \in Pool : Product(r, p) \in Nat
  <2>1. \A p \in Pool : r[p].a \in Nat /\ r[p].b \in Nat
    BY U64Nat DEF Reserves
  <2> QED
    BY <2>1 DEF Product
<1>3. CASE UNCHANGED <<pools, xpools>>
  BY <1>1, <1>2, <1>3 DEF ProductKept
<1>4. CASE pools' = xpools' /\ pools' \in {pools, xpools}
  BY <1>1, <1>2, <1>4 DEF ProductKept
<1>5. ASSUME SwapStep
      PROVE  pools' = pools /\ \A p \in Pool : Dex[p] = "AmmV2" =>
                                 Product(xpools', p) >= Product(xpools, p)
  <2>1. PICK used \in 0 .. coin.value : \E out \in 0 .. ReserveOut(xpools, job.route[hop]) :
               Swap(used, out)
    BY <1>5 DEF SwapStep
  <2>2. PICK out \in 0 .. ReserveOut(xpools, job.route[hop]) : Swap(used, out)
    BY <2>1
  <2> DEFINE h == job.route[hop]
  <2>3. stage = "swap" /\ job \in Job /\ coin # None
    BY <1>5, RunningFacts DEF SwapStep, Running, InBlock, LoanOut
  <2>4. coin.value \in Nat
    BY <2>3, U64Nat DEF IInv, TypeOK, Coin
  <2>5. h \in Hop
    <3>1. job.route \in Seq(Hop) /\ Len(job.route) \in Nat
      BY <2>3, JobFacts
    <3>2. hop \in 1 .. Len(job.route)
      BY <2>2, <3>1 DEF Swap, IInv, TypeOK
    <3> QED
      BY <3>1, <3>2, ElementOfSeq
  <2>6. ReserveOut(xpools, h) \in Nat
    BY <1>1, <2>5, U64Nat DEF ReserveOut, Hop, Reserves
  <2> HIDE DEF h
  <2>7. used \in Nat /\ out \in Nat
    BY <2>1, <2>2, <2>4, <2>6 DEF h
  <2>8. Outcome(xpools, h, coin.value, used, out) /\ xpools' = Traded(xpools, h, used, out)
        /\ pools' = pools
    BY <2>2 DEF Swap, h, shared
  <2> QED
    BY <1>1, <2>4, <2>5, <2>7, <2>8, TradedProduct
<1>6. ASSUME NEW h \in Hop, NEW in \in RivalAmount, NEW used \in 0 .. in,
             NEW out \in 0 .. ReserveOut(pools, h), RivalSwap(h, in, used, out)
      PROVE  xpools' = pools' /\ \A p \in Pool : Dex[p] = "AmmV2" =>
                                   Product(pools', p) >= Product(pools, p)
  <2>1. in \in Nat /\ used \in Nat
    BY PtbAssumption, U64Nat
  <2>2. ReserveOut(pools, h) \in Nat
    BY <1>1, U64Nat DEF ReserveOut, Hop, Reserves
  <2>3. out \in Nat
    BY <2>2
  <2> QED
    BY <1>1, <1>6, <2>1, <2>3, TradedProduct DEF RivalSwap
<1>7. CASE SwapStep
  BY <1>1, <1>2, <1>5, <1>7 DEF ProductKept
<1>8. CASE Rival
  BY <1>1, <1>2, <1>3, <1>6, <1>8 DEF Rival, LenderMoves, ProductKept
<1> QED
  BY <1>3, <1>4, <1>7, <1>8
  DEF Next, vars, Scan, Build, DryRun, DryRunSkips, Start, Discard, Block, Borrow, SplitInput,
      Begin, SettleAndReturn, Settle, RepayVault, RepayScallop, Deliver, DryRunClears, Commit,
      Abort, EndBlock, shared, working

-----------------------------------------------------------------------------
(* The theorems *)

\* Type correctness: no balance of the sender, the lender or a pool ever leaves
\* its range (gas and the split input are covered, every u64 stays in u64).
THEOREM TypeCorrect == Spec => []TypeOK
<1>1. IInv => TypeOK
  BY DEF IInv
<1> QED
  BY <1>1, Inductive, PTL

\* Once executor::settle_and_return has passed a floor that includes the fee, the
\* repayment the builder placed after it has the coins it needs.
THEOREM FloorRepays == Spec => []FloorWithFeeRepays
<1>1. IInv => FloorWithFeeRepays
  <2> SUFFICES ASSUME IInv, stage = "repay", job.minProfit >= Charge(job)
               PROVE  coin.value >= job.amount + Charge(job)
    BY DEF FloorWithFeeRepays
  <2>1. job \in Job /\ coin # None /\ coin.value >= job.amount + job.minProfit
    BY RunningFacts DEF Running, InBlock, LoanOut
  <2>2. /\ coin.value \in Nat /\ job.amount \in Nat /\ job.minProfit \in Nat
        /\ Charge(job) \in Nat
    BY <2>1, JobFacts, ChargeNat, U64Nat DEF IInv, TypeOK, Coin
  <2> QED
    BY <2>1, <2>2
<1> QED
  BY <1>1, Inductive, PTL

\* A block neither mints nor burns: at each of its calls, pools, lender, sender and the
\* coin in flight hold together what was there before it (flash, amm_v2, the adapters,
\* settle), for any finite set of pools, any route and any mix of venues.
THEOREM BlockConserves ==
  ASSUME IsFiniteSet(Pool)
  PROVE  Spec => []InFlightConserved
<1>1. Init => InFlightConserved
  BY DEF Init, InFlightConserved, Running
<1>2. IInv /\ InFlightConserved /\ [Next]_vars => InFlightConserved'
  BY NextConserves
<1> QED
  BY <1>1, <1>2, Inductive, PTL DEF Spec

\* No committed trade lowers an AmmV2 pool's reserve product, for any reserves, fee and
\* amount (math::get_amount_out rounds the output down and charges the fee on the input).
THEOREM ProductsGrow == Spec => ProductNeverFalls
<1>1. Init => ProductKept
  <2> SUFFICES ASSUME Init, NEW p \in Pool PROVE Product(xpools, p) >= Product(pools, p)
    BY DEF ProductKept
  <2>1. Product(pools, p) \in Nat /\ xpools = pools
    <3>1. xpools = pools /\ pools \in [Pool -> Reserves]
      BY InitIInv DEF IInv, TypeOK, Init
    <3>2. pools[p].a \in Nat /\ pools[p].b \in Nat
      BY <3>1, U64Nat DEF Reserves
    <3> QED
      BY <3>1, <3>2 DEF Product
  <2> QED
    BY <2>1
<1>2. IInv /\ ProductKept /\ [Next]_vars =>
        /\ ProductKept'
        /\ [\A p \in Pool : Dex[p] = "AmmV2" =>
              pools'[p].a * pools'[p].b >= pools[p].a * pools[p].b]_pools
  BY NextProduct DEF Product
<1> QED
  BY <1>1, <1>2, Inductive, PTL DEF Spec, ProductNeverFalls

-----------------------------------------------------------------------------
(* The block implements AtomicArb *)

\* The refinement mapping of ArbPtb!Atomic, named.
OrderOf == IF job = None THEN None
           ELSE [minProfit |-> job.minProfit, charge |-> Charge(job),
                 due |-> Due(job)]

\* What a job says of its floor and of what its loan costs is an order.
LEMMA OrderFacts ==
  ASSUME NEW j \in Job
  PROVE  /\ j # None
         /\ [minProfit |-> j.minProfit, charge |-> Charge(j), due |-> Due(j)] \in Atomic!Order
         /\ [minProfit |-> j.minProfit, charge |-> Charge(j), due |-> Due(j)] # None
<1>1. j.minProfit \in Nat /\ Charge(j) \in Nat /\ Due(j) \in Nat
  BY JobFacts, ChargeNat
<1> QED
  BY <1>1, NoneAssumption DEF Atomic!Order

\* Calls of the block, dry runs and rivals' trades are invisible to the order.
LEMMA Stutters ==
  ASSUME UNCHANGED <<vault, purse, job>>
  PROVE  UNCHANGED Atomic!vars
  BY DEF Atomic!vars, Charge, Due, RepayTotal

\* Building a job is submitting its order.
LEMMA ScanSubmits ==
  ASSUME IInv, Scan
  PROVE  Atomic!Submit
<1>1. /\ stage = "idle" /\ job = None
      /\ stage' = "built" /\ UNCHANGED <<vault, purse>>
  BY DEF Scan, Build, IInv, shared
<1>2. job' \in Job /\ job' # None
  BY <1>1, ScanIInv, NoneAssumption DEF IInv, TypeOK
<1>3. OrderOf = None /\ OrderOf' \in Atomic!Order
  BY <1>1, <1>2, OrderFacts DEF OrderOf
<1> QED
  BY <1>1, <1>3 DEF Atomic!Submit, OrderOf

\* An order that goes away without a commit burned at most gas.
LEMMA DropFails ==
  ASSUME IInv, job # None, job' = None, vault' = vault,
         \/ purse' = purse
         \/ \E gas \in GasUsed : purse' = Burn(purse, gas) /\ purse[Sui] >= GasBudget
  PROVE  Atomic!Fail
<1>1. OrderOf # None /\ OrderOf' = None
  BY OrderFacts DEF OrderOf, IInv, TypeOK
<1>2. purse \in [Token -> Nat] /\ Sui \in Token /\ GasBudget \in Nat
  BY PtbAssumption DEF IInv, TypeOK
<1> DEFINE OnlyGasLeaves ==
             /\ DOMAIN purse' = Token
             /\ \A t \in Token : purse'[t] = purse[t] \/ t = Sui
             /\ purse'[Sui] <= purse[Sui] /\ purse'[Sui] >= purse[Sui] - GasBudget
<1>3. CASE purse' = purse
  BY <1>1, <1>2, <1>3 DEF Atomic!Fail, OrderOf
<1>4. ASSUME NEW gas \in GasUsed, purse' = Burn(purse, gas), purse[Sui] >= GasBudget
      PROVE  OnlyGasLeaves
  <2>1. gas \in Nat /\ gas <= GasBudget
    BY PtbAssumption
  <2> QED
    BY <1>2, <1>4, <2>1, BurnNat
<1> QED
  BY <1>1, <1>3, <1>4 DEF Atomic!Fail, OrderOf

\* A commit settles the order on its terms.
LEMMA CommitExecutes ==
  ASSUME IInv, NEW gas \in GasUsed, Commit(gas)
  PROVE  Atomic!Execute
<1>1. /\ stage = "done" /\ job' = None
      /\ vault' = xvault /\ purse' = Burn(xpurse, gas)
  BY DEF Commit, EndBlock
<1>2. job \in Job /\ InBlock /\ purse[Sui] >= GasBudget
  BY <1>1, RunningFacts DEF Running
<1>3. /\ xvault = vault + Charge(job) /\ Charge(job) >= Due(job)
      /\ \A t \in Token : xpurse[t] >= purse[t]
      /\ xpurse[Base] >= purse[Base] + job.minProfit - Charge(job)
  BY <1>1, <1>2 DEF InBlock
<1>4. /\ xpurse \in [Token -> Nat] /\ purse \in [Token -> Nat]
      /\ Sui \in Token /\ Base \in Token
      /\ GasBudget \in Nat /\ gas \in Nat /\ gas <= GasBudget
      /\ job.minProfit \in Nat /\ Charge(job) \in Nat
  BY <1>2, JobFacts, ChargeNat, PtbAssumption DEF IInv, TypeOK
<1>5. xpurse[Sui] >= GasBudget
  <2>1. xpurse[Sui] >= purse[Sui]
    BY <1>3, <1>4
  <2> QED
    BY <1>2, <1>4, <2>1
<1>6. /\ purse' \in [Token -> Nat]
      /\ \A t \in Token : purse'[t] = xpurse[t] - (IF t = Sui THEN gas ELSE 0)
  BY <1>1, <1>4, <1>5, BurnNat
<1>7. OrderOf # None /\ OrderOf' = None /\ OrderOf.charge = Charge(job)
      /\ OrderOf.minProfit = job.minProfit /\ OrderOf.due = Due(job)
  BY <1>1, <1>2, OrderFacts DEF OrderOf
<1>8. ASSUME NEW t \in Token
      PROVE  purse'[t] >= purse[t]
                          + (IF t = Base THEN job.minProfit - Charge(job) ELSE 0)
                          - (IF t = Sui THEN GasBudget ELSE 0)
  BY <1>3, <1>4, <1>6
<1>9. vault' = vault + OrderOf.charge /\ OrderOf.charge >= OrderOf.due
  BY <1>1, <1>3, <1>7
<1>10. DOMAIN purse' = Token
  BY <1>6
<1>11. ASSUME NEW t \in Token
       PROVE  purse'[t] >= purse[t] + Atomic!Floor(OrderOf, t)
  BY <1>4, <1>6, <1>7, <1>8 DEF Atomic!Floor
<1> QED
  BY <1>7, <1>9, <1>10, <1>11 DEF Atomic!Execute, OrderOf

\* Every step of the block is a step of the order, or none.
LEMMA NextImplements ==
  ASSUME IInv, [Next]_vars
  PROVE  [Atomic!Next]_(Atomic!vars)
<1>1. CASE Scan
  BY <1>1, ScanSubmits DEF Atomic!Next
<1>2. CASE DryRun \/ Start \/ Block
  BY <1>2, Stutters DEF DryRun, Start, Block, Borrow, SplitInput, Begin, SwapStep, Swap,
     SettleAndReturn, Settle, RepayVault, RepayScallop, Deliver, shared
<1>3. CASE DryRunSkips \/ Discard
  <2>1. job # None /\ job' = None /\ vault' = vault /\ purse' = purse
    BY <1>3 DEF DryRunSkips, Discard, EndBlock, IInv, Running, shared
  <2> QED
    BY <2>1, DropFails DEF Atomic!Next
<1>4. ASSUME NEW gas \in GasUsed, DryRunClears(gas) \/ Commit(gas) \/ Abort(gas)
      PROVE  [Atomic!Next]_(Atomic!vars)
  <2>1. CASE DryRunClears(gas)
    BY <2>1, Stutters DEF DryRunClears, EndBlock
  <2>2. CASE Commit(gas)
    BY <2>2, CommitExecutes DEF Atomic!Next
  <2>3. CASE Abort(gas)
    <3>1. /\ job # None /\ job' = None /\ vault' = vault
          /\ purse' = Burn(purse, gas) /\ purse[Sui] >= GasBudget
      BY <2>3, RunningFacts DEF Abort, EndBlock, IInv
    <3> QED
      BY <3>1, DropFails DEF Atomic!Next
  <2> QED
    BY <1>4, <2>1, <2>2, <2>3
<1>5. CASE Rival
  <2>1. CASE UNCHANGED <<vault, purse, job>>
    BY <2>1, Stutters
  <2>2. ASSUME NEW v \in Vaults, LenderMoves(v)
        PROVE  Atomic!Others
    <3>1. /\ UNCHANGED <<purse, job>> /\ vault' = v
          /\ FlashStyle = "MockVault" => v >= vault
      BY <2>2 DEF LenderMoves
    <3>2. OrderOf' = OrderOf
      BY <3>1 DEF OrderOf, Charge, Due, RepayTotal
    <3> QED
      BY <3>1, <3>2 DEF Atomic!Others, OrderOf
  <2> QED
    BY <1>5, <2>1, <2>2 DEF Rival, RivalSwap, Atomic!Next
<1>6. CASE UNCHANGED vars
  BY <1>6, Stutters DEF vars, shared
<1> QED
  BY <1>1, <1>2, <1>3, <1>4, <1>5, <1>6 DEF Next

\* The transaction the bot builds, call by call and under any interleaving with
\* rivals, is an all-or-nothing order: it executes with the lender made whole, its
\* own fee included whatever the bot was configured to expect, and the sender at or above the floor, or it costs gas and nothing else.
THEOREM Implements == Spec => ImplementsAtomicArb
<1>1. Init => Atomic!Init
  <2>1. ASSUME Init PROVE vault \in Nat /\ purse \in [Token -> Nat] /\ job = None
    BY <2>1, InitIInv, U64Nat DEF IInv, TypeOK, Init
  <2> QED
    BY <2>1 DEF Atomic!Init
<1>2. IInv /\ [Next]_vars => [Atomic!Next]_(Atomic!vars)
  BY NextImplements
<1> QED
  BY <1>1, <1>2, Inductive, PTL DEF Spec, ImplementsAtomicArb, Atomic!Spec

=============================================================================
