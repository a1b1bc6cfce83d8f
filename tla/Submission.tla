----------------------------- MODULE Submission -----------------------------
(***************************************************************************)
(* The main loop's execution path and its risk guard (executor.rs,         *)
(* risk.rs, main.rs): one candidate at a time is dry-run (in owned mode, a *)
(* ladder of sizes until one clears), passed by the guard, signed, checked *)
(* for age and sent.  A sent transaction lands on chain, answered or not,  *)
(* and the guard learns the result only from the answer; an RPC error      *)
(* leaves it in the air, and a restart forgets the day's losses.           *)
(***************************************************************************)
EXTENDS Integers, Sequences, FiniteSetsExt

CONSTANTS
  Modes,          \* config.execution_mode: {TRUE} is owned, {FALSE} flash, or either
  Sizes,          \* config.owned_sizes, or the one size the scanner chose
  Limits,         \* what balance - gas_budget, max_wallet_capital may cap a size at
  Quotes,         \* expected nets a route may be quoted at: functions on Sizes
  DryNets,        \* nets a dry run may show
  Results,        \* what a landed transaction may have earned: [base, gas]
  BaseIsSui,      \* config.base_token is the gas token
  MinProfit,      \* effective_min_profit_mist
  MaxDailyLoss,   \* config.max_daily_loss_usd; 0 disables
  KillSwitch, SubmitEnabled,
  MaxQuoteAge,    \* config.max_quote_age_ms
  GasBudget,      \* config.gas_budget
  Coin, Balances, \* the sender's SUI coins (in the order they are listed), what one may hold
  MaxSent, MaxRestarts,   \* bounds
  None

ASSUME SubmissionAssumption ==
  /\ Modes \subseteq BOOLEAN
  /\ {BaseIsSui, KillSwitch, SubmitEnabled} \subseteq BOOLEAN
  /\ Sizes \subseteq Nat /\ Limits \subseteq Nat
  /\ Quotes \subseteq [Sizes -> Int] /\ DryNets \subseteq Int
  /\ Coin \subseteq Nat /\ Balances \subseteq Nat /\ GasBudget \in Nat
  /\ Results \subseteq [base : Int, gas : Nat]
  /\ MinProfit \in Nat /\ MaxDailyLoss \in Nat /\ MaxQuoteAge \in Nat
  /\ MaxSent \in Nat /\ MaxRestarts \in Nat

VARIABLES
  owned,      \* the execution mode, fixed at the start
  stage,      \* "idle" | "dryrun" | "gate" | "sign" | "send" | "await"
  expected,   \* the quotes of this candidate
  left,       \* sizes still to dry-run
  order,      \* the vetted transaction, or None
  age,        \* of the dry run it rests on
  listedPool, \* TRUE when the route crosses a blacklisted pool
  realized,   \* RiskGuard::realized_usd
  wallet,     \* the sender's SUI coins on chain
  sent,       \* every transaction sent: what it rested on, and what became of it
  restarts

bot == <<stage, expected, left, order, age, listedPool>>
vars == <<bot, owned, realized, wallet, sent, restarts>>

Stage == {"idle", "dryrun", "gate", "sign", "send", "await"}
CoinState == [version : Nat, balance : Balances]
Order == [size : Sizes, net : DryNets,
          coins : UNION {[cs -> 0 .. MaxSent] : cs \in SUBSET Coin}]
Sent == [order : Order, age : Nat, pnl : Int, clean : BOOLEAN,
         status : {"flying", "landed"}, earned : Int, told : BOOLEAN]

ASSUME NoneAssumption == None \notin Order

TypeOK ==
  /\ owned \in Modes /\ stage \in Stage /\ expected \in Quotes \union {None}
  /\ left \subseteq Sizes /\ order \in Order \union {None}
  /\ (stage \in {"gate", "sign", "send", "await"}) = (order # None)
  /\ age \in 0 .. MaxQuoteAge + 1 /\ listedPool \in BOOLEAN
  /\ realized \in Int /\ wallet \in [Coin -> CoinState]
  /\ sent \in Seq(Sent) /\ restarts \in 0 .. MaxRestarts

-----------------------------------------------------------------------------
Init ==
  /\ owned \in Modes
  /\ stage = "idle" /\ expected = None /\ left = {} /\ order = None /\ age = 0
  /\ listedPool = FALSE
  /\ realized = 0 /\ wallet \in [Coin -> [version : {0}, balance : Balances]]
  /\ sent = <<>> /\ restarts = 0

\* Mutant: the vetted transaction survives the attempt.
BackToIdleKeepsOrder ==
  /\ stage' = "idle" /\ left' = {} /\ age' = 0
  /\ UNCHANGED <<expected, order, listedPool>>

BackToIdle ==
  /\ stage' = "idle" /\ order' = None /\ left' = {} /\ age' = 0
  /\ UNCHANGED <<expected, listedPool>>

\* A tick with a candidate.  Owned mode re-quotes every size within the wallet's
\* cap and keeps the profitable ones; flash mode has the size the scanner chose.
Candidate(quote, limit, listed) ==
  /\ stage = "idle" /\ Len(sent) < MaxSent
  /\ expected' = quote
  /\ IF owned THEN left' = {s \in Sizes : s <= limit /\ quote[s] > 0}
              ELSE \E s \in Sizes : left' = {s}
  /\ left' # {}
  /\ listedPool' = listed /\ stage' = "dryrun"
  /\ UNCHANGED <<order, age, realized, wallet, sent, owned, restarts>>

\* The next size is the one of the best expected net.
NextSize(s) == s \in left /\ \A t \in left : expected[t] <= expected[s]

GiveUpSize(s) ==
  /\ left' = left \ {s}
  /\ stage' = IF left' = {} THEN "idle" ELSE "dryrun"
  /\ UNCHANGED <<order, age>>

\* pick_gas_coin: the last of the largest.  pick_gas_coins_covering: the largest
\* first, until they cover the input and the gas.
Before(c, d) ==
  \/ wallet[c].balance > wallet[d].balance
  \/ wallet[c].balance = wallet[d].balance /\ (IF owned THEN c < d ELSE c > d)

Prefix(c) == {d \in Coin : d = c \/ Before(d, c)}
Worth(cs) == MapThenSumSet(LAMBDA c : wallet[c].balance, cs)

\* Mutant: any coin that covers the budget.
GasCoinsAny(cs, s) == \E c \in Coin : cs = {c} /\ wallet[c].balance >= GasBudget

GasCoins(cs, s) ==
  /\ \E c \in Coin : /\ cs = Prefix(c)
                     /\ IF owned THEN Worth(cs \ {c}) < s + GasBudget
                                     ELSE cs = {c}
  /\ owned => Worth(cs) >= s + GasBudget

\* dry_run of the block for size s, paid with coins as they are now: it clears the
\* floor, or it falls short, reverts or finds no coins to pay with (None).
DryRun(s, net) ==
  /\ stage = "dryrun" /\ NextSize(s)
  /\ IF net # None /\ net >= MinProfit
     THEN /\ \E cs \in SUBSET Coin :
               /\ GasCoins(cs, s)
               /\ order' = [size |-> s, net |-> net,
                            coins |-> [c \in cs |-> wallet[c].version]]
          /\ stage' = "gate" /\ left' = left \ {s} /\ age' = 0
     ELSE GiveUpSize(s)
  /\ UNCHANGED <<expected, listedPool, realized, wallet, sent, owned, restarts>>

\* RiskGuard::should_submit, hard halts first.
ShouldSubmit ==
  /\ ~KillSwitch
  /\ ~(MaxDailyLoss > 0 /\ realized <= -MaxDailyLoss)
  /\ ~listedPool
  /\ order.net > 0

RiskGate ==
  /\ stage = "gate"
  /\ IF ShouldSubmit /\ SubmitEnabled
     THEN stage' = "sign" /\ UNCHANGED <<expected, left, order, age, listedPool>>
     ELSE BackToIdle
  /\ UNCHANGED <<realized, wallet, sent, owned, restarts>>

\* The keystore is slow, or the scheduler is.
Elapse ==
  /\ stage = "sign" /\ age <= MaxQuoteAge
  /\ age' = age + 1
  /\ UNCHANGED <<stage, expected, left, order, listedPool, realized, wallet, sent, owned, restarts>>

Sign ==
  /\ stage = "sign"
  /\ stage' = "send"
  /\ UNCHANGED <<expected, left, order, age, listedPool, realized, wallet, sent, owned, restarts>>

\* Mutant: the quote's age not looked at again after signing.
SendWhateverTheAge ==
  /\ stage = "send" /\ stage' = "await"
  /\ sent' = Append(sent, [order |-> order, age |-> age, pnl |-> realized,
                           clean |-> ~listedPool, status |-> "flying",
                           earned |-> 0, told |-> FALSE])
  /\ UNCHANGED <<expected, left, order, age, listedPool, realized, wallet, owned, restarts>>

\* Mutant: what has become too old is signed again instead of dropped.
SendOrSignAgain ==
  /\ stage = "send"
  /\ IF age > MaxQuoteAge
     THEN /\ stage' = "sign" /\ age' = 0
          /\ UNCHANGED <<expected, left, order, listedPool, sent>>
     ELSE /\ stage' = "await"
          /\ sent' = Append(sent, [order |-> order, age |-> age, pnl |-> realized,
                                   clean |-> ~listedPool, status |-> "flying",
                                   earned |-> 0, told |-> FALSE])
          /\ UNCHANGED <<expected, left, order, age, listedPool>>
  /\ UNCHANGED <<realized, wallet, owned, restarts>>

\* The quote's age is looked at after signing, right before the RPC.
Send ==
  /\ stage = "send"
  /\ IF age > MaxQuoteAge
     THEN BackToIdle /\ UNCHANGED sent
     ELSE /\ stage' = "await"
          /\ sent' = Append(sent, [order |-> order, age |-> age, pnl |-> realized,
                                   clean |-> ~listedPool, status |-> "flying",
                                   earned |-> 0, told |-> FALSE])
          /\ UNCHANGED <<expected, left, order, age, listedPool>>
  /\ UNCHANGED <<realized, wallet, owned, restarts>>

\* Sui executes a transaction whose gas coins are still at the versions it names.
Landable(i) ==
  /\ sent[i].status = "flying"
  /\ \A c \in DOMAIN sent[i].order.coins : sent[i].order.coins[c] = wallet[c].version

\* It smashes its gas coins into one and may leave the proceeds in a coin of their
\* own (one that was empty); what they hold then is left open.
Land(i, r, after) ==
  /\ Landable(i)
  /\ sent' = [sent EXCEPT ![i].status = "landed", ![i].earned = r.base - r.gas]
  /\ LET used == DOMAIN sent[i].order.coins IN
     /\ \A c \in Coin \ used : after[c] = wallet[c].balance \/ wallet[c].balance = 0
     /\ wallet' = [c \in Coin |-> [version |-> wallet[c].version + (IF c \in used THEN 1 ELSE 0),
                                  balance |-> after[c]]]
  /\ UNCHANGED <<bot, owned, realized, restarts>>

\* Mutant: a loss recorded as 0.
AnswerGainsOnly(r) ==
  LET i == Len(sent) IN
  /\ stage = "await" /\ sent[i].status = "landed"
  /\ sent[i].earned = r.base - r.gas
  /\ realized' = realized + (IF r.base > r.gas THEN r.base - r.gas ELSE 0)
  /\ sent' = [sent EXCEPT ![i].told = TRUE]
  /\ BackToIdle
  /\ UNCHANGED <<wallet, owned, restarts>>

\* The answer: record_submit and record_realized with the balance change of the base
\* coin, or with 0 when the response carries no balance changes.
Answer(r) ==
  LET i == Len(sent) IN
  /\ stage = "await" /\ sent[i].status = "landed"
  /\ sent[i].earned = r.base - r.gas
  /\ \/ /\ realized' = realized + r.base - (IF BaseIsSui THEN r.gas ELSE 0)
        /\ sent' = [sent EXCEPT ![i].told = TRUE]
     \/ UNCHANGED <<realized, sent>>
  /\ BackToIdle
  /\ UNCHANGED <<wallet, owned, restarts>>

\* Any RPC of the path errors: `?` leaves try_execute, the main loop logs it.  What
\* was sent stays sent.
RpcError ==
  /\ stage \in {"dryrun", "sign", "await"}
  /\ BackToIdle
  /\ UNCHANGED <<realized, wallet, sent, owned, restarts>>

\* The process is restarted: RiskGuard::new.
Restart ==
  /\ restarts < MaxRestarts /\ restarts' = restarts + 1
  /\ BackToIdle
  /\ realized' = 0
  /\ UNCHANGED <<wallet, sent, owned>>

Attempt ==
  \/ \E s \in Sizes, net \in DryNets \union {None} : DryRun(s, net)
  \/ RiskGate \/ Sign \/ Send \/ RpcError
  \/ \E r \in Results : Answer(r)

Next ==
  \/ \E quote \in Quotes, limit \in Limits, listed \in BOOLEAN :
       Candidate(quote, limit, listed)
  \/ Attempt \/ Elapse \/ Restart
  \/ \E i \in 1 .. Len(sent), r \in Results, after \in [Coin -> Balances] : Land(i, r, after)

\* The loop's task runs, and every RPC it awaits returns or errors.
Spec == Init /\ [][Next]_vars /\ WF_vars(Attempt)

-----------------------------------------------------------------------------
(* Properties *)

Landed == {i \in 1 .. Len(sent) : sent[i].status = "landed"}
Earned(is) == MapThenSumSet(LAMBDA i : sent[i].earned, is)
MaxLoss == Max({r.gas - r.base : r \in Results} \union {0})

\* Everything that was sent had, at the moment of sending, a dry run that cleared
\* the floor and was young enough, a guard that had not seen the cap reached, and
\* no blacklisted pool on its route.
SentIsVetted ==
  \A i \in 1 .. Len(sent) : LET x == sent[i] IN
    /\ x.order.net >= MinProfit /\ x.order.net > 0
    /\ x.age <= MaxQuoteAge
    /\ MaxDailyLoss > 0 => x.pnl > -MaxDailyLoss
    /\ x.clean /\ ~KillSwitch /\ SubmitEnabled

\* As long as the guard has been told of everything that landed, the day's loss
\* exceeds the cap by less than one transaction's worst result: sends do not overlap.
OvershootBounded ==
  /\ MaxDailyLoss > 0 /\ restarts = 0
  /\ \A i \in Landed : sent[i].told \/ (stage = "await" /\ i = Len(sent))
  => Earned(Landed) > -(MaxDailyLoss + MaxLoss)

\* A retry never doubles the order it replaces: once a transaction has landed, no
\* transaction sent before it, abandoned on an RPC error, can still land (every order
\* pays with the largest coin).
NoLateTwin ==
  \A i, j \in 1 .. Len(sent) :
    i < j /\ sent[j].status = "landed" => ~Landable(i)

\* No attempt blocks the loop for good.
AttemptsEnd == []<>(stage = "idle")

\* risk.rs: submitting halts once the day's cumulative realized result is below the cap.
HaltsAtDailyLoss ==
  [][Len(sent') > Len(sent) => MaxDailyLoss = 0 \/ Earned(Landed) >= -MaxDailyLoss]_vars
=============================================================================
