----------------------------- MODULE AtomicArb ------------------------------
(***************************************************************************)
(* What the bot's users rely on, with no Move call in sight: an order that *)
(* reached the chain either executes in one step, on its own terms, or has *)
(* no effect beyond the gas it burned.                                     *)
(*                                                                         *)
(* docs/ARCHITECTURE.md, "The one on-chain invariant": end with more of    *)
(* the base token than you started with, by at least min_profit.           *)
(***************************************************************************)
EXTENDS Integers

CONSTANTS
  Token,         \* coin types
  Base,          \* the token profit is counted in (config.base_token)
  Sui,           \* the token gas is paid in
  GasBudget,     \* most gas one transaction can burn
  VaultIsOurs,   \* TRUE when the lender is the package's own flash vault
  NoOrder        \* "nothing submitted"

VARIABLES
  vault,   \* what the flash lender holds of Base
  purse,   \* what the sender owns, per token
  order    \* the submitted order: its profit floor, what its loan is going to
           \* cost, and what the lender asks for it

vars == <<vault, purse, order>>

Order == [minProfit : Nat, charge : Nat, due : Nat]

\* The least change of the sender's balance of t when o executes.
Floor(o, t) == (IF t = Base THEN o.minProfit - o.charge ELSE 0)
               - (IF t = Sui THEN GasBudget ELSE 0)

Init ==
  /\ vault \in Nat
  /\ purse \in [Token -> Nat]
  /\ order = NoOrder

Submit ==
  /\ order = NoOrder
  /\ order' \in Order
  /\ UNCHANGED <<vault, purse>>

\* The lender is made whole with its charge, which is at least what it asks;
\* the sender clears its floor.
Execute ==
  /\ order # NoOrder
  /\ order.charge >= order.due
  /\ order' = NoOrder
  /\ vault' = vault + order.charge
  /\ DOMAIN purse' = Token
  /\ \A t \in Token : purse'[t] >= purse[t] + Floor(order, t)

\* An aborted or rejected order costs gas only.
Fail ==
  /\ order # NoOrder
  /\ order' = NoOrder
  /\ vault' = vault
  /\ DOMAIN purse' = Token
  /\ \A t \in Token : purse'[t] = purse[t] \/ t = Sui
  /\ purse'[Sui] <= purse[Sui] /\ purse'[Sui] >= purse[Sui] - GasBudget

\* Everyone else.  Nobody takes from the package's vault without returning it;
\* a third-party market has depositors of its own.
Others ==
  /\ vault' >= vault \/ ~VaultIsOurs
  /\ UNCHANGED <<purse, order>>

Next == Submit \/ Execute \/ Fail \/ Others

Spec == Init /\ [][Next]_vars
=============================================================================
