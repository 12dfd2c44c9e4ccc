---------------------------- MODULE FinOpsBudget ----------------------------
(***************************************************************************)
(* What the FinOps ledger and the gateways on it promise about a budget:   *)
(* an amount is held for an attempt only while the budget has it to spare, *)
(* it is held in full until the attempt's final cost is known, and the     *)
(* provider is called at most once for an attempt, under an amount that    *)
(* was held for it.                                                        *)
(***************************************************************************)
EXTENDS Integers, FiniteSetsExt

CONSTANTS Attempt, Cost, Budget

VARIABLES
  account,  \* what each attempt holds or has cost
  calls     \* how often the provider was called for it

vars == <<account, calls>>

Free == [state |-> "free", amount |-> 0]
Counted(acc) == SumFunctionOnSet([a \in Attempt |-> acc[a].amount], Attempt)

Init ==
  /\ account = [a \in Attempt |-> Free]
  /\ calls = [a \in Attempt |-> 0]

Hold(a) ==
  /\ account[a] = Free
  /\ \E m \in Cost : account' = [account EXCEPT ![a] = [state |-> "held", amount |-> m]]
  /\ Counted(account') <= Budget
  /\ UNCHANGED calls

\* The final cost may be above what was held; it counts all the same.
Pay(a) ==
  /\ account[a].state = "held"
  /\ \E c \in Cost : account' = [account EXCEPT ![a] = [state |-> "paid", amount |-> c]]
  /\ UNCHANGED calls

CallProvider(a) ==
  /\ account[a] # Free /\ calls[a] = 0
  /\ calls' = [calls EXCEPT ![a] = 1]
  /\ UNCHANGED account

Next == \E a \in Attempt : Hold(a) \/ Pay(a) \/ CallProvider(a)

Spec == Init /\ [][Next]_vars
=============================================================================
