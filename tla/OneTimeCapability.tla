-------------------------- MODULE OneTimeCapability --------------------------
(***************************************************************************)
(* What the runtime promises about the execution capability of an Action   *)
(* Claim ("short-lived, one-time, server-side authority for one claim"):   *)
(* it is granted once, for a decision on record as allowed; until it is    *)
(* spent it can be withdrawn, for good; spending it and recording that the *)
(* claim's execution started are one step; the connector is called only    *)
(* for an execution that started.  Claims do not depend on each other: any *)
(* number of them may take a step together.                                *)
(***************************************************************************)
EXTENDS Naturals

CONSTANT Claim

VARIABLES
  allowed,  \* the claim and the version of each decision on record as allowed
  grant,    \* the capability of each claim
  started,  \* has the claim's execution been recorded?
  called    \* has the connector been called for the claim?

vars == <<allowed, grant, started, called>>

Init ==
  /\ allowed = {}
  /\ grant = [c \in Claim |-> [status |-> "none", decision |-> 0]]
  /\ started = [c \in Claim |-> FALSE]
  /\ called = [c \in Claim |-> FALSE]

Rest(c) ==
  /\ grant'[c] = grant[c]
  /\ started'[c] = started[c]
  /\ called'[c] = called[c]

\* A grant may be withdrawn in the step that makes it.
Issue(c) ==
  /\ grant[c].status = "none"
  /\ grant'[c].status \in {"issued", "withdrawn"}
  /\ <<c, grant'[c].decision>> \in allowed
  /\ started'[c] = started[c]
  /\ called'[c] = called[c]

Withdraw(c) ==
  /\ grant[c].status = "issued"
  /\ grant'[c].status = "withdrawn"
  /\ grant'[c].decision = grant[c].decision
  /\ started'[c] = started[c]
  /\ called'[c] = called[c]

\* The connector may be called in the same step.
Start(c) ==
  /\ grant[c].status = "issued"
  /\ grant'[c].status = "spent"
  /\ grant'[c].decision = grant[c].decision
  /\ ~started[c]
  /\ started'[c]

Use(c) ==
  /\ started[c]
  /\ called'[c]
  /\ started'[c]
  /\ grant'[c] = grant[c]

Next ==
  /\ allowed \subseteq allowed'
  /\ \A c \in Claim :
       Rest(c) \/ Issue(c) \/ Withdraw(c) \/ Start(c) \/ Use(c)

Spec == Init /\ [][Next]_vars
=============================================================================
