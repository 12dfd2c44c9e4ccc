------------------------ MODULE MCOutcomeVerification ------------------------
(* One or two executions on one resource; the first has a verification task. *)
EXTENDS OutcomeVerification

CONSTANTS e1, r1

OneResource == [e \in Execution |-> r1]
=============================================================================
