------------------------- MODULE MCGovernedExecution -------------------------
(* Two claims on one resource, bound to one Data Fitness Decision, or one   *)
(* claim that two or three calls race for.                                  *)
EXTENDS GovernedExecution, TLC

CONSTANTS f1, r1

\* Every claim is bound to the same decision and selects the same resource.
OneFitness == [c \in Claim |-> f1]
OneResource == [c \in Claim |-> r1]

\* Calls are interchangeable, and so are claims with equal bindings.
CallSymmetry == Permutations(Call)
Symmetry == Permutations(Call) \cup Permutations(Claim)
=============================================================================
