-------------------------- MODULE MCActionAdmission --------------------------
(***************************************************************************)
(* Three claims of one agent: "paid" needs a human; "forged" reuses the    *)
(* claimId and the key of "paid" with other content; "next" needs a human  *)
(* too, reuses the nonce of "forged" and follows "paid" in the sequence.   *)
(***************************************************************************)
EXTENDS ActionAdmission

MCIdOf == [c \in Claim |-> IF c = "next" THEN "claim-2" ELSE "claim-1"]
MCAgentOf == [c \in Claim |-> "agent"]
MCKeyOf == [c \in Claim |-> IF c = "next" THEN "key-2" ELSE "key-1"]
MCNonceOf == [c \in Claim |-> IF c = "paid" THEN "n1" ELSE "n2"]
MCSeqOf == [c \in Claim |-> IF c = "next" THEN 2 ELSE 1]
MCHuman == {"paid", "next"}
=============================================================================
