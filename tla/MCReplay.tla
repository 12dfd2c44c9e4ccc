------------------------------ MODULE MCReplay ------------------------------
(***************************************************************************)
(* The claims of MCActionAdmission, of which only "paid" needs a human,    *)
(* and what their replay material was refused for.                         *)
(***************************************************************************)
EXTENDS MCActionAdmission

VARIABLE refused   \* history: claims whose replay material was refused

ReplayHuman == {"paid"}

ReplayInit == Init /\ refused = {}

\* Begin, Refuse and ApprovalUnbound deny on other grounds; what is recorded here is a
\* refusal by reserveReplay.
ReplayNext ==
  \/ \E k \in Call : ReplayRefused(k) /\ refused' = refused \cup {call[k].claim}
  \/ Next /\ UNCHANGED refused

ReplaySpec == ReplayInit /\ [][ReplayNext]_<<vars, refused>>

\* A claim whose nonce, key or sequence number was refused is not allowed unless
\* it has reserved them since: a decision that is made again looks at them again
\* ("Revalidate profile, current policy, replay material, expiry and exact
\* approval", docs/palo-ai-full-cycle-assurance.md:35).
ReplayRevalidated ==
  \A i \in ClaimId :
    decision[i].status = "allowed" /\ decision[i].claim \in refused =>
      decision[i].claim \in reserved
=============================================================================
