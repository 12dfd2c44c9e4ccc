---------------------- MODULE GovernedExecution_proofs ----------------------
(* Theorems about GovernedExecution: its typing, an inductive invariant     *)
(* that gives its safety invariants, and its action properties.             *)
EXTENDS GovernedExecution, TLAPS

-----------------------------------------------------------------------------
(* Typing.                                                                  *)

USE DEF Decision, NoDecision, DecisionStatus, Capability, NoCapability,
        CapabilityStatus, ExecutionStatus, ReceiptStatus, Stage

\* Helpers on capabilities yield capabilities, and leave a consumed one alone.
LEMMA IssuedForType ==
  ASSUME capability \in [Claim -> Capability], NEW c \in Claim,
         NEW d \in Decision
  PROVE  /\ IssuedFor(c, d) \in Capability
         /\ IssuedFor(c, d).status # "none"
         /\ capability[c].status # "none" => IssuedFor(c, d) = capability[c]
         /\ capability[c].status = "none" =>
              /\ IssuedFor(c, d).status = "issued"
              /\ IssuedFor(c, d).decision = d.version
BY DEF IssuedFor

\* Revocation never touches a consumed capability, nor any binding.
LEMMA RevokedType ==
  ASSUME NEW cap \in Capability
  PROVE  /\ Revoked(cap) \in Capability
         /\ Revoked(cap).status \in {"revoked", "consumed"}
         /\ Revoked(cap).status = "consumed" <=> cap.status = "consumed"
         /\ Revoked(cap).decision = cap.decision
BY DEF Revoked

\* A signal changes no more than capabilities.
LEMMA EachRevoked ==
  ASSUME capability \in [Claim -> Capability], NEW claims
  PROVE  RevokeEach(claims) \in [Claim -> Capability]
BY RevokedType DEF RevokeEach

\* A new decision of a claim is typed, and on record if it is allowed; the
\* record only grows.
LEMMA PersistDecisionType ==
  ASSUME TypeOK, NEW c \in Claim, NEW status \in DecisionStatus,
         PersistDecision(c, status)
  PROVE  /\ decision' \in [Claim -> Decision]
         /\ allowed' \subseteq Claim \X Nat
         /\ allowed \subseteq allowed'
         /\ decision'[c].status = status
         /\ status = "allowed" => <<c, decision'[c].version>> \in allowed'
         /\ \A d \in Claim \ {c} : decision'[d] = decision[d]
BY DEF PersistDecision, TypeOK

\* Init is typed and every step keeps the types.
LEMMA TypeInit == Init => TypeOK
BY ConstantsAssumption DEF Init, TypeOK

\* The claim of a call in flight.
LEMMA InFlight ==
  ASSUME TypeOK, StagesBacked, NEW k \in Call, pc[k] \notin {"idle", "done"}
  PROVE  target[k] \in Claim
BY DEF StagesBacked

\* Returning, and going on to another stage, leave the calls' locals typed.
LEMMA LocalsType ==
  ASSUME TypeOK, NEW k \in Call, NEW stage \in Stage,
         Finish(k) \/ Proceed(k, stage)
  PROVE  /\ pc' \in [Call -> Stage]
         /\ target' \in [Call -> Claim \cup {NoClaim}]
         /\ seen' \in [Call -> Decision]
         /\ verdict' \in [Call -> Decision]
<1>1. CASE Finish(k)
  BY <1>1 DEF Finish, TypeOK
<1>2. CASE Proceed(k, stage)
  BY <1>2 DEF Proceed, TypeOK
<1> QED
  BY <1>1, <1>2

\* The same of the executor's invocation, which also counts it.
LEMMA InvokeExecutorType ==
  ASSUME TypeOK, NEW k \in Call, target[k] \in Claim, InvokeExecutor(k)
  PROVE  /\ pc' \in [Call -> Stage]
         /\ target' \in [Call -> Claim \cup {NoClaim}]
         /\ seen' \in [Call -> Decision]
         /\ verdict' \in [Call -> Decision]
         /\ dispatched' \in [Claim -> Nat]
<1>1. CASE /\ dispatched' = [dispatched EXCEPT ![target[k]] = @ + 1]
           /\ Proceed(k, "executor")
  <2>1. dispatched' \in [Claim -> Nat]
    BY <1>1 DEF TypeOK
  <2>2. "executor" \in Stage
    OBVIOUS
  <2> HIDE DEF Stage
  <2> QED
    BY <1>1, <2>1, <2>2, LocalsType
<1>2. CASE Finish(k) /\ UNCHANGED dispatched
  BY <1>2, LocalsType DEF TypeOK
<1> QED
  BY <1>1, <1>2 DEF InvokeExecutor

\* Only the status of a capability changes when it is spent or expires.
LEMMA NewStatusType ==
  ASSUME TypeOK, NEW c \in Claim, NEW s \in CapabilityStatus
  PROVE  [capability EXCEPT ![c].status = s] \in [Claim -> Capability]
<1>1. capability[c] \in Capability
  BY DEF TypeOK
<1>2. [capability[c] EXCEPT !.status = s] \in Capability
  BY <1>1
<1> HIDE DEF Capability
<1> QED
  BY <1>2 DEF TypeOK

\* Every step of a call keeps the types, provided calls in flight have claims.
LEMMA TypeCallStep ==
  ASSUME TypeOK, StagesBacked, NEW k \in Call, CallStep(k)
  PROVE  TypeOK'
<1> USE DEF At, rows, world, records, Stage
<1>1. ASSUME NEW c \in Claim, ReturnExisting(k, c) PROVE TypeOK'
  BY <1>1, LocalsType DEF ReturnExisting, TypeOK
<1>2. ASSUME NEW c \in Claim, RefuseClaim(k, c) PROVE TypeOK'
  BY <1>2, PersistDecisionType, LocalsType DEF RefuseClaim, TypeOK
<1>3. ASSUME NEW c \in Claim, Begin(k, c) PROVE TypeOK'
  BY <1>3 DEF Begin, TypeOK
<1>3a. CASE ProfileRefused(k)
  BY <1>3a, InFlight, PersistDecisionType, LocalsType DEF ProfileRefused, TypeOK
<1>3b. CASE AskAuthority(k)
  BY <1>3b, LocalsType DEF AskAuthority, TypeOK
<1>4. CASE AuthorityRejected(k)
  BY <1>4, InFlight, PersistDecisionType, LocalsType DEF AuthorityRejected, TypeOK
<1>5. CASE AdmissionDenied(k)
  <2>1. target[k] \in Claim
    BY <1>5, InFlight DEF AdmissionDenied
  <2>2. PersistDecision(target[k], "denied") /\ Finish(k)
    BY <1>5 DEF AdmissionDenied
  <2>3. /\ decision' \in [Claim -> Decision]
        /\ allowed' \subseteq Claim \X Nat
    BY <2>1, <2>2, PersistDecisionType
  <2> QED
    BY <1>5, <2>1, <2>2, <2>3, LocalsType DEF AdmissionDenied, TypeOK
<1>6. CASE Admitted(k)
  BY <1>6, InFlight, LocalsType DEF Admitted, TypeOK
<1>7. ASSUME NEW status \in DecisionStatus, NEW same \in BOOLEAN,
             PolicyAnswered(k, status, same)
      PROVE  TypeOK'
  <2>1. target[k] \in Claim
    BY <1>7, InFlight DEF PolicyAnswered
  <2>2. /\ decision' \in [Claim -> Decision]
        /\ allowed' \subseteq Claim \X Nat
    <3>1. CASE same
      BY <1>7, <3>1 DEF PolicyAnswered, TypeOK
    <3>2. CASE ~same
      <4>1. PersistDecision(target[k], status)
        BY <1>7, <3>2 DEF PolicyAnswered
      <4> QED
        BY <4>1, <2>1, PersistDecisionType
    <3> QED
      BY <3>1, <3>2
  <2>3. /\ target' \in [Call -> Claim \cup {NoClaim}]
        /\ pc' \in [Call -> Stage]
        /\ seen' \in [Call -> Decision]
        /\ verdict' \in [Call -> Decision]
    <3>1. CASE Permits(status)
      <4>1. decision'[target[k]] \in Decision /\ seen[k] \in Decision
        BY <2>1, <2>2 DEF TypeOK
      <4> DEFINE new == IF same THEN seen[k] ELSE decision'[target[k]]
      <4>2. new \in Decision
        BY <4>1
      <4>3. /\ pc' = [pc EXCEPT ![k] = "issue"]
            /\ verdict' = [verdict EXCEPT ![k] = new]
            /\ UNCHANGED <<target, seen>>
        BY <1>7, <3>1 DEF PolicyAnswered
      <4> HIDE DEF new
      <4> QED
        BY <4>2, <4>3 DEF TypeOK
    <3>2. CASE ~Permits(status)
      BY <1>7, <3>2, LocalsType DEF PolicyAnswered
    <3> QED
      BY <3>1, <3>2
  <2> QED
    BY <1>7, <2>2, <2>3, LocalsType DEF PolicyAnswered, TypeOK
<1>8. CASE IssueRefused(k)
  BY <1>8, LocalsType DEF IssueRefused, TypeOK
<1>9. CASE IssueCapability(k)
  <2>1. target[k] \in Claim /\ verdict[k] \in Decision
    BY <1>9, InFlight DEF IssueCapability, TypeOK
  <2>2. IssuedFor(target[k], verdict[k]) \in Capability
    BY <2>1, IssuedForType DEF TypeOK
  <2> QED
    BY <1>9, <2>1, <2>2, LocalsType DEF IssueCapability, TypeOK
<1>10. CASE HandlerMissing(k)
  <2>1. target[k] \in Claim /\ verdict[k] \in Decision
    BY <1>10, InFlight DEF HandlerMissing, TypeOK
  <2>2. Revoked(IssuedFor(target[k], verdict[k])) \in Capability
    BY <2>1, IssuedForType, RevokedType DEF TypeOK
  <2> QED
    BY <1>10, <2>1, <2>2, LocalsType DEF HandlerMissing, TypeOK
<1>11. CASE PreStateRejected(k)
  BY <1>11, InFlight, RevokedType, LocalsType DEF PreStateRejected, TypeOK
<1>12. CASE PreStateAccepted(k)
  BY <1>12, LocalsType DEF PreStateAccepted, TypeOK
<1>13. CASE ReauthorityRejected(k)
  BY <1>13, InFlight, RevokedType, LocalsType DEF ReauthorityRejected, TypeOK
<1>14. CASE Consume(k)
  <2>1. target[k] \in Claim
    BY <1>14, InFlight DEF Consume
  <2> QED
    BY <1>14, <2>1, NewStatusType, InvokeExecutorType
       DEF Consume, InsertExecution, TypeOK
<1>15. CASE ConsumeExisting(k)
  <2>1. target[k] \in Claim
    BY <1>15, InFlight DEF ConsumeExisting
  <2> QED
    BY <1>15, <2>1, InvokeExecutorType DEF ConsumeExisting, TypeOK
<1>16. CASE ConsumeRefused(k)
  <2>1. target[k] \in Claim
    BY <1>16, InFlight DEF ConsumeRefused
  <2> QED
    BY <1>16, <2>1, LocalsType DEF ConsumeRefused, TypeOK
<1>17. CASE CapabilityExpired(k)
  <2>1. target[k] \in Claim
    BY <1>17, InFlight DEF CapabilityExpired
  <2> QED
    BY <1>17, <2>1, NewStatusType, LocalsType DEF CapabilityExpired, TypeOK
<1>18. ASSUME NEW status \in ReceiptStatus, NEW receipt \in BOOLEAN,
              ExecutorAnswered(k, status, receipt)
       PROVE  TypeOK'
  <2>1. target[k] \in Claim
    BY <1>18, InFlight DEF ExecutorAnswered
  <2>2. execution' \in [Claim -> ExecutionStatus] /\ disclosed' \subseteq Claim
    BY <1>18, <2>1 DEF ExecutorAnswered, TypeOK
  <2>3. Finish(k)
    BY <1>18 DEF ExecutorAnswered
  <2> QED
    BY <1>18, <2>2, <2>3, LocalsType DEF ExecutorAnswered, TypeOK
<1> HIDE DEF At, rows, world, records, Stage
<1> QED
  BY <1>1, <1>2, <1>3, <1>3a, <1>3b, <1>4, <1>5, <1>6, <1>7, <1>8, <1>9, <1>10, <1>11,
     <1>12, <1>13, <1>14, <1>15, <1>16, <1>17, <1>18 DEF CallStep

\* So do the other components and the clocks.
LEMMA TypeOtherStep ==
  ASSUME TypeOK, OtherStep
  PROVE  TypeOK'
<1> USE ConstantsAssumption DEF TypeOK, rows, records, world, locals
<1>1. ASSUME NEW c \in Claim, NEW holds \in BOOLEAN, OutcomeAttested(c, holds)
      PROVE  TypeOK'
  BY <1>1 DEF OutcomeAttested
<1>2. ASSUME NEW r \in Resource, HoldReleased(r) PROVE TypeOK'
  BY <1>2 DEF HoldReleased
<1>3. ASSUME NEW f \in Fitness, SignalIngested(f) PROVE TypeOK'
  <2>1. RevokeBoundTo(f) \in [Claim -> Capability]
    BY EachRevoked DEF RevokeBoundTo
  <2> QED
    BY <1>3, <2>1 DEF SignalIngested
<1>4. ASSUME NEW c \in Claim, ClaimExpires(c) PROVE TypeOK'
  BY <1>4 DEF ClaimExpires
<1>5. ASSUME NEW f \in Fitness, FitnessExpires(f) PROVE TypeOK'
  BY <1>5 DEF FitnessExpires
<1>6. ASSUME NEW c \in Claim, AuthorityExpires(c) PROVE TypeOK'
  BY <1>6 DEF AuthorityExpires
<1> QED
  BY <1>1, <1>2, <1>3, <1>4, <1>5, <1>6 DEF OtherStep

\* A crash and a restart keep them too.
LEMMA TypeCrashStep ==
  ASSUME TypeOK, StagesBacked, CrashStep
  PROVE  TypeOK'
<1> USE ConstantsAssumption DEF TypeOK, rows, records, locals
<1>1. CASE Crash
  BY <1>1 DEF Crash, LoseProcess
<1>2. ASSUME NEW f \in Fitness, NEW revoked \in SUBSET BoundTo(f), CrashInSignal(f, revoked)
      PROVE  TypeOK'
  BY <1>2, EachRevoked DEF CrashInSignal, LoseProcess
<1>3. ASSUME NEW old \in SUBSET {c \in Claim : execution[c] = "executing"},
             NEW opened \in SUBSET old, NEW done \in SUBSET opened,
             Restart(old, done, opened)
      PROVE  TypeOK'
  <2>1. execution' \in [Claim -> ExecutionStatus]
    BY <1>3 DEF Restart, ExecutionStatus, ReceiptStatus
  <2>2. held' \subseteq Resource /\ running' \in BOOLEAN
    BY <1>3 DEF Restart
  <2> QED
    BY <1>3, <2>1, <2>2 DEF Restart
<1>4. ASSUME NEW c \in Claim, CrashInAttestation(c) PROVE TypeOK'
  <2>1. held' \subseteq Resource
    BY <1>4 DEF CrashInAttestation
  <2> QED
    BY <1>4, <2>1 DEF CrashInAttestation, LoseProcess
<1> QED
  BY <1>1, <1>2, <1>3, <1>4 DEF CrashStep

-----------------------------------------------------------------------------
(* The inductive invariant.                                                 *)

\* A decision that stands as allowed is on record.
DecisionRecorded ==
  \A c \in Claim :
    decision[c].status = "allowed" => <<c, decision[c].version>> \in allowed

\* Every capability is bound to an allowed decision of its claim.
CapabilityAllowed ==
  \A c \in Claim :
    capability[c].status # "none" => <<c, capability[c].decision>> \in allowed

IInv ==
  /\ TypeOK
  /\ DecisionRecorded
  /\ StagesBacked
  /\ CapabilityAllowed
  /\ ExecutionConsumesCapability
  /\ IntentBeforeConnector

\* The fates of one claim's capability, execution and dispatch in one step.
Kept(c) ==
  /\ capability'[c] = capability[c]
  /\ (execution'[c] # "none") <=> (execution[c] # "none")
  /\ dispatched'[c] = dispatched[c]

Granted(c) ==
  /\ capability[c].status = "none"
  /\ capability'[c].status \in {"issued", "revoked"}
  /\ <<c, capability'[c].decision>> \in allowed
  /\ execution'[c] = execution[c]
  /\ dispatched'[c] = dispatched[c]

Withdrawn(c) ==
  /\ capability[c].status \in {"issued", "revoked", "expired"}
  /\ capability'[c].status \in {"revoked", "expired"}
  /\ capability[c].status # "issued" => capability'[c].status = "revoked"
  /\ capability'[c].decision = capability[c].decision
  /\ execution'[c] = execution[c]
  /\ dispatched'[c] = dispatched[c]

Spent(c) ==
  /\ capability[c].status = "issued"
  /\ capability'[c].status = "consumed"
  /\ capability'[c].decision = capability[c].decision
  /\ execution[c] = "none"
  /\ execution'[c] = "executing"
  /\ dispatched'[c] \in {dispatched[c], dispatched[c] + 1}

Dispatched(c) ==
  /\ capability'[c] = capability[c]
  /\ execution[c] # "none"
  /\ execution'[c] = execution[c]
  /\ dispatched'[c] = dispatched[c] + 1

Fate(c) == Kept(c) \/ Granted(c) \/ Withdrawn(c) \/ Spent(c) \/ Dispatched(c)

\* Every step of a call keeps or extends the record and gives each claim one
\* of these fates.
LEMMA CallFate ==
  ASSUME IInv, NEW k \in Call, CallStep(k)
  PROVE  /\ allowed \subseteq allowed'
         /\ \A c \in Claim : Fate(c)
<1> DEFINE Goal == allowed \subseteq allowed' /\ \A c \in Claim : Fate(c)
<1> USE DEF IInv, TypeOK, At, records
<1>1. ASSUME UNCHANGED rows, allowed \subseteq allowed' PROVE Goal
  BY <1>1 DEF Fate, Kept, rows
<1>2. ASSUME NEW c \in Claim,
             ReturnExisting(k, c) \/ RefuseClaim(k, c) \/ Begin(k, c)
      PROVE  Goal
  BY <1>1, <1>2
     DEF ReturnExisting, RefuseClaim, Begin, PersistDecision
<1>3. CASE \/ ProfileRefused(k) \/ AskAuthority(k) \/ AuthorityRejected(k)
           \/ AdmissionDenied(k) \/ Admitted(k)
  BY <1>1, <1>3
     DEF ProfileRefused, AskAuthority, AuthorityRejected, AdmissionDenied,
         Admitted, PersistDecision
<1>4. ASSUME NEW status \in DecisionStatus, NEW same \in BOOLEAN,
             PolicyAnswered(k, status, same)
      PROVE  Goal
  BY <1>1, <1>4 DEF PolicyAnswered, PersistDecision
<1>5. CASE IssueRefused(k) \/ PreStateAccepted(k) \/ ConsumeRefused(k)
  BY <1>1, <1>5 DEF IssueRefused, PreStateAccepted, ConsumeRefused
<1>6. CASE IssueCapability(k)
  <2>1. target[k] \in Claim /\ verdict[k] \in Decision
    BY <1>6, InFlight DEF IssueCapability
  <2>2. <<target[k], verdict[k].version>> \in allowed
    BY <1>6 DEF IssueCapability, StagesBacked
  <2>3. \A c \in Claim \ {target[k]} : Kept(c)
    BY <1>6, <2>1 DEF IssueCapability, Kept
  <2>4. Fate(target[k])
    <3>1. capability'[target[k]] = IssuedFor(target[k], verdict[k])
      BY <1>6, <2>1 DEF IssueCapability
    <3>2. execution' = execution /\ dispatched' = dispatched
      BY <1>6 DEF IssueCapability
    <3>3. CASE capability[target[k]].status = "none"
      <4>1. /\ capability'[target[k]].status = "issued"
            /\ capability'[target[k]].decision = verdict[k].version
        BY <2>1, <3>1, <3>3, IssuedForType
      <4> QED
        BY <2>2, <3>2, <3>3, <4>1 DEF Fate, Granted
    <3>4. CASE capability[target[k]].status # "none"
      <4>1. capability'[target[k]] = capability[target[k]]
        BY <2>1, <3>1, <3>4, IssuedForType
      <4> QED
        BY <3>2, <4>1 DEF Fate, Kept
    <3> QED
      BY <3>3, <3>4
  <2> QED
    BY <1>6, <2>3, <2>4 DEF IssueCapability, Fate
<1>7. CASE HandlerMissing(k)
  <2>1. target[k] \in Claim /\ verdict[k] \in Decision
    BY <1>7, InFlight DEF HandlerMissing
  <2>2. <<target[k], verdict[k].version>> \in allowed
    BY <1>7 DEF HandlerMissing, StagesBacked
  <2>3. \A c \in Claim \ {target[k]} : Kept(c)
    BY <1>7, <2>1 DEF HandlerMissing, Kept
  <2>4. Fate(target[k])
    <3> DEFINE issued == IssuedFor(target[k], verdict[k])
    <3>1. /\ capability'[target[k]] = Revoked(issued)
          /\ execution' = execution
          /\ dispatched' = dispatched
      BY <1>7, <2>1 DEF HandlerMissing
    <3>2. CASE capability[target[k]].status = "none"
      <4>1. issued.status = "issued" /\ issued.decision = verdict[k].version
        BY <2>1, <3>2, IssuedForType
      <4>2. issued \in Capability
        BY <2>1, IssuedForType
      <4> HIDE DEF issued
      <4>3. /\ capability'[target[k]].status = "revoked"
            /\ capability'[target[k]].decision = verdict[k].version
        BY <3>1, <4>1, <4>2 DEF Revoked
      <4> QED
        BY <2>2, <3>1, <3>2, <4>3 DEF Fate, Granted
    <3>3. CASE capability[target[k]].status # "none"
      <4>1. issued = capability[target[k]]
        BY <2>1, <3>3, IssuedForType
      <4>2. issued \in Capability
        BY <2>1, IssuedForType
      <4> HIDE DEF issued
      <4>3. CASE issued.status = "consumed"
        BY <3>1, <4>1, <4>3 DEF Revoked, Fate, Kept
      <4>4. CASE issued.status # "consumed"
        <5>1. /\ capability'[target[k]].status = "revoked"
              /\ capability'[target[k]].decision = issued.decision
          BY <3>1, <4>2, <4>4 DEF Revoked
        <5> QED
          BY <3>1, <3>3, <4>1, <4>2, <4>4, <5>1 DEF Fate, Withdrawn
      <4> QED
        BY <4>3, <4>4
    <3> QED
      BY <3>2, <3>3
  <2> QED
    BY <1>7, <2>3, <2>4 DEF HandlerMissing, Fate
<1>8. CASE PreStateRejected(k) \/ ReauthorityRejected(k)
  <2>1. target[k] \in Claim /\ capability[target[k]].status # "none"
    BY <1>8, InFlight DEF PreStateRejected, ReauthorityRejected, StagesBacked
  <2>2. \A c \in Claim \ {target[k]} : Kept(c)
    BY <1>8, <2>1 DEF PreStateRejected, ReauthorityRejected, Kept
  <2>3. capability'[target[k]] = Revoked(capability[target[k]])
    BY <1>8, <2>1 DEF PreStateRejected, ReauthorityRejected
  <2>4. Fate(target[k])
    BY <1>8, <2>1, <2>3
       DEF PreStateRejected, ReauthorityRejected, Revoked, Fate, Kept, Withdrawn
  <2> QED
    BY <1>8, <2>2, <2>4 DEF PreStateRejected, ReauthorityRejected, Fate
<1>9. CASE Consume(k)
  <2>1. target[k] \in Claim /\ capability[target[k]].status = "issued"
    BY <1>9, InFlight DEF Consume, Consumable
  <2>2. \A c \in Claim \ {target[k]} : Kept(c)
    BY <1>9, <2>1 DEF Consume, InsertExecution, InvokeExecutor, Kept
  <2>3. dispatched'[target[k]] \in {dispatched[target[k]], dispatched[target[k]] + 1}
    BY <1>9, <2>1 DEF Consume, InvokeExecutor
  <2>4. Spent(target[k])
    BY <1>9, <2>1, <2>3 DEF Consume, InsertExecution, Spent
  <2> QED
    BY <1>9, <2>2, <2>4 DEF Consume, Fate
<1>10. CASE ConsumeExisting(k)
  <2>1. target[k] \in Claim
    BY <1>10, InFlight DEF ConsumeExisting
  <2>2. \A c \in Claim \ {target[k]} : Kept(c)
    BY <1>10, <2>1 DEF ConsumeExisting, InvokeExecutor, Kept
  <2>3. Kept(target[k]) \/ Dispatched(target[k])
    BY <1>10, <2>1 DEF ConsumeExisting, InvokeExecutor, Kept, Dispatched
  <2> QED
    BY <1>10, <2>2, <2>3 DEF ConsumeExisting, Fate
<1>11. CASE CapabilityExpired(k)
  <2>1. target[k] \in Claim /\ capability[target[k]].status = "issued"
    BY <1>11, InFlight DEF CapabilityExpired, Consumable
  <2>2. \A c \in Claim \ {target[k]} : Kept(c)
    BY <1>11, <2>1 DEF CapabilityExpired, Kept
  <2>3. Withdrawn(target[k])
    BY <1>11, <2>1 DEF CapabilityExpired, Withdrawn
  <2> QED
    BY <1>11, <2>2, <2>3 DEF CapabilityExpired, Fate
<1>12. ASSUME NEW status \in ReceiptStatus, NEW receipt \in BOOLEAN,
              ExecutorAnswered(k, status, receipt)
       PROVE  Goal
  <2>1. target[k] \in Claim /\ execution[target[k]] # "none"
    BY <1>12, InFlight DEF ExecutorAnswered, StagesBacked
  <2> QED
    BY <1>12, <2>1 DEF ExecutorAnswered, Fate, Kept
<1> QED
  BY <1>2, <1>3, <1>4, <1>5, <1>6, <1>7, <1>8, <1>9, <1>10, <1>11, <1>12
     DEF CallStep

\* The same of every step outside the calls.
LEMMA WorldFate ==
  ASSUME IInv, OtherStep \/ CrashStep
  PROVE  /\ allowed \subseteq allowed'
         /\ \A c \in Claim : Fate(c)
<1> DEFINE Goal == allowed \subseteq allowed' /\ \A c \in Claim : Fate(c)
<1> USE DEF IInv, TypeOK, world, locals, records
<1>1. ASSUME UNCHANGED rows, allowed \subseteq allowed' PROVE Goal
  BY <1>1 DEF Fate, Kept, rows
<1>2. ASSUME NEW c \in Claim, NEW holds \in BOOLEAN, OutcomeAttested(c, holds)
      PROVE  Goal
  BY <1>2 DEF OutcomeAttested, Fate, Kept
<1>3. ASSUME NEW r \in Resource, HoldReleased(r) PROVE Goal
  BY <1>3 DEF HoldReleased, Fate, Kept
<1>4. ASSUME NEW f \in Fitness, NEW revoked \in SUBSET BoundTo(f),
             capability' = RevokeEach(revoked), UNCHANGED <<allowed, execution, dispatched>>
      PROVE  Goal
  <2>1. ASSUME NEW c \in Claim PROVE Kept(c) \/ Withdrawn(c)
    <3>1. CASE c \in revoked
      <4>1. capability[c].status = "issued" /\ capability'[c] = Revoked(capability[c])
        BY <1>4, <3>1 DEF BoundTo, RevokeEach
      <4> QED
        BY <1>4, <4>1, RevokedType DEF Withdrawn
    <3>2. CASE c \notin revoked
      BY <1>4, <3>2 DEF RevokeEach, Kept
    <3> QED
      BY <3>1, <3>2
  <2> QED
    BY <1>4, <2>1 DEF Fate
<1>4a. ASSUME NEW f \in Fitness, SignalIngested(f) PROVE Goal
  BY <1>4, <1>4a DEF SignalIngested, RevokeBoundTo
<1>4b. ASSUME NEW f \in Fitness, NEW revoked \in SUBSET BoundTo(f),
              CrashInSignal(f, revoked)
       PROVE  Goal
  BY <1>4, <1>4b DEF CrashInSignal
<1>5. ASSUME NEW c \in Claim, ClaimExpires(c) \/ AuthorityExpires(c) PROVE Goal
  BY <1>1, <1>5 DEF ClaimExpires, AuthorityExpires
<1>6. ASSUME NEW f \in Fitness, FitnessExpires(f) PROVE Goal
  BY <1>1, <1>6 DEF FitnessExpires
<1>7. CASE Crash
  BY <1>1, <1>7 DEF Crash
<1>8. ASSUME NEW old \in SUBSET {c \in Claim : execution[c] = "executing"},
             NEW opened \in SUBSET old, NEW done \in SUBSET opened,
             Restart(old, done, opened)
      PROVE  Goal
  BY <1>8 DEF Restart, Fate, Kept
<1>9. ASSUME NEW c \in Claim, CrashInAttestation(c) PROVE Goal
  BY <1>9 DEF CrashInAttestation, Fate, Kept
<1> QED
  BY <1>2, <1>3, <1>4a, <1>4b, <1>5, <1>6, <1>7, <1>8, <1>9 DEF OtherStep, CrashStep

\* Whatever its fate, a claim keeps what the invariants say of its rows.
LEMMA FateKeepsTables ==
  ASSUME IInv, TypeOK', allowed \subseteq allowed', \A c \in Claim : Fate(c)
  PROVE  /\ CapabilityAllowed'
         /\ ExecutionConsumesCapability'
         /\ IntentBeforeConnector'
<1> SUFFICES ASSUME NEW c \in Claim
             PROVE  /\ capability'[c].status # "none" =>
                         <<c, capability'[c].decision>> \in allowed'
                    /\ execution'[c] # "none" <=>
                         capability'[c].status = "consumed"
                    /\ dispatched'[c] > 0 => execution'[c] # "none"
  BY DEF CapabilityAllowed, ExecutionConsumesCapability,
         IntentBeforeConnector
<1> USE DEF IInv, CapabilityAllowed, ExecutionConsumesCapability,
            IntentBeforeConnector
<1>1. CASE Kept(c)
  BY <1>1 DEF Kept
<1>2. CASE Granted(c)
  BY <1>2 DEF Granted
<1>3. CASE Withdrawn(c)
  BY <1>3 DEF Withdrawn
<1>4. CASE Spent(c)
  BY <1>4 DEF Spent
<1>5. CASE Dispatched(c)
  BY <1>5 DEF Dispatched
<1> QED
  BY <1>1, <1>2, <1>3, <1>4, <1>5 DEF Fate

\* It also keeps what a call that does not move relies on.
LEMMA FateKeepsCall ==
  ASSUME IInv, TypeOK', allowed \subseteq allowed', \A c \in Claim : Fate(c),
         NEW k \in Call,
         /\ pc'[k] = pc[k]
         /\ target'[k] = target[k]
         /\ seen'[k] = seen[k]
         /\ verdict'[k] = verdict[k]
  PROVE  /\ pc'[k] \notin {"idle", "done"} => target'[k] \in Claim
         /\ seen'[k].status = "allowed" =>
              <<target'[k], seen'[k].version>> \in allowed'
         /\ pc'[k] = "issue" => <<target'[k], verdict'[k].version>> \in allowed'
         /\ pc'[k] \in {"preState", "reauthority", "executor"} =>
              capability'[target'[k]].status # "none"
         /\ pc'[k] = "executor" => execution'[target'[k]] # "none"
<1>1. ASSUME NEW c \in Claim
      PROVE  /\ capability[c].status # "none" => capability'[c].status # "none"
             /\ execution[c] # "none" => execution'[c] # "none"
  BY DEF Fate, Kept, Granted, Withdrawn, Spent, Dispatched
<1>2. pc[k] \notin {"idle", "done"} => target[k] \in Claim
  BY DEF IInv, StagesBacked
<1> QED
  BY <1>1, <1>2 DEF IInv, StagesBacked

\* What StagesBacked says of one call.
Backed(k) ==
  /\ pc[k] \notin {"idle", "done"} => target[k] \in Claim
  /\ seen[k].status = "allowed" => <<target[k], seen[k].version>> \in allowed
  /\ pc[k] = "issue" => <<target[k], verdict[k].version>> \in allowed
  /\ pc[k] \in {"preState", "reauthority", "executor"} =>
       capability[target[k]].status # "none"
  /\ pc[k] = "executor" => execution[target[k]] # "none"

\* A call that returns relies on nothing.
LEMMA FinishBacked ==
  ASSUME TypeOK, NEW k \in Call, Finish(k)
  PROVE  Backed(k)'
BY DEF Finish, TypeOK, Backed

\* A call that goes on to a later stage relies on the rows that are there.
LEMMA ProceedBacked ==
  ASSUME IInv, allowed \subseteq allowed', NEW k \in Call, target[k] \in Claim,
         NEW stage \in {"authority", "policy", "preState", "reauthority",
                        "executor"},
         Proceed(k, stage),
         stage \notin {"authority", "policy"} => capability'[target[k]].status # "none",
         stage = "executor" => execution'[target[k]] # "none"
  PROVE  Backed(k)'
<1>1. /\ pc'[k] = stage
      /\ target'[k] = target[k]
      /\ seen'[k] = seen[k]
      /\ verdict'[k] = verdict[k]
  BY DEF Proceed, IInv, TypeOK
<1>2. seen[k].status = "allowed" => <<target[k], seen[k].version>> \in allowed
  BY DEF IInv, StagesBacked
<1> QED
  BY <1>1, <1>2 DEF Backed

\* A call that moves keeps backed by the tables, and so do the others.
LEMMA CallBacked ==
  ASSUME IInv, TypeOK', NEW k \in Call, CallStep(k)
  PROVE  StagesBacked'
<1>1. allowed \subseteq allowed' /\ \A c \in Claim : Fate(c)
  BY CallFate
<1> SUFFICES Backed(k)'
  <2>1. ASSUME NEW j \in Call, j # k PROVE Backed(j)'
    <3>1. /\ pc'[j] = pc[j]
          /\ target'[j] = target[j]
          /\ seen'[j] = seen[j]
          /\ verdict'[j] = verdict[j]
      BY <2>1
         DEF IInv, TypeOK, CallStep, Finish, Proceed, InvokeExecutor,
             ReturnExisting, RefuseClaim, Begin, ProfileRefused, AskAuthority,
             AuthorityRejected, AdmissionDenied, Admitted, PolicyAnswered, IssueRefused,
             IssueCapability, HandlerMissing, PreStateRejected,
             PreStateAccepted, ReauthorityRejected, Consume, ConsumeExisting,
             ConsumeRefused, CapabilityExpired, ExecutorAnswered
    <3> QED
      BY <1>1, <3>1, FateKeepsCall DEF Backed
  <2> QED
    BY <2>1 DEF StagesBacked, Backed
<1>2. CASE Finish(k)
  BY <1>2, FinishBacked DEF IInv
<1>3. \A c \in Claim :
        /\ capability[c].status # "none" => capability'[c].status # "none"
        /\ execution[c] # "none" => execution'[c] # "none"
  BY <1>1 DEF Fate, Kept, Granted, Withdrawn, Spent, Dispatched, IInv,
              ExecutionConsumesCapability
<1> USE DEF IInv, TypeOK, At, StagesBacked, Backed
<1>4. ASSUME NEW c \in Claim, Begin(k, c) PROVE Backed(k)'
  BY <1>4 DEF Begin, DecisionRecorded, records
<1>4a. CASE AskAuthority(k)
  <2>1. /\ target[k] \in Claim
        /\ Proceed(k, "authority")
        /\ allowed \subseteq allowed'
    BY <1>1, <1>4a DEF AskAuthority
  <2> HIDE DEF Backed
  <2> QED
    BY <2>1, ProceedBacked
<1>5. CASE Admitted(k)
  <2>1. /\ target[k] \in Claim
        /\ Proceed(k, "policy")
        /\ allowed \subseteq allowed'
    BY <1>1, <1>5 DEF Admitted
  <2> HIDE DEF Backed
  <2> QED
    BY <2>1, ProceedBacked
<1>6. ASSUME NEW status \in DecisionStatus, NEW same \in BOOLEAN,
             PolicyAnswered(k, status, same)
      PROVE  Backed(k)'
  <2>1. CASE Permits(status)
    <3>1. /\ pc'[k] = "issue"
          /\ target'[k] = target[k]
          /\ seen'[k] = seen[k]
          /\ target[k] \in Claim
      <4>1. /\ pc' = [pc EXCEPT ![k] = "issue"]
            /\ UNCHANGED <<target, seen>>
            /\ pc[k] = "policy"
        BY <1>6, <2>1 DEF PolicyAnswered
      <4>2. target[k] \in Claim
        BY <4>1, InFlight
      <4>3. pc'[k] = "issue"
        BY <4>1
      <4> QED
        BY <4>1, <4>2, <4>3
    <3>2. verdict'[k] = IF same THEN seen[k] ELSE decision'[target[k]]
      BY <1>6, <2>1 DEF PolicyAnswered
    <3>3. CASE same
      <4>1. seen[k].status = "allowed"
        BY <1>6, <2>1, <3>3 DEF PolicyAnswered, Permits
      <4>2. verdict'[k] = seen[k]
        BY <3>2, <3>3
      <4> QED
        BY <1>1, <3>1, <4>1, <4>2
    <3>4. CASE ~same
      <4>1. PersistDecision(target[k], status)
        BY <1>6, <3>4 DEF PolicyAnswered
      <4>2. <<target[k], decision'[target[k]].version>> \in allowed'
        BY <2>1, <3>1, <4>1, PersistDecisionType DEF Permits
      <4> QED
        BY <1>1, <3>1, <3>2, <3>4, <4>2
    <3> QED
      BY <3>3, <3>4
  <2> QED
    BY <1>2, <1>6, <2>1 DEF PolicyAnswered
<1>7. CASE IssueCapability(k)
  <2>1. target[k] \in Claim /\ verdict[k] \in Decision
    BY <1>7 DEF IssueCapability
  <2>2. capability'[target[k]].status # "none"
    BY <1>7, <2>1, IssuedForType DEF IssueCapability
  <2>3. Proceed(k, "preState")
    BY <1>7 DEF IssueCapability
  <2> HIDE DEF Backed
  <2> QED
    BY <1>1, <2>1, <2>2, <2>3, ProceedBacked
<1>8. CASE PreStateAccepted(k)
  <2>1. target[k] \in Claim /\ Proceed(k, "reauthority")
    BY <1>8 DEF PreStateAccepted
  <2>2. capability'[target[k]].status # "none"
    BY <1>3, <1>8, <2>1 DEF PreStateAccepted
  <2> HIDE DEF Backed
  <2> QED
    BY <1>1, <2>1, <2>2, ProceedBacked
<1>9. CASE Consume(k)
  <2>1. target[k] \in Claim
    BY <1>9 DEF Consume
  <2>2. execution'[target[k]] # "none"
    BY <1>9, <2>1 DEF Consume, InsertExecution
  <2>3. capability'[target[k]].status # "none"
    BY <1>3, <1>9, <2>1 DEF Consume
  <2>4. CASE Proceed(k, "executor")
    <3> HIDE DEF Backed
    <3> QED
      BY <1>1, <2>1, <2>2, <2>3, <2>4, ProceedBacked
  <2> QED
    BY <1>2, <1>9, <2>4 DEF Consume, InvokeExecutor
<1>10. CASE ConsumeExisting(k)
  <2>1. target[k] \in Claim
    BY <1>10 DEF ConsumeExisting
  <2>2. execution'[target[k]] # "none"
    BY <1>3, <1>10, <2>1 DEF ConsumeExisting
  <2>3. capability'[target[k]].status # "none"
    BY <1>3, <1>10, <2>1 DEF ConsumeExisting
  <2>4. CASE Proceed(k, "executor")
    <3> HIDE DEF Backed
    <3> QED
      BY <1>1, <2>1, <2>2, <2>3, <2>4, ProceedBacked
  <2> QED
    BY <1>2, <1>10, <2>4 DEF ConsumeExisting, InvokeExecutor
<1> HIDE DEF Backed, StagesBacked, IInv, TypeOK, At
<1> QED
  BY <1>2, <1>4, <1>4a, <1>5, <1>6, <1>7, <1>8, <1>9, <1>10
     DEF CallStep, ReturnExisting, RefuseClaim, ProfileRefused, AuthorityRejected,
         AdmissionDenied, IssueRefused, HandlerMissing, PreStateRejected,
         ReauthorityRejected, ConsumeRefused, CapabilityExpired,
         ExecutorAnswered

\* No step outside the calls takes away what a call relies on.
LEMMA WorldBacked ==
  ASSUME IInv, TypeOK', OtherStep \/ CrashStep
  PROVE  StagesBacked'
<1>1. /\ allowed \subseteq allowed'
      /\ \A c \in Claim : Fate(c)
  BY WorldFate
<1> SUFFICES ASSUME NEW k \in Call PROVE Backed(k)'
  BY DEF StagesBacked, Backed
<1>2. CASE UNCHANGED locals
  BY <1>1, <1>2, FateKeepsCall DEF locals, Backed
<1>3. CASE LoseProcess
  BY <1>3 DEF LoseProcess, Backed, IInv, TypeOK
<1> QED
  BY <1>2, <1>3
     DEF OtherStep, CrashStep, OutcomeAttested, HoldReleased, SignalIngested,
         ClaimExpires, FitnessExpires, AuthorityExpires, Crash, CrashInSignal,
         CrashInAttestation, Restart

\* An allowed decision goes on record with its row.
LEMMA Recorded ==
  ASSUME IInv, Next
  PROVE  DecisionRecorded'
<1> USE DEF IInv, TypeOK, At, DecisionRecorded, records
<1>1. CASE UNCHANGED records
  BY <1>1
<1>2. ASSUME NEW c \in Claim, NEW status \in DecisionStatus,
             PersistDecision(c, status)
      PROVE  DecisionRecorded'
  <2>1. /\ allowed \subseteq allowed'
        /\ decision'[c].status = "allowed" =>
             <<c, decision'[c].version>> \in allowed'
        /\ \A d \in Claim \ {c} : decision'[d] = decision[d]
    BY <1>2, PersistDecisionType
  <2> QED
    BY <2>1
<1>3. ASSUME NEW k \in Call, NEW c \in Claim, RefuseClaim(k, c)
      PROVE  DecisionRecorded'
  BY <1>2, <1>3 DEF RefuseClaim
<1>4. ASSUME NEW k \in Call,
             ProfileRefused(k) \/ AuthorityRejected(k) \/ AdmissionDenied(k)
      PROVE  DecisionRecorded'
  BY <1>2, <1>4, InFlight
     DEF ProfileRefused, AuthorityRejected, AdmissionDenied
<1>5. ASSUME NEW k \in Call, NEW status \in DecisionStatus,
             NEW same \in BOOLEAN, PolicyAnswered(k, status, same)
      PROVE  DecisionRecorded'
  <2>1. target[k] \in Claim
    BY <1>5, InFlight DEF PolicyAnswered
  <2>2. UNCHANGED records \/ PersistDecision(target[k], status)
    BY <1>5 DEF PolicyAnswered
  <2> QED
    BY <1>1, <1>2, <2>1, <2>2
<1> HIDE DEF IInv, TypeOK, At, DecisionRecorded, records
<1> QED
  BY <1>1, <1>3, <1>4, <1>5
     DEF Next, CallStep, OtherStep, CrashStep, ReturnExisting, Begin,
         AskAuthority, Admitted, IssueRefused, IssueCapability, HandlerMissing,
         PreStateRejected, PreStateAccepted, ReauthorityRejected, Consume,
         ConsumeExisting, ConsumeRefused, CapabilityExpired, ExecutorAnswered,
         OutcomeAttested, HoldReleased, SignalIngested, ClaimExpires,
         FitnessExpires, AuthorityExpires, Crash, CrashInSignal,
         CrashInAttestation, Restart

\* The invariant holds in the initial states and every step keeps it.
LEMMA InvInit == Init => IInv
BY ConstantsAssumption, TypeInit
   DEF Init, IInv, DecisionRecorded, StagesBacked,
       CapabilityAllowed, ExecutionConsumesCapability,
       IntentBeforeConnector

\* Every step, stuttering included, keeps the invariant.
LEMMA InvStep == IInv /\ [Next]_vars => IInv'
<1> SUFFICES ASSUME IInv, [Next]_vars PROVE IInv'
  OBVIOUS
<1>1. ASSUME NEW k \in Call, CallStep(k) PROVE IInv'
  <2>1. TypeOK'
    BY <1>1, TypeCallStep DEF IInv
  <2> QED
    BY <1>1, <2>1, CallFate, FateKeepsTables, CallBacked, Recorded DEF IInv, Next
<1>2. CASE OtherStep \/ CrashStep
  <2>1. TypeOK'
    BY <1>2, TypeOtherStep, TypeCrashStep DEF IInv
  <2>2. DecisionRecorded'
    BY <1>2, Recorded DEF Next
  <2> QED
    BY <1>2, <2>1, <2>2, WorldFate, FateKeepsTables, WorldBacked DEF IInv
<1>3. CASE UNCHANGED vars
  BY <1>3
     DEF vars, IInv, TypeOK, DecisionRecorded, StagesBacked,
         CapabilityAllowed, ExecutionConsumesCapability,
         IntentBeforeConnector
<1> QED
  BY <1>1, <1>2, <1>3 DEF Next

\* Hence it holds throughout every behaviour.
LEMMA InvAlways == Spec => []IInv
BY InvInit, InvStep, PTL DEF Spec

-----------------------------------------------------------------------------
(* The theorems.                                                            *)

\* The variables keep their types in every reachable state.
THEOREM TypeCorrect == Spec => []TypeOK
BY InvAlways, PTL DEF IInv

\* However calls race and wherever the process crashes, a capability is
\* consumed exactly when its claim has an execution.
THEOREM ExecutionNeedsCapability == Spec => []ExecutionConsumesCapability
BY InvAlways, PTL DEF IInv

\* No connector is called for a claim before its execution row is on disk.
THEOREM IntentPrecedesConnector == Spec => []IntentBeforeConnector
BY InvAlways, PTL DEF IInv

\* What a call in flight relies on is not taken away by the others.
THEOREM CallsBacked == Spec => []StagesBacked
BY InvAlways, PTL DEF IInv

\* An execution starts only on authority and data fitness that hold now.
THEOREM StartsRevalidated == Spec => StartRevalidated
<1> DEFINE Started(c) == execution[c] = "none" /\ execution'[c] # "none"
           Valid(c) == /\ live[c]
                       /\ c \in authority'
                       /\ c \in DataClaim => fitness[FitnessOf[c]] = "allowed"
<1>1. ASSUME IInv, [Next]_vars PROVE \A c \in Claim : Started(c) => Valid(c)
  <2> SUFFICES ASSUME NEW c \in Claim, Started(c) PROVE Valid(c)
    OBVIOUS
  <2>1. ASSUME NEW k \in Call, Consume(k) PROVE Valid(c)
    <3>1. target[k] \in Claim
      BY <1>1, <2>1, InFlight DEF Consume, At, IInv
    <3>2. target[k] = c
      BY <1>1, <2>1, <3>1 DEF Consume, InsertExecution, IInv, TypeOK
    <3> QED
      BY <2>1, <3>2 DEF Consume, Consumable, DataGovernanceValid
  <2>2. ASSUME NEW k \in Call, CallStep(k), ~Consume(k) PROVE FALSE
    <3>1. ASSUME NEW status \in ReceiptStatus, NEW receipt \in BOOLEAN,
                 ExecutorAnswered(k, status, receipt)
          PROVE  FALSE
      <4>1. target[k] \in Claim /\ execution[target[k]] # "none"
        BY <1>1, <3>1, InFlight DEF ExecutorAnswered, At, IInv, StagesBacked
      <4> QED
        BY <1>1, <3>1, <4>1 DEF ExecutorAnswered, IInv, TypeOK
    <3>2. UNCHANGED execution
      BY <2>2, <3>1
         DEF CallStep, rows, ReturnExisting, RefuseClaim, Begin, ProfileRefused,
             AskAuthority, AuthorityRejected, AdmissionDenied, Admitted, PolicyAnswered,
             IssueRefused, IssueCapability, HandlerMissing, PreStateRejected,
             PreStateAccepted, ReauthorityRejected, ConsumeExisting,
             ConsumeRefused, CapabilityExpired
    <3> QED
      BY <3>2
  <2>3. CASE OtherStep \/ CrashStep
    <3> USE DEF rows
    <3>1. ASSUME NEW d \in Claim, NEW holds \in BOOLEAN,
                 OutcomeAttested(d, holds)
          PROVE  FALSE
      BY <1>1, <3>1 DEF OutcomeAttested, IInv, TypeOK
    <3>2. ASSUME NEW old \in SUBSET {d \in Claim : execution[d] = "executing"},
                 NEW opened \in SUBSET old, NEW done \in SUBSET opened,
                 Restart(old, done, opened)
          PROVE  FALSE
      BY <1>1, <3>2 DEF Restart, IInv, TypeOK
    <3> QED
      BY <2>3, <3>1, <3>2
         DEF OtherStep, CrashStep, HoldReleased, SignalIngested, ClaimExpires,
             FitnessExpires, AuthorityExpires, Crash, CrashInSignal,
             CrashInAttestation
  <2> QED
    BY <1>1, <2>1, <2>2, <2>3 DEF Next, vars
<1> QED
  BY <1>1, InvAlways, PTL DEF Spec, StartRevalidated

\* The runtime, crashes included, implements the one-time capability.
THEOREM CapabilityContract == Spec => ImplementsOneTimeCapability
<1>1. ASSUME Init PROVE Contract!Init
  <2>1. \A c \in Claim :
          /\ (execution[c] # "none") = FALSE
          /\ (dispatched[c] > 0) = FALSE
    BY <1>1 DEF Init
  <2>2. [c \in Claim |-> execution[c] # "none"] = [c \in Claim |-> FALSE]
    BY <2>1, Zenon
  <2>3. [c \in Claim |-> dispatched[c] > 0] = [c \in Claim |-> FALSE]
    BY <2>1, Zenon
  <2>4. [c \in Claim |-> [status |-> GrantStatus(capability[c].status),
                          decision |-> capability[c].decision]]
          = [c \in Claim |-> [status |-> "none", decision |-> 0]]
    BY <1>1 DEF Init, GrantStatus
  <2>5. allowed = {}
    BY <1>1 DEF Init
  <2> QED
    BY <2>2, <2>3, <2>4, <2>5, Zenon DEF Contract!Init
<1>2. ASSUME IInv, IInv', [Next]_vars PROVE [Contract!Next]_(Contract!vars)
  <2>1. CASE UNCHANGED vars
    BY <2>1 DEF vars, Contract!vars
  <2>2. CASE Next
    <3>1. allowed \subseteq allowed' /\ \A c \in Claim : Fate(c)
      BY <1>2, <2>2, CallFate, WorldFate DEF Next
    <3>2. ASSUME NEW c \in Claim
          PROVE  \/ Contract!Rest(c)
                 \/ Contract!Issue(c)
                 \/ Contract!Withdraw(c)
                 \/ Contract!Start(c)
                 \/ Contract!Use(c)
      <4> USE <1>2 DEF GrantStatus, IInv, TypeOK
      <4>1. CASE Kept(c)
        BY <4>1 DEF Kept, Contract!Rest
      <4>2. CASE Granted(c)
        BY <4>2 DEF Granted, Contract!Issue
      <4>3. CASE Withdrawn(c)
        BY <4>3 DEF Withdrawn, Contract!Withdraw, Contract!Rest
      <4>4. CASE Spent(c)
        BY <4>4 DEF Spent, Contract!Start
      <4>5. CASE Dispatched(c)
        <5>1. dispatched'[c] > 0
          BY <4>5 DEF Dispatched
        <5>2. /\ execution[c] # "none"
              /\ execution'[c] # "none"
              /\ capability'[c] = capability[c]
          BY <4>5 DEF Dispatched
        <5> HIDE <1>2 DEF GrantStatus, IInv, TypeOK
        <5> QED
          BY <5>1, <5>2, Zenon DEF Contract!Use
      <4> QED
        BY <3>1, <4>1, <4>2, <4>3, <4>4, <4>5 DEF Fate
    <3> QED
      BY <3>1, <3>2 DEF Contract!Next
  <2> QED
    BY <1>2, <2>1, <2>2
<1> QED
  BY <1>1, <1>2, InvAlways, PTL
     DEF Spec, ImplementsOneTimeCapability, Contract!Spec

\* Without a crash, a signal leaves nothing to consume that rests on the
\* decision it invalidates.
THEOREM SignalsWithdraw == UpSpec => []SignalWithdrawsCapabilities
<1>1. Init => SignalWithdrawsCapabilities
  BY ConstantsAssumption DEF Init, SignalWithdrawsCapabilities
<1>2. ASSUME IInv, SignalWithdrawsCapabilities, [UpNext]_vars
      PROVE  SignalWithdrawsCapabilities'
  <2> SUFFICES ASSUME NEW c \in DataClaim,
                      fitness'[FitnessOf[c]] = "invalidated"
               PROVE  capability'[c].status # "issued"
    BY DEF SignalWithdrawsCapabilities
  <2>1. c \in Claim /\ FitnessOf[c] \in Fitness
    BY ConstantsAssumption
  <2>2. CASE fitness[FitnessOf[c]] = "invalidated"
    <3>1. capability[c].status # "issued"
      BY <1>2, <2>2 DEF SignalWithdrawsCapabilities
    <3>2. ASSUME NEW k \in Call, CallStep(k), Granted(c) PROVE FALSE
      <4>1. ASSUME UNCHANGED capability PROVE FALSE
        BY <3>2, <4>1 DEF Granted
      <4>2. CASE PreStateRejected(k) \/ ReauthorityRejected(k)
        <5>1. capability[target[k]].status # "none" /\ target[k] \in Claim
          BY <1>2, <4>2, InFlight
             DEF PreStateRejected, ReauthorityRejected, At, IInv, StagesBacked
        <5> QED
          BY <1>2, <2>1, <3>2, <4>2, <5>1
             DEF PreStateRejected, ReauthorityRejected, Granted, IInv, TypeOK
      <4>3. CASE Consume(k) \/ CapabilityExpired(k)
        BY <1>2, <2>1, <3>2, <4>3
           DEF Consume, CapabilityExpired, Consumable, Granted, IInv, TypeOK
      <4>4. CASE IssueCapability(k) \/ HandlerMissing(k)
        BY <1>2, <2>1, <2>2, <3>2, <4>4
           DEF IssueCapability, HandlerMissing, CanIssue, DataGovernanceValid,
               Granted, IInv, TypeOK
      <4> QED
        BY <3>2, <4>1, <4>2, <4>3, <4>4
           DEF CallStep, rows, ReturnExisting, RefuseClaim, Begin,
               ProfileRefused, AskAuthority, AuthorityRejected, AdmissionDenied, Admitted, PolicyAnswered,
               IssueRefused, PreStateAccepted, ConsumeExisting, ConsumeRefused,
               ExecutorAnswered
    <3>3. ASSUME NEW k \in Call, CallStep(k)
          PROVE  capability'[c].status # "issued"
      BY <1>2, <2>1, <3>1, <3>2, <3>3, CallFate
         DEF Fate, Kept, Withdrawn, Spent, Dispatched
    <3>4. CASE OtherStep
      <4>1. ASSUME NEW f \in Fitness, SignalIngested(f)
            PROVE  capability'[c].status # "issued"
        BY <2>1, <3>1, <4>1 DEF SignalIngested, RevokeBoundTo, RevokeEach, BoundTo
      <4> QED
        BY <3>1, <3>4, <4>1
           DEF OtherStep, rows, OutcomeAttested, HoldReleased, ClaimExpires,
               FitnessExpires, AuthorityExpires
    <3> QED
      BY <1>2, <3>1, <3>3, <3>4 DEF UpNext, vars
  <2>3. CASE fitness[FitnessOf[c]] # "invalidated"
    <3>1. SignalIngested(FitnessOf[c])
      <4>1. ASSUME NEW f \in Fitness, SignalIngested(f) \/ FitnessExpires(f)
            PROVE  SignalIngested(FitnessOf[c])
        BY <1>2, <2>1, <2>3, <4>1
           DEF SignalIngested, FitnessExpires, IInv, TypeOK
      <4>2. CASE UNCHANGED fitness
        BY <2>3, <4>2
      <4>3. ASSUME NEW k \in Call, CallStep(k)
            PROVE  UNCHANGED fitness
        BY <4>3
           DEF world, CallStep, ReturnExisting, RefuseClaim,
               Begin, ProfileRefused, AskAuthority, AuthorityRejected, AdmissionDenied, Admitted,
               PolicyAnswered, IssueRefused, IssueCapability, HandlerMissing,
               PreStateRejected, PreStateAccepted, ReauthorityRejected,
               Consume, ConsumeExisting, ConsumeRefused, CapabilityExpired,
               ExecutorAnswered
      <4>4. CASE OtherStep
        BY <4>1, <4>2, <4>4
           DEF OtherStep, world, OutcomeAttested, HoldReleased, ClaimExpires,
               AuthorityExpires
      <4>5. CASE UNCHANGED vars
        BY <4>2, <4>5 DEF vars
      <4> QED
        BY <1>2, <4>2, <4>3, <4>4, <4>5 DEF UpNext
    <3>2. CASE capability[c].status = "issued"
      <4>1. capability'[c] = Revoked(capability[c])
        BY <2>1, <3>1, <3>2 DEF SignalIngested, RevokeBoundTo, RevokeEach, BoundTo
      <4> QED
        BY <3>2, <4>1, <1>2, <2>1, RevokedType DEF IInv, TypeOK
    <3>3. CASE capability[c].status # "issued"
      BY <2>1, <3>1, <3>3 DEF SignalIngested, RevokeBoundTo, RevokeEach, BoundTo
    <3> QED
      BY <3>2, <3>3
  <2> QED
    BY <2>2, <2>3
<1>3. [UpNext]_vars => [Next]_vars
  BY DEF UpNext, Next
<1> QED
  BY <1>1, <1>2, <1>3, InvInit, InvStep, PTL DEF UpSpec
=============================================================================
