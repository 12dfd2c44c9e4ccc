---------------------------- MODULE DataAssurance ----------------------------
(***************************************************************************)
(* From imported evidence to a disclosure receipt (palo-mcp-server:        *)
(* core.js, data-assurance.js), for one tenant and one purpose: evidence   *)
(* references are imported, a Data Fitness Decision is made of those that  *)
(* are current, a signed Data Disclosure Contract is registered for the    *)
(* decision, an execution starts under both, and its disclosure            *)
(* observation is held against the contract.  Assurance signals invalidate *)
(* decisions and time passes in between.  Every operation runs without an  *)
(* await.  The execution itself is the subject of GovernedExecution.       *)
(***************************************************************************)
EXTENDS Integers, FiniteSetsExt

CONSTANTS
  Subject,
  EvidenceId,    \* evidence references there may be
  Content,       \* what a reference may say
  Policies,      \* the versions of the Data Fitness Policy, in order
  Decision, Contract, Execution,  \* numbers of them, 1..n
  LastDay,       \* time stops at this instant
  Tolerance      \* what a stamp of somebody else's clock may be ahead or behind

EvidenceContent(e) ==
  /\ e.subject \in Subject
  /\ e.type \in {"quality", "incident"}
  /\ e.claim \in {"met", "unmet", "silent"}  \* what it asserts of the requirements
  /\ e.observedAt \in Nat /\ e.validUntil \in Nat /\ e.observedAt < e.validUntil

NoLimit == -1
FitnessPolicy(p) ==
  /\ p.required \subseteq {"quality", "incident"}
  /\ p.maxAge \in Nat \cup {NoLimit}
  /\ p.onMissing \in {"denied", "review_required"}

ASSUME DataAssumption ==
  /\ IsFiniteSet(Content) /\ \A e \in Content : EvidenceContent(e)
  /\ \A v \in DOMAIN Policies : FitnessPolicy(Policies[v])
  /\ DOMAIN Policies \subseteq Nat \ {0}
  /\ Decision \subseteq Nat /\ Contract \subseteq Nat /\ Execution \subseteq Nat
  /\ LastDay \in Nat /\ Tolerance \in Nat

VARIABLES
  daNow,
  daEvidence,   \* table external_evidence
  daPolicy,     \* the current version, 0 for none
  daDecision,   \* table fitness_decisions
  daContract,   \* table disclosure_contracts
  daExecution,  \* executions under a contract, with their disclosure receipt
  daSignalled   \* history: when the last signal for a subject came

daVars == <<daNow, daEvidence, daPolicy, daDecision, daContract, daExecution, daSignalled>>

Day == 0..LastDay
Stamp == 0..(LastDay + Tolerance)
NotStored == [status |-> "not-stored"]
Expiry == 0..Max({0, LastDay} \cup {e.validUntil : e \in Content})
DecisionRow ==
  [status : {"allowed", "denied", "review_required"}, subject : Subject, decidedAt : Day,
   expiresAt : Expiry, policy : DOMAIN Policies, basis : SUBSET Content,
   invalidated : BOOLEAN]
ContractRow == [status : {"active"}, decision : Decision, issuedAt : Stamp, expiresAt : Expiry]
ExecutionRow == [status : {"started", "verified", "mismatch", "inconclusive"},
                 contract : Contract, startedAt : Day, observedAt : Stamp]

DataTypeOK ==
  /\ daNow \in Day
  /\ daEvidence \in [EvidenceId -> Content \cup {NotStored}]
  /\ daPolicy \in DOMAIN Policies \cup {0}
  /\ \A d \in Decision : daDecision[d] \in DecisionRow \cup {NotStored}
  /\ \A c \in Contract : daContract[c] \in ContractRow \cup {NotStored}
  /\ \A x \in Execution : daExecution[x] \in ExecutionRow \cup {NotStored}
  /\ daSignalled \in [Subject -> Day \cup {-1}]

DataInit ==
  /\ daNow = 0
  /\ daEvidence = [i \in EvidenceId |-> NotStored]
  /\ daPolicy = 0
  /\ daDecision = [d \in Decision |-> NotStored]
  /\ daContract = [c \in Contract |-> NotStored]
  /\ daExecution = [x \in Execution |-> NotStored]
  /\ daSignalled = [s \in Subject |-> -1]

\* The identifiers are drawn at random; here they are given out in order.
NextOf(table, n) ==
  /\ table[n] = NotStored
  /\ \A m \in DOMAIN table : m < n => table[m] # NotStored
-----------------------------------------------------------------------------
(* Evidence and policy *)

\* A reference that is stored is returned if it says the same, or refused.  The
\* source may have observed it up to Tolerance ahead of this server's clock; its
\* importedAt (core.js:468, 469) can always be chosen so that it is not what refuses it.
RegisterExternalEvidence(i, e) ==
  /\ daEvidence[i] = NotStored
  /\ e.observedAt <= daNow + Tolerance
  /\ daEvidence' = [daEvidence EXCEPT ![i] = e]
  /\ UNCHANGED <<daNow, daPolicy, daDecision, daContract, daExecution, daSignalled>>

RegisterDataFitnessPolicy(v) ==
  /\ v > daPolicy
  /\ daPolicy' = v
  /\ UNCHANGED <<daNow, daEvidence, daDecision, daContract, daExecution, daSignalled>>
-----------------------------------------------------------------------------
(* evaluateDataFitnessPolicy *)

Usable(s) ==
  {e \in {daEvidence[i] : i \in EvidenceId} \ {NotStored} :
     e.subject = s /\ e.validUntil > daNow}

Ages(basis) == {daNow - e.observedAt : e \in basis}

\* The results of the checks: required evidence, the age of the oldest
\* reference, and what the references assert.
Checks(p, basis) ==
  LET asserted == {e.claim : e \in basis} \ {"silent"}
      types == {e.type : e \in basis} IN
  {IF t \in types THEN "pass" ELSE "unknown" : t \in p.required}
  \cup (IF p.maxAge = NoLimit THEN {}
        ELSE IF basis = {} THEN {"unknown"}
        ELSE IF Max({0} \cup Ages(basis)) <= p.maxAge THEN {"pass"} ELSE {"fail"})
  \cup (IF asserted = {} THEN {"unknown"}
        ELSE IF asserted = {"met"} THEN {"pass"} ELSE {"fail"})

FitnessStatus(p, basis) ==
  IF "fail" \in Checks(p, basis) THEN "denied"
  ELSE IF "unknown" \in Checks(p, basis) THEN p.onMissing ELSE "allowed"

\* A mutation: a decision lasts as long as the evidence is valid, whatever its age.
ValidityAlone(p, basis) ==
  IF basis = {} THEN daNow ELSE Min({e.validUntil : e \in basis})

FitnessExpiry(p, basis) ==
  IF basis = {} THEN daNow
  ELSE Min({e.validUntil : e \in basis}
           \cup {e.observedAt + p.maxAge : e \in IF p.maxAge = NoLimit THEN {} ELSE basis})

\* Under the policy that is current.
EvaluateDataFitness(d, s) ==
  LET p == Policies[daPolicy]
      basis == Usable(s) IN
  /\ NextOf(daDecision, d)
  /\ daPolicy # 0
  /\ daDecision' = [daDecision EXCEPT ![d] =
       [status |-> FitnessStatus(p, basis), subject |-> s, decidedAt |-> daNow,
        expiresAt |-> FitnessExpiry(p, basis), policy |-> daPolicy, basis |-> basis,
        invalidated |-> FALSE]]
  /\ UNCHANGED <<daNow, daEvidence, daPolicy, daContract, daExecution, daSignalled>>
-----------------------------------------------------------------------------
(* Contracts, signals and executions *)

CurrentlyAllowed(d) ==
  /\ daDecision[d] # NotStored
  /\ daDecision[d].status = "allowed"
  /\ ~daDecision[d].invalidated
  /\ daDecision[d].expiresAt > daNow

RegisterDisclosureContract(c, d, issued, expires) ==
  /\ daContract[c] = NotStored
  /\ CurrentlyAllowed(d)
  /\ daDecision[d].decidedAt <= issued + Tolerance /\ issued <= daNow + Tolerance
  /\ issued < expires /\ daNow < expires /\ expires <= daDecision[d].expiresAt
  /\ daContract' = [daContract EXCEPT ![c] =
       [status |-> "active", decision |-> d, issuedAt |-> issued, expiresAt |-> expires]]
  /\ UNCHANGED <<daNow, daEvidence, daPolicy, daDecision, daExecution, daSignalled>>

\* The transaction of ingestAssuranceSignal.  The capabilities it goes on to
\* revoke are in GovernedExecution.
IngestAssuranceSignal(s) ==
  /\ daDecision' = [d \in Decision |->
       LET row == daDecision[d] IN
       IF row # NotStored /\ row.status = "allowed" /\ row.subject = s
       THEN [row EXCEPT !.invalidated = TRUE] ELSE row]
  /\ daSignalled' = [daSignalled EXCEPT ![s] = daNow]
  /\ UNCHANGED <<daNow, daEvidence, daPolicy, daContract, daExecution>>

\* validateDataGovernanceBinding
BindingAllowed(c) ==
  /\ daContract[c] # NotStored
  /\ CurrentlyAllowed(daContract[c].decision)
  /\ daContract[c].issuedAt <= daNow + Tolerance /\ daContract[c].expiresAt > daNow

\* consumeCapabilityAndCreateExecution
StartExecution(x, c) ==
  /\ daExecution[x] = NotStored
  /\ BindingAllowed(c)
  /\ daExecution' = [daExecution EXCEPT ![x] =
       [status |-> "started", contract |-> c, startedAt |-> daNow, observedAt |-> daNow]]
  /\ UNCHANGED <<daNow, daEvidence, daPolicy, daDecision, daContract, daSignalled>>

\* evaluateDataDisclosureContract: both windows, and what was disclosed (inScope).
InContract(x, observed, inScope) ==
  LET contract == daContract[daExecution[x].contract] IN
  /\ inScope
  /\ contract.issuedAt <= observed /\ observed <= contract.expiresAt
  /\ contract.issuedAt <= daNow /\ daNow <= contract.expiresAt
  /\ daExecution[x].startedAt <= observed /\ observed <= daNow + Tolerance

\* createDisclosureReceipt, of an observation or of an answer without one.
CreateDisclosureReceipt(x, observed, inScope) ==
  /\ daExecution[x] # NotStored /\ daExecution[x].status = "started"
  /\ daExecution' = [daExecution EXCEPT ![x].observedAt = observed, ![x].status =
       IF InContract(x, observed, inScope) THEN "verified" ELSE "mismatch"]
  /\ UNCHANGED <<daNow, daEvidence, daPolicy, daDecision, daContract, daSignalled>>

ObservationMissing(x) ==
  /\ daExecution[x] # NotStored /\ daExecution[x].status = "started"
  /\ daExecution' = [daExecution EXCEPT ![x].status = "inconclusive"]
  /\ UNCHANGED <<daNow, daEvidence, daPolicy, daDecision, daContract, daSignalled>>

DayPasses == daNow < LastDay /\ daNow' = daNow + 1
             /\ UNCHANGED <<daEvidence, daPolicy, daDecision, daContract, daExecution,
                            daSignalled>>

DataNext ==
  \/ \E i \in EvidenceId, e \in Content : RegisterExternalEvidence(i, e)
  \/ \E v \in DOMAIN Policies : RegisterDataFitnessPolicy(v)
  \/ \E d \in Decision, s \in Subject : EvaluateDataFitness(d, s)
  \/ \E c \in Contract, d \in Decision, issued \in Stamp, expires \in Expiry :
       RegisterDisclosureContract(c, d, issued, expires)
  \/ \E s \in Subject : IngestAssuranceSignal(s)
  \/ \E x \in Execution, c \in Contract : StartExecution(x, c)
  \/ \E x \in Execution, observed \in Stamp, inScope \in BOOLEAN :
       CreateDisclosureReceipt(x, observed, inScope)
  \/ \E x \in Execution : ObservationMissing(x)
  \/ DayPasses

DataSpec == DataInit /\ [][DataNext]_daVars
-----------------------------------------------------------------------------
(* Properties *)

\* What a started execution relies on was fit when it started: the evidence
\* behind its contract met the policy, was current and not too old, was observed
\* no more than Tolerance ahead of the start, and no signal for the subject had
\* come since the decision, which was made before.  A verified disclosure
\* was observed before any of the evidence ran out ("Signed disclosure
\* contracts and observations must remain inside the bound fitness and contract
\* time windows", palo-mcp-server/README.md:64).
DisclosureUnderFitness ==
  \A x \in Execution : daExecution[x] # NotStored =>
    LET run == daExecution[x]
        decision == daDecision[daContract[run.contract].decision]
        maxAge == Policies[decision.policy].maxAge IN
    /\ \A e \in decision.basis :
         /\ e.claim # "unmet"
         /\ e.observedAt <= run.startedAt + Tolerance /\ run.startedAt < e.validUntil
         /\ maxAge # NoLimit => run.startedAt - e.observedAt <= maxAge
    /\ decision.decidedAt <= run.startedAt
    /\ decision.invalidated => run.startedAt <= daSignalled[decision.subject]
    /\ run.status = "verified" =>
         \A e \in decision.basis : run.observedAt <= e.validUntil
=============================================================================
