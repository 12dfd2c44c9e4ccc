-------------------------- MODULE GovernedExecution --------------------------
(***************************************************************************)
(* The governed execution of Action Claims by the GovernanceRuntime of     *)
(* packages/palo-mcp-server/core.js: executeGovernedAction with the        *)
(* verifyAction, issueExecutionCapability, revokeExecutionCapability and   *)
(* consumeCapabilityAndCreateExecution it calls, and ingestAssuranceSignal *)
(* which withdraws what those handlers rely on.                            *)
(*                                                                         *)
(* One Node.js process serves every call and SQLite is synchronous, so     *)
(* calls interleave exactly at an await.  Each action below is the code    *)
(* between two awaits of one call.  The tables survive a crash, the calls  *)
(* in flight and the authorityVerifications map do not.                    *)
(*                                                                         *)
(* Claims are schemaVersion 1.3.0 or 1.4.0 (DataClaim): their authority is *)
(* verified cryptographically.  All calls name the same executor and       *)
(* verifier.  What an external party answers (authority verifier, policy   *)
(* evaluator, state verifier, executor) is any answer it can give.  The    *)
(* replay ledger, approvals and outcome attestation belong to other        *)
(* components: here they appear by what they do to these tables.           *)
(***************************************************************************)
EXTENDS Naturals, FiniteSets

CONSTANTS
  Claim,       \* Action Claims of one agent, each with its own claimId
  DataClaim,   \* those bound to a Data Fitness Decision (schemaVersion 1.4.0)
  Fitness,     \* Data Fitness Decisions
  FitnessOf,   \* the Data Fitness Decision each claim is bound to
  Resource,    \* resource keys (tenant:resource:path)
  ResourceOf,  \* the resource key of each claim
  Call,        \* invocations of executeGovernedAction
  NoClaim,     \* a call that works on no claim
  MaxActive    \* guardrails.maxConcurrentExecutionsPerAgent

ASSUME ConstantsAssumption ==
  /\ DataClaim \subseteq Claim
  /\ FitnessOf \in [Claim -> Fitness]
  /\ ResourceOf \in [Claim -> Resource]
  /\ NoClaim \notin Claim
  /\ MaxActive \in Nat \ {0}

VARIABLES
  live,        \* has the claim's expiresAt not passed yet?
  fitness,     \* state of each Data Fitness Decision
  decision,    \* table decisions: the last decision of each claim
  allowed,     \* every allowed decision ever persisted: its claim and version
  authority,   \* authorityVerifications: claims with a current verification
  capability,  \* table execution_capabilities
  execution,   \* table executions
  disclosed,   \* table disclosure_receipts: claims that have one
  held,        \* table resource_holds: keys with a hold that is not released
  dispatched,  \* external: how often the executor was called for each claim
  running,     \* is the process up?
  pc,          \* where each call awaits
  target,      \* the claim each call works on
  seen,        \* existingDecision, read when the call began
  verdict      \* the decision verifyAction returned to the call

rows == <<capability, execution, disclosed, held, dispatched>>
records == <<decision, allowed>>
world == <<live, fitness, running>>
locals == <<pc, target, seen, verdict>>
vars == <<live, fitness, decision, allowed, authority, capability,
          execution, disclosed, held, dispatched, running, pc, target, seen,
          verdict>>

DecisionStatus == {"allowed", "pending_approval", "denied"}
Decision == [version : Nat, status : DecisionStatus \cup {"none"}]
NoDecision == [version |-> 0, status |-> "none"]

CapabilityStatus == {"none", "issued", "consumed", "revoked", "expired"}
Capability == [status : CapabilityStatus, decision : Nat]
NoCapability == [status |-> "none", decision |-> 0]

\* "attested" stands for verified, mismatch and inconclusive.
ReceiptStatus == {"executed", "execution_failed", "execution_unknown"}
ExecutionStatus == {"none", "executing", "attested"} \cup ReceiptStatus
ActiveStatus == {"executing", "executed", "execution_unknown"}

Stage == {"idle", "profile", "authority", "policy", "issue", "preState", "reauthority",
          "executor", "done"}

TypeOK ==
  /\ live \in [Claim -> BOOLEAN]
  /\ fitness \in [Fitness -> {"allowed", "invalidated", "expired"}]
  /\ decision \in [Claim -> Decision]
  /\ allowed \subseteq Claim \X Nat
  /\ authority \subseteq Claim
  /\ capability \in [Claim -> Capability]
  /\ execution \in [Claim -> ExecutionStatus]
  /\ disclosed \subseteq Claim
  /\ held \subseteq Resource
  /\ dispatched \in [Claim -> Nat]
  /\ running \in BOOLEAN
  /\ pc \in [Call -> Stage]
  /\ target \in [Call -> Claim \cup {NoClaim}]
  /\ seen \in [Call -> Decision]
  /\ verdict \in [Call -> Decision]

Init ==
  /\ live = [c \in Claim |-> TRUE]
  /\ fitness = [f \in Fitness |-> "allowed"]
  /\ decision = [c \in Claim |-> NoDecision]
  /\ allowed = {}
  /\ authority = {}
  /\ capability = [c \in Claim |-> NoCapability]
  /\ execution = [c \in Claim |-> "none"]
  /\ disclosed = {}
  /\ held = {}
  /\ dispatched = [c \in Claim |-> 0]
  /\ running = TRUE
  /\ pc = [k \in Call |-> "idle"]
  /\ target = [k \in Call |-> NoClaim]
  /\ seen = [k \in Call |-> NoDecision]
  /\ verdict = [k \in Call |-> NoDecision]

-----------------------------------------------------------------------------
(* What the handlers share.                                                *)

\* validateDataGovernanceBinding: claims before 1.4.0 pass.
DataGovernanceValid(c) ==
  c \in DataClaim => fitness[FitnessOf[c]] = "allowed"

\* assertCurrentVerifiedAuthority
AuthorityCurrent(c) == live[c] /\ c \in authority

Active == {c \in Claim : execution[c] \in ActiveStatus}

\* persistDecision overwrites the claim's row.  The evidence it emits next is not
\* read here.
PersistDecision(c, status) ==
  /\ decision' = [decision EXCEPT
       ![c] = [version |-> @.version + 1, status |-> status]]
  /\ allowed' = IF status = "allowed"
                THEN allowed \cup {<<c, decision[c].version + 1>>} ELSE allowed

\* A mutation: the row of the claim is replaced.
Reissued(c, d) == [status |-> "issued", decision |-> d.version]

\* A row that exists for the claim is returned, whatever its status.
IssuedFor(c, d) ==
  IF capability[c].status = "none"
  THEN [status |-> "issued", decision |-> d.version]
  ELSE capability[c]

\* A mutation: the status is not looked at.
RevokedUnchecked(cap) == [cap EXCEPT !.status = "revoked"]

\* A mutation: the row loses its binding.
RevokedUnbound(cap) == [status |-> "revoked"]

\* revokeExecutionCapability; it throws, changing nothing, once consumed.
Revoked(cap) ==
  IF cap.status = "consumed" THEN cap ELSE [cap EXCEPT !.status = "revoked"]

\* The call returns or throws.
Finish(k) ==
  /\ pc' = [pc EXCEPT ![k] = "done"]
  /\ target' = [target EXCEPT ![k] = NoClaim]
  /\ seen' = [seen EXCEPT ![k] = NoDecision]
  /\ verdict' = [verdict EXCEPT ![k] = NoDecision]

Proceed(k, stage) ==
  /\ pc' = [pc EXCEPT ![k] = stage]
  /\ UNCHANGED <<target, seen, verdict>>

At(k, stage) == running /\ pc[k] = stage

-----------------------------------------------------------------------------
(* executeGovernedAction up to the authority verifier's answer.            *)

\* The claim was executed before: the call returns that execution.
ReturnExisting(k, c) ==
  /\ At(k, "idle")
  /\ execution[c] # "none"
  /\ Finish(k)
  /\ UNCHANGED <<world, records, authority, rows>>

\* The claim is not valid any more, or what the call brings is not what the
\* decision of that claimId was taken on.
RefuseClaim(k, c) ==
  /\ At(k, "idle")
  /\ execution[c] = "none"
  /\ ~live[c] \/ decision[c].status # "none"
  /\ PersistDecision(c, "denied")
  /\ Finish(k)
  /\ UNCHANGED <<world, authority, rows>>

\* verifyAction reads the claim's decision, then awaits the profile.
Begin(k, c) ==
  /\ At(k, "idle")
  /\ execution[c] = "none"
  /\ live[c]
  /\ pc' = [pc EXCEPT ![k] = "profile"]
  /\ target' = [target EXCEPT ![k] = c]
  /\ seen' = [seen EXCEPT ![k] = decision[c]]
  /\ UNCHANGED <<world, records, authority, verdict, rows>>

\* The profile, policy, argument schema or authority context registered for
\* the claim does not admit it.
ProfileRefused(k) ==
  /\ At(k, "profile")
  /\ PersistDecision(target[k], "denied")
  /\ Finish(k)
  /\ UNCHANGED <<world, authority, rows>>

\* verifyCryptographicAuthority forgets the last verification first.
AskAuthority(k) ==
  /\ At(k, "profile")
  /\ authority' = authority \ {target[k]}
  /\ Proceed(k, "authority")
  /\ UNCHANGED <<world, records, rows>>

AuthorityRejected(k) ==
  /\ At(k, "authority")
  /\ PersistDecision(target[k], "denied")
  /\ Finish(k)
  /\ UNCHANGED <<world, authority, rows>>

\* Authority holds, but the data governance binding does not, or a claim
\* without a decision exceeds a guardrail or replays a nonce, an idempotency
\* key or a sequence number.
AdmissionDenied(k) ==
  LET c == target[k] IN
  /\ At(k, "authority")
  /\ ~DataGovernanceValid(c) \/ seen[k].status = "none"
  /\ authority' = authority \cup {c}
  /\ PersistDecision(c, "denied")
  /\ Finish(k)
  /\ UNCHANGED <<world, rows>>

Admitted(k) ==
  LET c == target[k] IN
  /\ At(k, "authority")
  /\ DataGovernanceValid(c)
  /\ seen[k].status = "none" => Cardinality(Active) < MaxActive
  /\ authority' = authority \cup {c}
  /\ Proceed(k, "policy")
  /\ UNCHANGED <<world, records, rows>>

-----------------------------------------------------------------------------
(* The policy evaluator answers; then issueExecutionCapability.            *)

\* A mutation: work goes on while approval is pending.
PermitsPending(status) == status # "denied"

\* executeGovernedAction returns on any status but this one.
Permits(status) == status = "allowed"

\* A revalidation that agrees with the decision read at the start (`same`)
\* returns that decision, any other is persisted.
PolicyAnswered(k, status, same) ==
  LET c == target[k] IN
  /\ At(k, "policy")
  /\ same => seen[k].status = status
  /\ IF same
     THEN UNCHANGED records
     ELSE PersistDecision(c, status)
  /\ IF Permits(status)
     THEN /\ pc' = [pc EXCEPT ![k] = "issue"]
          /\ verdict' = [verdict EXCEPT
               ![k] = IF same THEN seen[k] ELSE decision'[c]]
          /\ UNCHANGED <<target, seen>>
     ELSE Finish(k)
  /\ UNCHANGED <<world, authority, rows>>

CanIssue(k) ==
  LET c == target[k] IN
  /\ AuthorityCurrent(c)
  /\ DataGovernanceValid(c)
  /\ ResourceOf[c] \notin held
  /\ \/ capability[c].status = "none"
     \/ capability[c].decision = verdict[k].version

\* Besides CanIssue, an adapter manifest may be missing or may not support
\* the tool or the resource.
IssueRefused(k) ==
  /\ At(k, "issue")
  /\ Finish(k)
  /\ UNCHANGED <<world, records, authority, rows>>

IssueCapability(k) ==
  LET c == target[k] IN
  /\ At(k, "issue")
  /\ CanIssue(k)
  /\ capability' = [capability EXCEPT ![c] = IssuedFor(c, verdict[k])]
  /\ Proceed(k, "preState")
  /\ UNCHANGED <<world, records, authority, execution, disclosed,
                 held, dispatched>>

\* The manifests are registered, the handler of one is not provisioned.
HandlerMissing(k) ==
  LET c == target[k] IN
  /\ At(k, "issue")
  /\ CanIssue(k)
  /\ capability' = [capability EXCEPT ![c] = Revoked(IssuedFor(c, verdict[k]))]
  /\ Finish(k)
  /\ UNCHANGED <<world, records, authority, execution, disclosed,
                 held, dispatched>>

-----------------------------------------------------------------------------
(* The state verifier answers; then the authority verifier, once more.     *)

\* No authoritative pre-state, or a precondition does not pass.
PreStateRejected(k) ==
  /\ At(k, "preState")
  /\ capability' = [capability EXCEPT ![target[k]] = Revoked(@)]
  /\ Finish(k)
  /\ UNCHANGED <<world, records, authority, execution, disclosed,
                 held, dispatched>>

PreStateAccepted(k) ==
  /\ At(k, "preState")
  /\ authority' = authority \ {target[k]}
  /\ Proceed(k, "reauthority")
  /\ UNCHANGED <<world, records, rows>>

ReauthorityRejected(k) ==
  /\ At(k, "reauthority")
  /\ capability' = [capability EXCEPT ![target[k]] = Revoked(@)]
  /\ Finish(k)
  /\ UNCHANGED <<world, records, authority, execution, disclosed,
                 held, dispatched>>

-----------------------------------------------------------------------------
(* Authority confirmed: consumeCapabilityAndCreateExecution, then the call *)
(* of the executor, up to its answer.                                      *)

\* A mutation: only the check of issueExecutionCapability remains.
ConsumableUnrevalidated(k) ==
  /\ live[target[k]]
  /\ capability[target[k]].status = "issued"

Consumable(k) ==
  LET c == target[k] IN
  /\ live[c]
  /\ DataGovernanceValid(c)
  /\ capability[c].status = "issued"
  /\ capability[c].decision = verdict[k].version

\* The executor runs, unless its manifest is no longer active.
InvokeExecutor(k) ==
  \/ /\ dispatched' = [dispatched EXCEPT ![target[k]] = @ + 1]
     /\ Proceed(k, "executor")
  \/ /\ Finish(k)
     /\ UNCHANGED dispatched

\* A mutation: the row is left to the end of the call.
NoExecutionRow(c) == UNCHANGED execution

InsertExecution(c) == execution' = [execution EXCEPT ![c] = "executing"]

Consume(k) ==
  LET c == target[k] IN
  /\ At(k, "reauthority")
  /\ execution[c] = "none"
  /\ Consumable(k)
  /\ authority' = authority \cup {c}
  /\ capability' = [capability EXCEPT ![c].status = "consumed"]
  /\ InsertExecution(c)
  /\ InvokeExecutor(k)
  /\ UNCHANGED <<world, records, disclosed, held>>

\* Another call created the claim's execution meanwhile: its row is taken
\* for the new one.
ConsumeExisting(k) ==
  LET c == target[k] IN
  /\ At(k, "reauthority")
  /\ execution[c] # "none"
  /\ authority' = authority \cup {c}
  /\ InvokeExecutor(k)
  /\ UNCHANGED <<world, records, capability, execution, disclosed,
                 held>>

\* The transaction throws.  The verification that has just been confirmed may be
\* over when it looks, or another call for the claim may have forgotten it.
ConsumeRefused(k) ==
  LET c == target[k] IN
  /\ At(k, "reauthority")
  /\ execution[c] = "none"
  /\ \/ ~Consumable(k) /\ authority' = authority \cup {c}
     \/ authority' = authority \ {c}
  /\ Finish(k)
  /\ UNCHANGED <<world, records, rows>>

\* The capability's own time to live is over; the claim's is not.
CapabilityExpired(k) ==
  LET c == target[k] IN
  /\ At(k, "reauthority")
  /\ execution[c] = "none"
  /\ Consumable(k)
  /\ authority' = authority \cup {c}
  /\ capability' = [capability EXCEPT ![c].status = "expired"]
  /\ Finish(k)
  /\ UNCHANGED <<world, records, execution, disclosed, held,
                 dispatched>>

\* The executor answers.  Without a disclosure receipt the outcome of a data
\* claim is unknown; a second receipt for the same execution breaks a
\* uniqueness constraint and the call throws, recording nothing.
ExecutorAnswered(k, status, receipt) ==
  LET c == target[k] IN
  /\ At(k, "executor")
  /\ receipt => c \in DataClaim
  /\ c \in DataClaim /\ ~receipt => status = "execution_unknown"
  /\ IF receipt /\ c \in disclosed
     THEN UNCHANGED <<execution, disclosed>>
     ELSE /\ execution' = [execution EXCEPT ![c] = status]
          /\ disclosed' = IF receipt THEN disclosed \cup {c} ELSE disclosed
  /\ Finish(k)
  /\ UNCHANGED <<world, records, authority, capability, held,
                 dispatched>>

-----------------------------------------------------------------------------
(* The other components, as far as they touch these tables.                *)

\* verifyOutcome, which may be asked again: an outcome that is not verified
\* opens an incident and holds the resource, unless the execution has its
\* incident already.
OutcomeAttested(c, holds) ==
  /\ running
  /\ execution[c] \in ReceiptStatus \cup {"attested"}
  /\ execution' = [execution EXCEPT ![c] = "attested"]
  /\ held' = IF holds THEN held \cup {ResourceOf[c]} ELSE held
  /\ UNCHANGED <<world, records, authority, capability, disclosed,
                 dispatched, locals>>

\* resolveIncident releases the hold.
HoldReleased(r) ==
  /\ running
  /\ r \in held
  /\ held' = held \ {r}
  /\ UNCHANGED <<world, records, authority, capability, execution,
                 disclosed, dispatched, locals>>

\* A mutation: the loop is forgotten.
RevokeNone(f) == capability

BoundTo(f) == {c \in DataClaim : FitnessOf[c] = f /\ capability[c].status = "issued"}

RevokeEach(claims) ==
  [c \in Claim |-> IF c \in claims THEN Revoked(capability[c]) ELSE capability[c]]

\* The loop of ingestAssuranceSignal over the issued capabilities.
RevokeBoundTo(f) == RevokeEach(BoundTo(f))

\* ingestAssuranceSignal: the transaction that invalidates the decision,
\* then the loop; no await between them.
SignalIngested(f) ==
  /\ running
  /\ fitness[f] = "allowed"
  /\ fitness' = [fitness EXCEPT ![f] = "invalidated"]
  /\ capability' = RevokeBoundTo(f)
  /\ UNCHANGED <<live, running, records, authority, execution,
                 disclosed, held, dispatched, locals>>

-----------------------------------------------------------------------------
(* Clocks, crash and restart.                                              *)

ClaimExpires(c) ==
  /\ live[c]
  /\ live' = [live EXCEPT ![c] = FALSE]
  /\ UNCHANGED <<fitness, running, records, authority, rows, locals>>

FitnessExpires(f) ==
  /\ fitness[f] = "allowed"
  /\ fitness' = [fitness EXCEPT ![f] = "expired"]
  /\ UNCHANGED <<live, running, records, authority, rows, locals>>

\* A verification has an expiry of its own, before the claim's.
AuthorityExpires(c) ==
  /\ c \in authority
  /\ authority' = authority \ {c}
  /\ UNCHANGED <<world, records, rows, locals>>

\* Calls in flight and the verifications in memory are lost.
LoseProcess ==
  LET lost == {k \in Call : pc[k] # "idle"} IN
  /\ running
  /\ running' = FALSE
  /\ authority' = {}
  /\ pc' = [k \in Call |-> IF k \in lost THEN "done" ELSE pc[k]]
  /\ target' = [k \in Call |-> NoClaim]
  /\ seen' = [k \in Call |-> NoDecision]
  /\ verdict' = [k \in Call |-> NoDecision]

Crash ==
  /\ LoseProcess
  /\ UNCHANGED <<live, fitness, records, rows>>

\* The process stops after the transaction of ingestAssuranceSignal, before or in
\* its loop: each revocation is a transaction of its own.
CrashInSignal(f, revoked) ==
  /\ LoseProcess
  /\ fitness[f] = "allowed"
  /\ fitness' = [fitness EXCEPT ![f] = "invalidated"]
  /\ capability' = RevokeEach(revoked)
  /\ UNCHANGED <<live, records, execution, disclosed, held, dispatched>>

\* The process stops in verifyOutcome, between the incident with its hold and
\* the attestation.
CrashInAttestation(c) ==
  /\ LoseProcess
  /\ execution[c] \in ReceiptStatus \cup {"attested"}
  /\ held' = held \cup {ResourceOf[c]}
  /\ UNCHANGED <<live, fitness, records, capability, execution, disclosed,
                 dispatched>>

\* recoverPendingExecutions, before the gateway serves: executions older
\* than PALO_EXECUTION_RECOVERY_AGE_MS become unknown, inconclusive, held, one
\* after the other.  The process may stop at the last of them, with its
\* incident opened or not.
Restart(old, done, opened) ==
  /\ ~running
  /\ Cardinality(old \ done) <= 1
  /\ running' = (done = old)
  /\ execution' = [c \in Claim |->
       IF c \in done THEN "attested"
       ELSE IF c \in old THEN "execution_unknown" ELSE execution[c]]
  /\ held' = held \cup {ResourceOf[c] : c \in opened}
  /\ UNCHANGED <<live, fitness, records, authority, capability,
                 disclosed, dispatched, locals>>

-----------------------------------------------------------------------------
CallStep(k) ==
  \/ \E c \in Claim : \/ ReturnExisting(k, c)
                      \/ RefuseClaim(k, c)
                      \/ Begin(k, c)
  \/ ProfileRefused(k)
  \/ AskAuthority(k)
  \/ AuthorityRejected(k)
  \/ AdmissionDenied(k)
  \/ Admitted(k)
  \/ \E status \in DecisionStatus, same \in BOOLEAN :
       PolicyAnswered(k, status, same)
  \/ IssueRefused(k)
  \/ IssueCapability(k)
  \/ HandlerMissing(k)
  \/ PreStateRejected(k)
  \/ PreStateAccepted(k)
  \/ ReauthorityRejected(k)
  \/ Consume(k)
  \/ ConsumeExisting(k)
  \/ ConsumeRefused(k)
  \/ CapabilityExpired(k)
  \/ \E status \in ReceiptStatus, receipt \in BOOLEAN :
       ExecutorAnswered(k, status, receipt)

OtherStep ==
  \/ \E c \in Claim, holds \in BOOLEAN : OutcomeAttested(c, holds)
  \/ \E r \in Resource : HoldReleased(r)
  \/ \E f \in Fitness : SignalIngested(f)
  \/ \E c \in Claim : ClaimExpires(c)
  \/ \E f \in Fitness : FitnessExpires(f)
  \/ \E c \in Claim : AuthorityExpires(c)

CrashStep ==
  \/ Crash
  \/ \E f \in Fitness : \E revoked \in SUBSET BoundTo(f) : CrashInSignal(f, revoked)
  \/ \E c \in Claim : CrashInAttestation(c)
  \/ \E old \in SUBSET {c \in Claim : execution[c] = "executing"} :
       \E opened \in SUBSET old : \E done \in SUBSET opened :
         Restart(old, done, opened)

Next == (\E k \in Call : CallStep(k)) \/ OtherStep \/ CrashStep

Spec == Init /\ [][Next]_vars

\* The runtime while its process stays up.
UpNext == (\E k \in Call : CallStep(k)) \/ OtherStep

UpSpec == Init /\ [][UpNext]_vars

-----------------------------------------------------------------------------
(* Properties.                                                             *)

\* The runtime implements the contract of a one-time capability: it is issued
\* once and for a decision that was allowed, what is revoked or expired is never
\* revived, what is consumed stays so, and no call of the executor goes without
\* the execution that consumed it.
GrantStatus(status) ==
  IF status \in {"revoked", "expired"} THEN "withdrawn"
  ELSE IF status = "consumed" THEN "spent" ELSE status

Contract == INSTANCE OneTimeCapability WITH
  allowed <- allowed,
  grant <- [c \in Claim |-> [status |-> GrantStatus(capability[c].status),
                             decision |-> capability[c].decision]],
  started <- [c \in Claim |-> execution[c] # "none"],
  called <- [c \in Claim |-> dispatched[c] > 0]

ImplementsOneTimeCapability == Contract!Spec

\* A capability is consumed exactly when its claim has an execution: nothing
\* revokes, expires or reissues it afterwards, and no execution exists
\* without it, whichever calls race (the consume transaction, l. 1102-1131).
ExecutionConsumesCapability ==
  \A c \in Claim : execution[c] # "none" <=> capability[c].status = "consumed"

\* When the executor has been called for a claim, the claim's execution row
\* is on disk: after a crash recovery finds every call that may have had an
\* effect ("persist execution intent before calling the connector").
IntentBeforeConnector ==
  \A c \in Claim : dispatched[c] > 0 => execution[c] # "none"

\* What a call in flight relies on is in the tables: the allowed decision it
\* read or was given, from the issue on the capability, and while it waits for
\* the executor the execution.  No other call, signal, expiry or crash takes
\* it away in between (the locals of executeGovernedAction across its awaits).
StagesBacked ==
  \A k \in Call :
    /\ pc[k] \notin {"idle", "done"} => target[k] \in Claim
    /\ seen[k].status = "allowed" => <<target[k], seen[k].version>> \in allowed
    /\ pc[k] = "issue" => <<target[k], verdict[k].version>> \in allowed
    /\ pc[k] \in {"preState", "reauthority", "executor"} =>
         capability[target[k]].status # "none"
    /\ pc[k] = "executor" => execution[target[k]] # "none"

\* While the process stays up, a signal leaves no capability to consume that
\* is bound to the decision it invalidated, though calls between their first
\* check and issueExecutionCapability are under way when it arrives.
SignalWithdrawsCapabilities ==
  \A c \in DataClaim :
    fitness[FitnessOf[c]] = "invalidated" => capability[c].status # "issued"

\* An execution starts only while its claim is live, its authority is
\* verified again, and its Data Fitness Decision is allowed at that moment,
\* also when a crash kept a signal from revoking the capability.
StartRevalidated ==
  [][\A c \in Claim : execution[c] = "none" /\ execution'[c] # "none" =>
       /\ live[c]
       /\ c \in authority'
       /\ c \in DataClaim => fitness[FitnessOf[c]] = "allowed"]_vars

\* The executor is called at most once for a claim: the capability is
\* single-use and one-time.
ConnectorCalledOnce == \A c \in Claim : dispatched[c] <= 1

\* The executor is not called for a resource that an incident holds.
HoldStopsConnector ==
  [][\A c \in Claim :
       dispatched'[c] # dispatched[c] => ResourceOf[c] \notin held]_vars

\* What verifyAction hands to issueExecutionCapability is the claim's current
\* decision, though it read it three awaits before.
IssuedForCurrentDecision ==
  [][\A k \in Call : pc[k] = "policy" /\ pc'[k] = "issue" =>
       verdict'[k] = decision'[target[k]]]_vars
=============================================================================
