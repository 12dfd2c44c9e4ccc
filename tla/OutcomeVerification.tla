------------------------- MODULE OutcomeVerification -------------------------
(***************************************************************************)
(* What happens to an execution once its connector was called: receipt,    *)
(* outcome attestation, assurance incident, resource hold and verification *)
(* task, as the GovernanceRuntime of packages/palo-mcp-server/core.js      *)
(* keeps them in verifyOutcome, openIncident, resolveIncident,             *)
(* processDueTasks and recoverPendingExecutions, and as gateway.js runs    *)
(* these at start-up, on a timer and on request.                           *)
(*                                                                         *)
(* Several sessions run in one process and interleave at their awaits;     *)
(* SQLite calls are synchronous.  Each action is the code between two      *)
(* awaits of one session.  The tables survive a crash, the sessions do     *)
(* not.  What is due and what has expired is any answer a clock can give.  *)
(* The executor is called once per execution here (GovernedExecution shows *)
(* when it is not).  Approval tasks belong to another component.           *)
(***************************************************************************)
EXTENDS Naturals, FiniteSets

CONSTANTS
  Execution,   \* executions, each of its own claim
  Delayed,     \* those whose Effect Contract delays the verification
  Resource,    \* resource keys
  ResourceOf,  \* the resource key of each execution
  MaxAttempts, \* effectContract.verification.maxAttempts
  Caller,      \* requests: a governed execution's own end, or verifyOutcome
  Poll,        \* requests to processDueTasks
  Gateway,     \* the gateway itself: start-up, then its timer
  Nothing      \* no execution

Session == Caller \cup Poll \cup {Gateway}

ASSUME ConstantsAssumption ==
  /\ Delayed \subseteq Execution
  /\ ResourceOf \in [Execution -> Resource]
  /\ MaxAttempts \in Nat \ {0}
  /\ Caller \cap Poll = {}
  /\ Gateway \notin Caller \cup Poll
  /\ Nothing \notin Execution

VARIABLES
  row,       \* table executions: receipt, attestation, incident, outbox state
  task,      \* table assurance_tasks: the verification task of each execution
  incident,  \* table incidents: the status of each execution's incident
  holder,    \* table resource_holds: whose incident holds the resource
  up,        \* is the process down, starting (three phases), or serving?
  todo,      \* what the present phase of the start-up still has to do
  admitted,  \* executions that hold a capability and have not started
  inFlight,  \* executions whose executor has not answered yet
  session    \* where each session awaits, and what it carries across

tables == <<row, task, incident, holder>>
process == <<up, todo, admitted, inFlight>>
vars == <<row, task, incident, holder, up, todo, admitted, inFlight,
          session>>

Receipt == {"none", "succeeded", "failed", "unknown"}
Outcome == {"verified", "mismatch", "inconclusive"}
Row == [receipt : Receipt,
        attested : Outcome \cup {"none"},
        linked : BOOLEAN,
        outbox : {"none", "pending", "recorded", "recovered"}]
NoRow == [receipt |-> "none", attested |-> "none", linked |-> FALSE,
          outbox |-> "none"]

Terminal == {"completed", "failed"}
TaskStatus == {"none", "queued", "running", "input_required"} \cup Terminal
Task == [status : TaskStatus, attempts : 0..MaxAttempts]
NoTask == [status |-> "none", attempts |-> 0]

\* `linked' and `tasked' are what a session has read of the row and the task.
SessionState == [at : {"idle", "verifier", "record", "settle"},
                 on : Execution \cup {Nothing},
                 linked : BOOLEAN,
                 tasked : BOOLEAN,
                 outcome : Outcome \cup {"none"},
                 work : SUBSET Execution]
Idle == [at |-> "idle", on |-> Nothing, linked |-> FALSE, tasked |-> FALSE,
         outcome |-> "none", work |-> {}]

TypeOK ==
  /\ row \in [Execution -> Row]
  /\ task \in [Execution -> Task]
  /\ incident \in [Execution -> {"none", "open", "acknowledged", "resolved"}]
  /\ holder \in [Resource -> Execution \cup {Nothing}]
  /\ up \in {"down", "recovering", "resuming", "polling", "serving"}
  /\ todo \subseteq Execution
  /\ admitted \subseteq Execution
  /\ inFlight \subseteq Execution
  /\ session \in [Session -> SessionState]

Init ==
  /\ row = [e \in Execution |-> NoRow]
  /\ task = [e \in Execution |-> NoTask]
  /\ incident = [e \in Execution |-> "none"]
  /\ holder = [r \in Resource |-> Nothing]
  /\ up = "serving"
  /\ todo = {}
  /\ admitted = {}
  /\ inFlight = {}
  /\ session = [s \in Session |-> Idle]

-----------------------------------------------------------------------------
(* What the handlers share.                                                *)

At(s, stage) == session[s].at = stage

\* Requests run while the gateway serves; its own session also at start-up.
Runs(s) == up = "serving" \/ (s = Gateway /\ up # "down")

\* Is the session in the loop of processDueTasks?
Polls(s) == s \in Poll \/ (s = Gateway /\ up \in {"polling", "serving"})

\* transitionTask to the running state.  Attempts count up to MaxAttempts.
Claimed(t) ==
  [status |-> "running",
   attempts |-> IF t.attempts < MaxAttempts THEN t.attempts + 1 ELSE t.attempts]

\* A mutation: a task that has ended is not looked at.
TransitionedAnyway(t, status) == [t EXCEPT !.status = status]

\* transitionTask: it throws on a task that ended otherwise.
Transitioned(t, status) ==
  IF t.status \in Terminal THEN t ELSE [t EXCEPT !.status = status]

TransitionThrows(t, status) == t.status \in Terminal \ {status}

\* The session waits for the verifier of e.
Verifying(e, work) ==
  [at |-> "verifier", on |-> e, linked |-> row[e].linked,
   tasked |-> task[e].status # "none", outcome |-> "none", work |-> work]

Become(s, state) == session' = [session EXCEPT ![s] = state]

\* The process ends; so do its sessions and the executors' answers to it.
Exit ==
  /\ up' = "down"
  /\ todo' = {}
  /\ admitted' = {}
  /\ inFlight' = {}
  /\ session' = [s \in Session |-> Idle]

\* A request fails, or a poll of the timer; at start-up the gateway exits.
Throw(s) ==
  IF s = Gateway /\ up # "serving"
  THEN Exit
  ELSE Become(s, Idle) /\ UNCHANGED process

\* processDueTasks is through: a start-up goes on to serve.
PollDone(s) ==
  /\ Become(s, Idle)
  /\ up' = "serving"
  /\ UNCHANGED <<todo, admitted, inFlight>>

\* The loop of processDueTasks takes one of the tasks it listed, outside its
\* try: a task that ended meanwhile ends the loop.  `now' is the table as the
\* loop finds it.
TakeTask(s, work, now) ==
  IF work = {}
  THEN task' = now /\ PollDone(s)
  ELSE \E e \in work :
         IF TransitionThrows(now[e], "running")
         THEN task' = now /\ Throw(s)
         ELSE /\ task' = [now EXCEPT ![e] = Claimed(@)]
              /\ Become(s, Verifying(e, work \ {e}))
              /\ UNCHANGED process

-----------------------------------------------------------------------------
(* An execution starts and its executor answers.                           *)

\* issueExecutionCapability refuses a resource that is held.
Admit(e) ==
  /\ up = "serving"
  /\ row[e] = NoRow
  /\ holder[ResourceOf[e]] = Nothing
  /\ admitted' = admitted \cup {e}
  /\ UNCHANGED <<tables, up, todo, inFlight, session>>

\* The capability is consumed, whether the resource is still free or not.
Start(e) ==
  /\ up = "serving"
  /\ e \in admitted
  /\ row' = [row EXCEPT ![e].outbox = "pending"]
  /\ admitted' = admitted \ {e}
  /\ inFlight' = inFlight \cup {e}
  /\ UNCHANGED <<task, incident, holder, up, todo, session>>

\* The receipt is recorded; then a task waits for the delay to pass, or the
\* call goes on to verifyOutcome.
ExecutorAnswered(s, e, status) ==
  /\ up = "serving"
  /\ At(s, "idle")
  /\ e \in inFlight
  /\ row' = [row EXCEPT ![e].receipt = status, ![e].outbox = "recorded"]
  /\ inFlight' = inFlight \ {e}
  /\ IF status = "succeeded" /\ e \in Delayed
     THEN /\ task' = [task EXCEPT ![e].status = "queued"]
          /\ UNCHANGED session
     ELSE /\ Become(s, Verifying(e, {}))
          /\ UNCHANGED task
  /\ UNCHANGED <<incident, holder, up, todo, admitted>>

-----------------------------------------------------------------------------
(* verifyOutcome.                                                          *)

\* Asked for by a request.  Without force a task that is not due, or an
\* attestation, is returned as it is; but a task that is due is set to
\* running before the attestation is looked at.
Verify(s, e, force) ==
  LET queued == task[e].status = "queued"
      attested == row[e].attested # "none" IN
  /\ up = "serving"
  /\ At(s, "idle")
  /\ row[e].receipt # "none"
  /\ force \/ queued \/ ~attested
  /\ task' = IF queued THEN [task EXCEPT ![e] = Claimed(@)] ELSE task
  /\ IF attested /\ ~force
     THEN UNCHANGED session
     ELSE Become(s, Verifying(e, {}))
  /\ UNCHANGED <<row, incident, holder, process>>

\* A mutation: the final state is believed whatever the receipt says.
JudgedByState(receipt, answer) == answer

\* An execution without a conclusive receipt is not verified by its state.
Judged(receipt, answer) ==
  IF receipt = "unknown" /\ answer = "verified" THEN "inconclusive" ELSE answer

\* A mutation: an incident that exists is opened again.
OpenedAgain(e) == [incident EXCEPT ![e] = "open"]

\* A mutation: the outcome is stored as the status.
OpenedByOutcome(e) ==
  IF incident[e] = "none" THEN [incident EXCEPT ![e] = "inconclusive"] ELSE incident

\* A mutation: a resource that is held already gets no second incident.
OpenedIfFree(e) ==
  IF incident[e] = "none" /\ holder[ResourceOf[e]] = Nothing
  THEN [incident EXCEPT ![e] = "open"]
  ELSE incident

\* openIncident: an incident that exists is returned, whatever its status.
Opened(e) ==
  IF incident[e] = "none" THEN [incident EXCEPT ![e] = "open"] ELSE incident

\* The hold of a new incident replaces any other on the resource.
Held(e) ==
  IF incident[e] = "none" THEN [holder EXCEPT ![ResourceOf[e]] = e] ELSE holder

\* A mutation: resolving does not touch the hold.
ReleasedNot(e) == holder

\* resolveIncident releases the hold that this incident placed.
Released(e) ==
  IF holder[ResourceOf[e]] = e
  THEN [holder EXCEPT ![ResourceOf[e]] = Nothing]
  ELSE holder

\* Only the row's own columns are written back, from the session's copy.
Attest(e, outcome, linked) ==
  row' = [row EXCEPT ![e].attested = outcome, ![e].linked = linked]

\* verifyOutcome moves the task it knew when it began, and returns or throws.
\* Then processDueTasks goes on with the result; on an error it fails the task,
\* which throws again when the task has ended otherwise.
Conclude(s, outcome) ==
  LET e == session[s].on
      final == IF outcome = "verified" THEN "completed" ELSE "input_required"
      throws == session[s].tasked /\ TransitionThrows(task[e], final)
      next == IF session[s].tasked
              THEN [task EXCEPT ![e] = Transitioned(@, final)]
              ELSE task IN
  IF ~Polls(s)
  THEN /\ task' = next
       /\ IF throws THEN Throw(s) ELSE Become(s, Idle) /\ UNCHANGED process
  ELSE IF ~throws
  THEN /\ task' = next
       /\ Become(s, [session[s] EXCEPT !.at = "settle", !.outcome = outcome])
       /\ UNCHANGED process
  ELSE IF task[e].status = "failed"
  THEN TakeTask(s, session[s].work, task)
  ELSE Throw(s) /\ UNCHANGED task

\* The verifier answers that the effect is not there, or does not answer
\* properly: incident and hold, then the attestation, then the task.
NotVerified(s, answer) ==
  LET e == session[s].on
      outcome == Judged(row[e].receipt, answer) IN
  /\ Runs(s)
  /\ At(s, "verifier")
  /\ outcome # "verified"
  /\ incident' = Opened(e)
  /\ holder' = Held(e)
  /\ Attest(e, outcome, TRUE)
  /\ Conclude(s, outcome)

\* The effect is verified, and the session's copy of the row has an incident:
\* it is resolved on the verifier's word, and awaited.
ResolveVerified(s) ==
  LET e == session[s].on IN
  /\ Runs(s)
  /\ At(s, "verifier")
  /\ Judged(row[e].receipt, "verified") = "verified"
  /\ session[s].linked
  /\ incident[e] # "resolved"
  /\ incident' = [incident EXCEPT ![e] = "resolved"]
  /\ holder' = Released(e)
  /\ Become(s, [session[s] EXCEPT !.at = "record"])
  /\ UNCHANGED <<row, task, process>>

\* Verified, with no incident to resolve or after it was resolved.
Verified(s) ==
  LET e == session[s].on IN
  /\ Runs(s)
  /\ \/ At(s, "record")
     \/ /\ At(s, "verifier")
        /\ Judged(row[e].receipt, "verified") = "verified"
        /\ session[s].linked => incident[e] = "resolved"
  /\ Attest(e, "verified", session[s].linked)
  /\ Conclude(s, "verified")
  /\ UNCHANGED <<incident, holder>>

\* No trusted profile, or no signing secret for it: verifyOutcome throws once
\* the verifier has answered.
SigningFails(s) ==
  LET e == session[s].on IN
  /\ Runs(s)
  /\ At(s, "verifier")
  /\ IF ~Polls(s) \/ TransitionThrows(task[e], "failed")
     THEN Throw(s) /\ UNCHANGED task
     ELSE TakeTask(s, session[s].work,
                   [task EXCEPT ![e] = Transitioned(@, "failed")])
  /\ UNCHANGED <<row, incident, holder>>

-----------------------------------------------------------------------------
(* processDueTasks.                                                        *)

\* A timer or a request lists the tasks that are due.
PollStart(s, due) ==
  /\ up = "serving"
  /\ s \notin Caller
  /\ At(s, "idle")
  /\ due # {}
  /\ \A e \in due : task[e].status = "queued"
  /\ TakeTask(s, due, task)
  /\ UNCHANGED <<row, incident, holder>>

\* A mutation: attempts are not counted.
RetryableAlways(t, outcome) == outcome = "inconclusive"

\* Besides, the contract must ask for retries and its window be open.
Retryable(t, outcome) ==
  outcome = "inconclusive" /\ t.attempts < MaxAttempts

\* The loop settles the task by the result and takes the next one.
Settle(s, retry) ==
  LET e == session[s].on
      outcome == session[s].outcome
      next == IF outcome = "verified" THEN "completed"
              ELSE IF retry THEN "queued" ELSE "input_required" IN
  /\ Runs(s)
  /\ At(s, "settle")
  /\ retry => Retryable(task[e], outcome)
  /\ IF TransitionThrows(task[e], next) /\ task[e].status # "failed"
     THEN Throw(s) /\ UNCHANGED task
     ELSE TakeTask(s, session[s].work,
                   [task EXCEPT ![e] = Transitioned(@, next)])
  /\ UNCHANGED <<row, incident, holder>>

-----------------------------------------------------------------------------
(* A reviewer, and the process.                                            *)

\* resolveIncident on request: a resolved incident does not go back.
ReviewIncident(e, status) ==
  /\ up = "serving"
  /\ incident[e] \in {"open", "acknowledged"}
  /\ incident' = [incident EXCEPT ![e] = status]
  /\ IF status = "resolved"
     THEN holder' = Released(e)
     ELSE UNCHANGED holder
  /\ UNCHANGED <<row, task, process, session>>

Crash ==
  /\ up # "down"
  /\ Exit
  /\ UNCHANGED tables

\* The process stops between the receipt and the task.
CrashInReceipt(e) ==
  /\ up # "down"
  /\ e \in inFlight \cap Delayed
  /\ row' = [row EXCEPT ![e].receipt = "succeeded", ![e].outbox = "recorded"]
  /\ Exit
  /\ UNCHANGED <<task, incident, holder>>

\* The process stops in verifyOutcome, after the incident (`attested' FALSE)
\* or after the attestation.
CrashInNotVerified(s, answer, attested) ==
  LET e == session[s].on
      outcome == Judged(row[e].receipt, answer) IN
  /\ Runs(s)
  /\ At(s, "verifier")
  /\ outcome # "verified"
  /\ incident' = Opened(e)
  /\ holder' = Held(e)
  /\ IF attested THEN Attest(e, outcome, TRUE) ELSE UNCHANGED row
  /\ Exit
  /\ UNCHANGED task

CrashInVerified(s) ==
  LET e == session[s].on IN
  /\ Runs(s)
  /\ \/ At(s, "record")
     \/ /\ At(s, "verifier")
        /\ Judged(row[e].receipt, "verified") = "verified"
        /\ session[s].linked => incident[e] = "resolved"
  /\ Attest(e, "verified", session[s].linked)
  /\ Exit
  /\ UNCHANGED <<task, incident, holder>>

-----------------------------------------------------------------------------
(* The start-up: recoverPendingExecutions, then one processDueTasks.       *)

\* Executions younger than PALO_EXECUTION_RECOVERY_AGE_MS are passed over.
Restart(old) ==
  /\ up = "down"
  /\ \A e \in old : row[e].outbox = "pending"
  /\ up' = "recovering"
  /\ todo' = old
  /\ UNCHANGED <<tables, admitted, inFlight, session>>

Recover(e) ==
  /\ up = "recovering"
  /\ At(Gateway, "idle")
  /\ e \in todo
  /\ row' = [row EXCEPT ![e].receipt = "unknown", ![e].outbox = "recovered"]
  /\ todo' = todo \ {e}
  /\ Become(Gateway, Verifying(e, {}))
  /\ UNCHANGED <<task, incident, holder, up, admitted, inFlight>>

\* A mutation: nothing is resumed.
UnattestedNone == {}

\* Receipts that were recorded and not attested.
Unattested ==
  {e \in Execution : row[e].outbox = "recorded" /\ row[e].attested = "none"}

ListUnattested ==
  /\ up = "recovering"
  /\ At(Gateway, "idle")
  /\ todo = {}
  /\ up' = "resuming"
  /\ todo' = Unattested
  /\ UNCHANGED <<tables, admitted, inFlight, session>>

\* verifyOutcome without force: a task that is not due is left to the poller.
Resume(e, due) ==
  LET queued == task[e].status = "queued" IN
  /\ up = "resuming"
  /\ At(Gateway, "idle")
  /\ e \in todo
  /\ ~due => queued
  /\ todo' = todo \ {e}
  /\ task' = IF queued /\ due THEN [task EXCEPT ![e] = Claimed(@)] ELSE task
  /\ IF due THEN Become(Gateway, Verifying(e, {})) ELSE UNCHANGED session
  /\ UNCHANGED <<row, incident, holder, up, admitted, inFlight>>

\* The first processDueTasks; with nothing due the gateway serves at once.
StartupPoll(due) ==
  /\ up = "resuming"
  /\ At(Gateway, "idle")
  /\ todo = {}
  /\ \A e \in due : task[e].status = "queued"
  /\ IF due = {}
     THEN task' = task /\ PollDone(Gateway)
     ELSE \E e \in due :
            /\ task' = [task EXCEPT ![e] = Claimed(@)]
            /\ Become(Gateway, Verifying(e, due \ {e}))
            /\ up' = "polling"
            /\ UNCHANGED <<todo, admitted, inFlight>>
  /\ UNCHANGED <<row, incident, holder>>

-----------------------------------------------------------------------------
Answered(s) ==
  \/ \E answer \in Outcome : NotVerified(s, answer)
  \/ ResolveVerified(s)
  \/ Verified(s)
  \/ SigningFails(s)

SessionStep(s) == Answered(s) \/ \E retry \in BOOLEAN : Settle(s, retry)

Request ==
  \/ \E e \in Execution : Admit(e) \/ Start(e)
  \/ \E s \in Caller, e \in Execution :
       \/ \E status \in Receipt \ {"none"} : ExecutorAnswered(s, e, status)
       \/ \E force \in BOOLEAN : Verify(s, e, force)
  \/ \E s \in Session : \E due \in SUBSET Execution : PollStart(s, due)
  \/ \E e \in Execution, status \in {"acknowledged", "resolved"} :
       ReviewIncident(e, status)

Startup ==
  \/ \E e \in Execution : Recover(e)
  \/ ListUnattested
  \/ \E e \in Execution, due \in BOOLEAN : Resume(e, due)
  \/ \E due \in SUBSET Execution : StartupPoll(due)

Fail ==
  \/ Crash
  \/ \E e \in Execution : CrashInReceipt(e)
  \/ \E s \in Session, answer \in Outcome, attested \in BOOLEAN :
       CrashInNotVerified(s, answer, attested)
  \/ \E s \in Session : CrashInVerified(s)

Next ==
  \/ Request
  \/ Fail
  \/ \E s \in Session : SessionStep(s)
  \/ \E old \in SUBSET Execution : Restart(old)
  \/ Startup

Spec == Init /\ [][Next]_vars

\* The process stays up.  A verifier answers in the end, a handler goes on, and
\* the timer lists a task that is due again and again.
UpNext == Request \/ \E s \in Session : SessionStep(s)

Listed(e) == \E due \in SUBSET Execution : e \in due /\ PollStart(Gateway, due)

UpSpec ==
  /\ Init
  /\ [][UpNext]_vars
  /\ \A s \in Session : WF_vars(SessionStep(s))
  /\ \A e \in Execution : SF_vars(Listed(e))

-----------------------------------------------------------------------------
(* Safety.                                                                 *)

Unsolved == {"open", "acknowledged"}

\* Whoever reads an outcome that is not verified finds its incident: at every
\* point of every interleaving the incident is there before the attestation,
\* and no session's copy of the row loses it while the outcome stands (core.js
\* writes the whole row back).
OutcomeHasIncident ==
  \A e \in Execution :
    row[e].attested \in {"mismatch", "inconclusive"} =>
      row[e].linked /\ incident[e] # "none"

\* A recovered or undecided connector call is never verified, whatever the
\* resource looks like afterwards: also not by a session that began earlier.
UnknownNeverVerified ==
  \A e \in Execution :
    row[e].receipt = "unknown" => row[e].attested # "verified"

\* A hold always has somebody who can release it: it stands for an incident
\* of the same resource that is not resolved, so resolving that incident frees
\* the resource.
HoldHasIncident ==
  \A r \in Resource, e \in Execution :
    holder[r] = e => incident[e] \in Unsolved /\ ResourceOf[e] = r

\* Polls, requests and the start-up may all work at one task; once it is
\* completed or failed none of them changes it.
TaskEndsOnce ==
  [][\A e \in Execution : task[e].status \in Terminal => task'[e] = task[e]]_vars

\* Neither another verification nor a reviewer who is late brings a resolved
\* incident back.
ResolvedForGood ==
  [][\A e \in Execution :
       incident[e] = "resolved" => incident'[e] = "resolved"]_vars

\* When requests are served after a crash, no receipt that the executor gave is
\* left behind: its outcome is attested, or its task is queued, or has failed.
ResumedBeforeServing ==
  [][\A e \in Execution :
       up # "serving" /\ up' = "serving" /\ row[e].outbox = "recorded" =>
         \/ row'[e].attested # "none"
         \/ task'[e].status \in {"queued", "failed"}]_vars

\* Liveness: retries of an outcome that stays inconclusive come to an end, and
\* no task waits in the queue forever, whoever else verifies the execution.
RetriesEnd == \A e \in Execution : <>[](task[e].status # "queued")

-----------------------------------------------------------------------------
(* What the documentation or a test says, and the code does not do.        *)

NobodyOn(e) == \A s \in Session : session[s].on # e

\* evolutions.test.js:199: authoritative success releases the hold.
VerifiedReleasesHold ==
  \A e \in Execution :
    row[e].attested = "verified" /\ NobodyOn(e) => holder[ResourceOf[e]] # e

\* palo-ai-governance-hub-workflows.md:182: a hold is released only on
\* resolution, so while an incident is unsolved its resource is held.
OpenIncidentHeld ==
  \A e \in Execution :
    incident[e] \in Unsolved => holder[ResourceOf[e]] # Nothing

\* palo-mcp-server/README.md:124: a recovered execution gets an inconclusive
\* attestation and a held incident on start-up.
RecoveredAttested ==
  \A e \in Execution :
    up = "serving" /\ row[e].outbox = "recovered" =>
      row[e].attested # "none" \/ ~NobodyOn(e)

\* evolutions.test.js:199: inconclusive verification retries durably, so a task
\* that nobody works at does not stay in the running state.
RetriesDurably ==
  \A e \in Execution :
    LET left == /\ task[e].status = "running"
                /\ row[e].attested = "inconclusive"
                /\ NobodyOn(e) IN
    left ~> ~left
=============================================================================
