--------------------- MODULE OutcomeVerification_proofs ---------------------
(* Theorems about OutcomeVerification, from an inductive invariant and one  *)
(* more of the start-up.                                                    *)
EXTENDS OutcomeVerification, TLAPS

USE DEF Row, NoRow, Receipt, Outcome, Task, NoTask, TaskStatus, Terminal,
        SessionState, Idle

-----------------------------------------------------------------------------
(* The inductive invariant.                                                 *)

\* A row goes through its stages: nothing, intent without receipt, receipt.
RowsStaged ==
  \A e \in Execution :
    /\ row[e].outbox = "none" => row[e] = NoRow
    /\ row[e].outbox = "pending" =>
         row[e].receipt = "none" /\ row[e].attested = "none"
    /\ row[e].outbox \in {"recorded", "recovered"} => row[e].receipt # "none"

\* What the process remembers of an execution fits the stage of its row.
ProcessBacked ==
  /\ \A e \in admitted : row[e] = NoRow
  /\ \A e \in inFlight : row[e].outbox = "pending"
  /\ up # "serving" => admitted = {} /\ inFlight = {}
  /\ up = "recovering" => \A e \in todo : row[e].outbox = "pending"
  /\ up = "resuming" => \A e \in todo : row[e].receipt # "none"

\* Only an execution with a receipt has a task.
TasksBacked ==
  \A e \in Execution : task[e].status # "none" => row[e].receipt # "none"

\* Only an execution with a receipt is verified or listed to be, and a session
\* that records a success has a conclusive receipt behind it.
Backed(state) ==
  /\ state.at # "idle" => /\ state.on \in Execution
                          /\ row[state.on].receipt # "none"
  /\ state.at = "record" => row[state.on].receipt # "unknown"
  /\ \A e \in state.work : row[e].receipt # "none"

SessionsBacked == \A s \in Session : Backed(session[s])

ProcessTyped ==
  /\ up \in {"down", "recovering", "resuming", "polling", "serving"}
  /\ todo \subseteq Execution
  /\ admitted \subseteq Execution
  /\ inFlight \subseteq Execution
  /\ session \in [Session -> SessionState]

TablesTyped ==
  /\ row \in [Execution -> Row]
  /\ task \in [Execution -> Task]
  /\ incident \in [Execution -> {"none", "open", "acknowledged", "resolved"}]
  /\ holder \in [Resource -> Execution \cup {Nothing}]

\* The part about the tables, and the part about process and sessions.
TablesInv ==
  /\ TablesTyped
  /\ RowsStaged
  /\ OutcomeHasIncident
  /\ UnknownNeverVerified
  /\ HoldHasIncident

ProcessInv ==
  /\ ProcessTyped
  /\ ProcessBacked
  /\ SessionsBacked

IInv == TablesInv /\ TasksBacked /\ ProcessInv

-----------------------------------------------------------------------------
(* What most steps do to the rows: an execution without a receipt is left   *)
(* alone, and a receipt stays.                                              *)

RowKept ==
  \A e \in Execution :
    IF row[e].receipt = "none"
    THEN row'[e] = row[e]
    ELSE row'[e].receipt = row[e].receipt

\* What a step makes of the tasks: they stay typed and backed by a receipt, and
\* one that ended does not change.
TasksFrom(tasks) ==
  /\ tasks \in [Execution -> Task]
  /\ \A e \in Execution :
       /\ tasks[e].status # "none" => row[e].receipt # "none"
       /\ task[e].status \in Terminal => tasks[e] = task[e]

\* A session that takes up a state with a receipt behind it.
LEMMA BecomeBacked ==
  ASSUME IInv, RowKept, NEW s \in Session, NEW state \in SessionState,
         Backed(state), Become(s, state)
  PROVE  session' \in [Session -> SessionState] /\ SessionsBacked'
<1>1. session' \in [Session -> SessionState]
  BY DEF IInv, ProcessInv, ProcessTyped, Become
<1>2. \A t \in Session : session'[t] \in {state, session[t]}
  BY DEF IInv, ProcessInv, ProcessTyped, Become
<1>3. \A t \in Session : Backed(session'[t])
  BY <1>2 DEF IInv, ProcessInv, SessionsBacked
<1>4. ASSUME NEW x \in SessionState, Backed(x)
      PROVE  /\ x.at # "idle" => /\ x.on \in Execution
                                 /\ row'[x.on].receipt # "none"
             /\ x.at = "record" => row'[x.on].receipt # "unknown"
             /\ \A e \in x.work : row'[e].receipt # "none"
  BY <1>4 DEF Backed, RowKept
<1> QED
  BY <1>1, <1>3, <1>4 DEF SessionsBacked, Backed

\* While the process goes on, what it remembers still fits.
LEMMA ProcessKept ==
  ASSUME IInv, RowKept, UNCHANGED process
  PROVE  ProcessBacked'
BY DEF IInv, TablesInv, TablesTyped, ProcessInv, ProcessTyped, ProcessBacked,
       RowsStaged, RowKept, process

\* After an exit there is nothing that could be wrong.
LEMMA ExitBacked ==
  ASSUME Exit
  PROVE  ProcessInv'
<1>1. ProcessTyped'
  BY DEF Exit, ProcessTyped
<1>2. ProcessBacked'
  BY DEF Exit, ProcessBacked
<1>3. SessionsBacked'
  BY DEF Exit, SessionsBacked, Backed
<1> QED
  BY <1>1, <1>2, <1>3 DEF ProcessInv

\* A session that takes up such a state while the process goes on.
LEMMA GoesOn ==
  ASSUME IInv, RowKept, NEW s \in Session, NEW state \in SessionState,
         Backed(state), Become(s, state), UNCHANGED process
  PROVE  ProcessInv'
<1>1. ProcessTyped'
  BY BecomeBacked DEF IInv, ProcessInv, ProcessTyped, process
<1> QED
  BY <1>1, BecomeBacked, ProcessKept DEF ProcessInv

\* An idle session has nothing behind it.
LEMMA IdleBacked == Idle \in SessionState /\ Backed(Idle)
BY DEF Backed

\* A session that throws ends, and with it the gateway if it was starting.
LEMMA ThrowBacked ==
  ASSUME IInv, RowKept, NEW s \in Session, Throw(s)
  PROVE  ProcessInv'
<1>1. CASE Exit
  BY <1>1, ExitBacked
<1>2. CASE Become(s, Idle) /\ UNCHANGED process
  BY <1>2, GoesOn, IdleBacked
<1> QED
  BY <1>1, <1>2 DEF Throw

\* A poll that is through lets the gateway serve; it remembers nothing then.
LEMMA PollDoneBacked ==
  ASSUME IInv, RowKept, NEW s \in Session, PollDone(s)
  PROVE  ProcessInv'
<1>1. session' \in [Session -> SessionState] /\ SessionsBacked'
  BY BecomeBacked, IdleBacked DEF PollDone
<1>2. ProcessTyped'
  BY <1>1 DEF IInv, ProcessInv, ProcessTyped, PollDone
<1>3. ProcessBacked'
  BY DEF IInv, TablesInv, TablesTyped, ProcessInv, ProcessTyped, ProcessBacked,
         RowsStaged, RowKept, PollDone
<1> QED
  BY <1>1, <1>2, <1>3 DEF ProcessInv

\* A claimed task is a running task.
LEMMA ClaimedType ==
  ASSUME NEW t \in Task
  PROVE  Claimed(t) \in Task /\ Claimed(t).status = "running"
BY ConstantsAssumption DEF Claimed

\* transitionTask yields a task, and leaves one that ended alone.
LEMMA TransitionedType ==
  ASSUME NEW t \in Task, NEW status \in TaskStatus
  PROVE  /\ Transitioned(t, status) \in Task
         /\ t.status \in Terminal => Transitioned(t, status) = t
BY DEF Transitioned

\* A session that begins to verify an execution with a receipt.
LEMMA VerifyingBacked ==
  ASSUME IInv, NEW e \in Execution, row[e].receipt # "none",
         NEW work \in SUBSET Execution, \A d \in work : row[d].receipt # "none"
  PROVE  Verifying(e, work) \in SessionState /\ Backed(Verifying(e, work))
BY DEF IInv, TablesInv, TablesTyped, Verifying, Backed

\* Tasks that are left alone are as the invariant has them.
LEMMA SameTasks == IInv => TasksFrom(task)
BY DEF IInv, TablesInv, TablesTyped, TasksBacked, TasksFrom

\* One task is moved on by transitionTask.
LEMMA OneTransitioned ==
  ASSUME IInv, NEW e \in Execution, row[e].receipt # "none",
         NEW status \in TaskStatus
  PROVE  TasksFrom([task EXCEPT ![e] = Transitioned(@, status)])
<1> DEFINE tasks == [task EXCEPT ![e] = Transitioned(@, status)]
<1>1. task \in [Execution -> Task] /\ task[e] \in Task
  BY DEF IInv, TablesInv, TablesTyped
<1>2. /\ Transitioned(task[e], status) \in Task
      /\ task[e].status \in Terminal => Transitioned(task[e], status) = task[e]
  BY <1>1, TransitionedType
<1>3. /\ tasks \in [Execution -> Task]
      /\ tasks[e] = Transitioned(task[e], status)
      /\ \A d \in Execution \ {e} : tasks[d] = task[d]
  BY <1>1, <1>2
<1> QED
  BY <1>2, <1>3 DEF IInv, TasksBacked, TasksFrom

\* One task that has not ended is set to running.
LEMMA OneClaimed ==
  ASSUME NEW now, TasksFrom(now), NEW e \in Execution, row[e].receipt # "none",
         now[e].status \notin Terminal
  PROVE  TasksFrom([now EXCEPT ![e] = Claimed(@)])
<1> DEFINE tasks == [now EXCEPT ![e] = Claimed(@)]
<1>1. /\ tasks \in [Execution -> Task]
      /\ \A d \in Execution \ {e} : tasks[d] = now[d]
  BY ClaimedType DEF TasksFrom
<1> QED
  BY <1>1 DEF TasksFrom

\* The loop of processDueTasks.
LEMMA TakeTaskBacked ==
  ASSUME IInv, RowKept, NEW s \in Session,
         NEW work \in SUBSET Execution, \A d \in work : row[d].receipt # "none",
         NEW now, TasksFrom(now), TakeTask(s, work, now)
  PROVE  ProcessInv' /\ TasksFrom(task')
<1>1. CASE work = {}
  BY <1>1, PollDoneBacked DEF TakeTask
<1>2. CASE work # {}
  <2>1. PICK e \in work :
          IF TransitionThrows(now[e], "running")
          THEN task' = now /\ Throw(s)
          ELSE /\ task' = [now EXCEPT ![e] = Claimed(@)]
               /\ Become(s, Verifying(e, work \ {e}))
               /\ UNCHANGED process
    BY <1>2 DEF TakeTask
  <2>2. CASE TransitionThrows(now[e], "running")
    BY <2>1, <2>2, ThrowBacked
  <2>3. CASE ~TransitionThrows(now[e], "running")
    <3>1. now[e].status \notin Terminal
      BY <2>3 DEF TransitionThrows
    <3>2. TasksFrom(task')
      BY <2>1, <2>3, <3>1, OneClaimed
    <3>3. /\ Verifying(e, work \ {e}) \in SessionState
          /\ Backed(Verifying(e, work \ {e}))
      BY VerifyingBacked
    <3> QED
      BY <2>1, <2>3, <3>2, <3>3, GoesOn
  <2> QED
    BY <2>2, <2>3
<1> QED
  BY <1>1, <1>2

\* What a session that works has behind it.
LEMMA SessionHas ==
  ASSUME IInv, NEW s \in Session, ~At(s, "idle")
  PROVE  /\ session[s] \in SessionState
         /\ session[s].on \in Execution
         /\ row[session[s].on].receipt # "none"
         /\ row[session[s].on] \in Row
         /\ At(s, "record") => row[session[s].on].receipt # "unknown"
         /\ session[s].work \in SUBSET Execution
         /\ \A e \in session[s].work : row[e].receipt # "none"
<1>1. Backed(session[s]) /\ session[s] \in SessionState
  BY DEF IInv, ProcessInv, ProcessTyped, SessionsBacked
<1> QED
  BY <1>1 DEF At, Backed, IInv, TablesInv, TablesTyped

\* The end of verifyOutcome.
LEMMA ConcludeBacked ==
  ASSUME IInv, RowKept, NEW s \in Session, ~At(s, "idle"),
         NEW outcome \in Outcome, Conclude(s, outcome)
  PROVE  ProcessInv' /\ TasksFrom(task')
<1> DEFINE e == session[s].on
           final == IF outcome = "verified" THEN "completed" ELSE "input_required"
           throws == session[s].tasked /\ TransitionThrows(task[e], final)
           next == IF session[s].tasked
                   THEN [task EXCEPT ![e] = Transitioned(@, final)]
                   ELSE task
           settle == [session[s] EXCEPT !.at = "settle", !.outcome = outcome]
<1>1. TasksFrom(next) /\ TasksFrom(task)
  BY SessionHas, SameTasks, OneTransitioned
<1>2. settle \in SessionState /\ Backed(settle)
  <2>1. /\ session[s] \in SessionState
        /\ session[s].on \in Execution
        /\ row[session[s].on].receipt # "none"
        /\ \A d \in session[s].work : row[d].receipt # "none"
    BY SessionHas
  <2>2. /\ settle \in SessionState
        /\ settle.at = "settle"
        /\ settle.on = session[s].on
        /\ settle.work = session[s].work
    BY <2>1
  <2> QED
    BY <2>1, <2>2 DEF Backed
<1>3. \/ Throw(s)
      \/ \E state \in {Idle, settle} : Become(s, state) /\ UNCHANGED process
      \/ TakeTask(s, session[s].work, task)
  BY DEF Conclude
<1>4. task' = next \/ task' = task \/ TakeTask(s, session[s].work, task)
  BY DEF Conclude
<1>5. ASSUME TakeTask(s, session[s].work, task)
      PROVE  ProcessInv' /\ TasksFrom(task')
  BY <1>1, <1>5, SessionHas, TakeTaskBacked
<1>6. ASSUME NEW state \in {Idle, settle}, Become(s, state), UNCHANGED process
      PROVE  ProcessInv'
  BY <1>2, <1>6, GoesOn, IdleBacked
<1> HIDE DEF settle, next
<1> QED
  BY <1>1, <1>3, <1>4, <1>5, <1>6, ThrowBacked

-----------------------------------------------------------------------------
(* The tables.                                                              *)

\* An incident never disappears, and a resolved one stays resolved.
IncidentsKept ==
  \A e \in Execution :
    /\ incident[e] # "none" => incident'[e] # "none"
    /\ incident[e] = "resolved" => incident'[e] = "resolved"

TasksKept ==
  \A e \in Execution : task[e].status \in Terminal => task'[e] = task[e]

\* What every step grants besides the invariant.
Lasting == TasksKept /\ IncidentsKept

RowsInv == /\ row \in [Execution -> Row]
           /\ RowsStaged
           /\ OutcomeHasIncident
           /\ UnknownNeverVerified

HoldsInv ==
  /\ incident \in [Execution -> {"none", "open", "acknowledged", "resolved"}]
  /\ holder \in [Resource -> Execution \cup {Nothing}]
  /\ HoldHasIncident

\* An attestation that is not verified needs its incident, one that is needs a
\* conclusive receipt.
LEMMA Attested ==
  ASSUME IInv, IncidentsKept, NEW e \in Execution, row[e].receipt # "none",
         NEW outcome \in Outcome, NEW linked \in BOOLEAN,
         Attest(e, outcome, linked),
         outcome = "verified" => row[e].receipt # "unknown",
         outcome # "verified" => linked /\ incident'[e] # "none"
  PROVE  RowKept /\ RowsInv'
<1> DEFINE new == [row[e] EXCEPT !.attested = outcome, !.linked = linked]
<1>1. row \in [Execution -> Row] /\ row[e] \in Row
  BY DEF IInv, TablesInv, TablesTyped
<1>2. new \in Row
  BY <1>1
<1>3. row' = [row EXCEPT ![e] = new]
  BY <1>1 DEF Attest
<1>4. /\ row' \in [Execution -> Row]
      /\ row'[e] = new
      /\ \A d \in Execution \ {e} : row'[d] = row[d]
  <2> HIDE DEF new, Row
  <2> QED
    BY <1>1, <1>2, <1>3
<1>5. /\ row'[e].receipt = row[e].receipt
      /\ row'[e].outbox = row[e].outbox
      /\ row'[e].attested = outcome
      /\ row'[e].linked = linked
  BY <1>4, <1>1
<1>6. RowKept
  BY <1>4, <1>5 DEF RowKept
<1>7. RowsStaged'
  <2>1. row[e].outbox \notin {"none", "pending"}
    BY DEF IInv, TablesInv, RowsStaged
  <2>2. RowsStaged
    BY DEF IInv, TablesInv
  <2>3. ASSUME NEW d \in Execution
        PROVE  /\ row'[d].outbox = "none" => row'[d] = NoRow
               /\ row'[d].outbox = "pending" =>
                    row'[d].receipt = "none" /\ row'[d].attested = "none"
               /\ row'[d].outbox \in {"recorded", "recovered"} =>
                    row'[d].receipt # "none"
    <3>1. CASE d = e
      BY <1>5, <2>1, <3>1
    <3>2. CASE d # e
      BY <1>4, <2>2, <3>2 DEF RowsStaged
    <3> QED
      BY <3>1, <3>2
  <2> QED
    BY <2>3 DEF RowsStaged
<1>8. OutcomeHasIncident'
  BY <1>4, <1>5 DEF IInv, TablesInv, OutcomeHasIncident, IncidentsKept
<1>9. UnknownNeverVerified'
  BY <1>4, <1>5 DEF IInv, TablesInv, UnknownNeverVerified
<1> QED
  BY <1>4, <1>6, <1>7, <1>8, <1>9 DEF RowsInv

\* Rows that are left alone stay as they are, whatever incidents are added.
LEMMA RowsSame ==
  ASSUME IInv, IncidentsKept, UNCHANGED row
  PROVE  RowKept /\ RowsInv'
BY DEF IInv, TablesInv, TablesTyped, RowsInv, RowsStaged, OutcomeHasIncident,
       UnknownNeverVerified, IncidentsKept, RowKept

\* openIncident: the new hold stands for the new incident.
LEMMA IncidentOpened ==
  ASSUME IInv, NEW e \in Execution, incident' = Opened(e), holder' = Held(e)
  PROVE  HoldsInv' /\ IncidentsKept /\ incident'[e] # "none"
<1>1. ResourceOf[e] \in Resource
  BY ConstantsAssumption
<1>2. /\ incident \in [Execution -> {"none", "open", "acknowledged", "resolved"}]
      /\ holder \in [Resource -> Execution \cup {Nothing}]
      /\ HoldHasIncident
  BY DEF IInv, TablesInv, TablesTyped
<1>3. CASE incident[e] = "none"
  <2>1. /\ incident' = [incident EXCEPT ![e] = "open"]
        /\ holder' = [holder EXCEPT ![ResourceOf[e]] = e]
    BY <1>3 DEF Opened, Held
  <2>2. HoldsInv'
    BY <1>1, <1>2, <2>1 DEF HoldsInv, HoldHasIncident, Unsolved
  <2>3. IncidentsKept /\ incident'[e] # "none"
    BY <1>2, <1>3, <2>1 DEF IncidentsKept
  <2> QED
    BY <2>2, <2>3
<1>4. CASE incident[e] # "none"
  <2>1. UNCHANGED <<incident, holder>>
    BY <1>4 DEF Opened, Held
  <2> QED
    BY <1>2, <1>4, <2>1 DEF HoldsInv, IncidentsKept, HoldHasIncident, Unsolved
<1> QED
  BY <1>3, <1>4

\* resolveIncident: no hold is left for a resolved incident.
LEMMA IncidentResolved ==
  ASSUME IInv, NEW e \in Execution,
         incident' = [incident EXCEPT ![e] = "resolved"], holder' = Released(e)
  PROVE  HoldsInv' /\ IncidentsKept
<1>1. ResourceOf[e] \in Resource /\ Nothing \notin Execution
  BY ConstantsAssumption
<1>2. /\ incident \in [Execution -> {"none", "open", "acknowledged", "resolved"}]
      /\ holder \in [Resource -> Execution \cup {Nothing}]
      /\ HoldHasIncident
  BY DEF IInv, TablesInv, TablesTyped
<1>3. /\ holder' \in [Resource -> Execution \cup {Nothing}]
      /\ \A r \in Resource : holder'[r] # e
      /\ \A r \in Resource, d \in Execution : holder'[r] = d => holder[r] = d
  BY <1>1, <1>2 DEF Released, HoldHasIncident
<1> QED
  BY <1>2, <1>3 DEF HoldsInv, IncidentsKept, HoldHasIncident, Unsolved

\* Incidents and holds that are left alone.
LEMMA HoldsSame ==
  ASSUME IInv, UNCHANGED <<incident, holder>>
  PROVE  HoldsInv' /\ IncidentsKept
BY DEF IInv, TablesInv, TablesTyped, HoldsInv, HoldHasIncident,
       IncidentsKept, Unsolved

\* The parts of a step that keeps the rows make the whole.
LEMMA Whole ==
  ASSUME RowKept, RowsInv', HoldsInv', IncidentsKept, TasksFrom(task'), ProcessInv'
  PROVE  IInv' /\ Lasting
<1>1. TasksBacked'
  BY DEF TasksFrom, TasksBacked, RowKept
<1>2. TablesInv'
  BY DEF TablesInv, TablesTyped, RowsInv, HoldsInv, TasksFrom
<1>3. Lasting
  BY DEF TasksFrom, TasksKept, Lasting
<1> QED
  BY <1>1, <1>2, <1>3 DEF IInv

-----------------------------------------------------------------------------
(* Each action preserves the invariant.                                     *)

\* The invariant holds at first.
LEMMA InvInit == Init => IInv
<1> SUFFICES ASSUME Init PROVE IInv
  OBVIOUS
<1>1. NoRow \in Row /\ NoTask \in Task /\ Idle \in SessionState
  BY ConstantsAssumption
<1>2. TablesInv
  BY <1>1, ConstantsAssumption
     DEF Init, TablesInv, TablesTyped, RowsStaged, OutcomeHasIncident,
         UnknownNeverVerified, HoldHasIncident
<1>3. ProcessInv
  BY <1>1 DEF Init, ProcessInv, ProcessTyped, ProcessBacked, SessionsBacked, Backed
<1> QED
  BY <1>2, <1>3 DEF Init, IInv, TasksBacked

\* An admission reads the holds and writes none of the tables.
LEMMA AdmitInv ==
  ASSUME IInv, NEW e \in Execution, Admit(e)
  PROVE  IInv' /\ Lasting
<1>1. RowKept /\ RowsInv' /\ HoldsInv' /\ IncidentsKept
  BY RowsSame, HoldsSame DEF Admit, tables
<1>2. TasksFrom(task')
  BY SameTasks DEF Admit, tables
<1>3. ProcessInv'
  BY DEF Admit, tables, IInv, ProcessInv, ProcessTyped, ProcessBacked,
         SessionsBacked, Backed
<1> QED
  BY <1>1, <1>2, <1>3, Whole

\* The rows of a step that gives one execution its intent or its receipt.
LEMMA RowStep ==
  ASSUME IInv, IncidentsKept, NEW e \in Execution, NEW new \in Row,
         row' = [row EXCEPT ![e] = new],
         row[e].receipt = "none",
         new.attested = "none",
         new.outbox = "pending" => new.receipt = "none",
         new.outbox # "pending" => new.outbox # "none" /\ new.receipt # "none"
  PROVE  RowsInv' /\ row'[e] = new
                  /\ \A d \in Execution \ {e} : row'[d] = row[d]
<1>1. row \in [Execution -> Row]
  BY DEF IInv, TablesInv, TablesTyped
<1>2. /\ row' \in [Execution -> Row]
      /\ row'[e] = new
      /\ \A d \in Execution \ {e} : row'[d] = row[d]
  <2> HIDE DEF Row
  <2> QED
    BY <1>1
<1>3. RowsStaged'
  <2>1. RowsStaged
    BY DEF IInv, TablesInv
  <2>2. ASSUME NEW d \in Execution
        PROVE  /\ row'[d].outbox = "none" => row'[d] = NoRow
               /\ row'[d].outbox = "pending" =>
                    row'[d].receipt = "none" /\ row'[d].attested = "none"
               /\ row'[d].outbox \in {"recorded", "recovered"} =>
                    row'[d].receipt # "none"
    <3>1. CASE d = e
      BY <1>2, <3>1
    <3>2. CASE d # e
      BY <1>2, <2>1, <3>2 DEF RowsStaged
    <3> QED
      BY <3>1, <3>2
  <2> QED
    BY <2>2 DEF RowsStaged
<1>4. OutcomeHasIncident'
  BY <1>2 DEF IInv, TablesInv, OutcomeHasIncident, IncidentsKept
<1>5. UnknownNeverVerified'
  BY <1>2 DEF IInv, TablesInv, UnknownNeverVerified
<1> QED
  BY <1>2, <1>3, <1>4, <1>5 DEF RowsInv

\* The intent is recorded for an admitted execution, which has no row yet.
LEMMA StartInv ==
  ASSUME IInv, NEW e \in Execution, Start(e)
  PROVE  IInv' /\ Lasting
<1> DEFINE new == [row[e] EXCEPT !.outbox = "pending"]
<1>1. row[e] = NoRow
  BY DEF Start, IInv, ProcessInv, ProcessBacked
<1>2. row[e] \in Row /\ row[e].receipt = "none" /\ row[e].attested = "none"
  BY <1>1 DEF IInv, TablesInv, TablesTyped
<1>3. /\ new \in Row
      /\ new.outbox = "pending" /\ new.receipt = "none" /\ new.attested = "none"
  BY <1>2
<1>4. row' = [row EXCEPT ![e] = new]
  BY DEF Start
<1>5. HoldsInv' /\ IncidentsKept
  BY HoldsSame DEF Start
<1> HIDE DEF new
<1>6. /\ RowsInv' /\ row'[e] = new
      /\ \A d \in Execution \ {e} : row'[d] = row[d]
  <2> HIDE DEF Row
  <2> QED
    BY <1>2, <1>3, <1>5, <1>4, RowStep
<1>7. TablesInv'
  BY <1>5, <1>6 DEF Start, IInv, TablesInv, TablesTyped, RowsInv, HoldsInv
<1>8. TasksBacked'
  BY <1>2, <1>6 DEF Start, IInv, TasksBacked
<1>9. ProcessTyped'
  BY DEF Start, IInv, ProcessInv, ProcessTyped
<1>10. ProcessBacked'
  BY <1>3, <1>6 DEF Start, IInv, ProcessInv, ProcessTyped, ProcessBacked
<1>11. SessionsBacked'
  <2>1. ASSUME NEW s \in Session PROVE Backed(session[s])'
    <3>1. Backed(session[s]) /\ session[s] \in SessionState
      BY DEF IInv, ProcessInv, ProcessTyped, SessionsBacked
    <3>2. session'[s] = session[s]
      BY DEF Start
    <3> QED
      BY <1>2, <1>6, <3>1, <3>2 DEF Backed
  <2> QED
    BY <2>1 DEF SessionsBacked
<1> QED
  BY <1>5, <1>7, <1>8, <1>9, <1>10, <1>11
     DEF Start, IInv, ProcessInv, Lasting, TasksKept

\* The receipt makes a recorded row out of a pending one.
LEMMA ReceiptRecorded ==
  ASSUME IInv, NEW e \in Execution, row[e].outbox = "pending",
         NEW status \in Receipt \ {"none"},
         NEW outbox \in {"recorded", "recovered"},
         row' = [row EXCEPT ![e].receipt = status, ![e].outbox = outbox],
         UNCHANGED <<incident, holder>>
  PROVE  /\ RowsInv' /\ HoldsInv' /\ IncidentsKept
         /\ row[e].receipt = "none"
         /\ row'[e].receipt = status
         /\ row'[e].outbox = outbox
         /\ \A d \in Execution \ {e} : row'[d] = row[d]
<1> DEFINE new == [row[e] EXCEPT !.receipt = status, !.outbox = outbox]
<1>1. /\ row \in [Execution -> Row]
      /\ row[e] \in Row /\ row[e].receipt = "none" /\ row[e].attested = "none"
  BY DEF IInv, TablesInv, TablesTyped, RowsStaged
<1>2. /\ new \in Row
      /\ new.outbox = outbox /\ new.receipt = status /\ new.attested = "none"
  BY <1>1
<1>3. row' = [row EXCEPT ![e] = new]
  BY <1>1
<1>4. HoldsInv' /\ IncidentsKept
  BY HoldsSame
<1> HIDE DEF new
<1>5. /\ RowsInv' /\ row'[e] = new
      /\ \A d \in Execution \ {e} : row'[d] = row[d]
  <2> HIDE DEF Row
  <2> QED
    BY <1>1, <1>2, <1>3, <1>4, RowStep
<1> QED
  BY <1>1, <1>2, <1>4, <1>5

\* A session that was backed stays so when one more execution gets a receipt.
LEMMA ReceiptBacks ==
  ASSUME IInv, NEW e \in Execution, row[e].receipt = "none",
         row'[e].receipt # "none",
         \A d \in Execution \ {e} : row'[d] = row[d],
         NEW s \in Session, session'[s] = session[s]
  PROVE  Backed(session[s])'
<1>1. Backed(session[s]) /\ session[s] \in SessionState
  BY DEF IInv, ProcessInv, ProcessTyped, SessionsBacked
<1> QED
  BY <1>1 DEF Backed

\* The receipt is recorded for an execution in flight, which has no task yet.
LEMMA ExecutorAnsweredInv ==
  ASSUME IInv, NEW s \in Caller, NEW e \in Execution,
         NEW status \in Receipt \ {"none"}, ExecutorAnswered(s, e, status)
  PROVE  IInv' /\ Lasting
<1>1. /\ row[e].outbox = "pending"
      /\ s \in Session
  BY DEF ExecutorAnswered, IInv, ProcessInv, ProcessBacked, Session
<1>2. /\ RowsInv' /\ HoldsInv' /\ IncidentsKept
      /\ row[e].receipt = "none"
      /\ row'[e].receipt = status
      /\ row'[e].outbox = "recorded"
      /\ \A d \in Execution \ {e} : row'[d] = row[d]
  BY <1>1, ReceiptRecorded DEF ExecutorAnswered
<1>3. task' \in [Execution -> Task] /\ TasksBacked' /\ TasksKept
  <2>1. task \in [Execution -> Task] /\ TasksBacked
    BY DEF IInv, TablesInv, TablesTyped
  <2>2. task' = task \/ task' = [task EXCEPT ![e].status = "queued"]
    BY DEF ExecutorAnswered
  <2> QED
    BY <1>2, <2>1, <2>2 DEF TasksBacked, TasksKept
<1>4. TablesInv'
  BY <1>2, <1>3 DEF TablesInv, TablesTyped, RowsInv, HoldsInv
<1>5. Verifying(e, {}) \in SessionState /\ Backed(Verifying(e, {}))'
  BY <1>2 DEF Verifying, Backed, IInv, TablesInv, TablesTyped
<1>6. session' \in [Session -> SessionState]
  BY <1>1, <1>5 DEF ExecutorAnswered, Become, IInv, ProcessInv, ProcessTyped
<1>7. SessionsBacked'
  <2>1. ASSUME NEW t \in Session PROVE Backed(session[t])'
    <3>1. CASE session'[t] = session[t]
      BY <1>2, <3>1, ReceiptBacks
    <3>2. CASE session'[t] # session[t]
      <4>1. session'[t] = Verifying(e, {})
        BY <3>2 DEF ExecutorAnswered, Become, IInv, ProcessInv, ProcessTyped
      <4> QED
        BY <1>2, <4>1 DEF Backed, Verifying
    <3> QED
      BY <3>1, <3>2
  <2> QED
    BY <2>1 DEF SessionsBacked
<1>8. up' = up /\ todo' = todo /\ admitted' = admitted /\ inFlight' = inFlight \ {e}
      /\ up = "serving"
  BY DEF ExecutorAnswered
<1>9. ProcessBacked'
  <2>1. e \notin admitted
    BY <1>1 DEF IInv, ProcessInv, ProcessBacked
  <2> QED
    BY <1>2, <1>8, <2>1 DEF IInv, ProcessInv, ProcessTyped, ProcessBacked
<1>10. ProcessTyped'
  BY <1>6, <1>8 DEF IInv, ProcessInv, ProcessTyped
<1> QED
  BY <1>2, <1>3, <1>4, <1>7, <1>9, <1>10 DEF IInv, ProcessInv, Lasting

\* A request that verifies needs a receipt.
LEMMA VerifyInv ==
  ASSUME IInv, NEW s \in Caller, NEW e \in Execution, NEW force \in BOOLEAN,
         Verify(s, e, force)
  PROVE  IInv' /\ Lasting
<1>1. RowKept /\ RowsInv' /\ HoldsInv' /\ IncidentsKept
  BY RowsSame, HoldsSame DEF Verify
<1>2. TasksFrom(task')
  <2>1. CASE task[e].status = "queued"
    BY <2>1, SameTasks, OneClaimed DEF Verify
  <2>2. CASE task[e].status # "queued"
    BY <2>2, SameTasks DEF Verify
  <2> QED
    BY <2>1, <2>2
<1>3. ProcessInv'
  <2>1. s \in Session
    BY DEF Session
  <2>2. CASE Become(s, Verifying(e, {}))
    BY <1>1, <2>1, <2>2, GoesOn, VerifyingBacked DEF Verify
  <2>3. CASE UNCHANGED session
    <3>1. UNCHANGED <<row, process, session>>
      BY <2>3 DEF Verify
    <3> QED
      BY <3>1 DEF process, IInv, ProcessInv, ProcessTyped, ProcessBacked,
                  SessionsBacked, Backed
  <2> QED
    BY <2>2, <2>3 DEF Verify
<1> QED
  BY <1>1, <1>2, <1>3, Whole

\* An inconclusive receipt is not judged as verified.
LEMMA JudgedOutcome ==
  ASSUME NEW receipt, NEW answer \in Outcome
  PROVE  /\ Judged(receipt, answer) \in Outcome
         /\ Judged(receipt, answer) = "verified" => receipt # "unknown"
BY DEF Judged

\* The incident is there before the attestation.
LEMMA NotVerifiedInv ==
  ASSUME IInv, NEW s \in Session, NEW answer \in Outcome, NotVerified(s, answer)
  PROVE  IInv' /\ Lasting
<1> DEFINE e == session[s].on
           outcome == Judged(row[e].receipt, answer)
<1>1. ~At(s, "idle")
  BY DEF NotVerified, At
<1>2. e \in Execution /\ row[e].receipt # "none" /\ outcome \in Outcome
  BY <1>1, SessionHas, JudgedOutcome
<1>3. /\ outcome # "verified"
      /\ incident' = Opened(e) /\ holder' = Held(e)
      /\ Attest(e, outcome, TRUE)
      /\ Conclude(s, outcome)
  BY DEF NotVerified
<1> HIDE DEF e, outcome
<1>4. HoldsInv' /\ IncidentsKept /\ incident'[e] # "none"
  BY <1>2, <1>3, IncidentOpened
<1>5. RowKept /\ RowsInv'
  <2> HIDE DEF Outcome
  <2> QED
    BY <1>2, <1>3, <1>4, Attested
<1>6. ProcessInv' /\ TasksFrom(task')
  <2> HIDE DEF Outcome
  <2> QED
    BY <1>1, <1>2, <1>3, <1>5, ConcludeBacked
<1> QED
  BY <1>4, <1>5, <1>6, Whole

\* The incident is resolved before the attestation says verified.
LEMMA ResolveVerifiedInv ==
  ASSUME IInv, NEW s \in Session, ResolveVerified(s)
  PROVE  IInv' /\ Lasting
<1> DEFINE e == session[s].on
           state == [session[s] EXCEPT !.at = "record"]
<1>1. ~At(s, "idle")
  BY DEF ResolveVerified, At
<1>2. e \in Execution /\ row[e].receipt # "none" /\ row[e].receipt # "unknown"
  BY <1>1, SessionHas DEF ResolveVerified, Judged
<1>3. RowKept /\ RowsInv' /\ HoldsInv' /\ IncidentsKept
  BY <1>2, RowsSame, IncidentResolved DEF ResolveVerified
<1>4. TasksFrom(task')
  BY SameTasks DEF ResolveVerified
<1>5. state \in SessionState /\ Backed(state)
  BY <1>1, <1>2, SessionHas DEF Backed
<1>6. ProcessInv'
  BY <1>3, <1>5, GoesOn DEF ResolveVerified
<1> QED
  BY <1>3, <1>4, <1>6, Whole

\* What Verified and a crash in it write.
LEMMA VerifiedRows ==
  ASSUME IInv, NEW s \in Session, ~At(s, "idle"),
         \/ At(s, "record")
         \/ Judged(row[session[s].on].receipt, "verified") = "verified",
         Attest(session[s].on, "verified", session[s].linked),
         UNCHANGED <<incident, holder>>
  PROVE  RowKept /\ RowsInv' /\ HoldsInv' /\ IncidentsKept
<1> DEFINE e == session[s].on
<1>1. /\ e \in Execution /\ row[e].receipt # "none"
      /\ row[e].receipt # "unknown" /\ session[s].linked \in BOOLEAN
  BY SessionHas DEF Judged
<1>2. HoldsInv' /\ IncidentsKept
  BY HoldsSame
<1> QED
  BY <1>1, <1>2, Attested

\* An attestation that says verified has a conclusive receipt.
LEMMA VerifiedInv ==
  ASSUME IInv, NEW s \in Session, Verified(s)
  PROVE  IInv' /\ Lasting
<1>1. ~At(s, "idle")
  BY DEF Verified, At
<1>2. RowKept /\ RowsInv' /\ HoldsInv' /\ IncidentsKept
  BY <1>1, VerifiedRows DEF Verified
<1>3. ProcessInv' /\ TasksFrom(task')
  BY <1>1, <1>2, ConcludeBacked DEF Verified
<1> QED
  BY <1>2, <1>3, Whole

\* The loop goes on with the task moved, or throws.
LEMMA MovedOn ==
  ASSUME IInv, RowKept, NEW s \in Session, ~At(s, "idle"),
         NEW status \in TaskStatus,
         \/ Throw(s) /\ UNCHANGED task
         \/ TakeTask(s, session[s].work,
                     [task EXCEPT ![session[s].on] = Transitioned(@, status)])
  PROVE  ProcessInv' /\ TasksFrom(task')
<1>1. CASE Throw(s) /\ UNCHANGED task
  BY <1>1, ThrowBacked, SameTasks
<1>2. CASE TakeTask(s, session[s].work,
                    [task EXCEPT ![session[s].on] = Transitioned(@, status)])
  <2>1. TasksFrom([task EXCEPT ![session[s].on] = Transitioned(@, status)])
    BY SessionHas, OneTransitioned
  <2> QED
    BY <1>2, <2>1, SessionHas, TakeTaskBacked
<1> QED
  BY <1>1, <1>2

\* A verification that cannot sign writes no more than its task.
LEMMA SigningFailsInv ==
  ASSUME IInv, NEW s \in Session, SigningFails(s)
  PROVE  IInv' /\ Lasting
<1>1. RowKept /\ RowsInv' /\ HoldsInv' /\ IncidentsKept
  BY RowsSame, HoldsSame DEF SigningFails
<1>2. ~At(s, "idle")
  BY DEF SigningFails, At
<1>3. ProcessInv' /\ TasksFrom(task')
  BY <1>1, <1>2, MovedOn DEF SigningFails
<1> QED
  BY <1>1, <1>3, Whole

\* The loop settles its task by the outcome.
LEMMA SettleInv ==
  ASSUME IInv, NEW s \in Session, NEW retry \in BOOLEAN, Settle(s, retry)
  PROVE  IInv' /\ Lasting
<1>1. RowKept /\ RowsInv' /\ HoldsInv' /\ IncidentsKept
  BY RowsSame, HoldsSame DEF Settle
<1>2. ~At(s, "idle")
  BY DEF Settle, At
<1>3. ProcessInv' /\ TasksFrom(task')
  <2>1. PICK status \in {"completed", "queued", "input_required"} :
          \/ Throw(s) /\ UNCHANGED task
          \/ TakeTask(s, session[s].work,
                      [task EXCEPT ![session[s].on] = Transitioned(@, status)])
    BY DEF Settle
  <2> QED
    BY <1>1, <1>2, <2>1, MovedOn
<1> QED
  BY <1>1, <1>3, Whole

\* A poll lists queued tasks, whose executions have receipts.
LEMMA PollStartInv ==
  ASSUME IInv, NEW s \in Session, NEW due \in SUBSET Execution, PollStart(s, due)
  PROVE  IInv' /\ Lasting
<1>1. RowKept /\ RowsInv' /\ HoldsInv' /\ IncidentsKept
  BY RowsSame, HoldsSame DEF PollStart
<1>2. \A e \in due : row[e].receipt # "none"
  BY DEF PollStart, IInv, TasksBacked
<1>3. ProcessInv' /\ TasksFrom(task')
  BY <1>1, <1>2, SameTasks, TakeTaskBacked DEF PollStart
<1> QED
  BY <1>1, <1>3, Whole

\* A reviewer's resolution releases the incident's own hold.
LEMMA ReviewIncidentInv ==
  ASSUME IInv, NEW e \in Execution, NEW status \in {"acknowledged", "resolved"},
         ReviewIncident(e, status)
  PROVE  IInv' /\ Lasting
<1>1. HoldsInv' /\ IncidentsKept
  <2>1. CASE status = "resolved"
    BY <2>1, IncidentResolved DEF ReviewIncident
  <2>2. CASE status = "acknowledged"
    BY <2>2 DEF ReviewIncident, IInv, TablesInv, TablesTyped, HoldsInv,
                HoldHasIncident, IncidentsKept, Unsolved
  <2> QED
    BY <2>1, <2>2
<1>2. RowKept /\ RowsInv'
  BY <1>1, RowsSame DEF ReviewIncident
<1>3. TasksFrom(task')
  BY SameTasks DEF ReviewIncident
<1>4. ProcessInv'
  BY DEF ReviewIncident, process, IInv, ProcessInv, ProcessTyped, ProcessBacked,
         SessionsBacked, Backed
<1> QED
  BY <1>1, <1>2, <1>3, <1>4, Whole

\* A crash between two handlers' steps.
LEMMA CrashInv ==
  ASSUME IInv, Crash
  PROVE  IInv' /\ Lasting
<1>1. RowKept /\ RowsInv' /\ HoldsInv' /\ IncidentsKept
  BY RowsSame, HoldsSame DEF Crash, tables
<1>2. TasksFrom(task') /\ ProcessInv'
  BY SameTasks, ExitBacked DEF Crash, tables
<1> QED
  BY <1>1, <1>2, Whole

\* A crash between receipt and task.
LEMMA CrashInReceiptInv ==
  ASSUME IInv, NEW e \in Execution, CrashInReceipt(e)
  PROVE  IInv' /\ Lasting
<1>1. row[e].outbox = "pending"
  BY DEF CrashInReceipt, IInv, ProcessInv, ProcessBacked
<1>2. /\ RowsInv' /\ HoldsInv' /\ IncidentsKept
      /\ row[e].receipt = "none"
      /\ row'[e].receipt = "succeeded"
      /\ \A d \in Execution \ {e} : row'[d] = row[d]
  BY <1>1, ReceiptRecorded DEF CrashInReceipt
<1>3. TablesInv' /\ TasksBacked'
  BY <1>2 DEF CrashInReceipt, IInv, TablesInv, TablesTyped, RowsInv, HoldsInv,
              TasksBacked
<1> QED
  BY <1>2, <1>3, ExitBacked DEF CrashInReceipt, IInv, Lasting, TasksKept

\* A crash after the incident or after the attestation.
LEMMA CrashInNotVerifiedInv ==
  ASSUME IInv, NEW s \in Session, NEW answer \in Outcome,
         NEW attested \in BOOLEAN, CrashInNotVerified(s, answer, attested)
  PROVE  IInv' /\ Lasting
<1> DEFINE e == session[s].on
           outcome == Judged(row[e].receipt, answer)
<1>1. ~At(s, "idle")
  BY DEF CrashInNotVerified, At
<1>2. e \in Execution /\ row[e].receipt # "none" /\ outcome \in Outcome
  BY <1>1, SessionHas, JudgedOutcome
<1>3. /\ outcome # "verified"
      /\ incident' = Opened(e) /\ holder' = Held(e)
      /\ Attest(e, outcome, TRUE) \/ UNCHANGED row
  BY DEF CrashInNotVerified
<1> HIDE DEF e, outcome
<1>4. HoldsInv' /\ IncidentsKept /\ incident'[e] # "none"
  BY <1>2, <1>3, IncidentOpened
<1>5. RowKept /\ RowsInv'
  <2> HIDE DEF Outcome
  <2> QED
    BY <1>2, <1>3, <1>4, Attested, RowsSame
<1>6. ProcessInv' /\ TasksFrom(task')
  BY SameTasks, ExitBacked DEF CrashInNotVerified
<1> QED
  BY <1>4, <1>5, <1>6, Whole

\* A crash after an attestation that says verified.
LEMMA CrashInVerifiedInv ==
  ASSUME IInv, NEW s \in Session, CrashInVerified(s)
  PROVE  IInv' /\ Lasting
<1>1. ~At(s, "idle")
  BY DEF CrashInVerified, At
<1>2. RowKept /\ RowsInv' /\ HoldsInv' /\ IncidentsKept
  BY <1>1, VerifiedRows DEF CrashInVerified
<1>3. ProcessInv' /\ TasksFrom(task')
  BY SameTasks, ExitBacked DEF CrashInVerified
<1> QED
  BY <1>2, <1>3, Whole

\* A start-up lists rows that are pending.
LEMMA RestartInv ==
  ASSUME IInv, NEW old \in SUBSET Execution, Restart(old)
  PROVE  IInv' /\ Lasting
<1>1. RowKept /\ RowsInv' /\ HoldsInv' /\ IncidentsKept
  BY RowsSame, HoldsSame DEF Restart, tables
<1>2. TasksFrom(task')
  BY SameTasks DEF Restart, tables
<1>3. ProcessInv'
  BY DEF Restart, tables, IInv, ProcessInv, ProcessTyped, ProcessBacked,
         SessionsBacked, Backed
<1> QED
  BY <1>1, <1>2, <1>3, Whole

\* An unknown receipt is recorded for a pending row.
LEMMA RecoverInv ==
  ASSUME IInv, NEW e \in Execution, Recover(e)
  PROVE  IInv' /\ Lasting
<1>1. row[e].outbox = "pending"
  BY DEF Recover, IInv, ProcessInv, ProcessBacked
<1>2. /\ RowsInv' /\ HoldsInv' /\ IncidentsKept
      /\ row[e].receipt = "none"
      /\ row'[e].receipt = "unknown"
      /\ \A d \in Execution \ {e} : row'[d] = row[d]
  BY <1>1, ReceiptRecorded DEF Recover
<1>3. TablesInv' /\ TasksBacked'
  BY <1>2 DEF Recover, IInv, TablesInv, TablesTyped, RowsInv, HoldsInv,
              TasksBacked
<1>4. Verifying(e, {}) \in SessionState
  BY DEF Verifying, IInv, TablesInv, TablesTyped
<1>5. ProcessTyped'
  BY <1>4 DEF Recover, Become, IInv, ProcessInv, ProcessTyped
<1>6. SessionsBacked'
  <2>1. ASSUME NEW t \in Session PROVE Backed(session[t])'
    <3>1. CASE session'[t] = session[t]
      BY <1>2, <3>1, ReceiptBacks
    <3>2. CASE session'[t] # session[t]
      <4>1. session'[t] = Verifying(e, {})
        BY <3>2 DEF Recover, Become, IInv, ProcessInv, ProcessTyped
      <4> QED
        BY <1>2, <4>1 DEF Backed, Verifying
    <3> QED
      BY <3>1, <3>2
  <2> QED
    BY <2>1 DEF SessionsBacked
<1>7. ProcessBacked'
  <2>1. /\ admitted' = {} /\ inFlight' = {} /\ up' = "recovering"
        /\ todo' = todo \ {e} /\ todo \subseteq Execution
        /\ \A d \in todo : row[d].outbox = "pending"
    BY DEF Recover, IInv, ProcessInv, ProcessTyped, ProcessBacked
  <2>2. \A d \in todo' : row'[d].outbox = "pending"
    BY <1>2, <2>1
  <2> QED
    BY <2>1, <2>2 DEF ProcessBacked
<1>8. Lasting
  BY <1>2 DEF Recover, Lasting, TasksKept
<1> QED
  BY <1>3, <1>5, <1>6, <1>7, <1>8 DEF IInv, ProcessInv

\* A start-up lists rows with a receipt.
LEMMA ListUnattestedInv ==
  ASSUME IInv, ListUnattested
  PROVE  IInv' /\ Lasting
<1>1. RowKept /\ RowsInv' /\ HoldsInv' /\ IncidentsKept
  BY RowsSame, HoldsSame DEF ListUnattested, tables
<1>2. TasksFrom(task')
  BY SameTasks DEF ListUnattested, tables
<1>3. ProcessInv'
  BY DEF ListUnattested, tables, Unattested, IInv, TablesInv, RowsStaged,
         ProcessInv, ProcessTyped, ProcessBacked, SessionsBacked, Backed
<1> QED
  BY <1>1, <1>2, <1>3, Whole

\* A start-up goes on with a verification, having less to do.
LEMMA StartupGoesOn ==
  ASSUME IInv, RowKept, NEW state \in SessionState, Backed(state),
         \/ Become(Gateway, state)
         \/ UNCHANGED session /\ state = session[Gateway],
         up = "resuming", up' \in {"resuming", "polling"}, todo' \subseteq todo,
         UNCHANGED <<admitted, inFlight>>
  PROVE  ProcessInv'
<1>1. Gateway \in Session /\ session \in [Session -> SessionState]
  BY DEF Session, IInv, ProcessInv, ProcessTyped
<1>2. Become(Gateway, state)
  BY <1>1 DEF Become
<1>3. session' \in [Session -> SessionState] /\ SessionsBacked'
  BY <1>1, <1>2, BecomeBacked
<1>4. ProcessTyped'
  BY <1>3 DEF IInv, ProcessInv, ProcessTyped
<1>5. admitted' = {} /\ inFlight' = {} /\ up' \notin {"recovering", "serving"}
  BY DEF IInv, ProcessInv, ProcessBacked
<1>6. \A e \in todo' : row'[e].receipt # "none"
  BY DEF IInv, ProcessInv, ProcessTyped, ProcessBacked, RowKept
<1>7. ProcessBacked'
  BY <1>5, <1>6 DEF ProcessBacked
<1> QED
  BY <1>3, <1>4, <1>7 DEF ProcessInv

\* A start-up verifies one of them.
LEMMA ResumeInv ==
  ASSUME IInv, NEW e \in Execution, NEW due \in BOOLEAN, Resume(e, due)
  PROVE  IInv' /\ Lasting
<1>1. RowKept /\ RowsInv' /\ HoldsInv' /\ IncidentsKept
  BY RowsSame, HoldsSame DEF Resume
<1>2. row[e].receipt # "none"
  BY DEF Resume, IInv, ProcessInv, ProcessBacked
<1>3. TasksFrom(task')
  <2>1. CASE task[e].status = "queued" /\ due
    BY <1>2, <2>1, SameTasks, OneClaimed DEF Resume
  <2>2. CASE ~(task[e].status = "queued" /\ due)
    BY <2>2, SameTasks DEF Resume
  <2> QED
    BY <2>1, <2>2
<1>4. ProcessInv'
  <2>1. CASE due
    BY <1>1, <1>2, <2>1, VerifyingBacked, StartupGoesOn DEF Resume
  <2>2. CASE ~due
    <3>1. Gateway \in Session
      BY DEF Session
    <3>2. session[Gateway] \in SessionState /\ Backed(session[Gateway])
      BY <3>1 DEF IInv, ProcessInv, ProcessTyped, SessionsBacked
    <3> QED
      BY <1>1, <2>2, <3>2, StartupGoesOn DEF Resume
  <2> QED
    BY <2>1, <2>2
<1> QED
  BY <1>1, <1>3, <1>4, Whole

\* The start-up's poll lists queued tasks.
LEMMA StartupPollInv ==
  ASSUME IInv, NEW due \in SUBSET Execution, StartupPoll(due)
  PROVE  IInv' /\ Lasting
<1>1. RowKept /\ RowsInv' /\ HoldsInv' /\ IncidentsKept
  BY RowsSame, HoldsSame DEF StartupPoll
<1>2. \A e \in due : row[e].receipt # "none"
  BY DEF StartupPoll, IInv, TasksBacked
<1>3. ProcessInv' /\ TasksFrom(task')
  <2>1. CASE due = {}
    <3>1. Gateway \in Session
      BY DEF Session
    <3> QED
      BY <1>1, <2>1, <3>1, SameTasks, PollDoneBacked DEF StartupPoll
  <2>2. CASE due # {}
    <3>1. PICK e \in due :
            /\ task' = [task EXCEPT ![e] = Claimed(@)]
            /\ Become(Gateway, Verifying(e, due \ {e}))
            /\ up' = "polling"
            /\ UNCHANGED <<todo, admitted, inFlight>>
      BY <2>2 DEF StartupPoll
    <3>2. TasksFrom(task')
      BY <1>2, <3>1, SameTasks, OneClaimed DEF StartupPoll
    <3>3. /\ Verifying(e, due \ {e}) \in SessionState
          /\ Backed(Verifying(e, due \ {e}))
      BY <1>2, VerifyingBacked
    <3>4. up = "resuming"
      BY DEF StartupPoll
    <3>5. ProcessInv'
      BY <1>1, <3>1, <3>3, <3>4, StartupGoesOn
    <3> QED
      BY <3>2, <3>5
  <2> QED
    BY <2>1, <2>2
<1> QED
  BY <1>1, <1>3, Whole

\* A step that changes nothing.
LEMMA StutterInv ==
  ASSUME IInv, UNCHANGED vars
  PROVE  IInv' /\ Lasting
<1>1. RowKept /\ RowsInv' /\ HoldsInv' /\ IncidentsKept
  BY RowsSame, HoldsSame DEF vars
<1>2. TasksFrom(task')
  BY SameTasks DEF vars
<1>3. ProcessInv'
  BY DEF vars, IInv, ProcessInv, ProcessTyped, ProcessBacked, SessionsBacked,
         Backed
<1> QED
  BY <1>1, <1>2, <1>3, Whole

\* Every step preserves the invariant, and what has ended.
LEMMA InvStep == IInv /\ [Next]_vars => IInv' /\ Lasting
<1> SUFFICES ASSUME IInv, [Next]_vars PROVE IInv' /\ Lasting
  OBVIOUS
<1>1. ASSUME NEW e \in Execution, Admit(e) \/ Start(e) PROVE IInv' /\ Lasting
  BY <1>1, AdmitInv, StartInv
<1>2. ASSUME NEW s \in Caller, NEW e \in Execution,
             \/ \E status \in Receipt \ {"none"} : ExecutorAnswered(s, e, status)
             \/ \E force \in BOOLEAN : Verify(s, e, force)
      PROVE  IInv' /\ Lasting
  BY <1>2, ExecutorAnsweredInv, VerifyInv
<1>3. CASE Request
  BY <1>1, <1>2, <1>3, PollStartInv, ReviewIncidentInv DEF Request
<1>4. ASSUME NEW s \in Session, SessionStep(s) PROVE IInv' /\ Lasting
  BY <1>4, NotVerifiedInv, ResolveVerifiedInv, VerifiedInv, SigningFailsInv,
     SettleInv DEF SessionStep, Answered
<1>5. CASE Fail
  BY <1>5, CrashInv, CrashInReceiptInv, CrashInNotVerifiedInv,
     CrashInVerifiedInv DEF Fail
<1>6. CASE Startup
  BY <1>6, RecoverInv, ListUnattestedInv, ResumeInv, StartupPollInv DEF Startup
<1>7. CASE UNCHANGED vars
  BY <1>7, StutterInv
<1> QED
  BY <1>3, <1>4, <1>5, <1>6, <1>7, RestartInv DEF Next

-----------------------------------------------------------------------------
(* The start-up after a crash.                                              *)

\* A receipt without attestation whose task neither waits nor has failed.
Owed(e) ==
  /\ row[e].outbox = "recorded"
  /\ row[e].attested = "none"
  /\ task[e].status \notin {"queued", "failed"}

NothingOwed == \A e \in Execution : ~Owed(e)

\* The gateway's own session verifies the execution at this moment.
InHand(e) ==
  /\ session[Gateway].at \in {"verifier", "record"}
  /\ session[Gateway].on = e

\* Until it serves, only the gateway's own session is at work.
GatewayAlone ==
  /\ up # "serving" => \A s \in Session \ {Gateway} : At(s, "idle")
  /\ up = "down" => At(Gateway, "idle")
  /\ up \in {"recovering", "resuming"} => ~At(Gateway, "settle")

\* What is owed is still to do or in hand.
OwedInHand ==
  /\ up = "resuming" => \A e \in Execution : Owed(e) => e \in todo \/ InHand(e)
  /\ up = "polling" => \A e \in Execution : Owed(e) => InHand(e)
  /\ up = "polling" /\ At(Gateway, "settle") =>
       row[session[Gateway].on].attested # "none"

StartupInv == GatewayAlone /\ OwedInHand

\* What a step on the way to serving has to show: what StartupInv asks, and when
\* the gateway serves, that nothing it was left with is owed.
Resumed ==
  up # "serving" /\ up' = "serving" =>
    \A e \in Execution :
      row[e].outbox = "recorded" =>
        row'[e].attested # "none" \/ task'[e].status \in {"queued", "failed"}

\* A step does not take an execution out of the stage its row is in.
StagesKept == \A e \in Execution : row'[e].outbox = row[e].outbox

\* The gateway's session is one of the sessions, and no request.
LEMMA GatewayIs ==
  /\ Gateway \in Session
  /\ \A s \in Session : Polls(s) /\ s = Gateway => up \in {"polling", "serving"}
  /\ up = "polling" => Polls(Gateway)
BY ConstantsAssumption DEF Session, Polls

\* A process that has ended owes nothing before the next start.
LEMMA ExitOwesNothing ==
  ASSUME Exit
  PROVE  StartupInv' /\ Resumed
BY GatewayIs DEF Exit, StartupInv, GatewayAlone, OwedInHand, At, Resumed

\* A process that serves owes nothing of a start-up.
LEMMA ServingOwesNothing ==
  ASSUME up = "serving", up' = "serving"
  PROVE  StartupInv' /\ Resumed
BY DEF StartupInv, GatewayAlone, OwedInHand, Resumed

\* When the gateway comes to serve with nothing owed, it has resumed all.
LEMMA ServesResumed ==
  ASSUME up' = "serving", StagesKept, NothingOwed'
  PROVE  StartupInv' /\ Resumed
BY DEF StartupInv, GatewayAlone, OwedInHand, Resumed, StagesKept, NothingOwed,
       Owed

\* The gateway's session goes on before it serves; the other sessions wait.
LEMMA OthersWait ==
  ASSUME IInv, GatewayAlone, up # "serving", NEW state,
         Become(Gateway, state)
  PROVE  /\ \A s \in Session \ {Gateway} : session'[s].at = "idle"
         /\ session'[Gateway] = state
BY GatewayIs DEF IInv, ProcessInv, ProcessTyped, GatewayAlone, At, Become

\* The loop of the first poll: what is not owed may wait, and what it takes next
\* is in hand.
LEMMA LoopOwesNothing ==
  ASSUME IInv, GatewayAlone, up = "polling", StagesKept,
         NEW work \in SUBSET Execution, NEW now, TasksFrom(now),
         \A e \in Execution :
           row'[e].outbox = "recorded" /\ row'[e].attested = "none" =>
             now[e].status \in {"queued", "failed"},
         TakeTask(Gateway, work, now)
  PROVE  StartupInv' /\ Resumed
<1>1. CASE work = {}
  <2>1. task' = now /\ up' = "serving"
    BY <1>1 DEF TakeTask, PollDone
  <2>2. NothingOwed'
    BY <2>1 DEF NothingOwed, Owed
  <2> QED
    BY <2>1, <2>2, ServesResumed
<1>2. CASE work # {}
  <2>1. PICK e \in work :
          IF TransitionThrows(now[e], "running")
          THEN task' = now /\ Throw(Gateway)
          ELSE /\ task' = [now EXCEPT ![e] = Claimed(@)]
               /\ Become(Gateway, Verifying(e, work \ {e}))
               /\ UNCHANGED process
    BY <1>2 DEF TakeTask
  <2>2. CASE TransitionThrows(now[e], "running")
    BY <2>1, <2>2, ExitOwesNothing DEF Throw
  <2>3. CASE ~TransitionThrows(now[e], "running")
    <3>1. /\ task' = [now EXCEPT ![e] = Claimed(@)]
          /\ Become(Gateway, Verifying(e, work \ {e}))
          /\ up' = "polling"
      BY <2>1, <2>3 DEF process
    <3>2. \A d \in Execution \ {e} : task'[d] = now[d]
      BY <3>1 DEF TasksFrom
    <3>3. /\ \A s \in Session \ {Gateway} : session'[s].at = "idle"
          /\ session'[Gateway].at = "verifier"
          /\ session'[Gateway].on = e
      BY <3>1, OthersWait DEF Verifying
    <3>4. \A d \in Execution : Owed(d)' => d = e
      BY <3>2 DEF Owed
    <3>5. \A d \in Execution : Owed(d)' => InHand(d)'
      BY <3>3, <3>4 DEF InHand
    <3> QED
      BY <3>1, <3>3, <3>5
      DEF StartupInv, GatewayAlone, OwedInHand, At, Resumed
  <2> QED
    BY <2>2, <2>3
<1> QED
  BY <1>1, <1>2

\* An attestation keeps every stage, and no execution comes to owe one.
LEMMA AttestPays ==
  ASSUME IInv, NEW e \in Execution, NEW outcome \in Outcome,
         NEW linked \in BOOLEAN, Attest(e, outcome, linked)
  PROVE  /\ StagesKept
         /\ row'[e].attested # "none"
         /\ \A d \in Execution \ {e} : row'[d] = row[d]
<1>1. row \in [Execution -> Row]
  BY DEF IInv, TablesInv, TablesTyped
<1>2. \A d \in Execution \ {e} : row'[d] = row[d]
  BY <1>1 DEF Attest
<1>3. row'[e].attested = outcome /\ row'[e].outbox = row[e].outbox
  BY <1>1 DEF Attest
<1> QED
  BY <1>2, <1>3 DEF StagesKept

\* Once its execution is attested, a session owes nothing more for it.
LEMMA ConcludeOwesNothing ==
  ASSUME IInv, StartupInv, up # "serving", ~At(Gateway, "idle"),
         NEW outcome \in Outcome, NEW linked \in BOOLEAN,
         session[Gateway].at \in {"verifier", "record"},
         Attest(session[Gateway].on, outcome, linked),
         Conclude(Gateway, outcome)
  PROVE  StartupInv' /\ Resumed
<1> DEFINE e == session[Gateway].on
           final == IF outcome = "verified" THEN "completed" ELSE "input_required"
           throws == session[Gateway].tasked /\ TransitionThrows(task[e], final)
           next == IF session[Gateway].tasked
                   THEN [task EXCEPT ![e] = Transitioned(@, final)]
                   ELSE task
           settle == [session[Gateway] EXCEPT !.at = "settle", !.outcome = outcome]
<1>1. /\ session[Gateway] \in SessionState
      /\ e \in Execution
      /\ session[Gateway].work \in SUBSET Execution
  BY GatewayIs, SessionHas
<1>2. /\ StagesKept
      /\ row'[e].attested # "none"
      /\ \A d \in Execution \ {e} : row'[d] = row[d]
  BY <1>1, AttestPays
<1>3. task \in [Execution -> Task] /\ TasksFrom(task)
  BY SameTasks DEF IInv, TablesInv, TablesTyped
<1>4. \A d \in Execution \ {e} : next[d] = task[d]
  BY <1>3
<1>5. \A d \in Execution : InHand(d) => d = e
  BY DEF InHand
<1>6. CASE ~Polls(Gateway)
  <2>1. CASE throws
    BY <1>6, <2>1, ExitOwesNothing DEF Conclude, Throw
  <2>2. CASE ~throws
    <3>1. task' = next /\ Become(Gateway, Idle) /\ UNCHANGED process
      BY <1>6, <2>2 DEF Conclude
    <3>2. \A s \in Session \ {Gateway} : session'[s].at = "idle"
      BY <3>1, OthersWait DEF StartupInv
    <3>3. session'[Gateway].at = "idle"
      BY <3>1, OthersWait DEF StartupInv
    <3>4. \A d \in Execution : Owed(d)' => d # e /\ Owed(d)
      BY <1>2, <1>4, <3>1 DEF Owed
    <3>5. up # "polling"
      BY <1>6, GatewayIs
    <3>6. up' = up /\ todo' = todo
      BY <3>1 DEF process
    <3>7. up = "resuming" => \A d \in Execution : Owed(d)' => d \in todo
      BY <3>4, <1>5 DEF StartupInv, OwedInHand
    <3>8. GatewayAlone'
      BY <3>2, <3>3, <3>6 DEF GatewayAlone, At
    <3>9. OwedInHand'
      BY <3>5, <3>6, <3>7 DEF OwedInHand
    <3> QED
      BY <3>6, <3>8, <3>9 DEF StartupInv, Resumed
  <2> QED
    BY <2>1, <2>2
<1>7. CASE Polls(Gateway)
  <2>1. up = "polling"
    BY <1>7, GatewayIs
  <2>2. \A d \in Execution \ {e} :
          row'[d].outbox = "recorded" /\ row'[d].attested = "none" =>
            task[d].status \in {"queued", "failed"}
    BY <1>2, <1>5, <2>1 DEF StartupInv, OwedInHand, Owed
  <2>3. CASE ~throws
    <3>1. task' = next /\ Become(Gateway, settle) /\ UNCHANGED process
      BY <1>7, <2>3 DEF Conclude
    <3>2. /\ \A s \in Session \ {Gateway} : session'[s].at = "idle"
          /\ session'[Gateway] = settle
      BY <3>1, <2>1, OthersWait DEF StartupInv
    <3>3. settle.on = e
      BY <1>1
    <3>4. \A d \in Execution : ~Owed(d)'
      BY <1>2, <1>4, <2>2, <3>1 DEF Owed
    <3>5. up' = "polling"
      BY <2>1, <3>1 DEF process
    <3>6. row'[session'[Gateway].on].attested # "none"
      BY <1>2, <3>2, <3>3
    <3> QED
      BY <3>2, <3>4, <3>5, <3>6
      DEF StartupInv, GatewayAlone, OwedInHand, At, Resumed
  <2>4. CASE throws /\ task[e].status = "failed"
    <3>1. TakeTask(Gateway, session[Gateway].work, task)
      BY <1>7, <2>4 DEF Conclude
    <3> QED
      BY <1>1, <1>2, <1>3, <2>1, <2>2, <3>1, LoopOwesNothing DEF StartupInv
  <2>5. CASE throws /\ task[e].status # "failed"
    BY <1>7, <2>1, <2>5, ExitOwesNothing DEF Conclude, Throw
  <2> QED
    BY <2>3, <2>4, <2>5
<1> QED
  BY <1>6, <1>7

\* The answers of the verifier that attest an outcome.
LEMMA AttestedOwesNothing ==
  ASSUME IInv, StartupInv, up # "serving", NEW s \in Session,
         \/ \E answer \in Outcome : NotVerified(s, answer)
         \/ Verified(s)
  PROVE  StartupInv' /\ Resumed
<1>1. s = Gateway /\ session[s].at \in {"verifier", "record"}
  BY DEF NotVerified, Verified, Runs, At
<1>2. session[s] \in SessionState
  BY DEF IInv, ProcessInv, ProcessTyped
<1>3. ~At(Gateway, "idle")
  BY <1>1 DEF At
<1>4. ASSUME NEW answer \in Outcome, NotVerified(s, answer)
      PROVE  StartupInv' /\ Resumed
  <2> DEFINE outcome == Judged(row[session[s].on].receipt, answer)
  <2>1. outcome \in Outcome
    BY DEF Judged
  <2>2. Attest(session[s].on, outcome, TRUE) /\ Conclude(s, outcome)
    BY <1>4 DEF NotVerified
  <2> HIDE DEF outcome
  <2> QED
    BY <1>1, <1>3, <2>1, <2>2, ConcludeOwesNothing
<1>5. ASSUME Verified(s)
      PROVE  StartupInv' /\ Resumed
  <2>1. session[s].linked \in BOOLEAN
    BY <1>2
  <2>2. /\ Attest(session[s].on, "verified", session[s].linked)
        /\ Conclude(s, "verified")
    BY <1>5 DEF Verified
  <2> QED
    BY <1>1, <1>3, <2>1, <2>2, ConcludeOwesNothing
<1> QED
  BY <1>4, <1>5

\* The incident is resolved before the outcome is recorded: still in hand.
LEMMA ResolveOwesNothing ==
  ASSUME IInv, StartupInv, up # "serving", NEW s \in Session, ResolveVerified(s)
  PROVE  StartupInv' /\ Resumed
<1> DEFINE state == [session[s] EXCEPT !.at = "record"]
<1>1. s = Gateway /\ At(s, "verifier") /\ up # "down"
  BY DEF ResolveVerified, Runs
<1>2. /\ Become(Gateway, state) /\ UNCHANGED <<row, task, process>>
  BY <1>1 DEF ResolveVerified
<1>3. state.at = "record" /\ state.on = session[Gateway].on
  BY <1>1, GatewayIs DEF IInv, ProcessInv, ProcessTyped
<1> HIDE DEF state
<1>4. /\ \A t \in Session \ {Gateway} : session'[t].at = "idle"
      /\ session'[Gateway] = state
  BY <1>2, OthersWait DEF StartupInv
<1>5. up' = up /\ todo' = todo
  BY <1>2 DEF process
<1>6. \A e \in Execution : (Owed(e)' => Owed(e)) /\ (InHand(e) => InHand(e)')
  BY <1>2, <1>3, <1>4 DEF Owed, InHand
<1>7. GatewayAlone'
  BY <1>1, <1>3, <1>4, <1>5 DEF GatewayAlone, At
<1>8. OwedInHand'
  BY <1>3, <1>4, <1>5, <1>6 DEF StartupInv, OwedInHand, At
<1> QED
  BY <1>5, <1>7, <1>8 DEF StartupInv, Resumed

\* Nobody can sign: the gateway exits, or its first poll fails the task.
LEMMA SigningOwesNothing ==
  ASSUME IInv, StartupInv, up # "serving", NEW s \in Session, SigningFails(s)
  PROVE  StartupInv' /\ Resumed
<1> DEFINE e == session[Gateway].on
           now == [task EXCEPT ![e] = Transitioned(@, "failed")]
<1>1. s = Gateway /\ At(Gateway, "verifier") /\ UNCHANGED row
  BY DEF SigningFails, Runs
<1>2. CASE ~Polls(Gateway) \/ TransitionThrows(task[e], "failed")
  BY <1>1, <1>2, ExitOwesNothing DEF SigningFails, Throw
<1>3. CASE Polls(Gateway) /\ ~TransitionThrows(task[e], "failed")
  <2>1. up = "polling"
    BY <1>3, GatewayIs
  <2>2. /\ e \in Execution
        /\ row[e].receipt # "none"
        /\ session[Gateway].work \in SUBSET Execution
    BY <1>1, GatewayIs, SessionHas DEF At
  <2>3. TasksFrom(now)
    BY <2>2, OneTransitioned
  <2>4. task \in [Execution -> Task]
    BY DEF IInv, TablesInv, TablesTyped
  <2>5. now[e].status = "failed"
    BY <1>3, <2>2, <2>4 DEF Transitioned, TransitionThrows
  <2>6. \A d \in Execution \ {e} : now[d] = task[d]
    BY <2>4
  <2>7. \A d \in Execution : InHand(d) => d = e
    BY DEF InHand
  <2>8. TakeTask(Gateway, session[Gateway].work, now)
    BY <1>1, <1>3 DEF SigningFails
  <2> HIDE DEF now
  <2>9. \A d \in Execution :
          row'[d].outbox = "recorded" /\ row'[d].attested = "none" =>
            now[d].status \in {"queued", "failed"}
    BY <1>1, <2>1, <2>5, <2>6, <2>7 DEF StartupInv, OwedInHand, Owed
  <2>10. StagesKept
    BY <1>1 DEF StagesKept
  <2> QED
    BY <2>1, <2>2, <2>3, <2>8, <2>9, <2>10, LoopOwesNothing DEF StartupInv
<1> QED
  BY <1>2, <1>3

\* The first poll settles a task whose execution was just attested.
LEMMA SettleOwesNothing ==
  ASSUME IInv, StartupInv, up # "serving", NEW s \in Session,
         NEW retry \in BOOLEAN, Settle(s, retry)
  PROVE  StartupInv' /\ Resumed
<1> DEFINE e == session[Gateway].on
           outcome == session[Gateway].outcome
           next == IF outcome = "verified" THEN "completed"
                   ELSE IF retry THEN "queued" ELSE "input_required"
           now == [task EXCEPT ![e] = Transitioned(@, next)]
<1>1. s = Gateway /\ At(Gateway, "settle") /\ UNCHANGED row
  BY DEF Settle, Runs
<1>2. up = "polling"
  BY <1>1 DEF StartupInv, GatewayAlone, At, IInv, ProcessInv, ProcessTyped
<1>3. \/ Throw(Gateway)
      \/ TakeTask(Gateway, session[Gateway].work, now)
  BY <1>1 DEF Settle
<1>4. CASE Throw(Gateway)
  BY <1>2, <1>4, ExitOwesNothing DEF Throw
<1>5. CASE TakeTask(Gateway, session[Gateway].work, now)
  <2>1. /\ e \in Execution
        /\ row[e].receipt # "none"
        /\ session[Gateway].work \in SUBSET Execution
    BY <1>1, GatewayIs, SessionHas DEF At
  <2>2. TasksFrom(now)
    BY <2>1, OneTransitioned
  <2>3. task \in [Execution -> Task]
    BY DEF IInv, TablesInv, TablesTyped
  <2>4. \A d \in Execution \ {e} : now[d] = task[d]
    BY <2>3
  <2> HIDE DEF now
  <2>5. \A d \in Execution : ~InHand(d)
    BY <1>1 DEF InHand, At
  <2>6. row[e].attested # "none"
    BY <1>1, <1>2 DEF StartupInv, OwedInHand
  <2>7. \A d \in Execution :
          row'[d].outbox = "recorded" /\ row'[d].attested = "none" =>
            now[d].status \in {"queued", "failed"}
    BY <1>1, <1>2, <2>4, <2>5, <2>6 DEF StartupInv, OwedInHand, Owed
  <2>8. StagesKept
    BY <1>1 DEF StagesKept
  <2> QED
    BY <1>2, <1>5, <2>1, <2>2, <2>7, <2>8, LoopOwesNothing DEF StartupInv
<1> QED
  BY <1>3, <1>4, <1>5

\* The start-up's own steps.
LEMMA StartupOwesNothing ==
  ASSUME IInv, StartupInv, Startup
  PROVE  StartupInv' /\ Resumed
<1>1. Gateway \in Session /\ session[Gateway] \in SessionState
  BY GatewayIs DEF IInv, ProcessInv, ProcessTyped
<1>2. ASSUME NEW e \in Execution, Recover(e)
      PROVE  StartupInv' /\ Resumed
  <2>1. up = "recovering" /\ up' = up /\ Become(Gateway, Verifying(e, {}))
    BY <1>2 DEF Recover
  <2>2. /\ \A s \in Session \ {Gateway} : session'[s].at = "idle"
        /\ session'[Gateway].at = "verifier"
    BY <2>1, OthersWait DEF StartupInv, Verifying
  <2> QED
    BY <2>1, <2>2 DEF StartupInv, GatewayAlone, OwedInHand, At, Resumed
<1>3. ASSUME ListUnattested
      PROVE  StartupInv' /\ Resumed
  <2>1. /\ up = "recovering" /\ up' = "resuming" /\ todo' = Unattested
        /\ UNCHANGED <<row, task, session>>
        /\ At(Gateway, "idle")
    BY <1>3 DEF ListUnattested, tables
  <2>2. \A e \in Execution : Owed(e)' => e \in todo'
    BY <2>1 DEF Owed, Unattested
  <2>3. GatewayAlone'
    BY <2>1 DEF StartupInv, GatewayAlone, At
  <2> QED
    BY <2>1, <2>2, <2>3 DEF StartupInv, OwedInHand, Resumed
<1>4. ASSUME NEW e \in Execution, NEW due \in BOOLEAN, Resume(e, due)
      PROVE  StartupInv' /\ Resumed
  <2>1. /\ up = "resuming" /\ up' = up /\ UNCHANGED row
        /\ At(Gateway, "idle")
        /\ todo' = todo \ {e}
        /\ ~due => task[e].status = "queued"
    BY <1>4 DEF Resume
  <2>2. \A d \in Execution : ~InHand(d)
    BY <2>1 DEF InHand, At
  <2>3. \A d \in Execution : Owed(d) => d \in todo
    BY <2>1, <2>2 DEF StartupInv, OwedInHand
  <2>4. task \in [Execution -> Task]
    BY DEF IInv, TablesInv, TablesTyped
  <2>5. \A d \in Execution \ {e} : task'[d] = task[d]
    BY <1>4, <2>4 DEF Resume
  <2>6. \A d \in Execution \ {e} : Owed(d)' => d \in todo'
    BY <2>1, <2>3, <2>5 DEF Owed
  <2>7. CASE due
    <3>1. Become(Gateway, Verifying(e, {}))
      BY <1>4, <2>7 DEF Resume
    <3>2. /\ \A s \in Session \ {Gateway} : session'[s].at = "idle"
          /\ session'[Gateway].at = "verifier"
          /\ session'[Gateway].on = e
      BY <2>1, <3>1, OthersWait DEF StartupInv, Verifying
    <3>3. \A d \in Execution : Owed(d)' => d \in todo' \/ InHand(d)'
      BY <2>6, <3>2 DEF InHand
    <3> QED
      BY <2>1, <3>2, <3>3
      DEF StartupInv, GatewayAlone, OwedInHand, At, Resumed
  <2>8. CASE ~due
    <3>1. UNCHANGED <<task, session>>
      BY <1>4, <2>8 DEF Resume
    <3>2. \A d \in Execution : Owed(d)' => d \in todo'
      BY <2>1, <2>6, <2>8, <3>1 DEF Owed
    <3>3. GatewayAlone'
      BY <2>1, <3>1 DEF StartupInv, GatewayAlone, At
    <3> QED
      BY <2>1, <3>2, <3>3 DEF StartupInv, OwedInHand, Resumed
  <2> QED
    BY <2>7, <2>8
<1>5. ASSUME NEW due \in SUBSET Execution, StartupPoll(due)
      PROVE  StartupInv' /\ Resumed
  <2>1. /\ up = "resuming" /\ UNCHANGED row
        /\ At(Gateway, "idle")
        /\ todo = {}
    BY <1>5 DEF StartupPoll
  <2>2. \A d \in Execution : ~Owed(d)
    BY <2>1 DEF StartupInv, OwedInHand, InHand, At
  <2>3. CASE due = {}
    <3>1. task' = task /\ up' = "serving"
      BY <1>5, <2>3 DEF StartupPoll, PollDone
    <3>2. StagesKept /\ NothingOwed'
      BY <2>1, <2>2, <3>1 DEF StagesKept, NothingOwed, Owed
    <3> QED
      BY <3>1, <3>2, ServesResumed
  <2>4. CASE due # {}
    <3>1. PICK e \in due :
            /\ task' = [task EXCEPT ![e] = Claimed(@)]
            /\ Become(Gateway, Verifying(e, due \ {e}))
            /\ up' = "polling"
            /\ UNCHANGED <<todo, admitted, inFlight>>
      BY <1>5, <2>4 DEF StartupPoll
    <3>2. /\ \A s \in Session \ {Gateway} : session'[s].at = "idle"
          /\ session'[Gateway].at = "verifier"
          /\ session'[Gateway].on = e
      BY <2>1, <3>1, OthersWait DEF StartupInv, Verifying
    <3>3. \A d \in Execution \ {e} : task'[d] = task[d]
      BY <3>1 DEF IInv, TablesInv, TablesTyped
    <3>4. \A d \in Execution : Owed(d)' => d = e
      BY <2>1, <2>2, <3>3 DEF Owed
    <3>5. \A d \in Execution : Owed(d)' => InHand(d)'
      BY <3>2, <3>4 DEF InHand
    <3> QED
      BY <3>1, <3>2, <3>5
      DEF StartupInv, GatewayAlone, OwedInHand, At, Resumed
  <2> QED
    BY <2>3, <2>4
<1> QED
  BY <1>2, <1>3, <1>4, <1>5 DEF Startup

\* A request is served by a process that serves on.
LEMMA RequestOwesNothing ==
  ASSUME Request
  PROVE  StartupInv' /\ Resumed
<1>1. up = "serving"
  BY DEF Request, Admit, Start, ExecutorAnswered, Verify, PollStart,
         ReviewIncident
<1>2. ASSUME NEW s \in Session, NEW due \in SUBSET Execution, PollStart(s, due)
      PROVE  up' = "serving"
  BY <1>1, <1>2 DEF PollStart, TakeTask, PollDone, Throw, process
<1>3. up' = "serving"
  BY <1>1, <1>2 DEF Request, Admit, Start, ExecutorAnswered, Verify,
                    ReviewIncident, process
<1> QED
  BY <1>1, <1>3, ServingOwesNothing

\* The sessions of a process that serves leave it serving.
LEMMA ServedOwesNothing ==
  ASSUME up = "serving", NEW s \in Session, SessionStep(s)
  PROVE  StartupInv' /\ Resumed
<1>1. ASSUME NEW work, NEW now, TakeTask(s, work, now)
      PROVE  up' = "serving"
  BY <1>1 DEF TakeTask, PollDone, Throw, process
<1>2. ASSUME Throw(s)
      PROVE  up' = "serving"
  BY <1>2 DEF Throw, process
<1>3. ASSUME NEW outcome, Conclude(s, outcome)
      PROVE  up' = "serving"
  BY <1>1, <1>2, <1>3 DEF Conclude, process
<1>4. up' = "serving"
  <2>1. CASE SigningFails(s)
    BY <1>1, <1>2, <2>1 DEF SigningFails
  <2>2. ASSUME NEW retry \in BOOLEAN, Settle(s, retry)
        PROVE  up' = "serving"
    BY <1>1, <1>2, <2>2 DEF Settle
  <2>3. CASE ResolveVerified(s)
    BY <2>3 DEF ResolveVerified, process
  <2>4. CASE Verified(s)
    BY <1>3, <2>4 DEF Verified
  <2>5. ASSUME NEW answer \in Outcome, NotVerified(s, answer)
        PROVE  up' = "serving"
    BY <1>3, <2>5 DEF NotVerified
  <2> QED
    BY <2>1, <2>2, <2>3, <2>4, <2>5 DEF SessionStep, Answered
<1> QED
  BY <1>4, ServingOwesNothing

\* A restart begins with the gateway alone; a stutter changes nothing.
LEMMA RestartOwesNothing ==
  ASSUME StartupInv, \/ \E old \in SUBSET Execution : Restart(old)
                     \/ UNCHANGED vars
  PROVE  StartupInv' /\ Resumed
<1>1. CASE \E old \in SUBSET Execution : Restart(old)
  <2>1. up = "down" /\ up' = "recovering" /\ UNCHANGED session
    BY <1>1 DEF Restart
  <2> QED
    BY <2>1 DEF StartupInv, GatewayAlone, OwedInHand, At, Resumed
<1>2. CASE UNCHANGED vars
  BY <1>2 DEF vars, StartupInv, GatewayAlone, OwedInHand, Owed, InHand, At,
              Resumed
<1> QED
  BY <1>1, <1>2

\* Every step keeps the start-up's invariant and comes to serve with all resumed.
LEMMA StartupStep == IInv /\ StartupInv /\ [Next]_vars => StartupInv' /\ Resumed
<1> SUFFICES ASSUME IInv, StartupInv, [Next]_vars PROVE StartupInv' /\ Resumed
  OBVIOUS
<1>1. ASSUME NEW s \in Session, SessionStep(s) PROVE StartupInv' /\ Resumed
  <2>1. CASE up = "serving"
    BY <1>1, <2>1, ServedOwesNothing
  <2>2. CASE up # "serving"
    BY <1>1, <2>2, AttestedOwesNothing, ResolveOwesNothing, SigningOwesNothing,
       SettleOwesNothing DEF SessionStep, Answered
  <2> QED
    BY <2>1, <2>2
<1>2. CASE Fail
  BY <1>2, ExitOwesNothing DEF Fail, Crash, CrashInReceipt, CrashInNotVerified,
                               CrashInVerified
<1> QED
  BY <1>1, <1>2, RequestOwesNothing, StartupOwesNothing, RestartOwesNothing
  DEF Next

-----------------------------------------------------------------------------
(* The theorems.                                                            *)

\* The invariant holds throughout.
LEMMA Invariant == Spec => []IInv
BY InvInit, InvStep, PTL DEF Spec

\* The tables, what the process remembers and the sessions keep their types.
THEOREM TypeCorrect == Spec => []TypeOK
<1>1. IInv => TypeOK
  BY DEF IInv, TablesInv, TablesTyped, ProcessInv, ProcessTyped, TypeOK
<1> QED
  BY <1>1, Invariant, PTL

\* Whoever reads an outcome that is not verified finds its incident, through
\* every interleaving of verifications and every crash.
THEOREM OutcomesHaveIncidents == Spec => []OutcomeHasIncident
<1>1. IInv => OutcomeHasIncident
  BY DEF IInv, TablesInv
<1> QED
  BY <1>1, Invariant, PTL

\* A connector call without a conclusive receipt is never verified.
THEOREM UnknownsNeverVerified == Spec => []UnknownNeverVerified
<1>1. IInv => UnknownNeverVerified
  BY DEF IInv, TablesInv
<1> QED
  BY <1>1, Invariant, PTL

\* A hold stands for an unsolved incident of its resource.
THEOREM HoldsHaveIncidents == Spec => []HoldHasIncident
<1>1. IInv => HoldHasIncident
  BY DEF IInv, TablesInv
<1> QED
  BY <1>1, Invariant, PTL

\* A task that ended is never changed, by polls, requests or start-ups.
THEOREM TasksEndOnce == Spec => TaskEndsOnce
<1>1. IInv /\ [Next]_vars =>
        [\A e \in Execution : task[e].status \in Terminal => task'[e] = task[e]]_vars
  BY InvStep DEF Lasting, TasksKept
<1> QED
  BY <1>1, Invariant, PTL DEF Spec, TaskEndsOnce

\* A resolved incident is never brought back.
THEOREM IncidentsResolvedForGood == Spec => ResolvedForGood
<1>1. IInv /\ [Next]_vars =>
        [\A e \in Execution :
           incident[e] = "resolved" => incident'[e] = "resolved"]_vars
  BY InvStep DEF Lasting, IncidentsKept
<1> QED
  BY <1>1, Invariant, PTL DEF Spec, ResolvedForGood

\* When requests are served after a crash, every receipt the executor gave is
\* attested, or its task is queued or has failed, however often the start-up
\* itself crashed.
THEOREM ReceiptsResumed == Spec => ResumedBeforeServing
<1>1. Init => StartupInv
  BY DEF Init, StartupInv, GatewayAlone, OwedInHand
<1>2. Spec => []StartupInv
  BY <1>1, Invariant, StartupStep, PTL DEF Spec
<1>3. IInv /\ StartupInv /\ [Next]_vars =>
        [\A e \in Execution :
           up # "serving" /\ up' = "serving" /\ row[e].outbox = "recorded" =>
             \/ row'[e].attested # "none"
             \/ task'[e].status \in {"queued", "failed"}]_vars
  BY StartupStep DEF Resumed
<1> QED
  BY <1>2, <1>3, Invariant, PTL DEF Spec, ResumedBeforeServing
=============================================================================
