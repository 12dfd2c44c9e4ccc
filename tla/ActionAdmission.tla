--------------------------- MODULE ActionAdmission ---------------------------
(***************************************************************************)
(* From an Action Claim to its policy decision, with the two things the    *)
(* decision may rest on: the claim's replay reservation and a human        *)
(* approval (core.js: verifyAction, reserveReplay, requestApproval,        *)
(* getApproval, resolveApproval), and the poller that expires approvals.   *)
(*                                                                         *)
(* A call of verifyAction gives way at its awaits only.  Here they are two:*)
(* "authority" stands for the awaits on the profile and on the authority   *)
(* verifier, with nothing but a refusal between them; "policy" for those   *)
(* on the approval that was read and on the policy evaluator.  Everything  *)
(* that expires can be found expired at any time, and stays so.            *)
(***************************************************************************)
EXTENDS Integers, FiniteSets

CONSTANTS
  Call,      \* calls of verifyAction, each made at most once
  Claim,     \* Action Claims as submitted: one element per content (digest)
  IdOf,      \* the claimId of a claim; two contents may use the same one
  AgentOf, KeyOf, NonceOf, SeqOf,  \* its replay material
  Human,     \* claims whose profile demands human validation
  Fresh,     \* claims evaluated again on every call: schema 1.4.0, or sent
             \* to executeGovernedAction, which revalidates
  Poller,    \* who polls the tasks: "gateway" (start-up and timer, never two
             \* at once), and whoever asks for a poll
  MaxApprovals,
  MaxCrashes

ASSUME ConstantsAssumption ==
  /\ SeqOf \in [Claim -> Nat \ {0}]
  /\ Human \subseteq Claim /\ Fresh \subseteq Claim
  /\ "gateway" \in Poller
  /\ MaxApprovals \in Nat /\ MaxCrashes \in Nat

VARIABLES
  up,        \* "serving", "starting" (recovery, one poll) or "down"
  call,      \* what a call of verifyAction carries across its awaits
  decision,  \* table decisions, by claimId
  reserved,  \* table replay_claims
  lastSeq,   \* table agent_sequences
  approval,  \* table approvals; approvals are numbered as requested
  task,      \* table assurance_tasks, rows of type approval
  lapsed,    \* approvals whose expiresAt has passed
  polling,   \* polls under way
  todo,      \* the tasks each has listed and not yet handled
  crashes

vars == <<up, call, decision, reserved, lastSeq, approval, task, lapsed,
          polling, todo, crashes>>
store == <<decision, reserved, lastSeq, approval, task>>
poller == <<up, polling, todo, crashes>>

ClaimId == {IdOf[c] : c \in Claim}
Agent == {AgentOf[c] : c \in Claim}
Approval == 1..MaxApprovals
NoApproval == 0
Terminal == {"approved", "denied", "cancelled", "expired"}
NoDecision == [status |-> "none"]
Decision == [status : {"allowed", "denied", "pending_approval"},
             claim : Claim, approval : Approval \cup {NoApproval}]
NoRow == [status |-> "none"]
ApprovalRow == [status : Terminal \cup {"pending"}, claim : Claim]
TaskStatus == {"none", "input_required", "completed", "cancelled", "expired"}
Idle == [at |-> "idle"]
Done == [at |-> "done"]
CallState ==
  {Idle, Done}
    \cup [at : {"authority"}, claim : Claim, with : Approval \cup {NoApproval},
          seen : Decision \cup {NoDecision}]
    \cup [at : {"policy"}, claim : Claim, with : Approval \cup {NoApproval},
          seen : Decision \cup {NoDecision}, found : ApprovalRow \cup {NoRow}]

TypeOK ==
  /\ up \in {"serving", "starting", "down"}
  /\ call \in [Call -> CallState]
  /\ decision \in [ClaimId -> Decision \cup {NoDecision}]
  /\ reserved \subseteq Claim
  /\ lastSeq \in [Agent -> Nat]
  /\ approval \in [Approval -> ApprovalRow \cup {NoRow}]
  /\ task \in [Approval -> TaskStatus]
  /\ lapsed \subseteq Approval
  /\ polling \subseteq Poller
  /\ todo \in [Poller -> SUBSET Approval]
  /\ crashes \in 0..MaxCrashes

Init ==
  /\ up = "serving"
  /\ call = [k \in Call |-> Idle]
  /\ decision = [i \in ClaimId |-> NoDecision]
  /\ reserved = {}
  /\ lastSeq = [g \in Agent |-> 0]
  /\ approval = [a \in Approval |-> NoRow]
  /\ task = [a \in Approval |-> "none"]
  /\ lapsed = {}
  /\ polling = {}
  /\ todo = [p \in Poller |-> {}]
  /\ crashes = 0
-----------------------------------------------------------------------------
(* Pieces of handlers. *)

Return(k) == call' = [call EXCEPT ![k] = Done]

\* persistDecision: the claimId's row is written or overwritten.
Persist(k, c, status, a) ==
  /\ decision' = [decision EXCEPT ![IdOf[c]] =
                    [status |-> status, claim |-> c, approval |-> a]]
  /\ Return(k)

\* A mutation: a known idempotency key is enough, whatever the content.
IdempotentByKey(c) ==
  \E r \in reserved : AgentOf[r] = AgentOf[c] /\ KeyOf[r] = KeyOf[c]

\* reserveReplay: nothing to do for a reservation of the same claim ...
Idempotent(c) == c \in reserved

\* ... and otherwise a key, a nonce and the next number of the agent's.
Reservable(c) ==
  /\ \A r \in reserved : AgentOf[r] = AgentOf[c] =>
       KeyOf[r] # KeyOf[c] /\ NonceOf[r] # NonceOf[c]
  /\ SeqOf[c] = lastSeq[AgentOf[c]] + 1

Reserve(c) ==
  /\ reserved' = reserved \cup {c}
  /\ lastSeq' = [lastSeq EXCEPT ![AgentOf[c]] = SeqOf[c]]

\* A mutation: the task takes over the approval's status.
TaskEndAsApproval(status) == status

\* A mutation: whatever ended the approval, its task is completed.
TaskEndCompleted(status) == "completed"

\* The task's status for an approval's.
TaskEnd(status) ==
  IF status \in {"expired", "cancelled"} THEN status ELSE "completed"

\* A mutation: an approval in a terminal state is decided again.
ResolvableAgain(a, status) == approval[a] # NoRow

\* resolveApproval refuses a status other than the one the approval has ...
Resolvable(a, status) == approval[a].status \in {"pending", status}
ResolvedApproval(a, status) == [approval EXCEPT ![a].status = status]
\* ... and a task that has ended, or was never created, stays as it is.
EndedTask(a, status) ==
  [task EXCEPT ![a] = IF @ = "input_required" THEN TaskEnd(status) ELSE @]

\* getApproval: a pending approval that lapsed is resolved as expired.
ReadExpires(a) == a # NoApproval /\ approval[a].status = "pending" /\ a \in lapsed
Read(a) ==
  IF a = NoApproval THEN NoRow
  ELSE IF ReadExpires(a) THEN ResolvedApproval(a, "expired")[a] ELSE approval[a]

\* What the reference policy answers (agent-delegation.rego): any claim may
\* be denied on other grounds than its approval.
Answers(c, a, found) ==
  {"denied"} \cup
  CASE c \notin Human -> {"allowed"}
    [] c \in Human /\ found.status = "approved" /\ a \notin lapsed -> {"allowed"}
    [] c \in Human /\ found.status \in {"denied", "cancelled", "expired"} -> {}
    [] OTHER -> {"pending_approval"}
-----------------------------------------------------------------------------
(* verifyAction *)

\* To the first await, or to the end: a claim that is out of its time or
\* uses a claimId on record with another content is denied, and a decision
\* on record is returned unless it has to be made again.  An approvalId that
\* names no approval ends as that of another claim's does and is left out.
Begin(k, c, a) ==
  LET seen == decision[IdOf[c]]
      other == seen # NoDecision /\ seen.claim # c
      cached == /\ seen # NoDecision /\ ~other /\ c \notin Fresh
                /\ a = NoApproval \/ seen.status # "pending_approval"
  IN /\ up = "serving" /\ call[k] = Idle
     /\ a # NoApproval => approval[a] # NoRow
     /\ \/ Persist(k, c, "denied", NoApproval)
        \/ /\ ~other /\ cached
           /\ Return(k)
           /\ UNCHANGED decision
        \/ /\ ~other /\ ~cached
           /\ call' = [call EXCEPT ![k] =
                [at |-> "authority", claim |-> c, with |-> a, seen |-> seen]]
           /\ UNCHANGED decision
     /\ UNCHANGED <<reserved, lastSeq, approval, task, lapsed, poller>>

\* Profile, authority, data binding or (on a claim without decision) the
\* runtime guardrails refuse.
Refuse(k) ==
  /\ call[k].at = "authority"
  /\ Persist(k, call[k].claim, "denied", NoApproval)
  /\ UNCHANGED <<reserved, lastSeq, approval, task, lapsed, poller>>

ReplayRefused(k) ==
  /\ call[k].at = "authority"
  /\ call[k].seen = NoDecision
  /\ ~Idempotent(call[k].claim) /\ ~Reservable(call[k].claim)
  /\ Persist(k, call[k].claim, "denied", NoApproval)
  /\ UNCHANGED <<reserved, lastSeq, approval, task, lapsed, poller>>

\* The reservation is made only for a claim that had no decision when the
\* call began.
Reserved(k) ==
  LET c == call[k].claim
  IN \/ /\ call[k].seen # NoDecision \/ Idempotent(c)
        /\ UNCHANGED <<reserved, lastSeq>>
     \/ /\ call[k].seen = NoDecision /\ ~Idempotent(c)
        /\ Reservable(c)
        /\ Reserve(c)

Admit(k) ==
  LET a == call[k].with
  IN /\ call[k].at = "authority"
     /\ Reserved(k)
     /\ call' = [call EXCEPT ![k] =
          [at |-> "policy", claim |-> call[k].claim, with |-> a,
           seen |-> call[k].seen, found |-> Read(a)]]
     /\ IF ReadExpires(a)
        THEN /\ approval' = ResolvedApproval(a, "expired")
             /\ task' = EndedTask(a, "expired")
        ELSE UNCHANGED <<approval, task>>
     /\ UNCHANGED <<decision, lapsed, poller>>

\* A mutation: any approval will do.
BoundToAny(k) == TRUE

Bound(k) ==
  call[k].with # NoApproval => call[k].found.claim = call[k].claim

\* Not an approval of this claim.
ApprovalUnbound(k) ==
  /\ call[k].at = "policy" /\ ~Bound(k)
  /\ Persist(k, call[k].claim, "denied", NoApproval)
  /\ UNCHANGED <<reserved, lastSeq, approval, task, lapsed, poller>>

\* The decision made before stays when the new one equals it; two denials
\* may differ in their reasons.
Equal(seen, status, a) ==
  seen # NoDecision /\ seen.status = status /\ seen.approval = a

Conclude(k, status, a) ==
  \/ /\ Equal(call[k].seen, status, a)
     /\ Return(k)
     /\ UNCHANGED decision
  \/ /\ ~Equal(call[k].seen, status, a) \/ status = "denied"
     /\ Persist(k, call[k].claim, status, a)

PolicyDecides(k) ==
  /\ call[k].at = "policy" /\ Bound(k)
  /\ \E status \in Answers(call[k].claim, call[k].with, call[k].found) \ {"pending_approval"} :
       Conclude(k, status, NoApproval)
  /\ UNCHANGED <<reserved, lastSeq, approval, task, lapsed, poller>>

\* requestApproval: the claim's pending approval, with its task created if
\* a crash kept it from being, or a new one.
Pending(c) == {a \in Approval : approval[a].status = "pending" /\ approval[a].claim = c}
Unused == {a \in Approval : approval[a] = NoRow}
NewApproval == CHOOSE a \in Unused : \A b \in Unused : a <= b
Created(a) == [task EXCEPT ![a] = IF @ = "none" THEN "input_required" ELSE @]
Requested(c) == [approval EXCEPT ![NewApproval] = [status |-> "pending", claim |-> c]]

AwaitsApproval(k) ==
  /\ call[k].at = "policy" /\ Bound(k)
  /\ "pending_approval" \in Answers(call[k].claim, call[k].with, call[k].found)

\* The approval that was read as pending is named again, whatever became of
\* it since.
ApprovalStands(k) ==
  /\ AwaitsApproval(k)
  /\ call[k].found.status = "pending"
  /\ Conclude(k, "pending_approval", call[k].with)
  /\ UNCHANGED <<reserved, lastSeq, approval, task, lapsed, poller>>

ApprovalRequested(k) ==
  LET c == call[k].claim
  IN /\ AwaitsApproval(k)
     /\ call[k].found.status # "pending"
     /\ \/ \E a \in Pending(c) :
             /\ task' = Created(a)
             /\ Conclude(k, "pending_approval", a)
             /\ UNCHANGED approval
        \/ /\ Pending(c) = {} /\ Unused # {}
           /\ approval' = Requested(c)
           /\ task' = Created(NewApproval)
           /\ Conclude(k, "pending_approval", NewApproval)
     /\ UNCHANGED <<reserved, lastSeq, lapsed, poller>>
-----------------------------------------------------------------------------
(* Approvals and the task poller *)

\* Reviewers (the gateway takes any terminal status from them) and readers
\* of an approval that lapsed.  Resolving once more with the status it has
\* ends a task a crash left behind.
Resolve(a, status) ==
  /\ up = "serving"
  /\ approval[a] # NoRow
  /\ Resolvable(a, status)
  /\ approval' = ResolvedApproval(a, status)
  /\ task' = EndedTask(a, status)
  /\ UNCHANGED <<call, decision, reserved, lastSeq, lapsed, poller>>

Lapse(a) ==
  /\ approval[a] # NoRow /\ a \notin lapsed
  /\ lapsed' = lapsed \cup {a}
  /\ UNCHANGED <<call, store, poller>>

\* A mutation: only queued tasks are listed.
DueQueued == {a \in lapsed : task[a] = "queued"}

Due == {a \in lapsed : task[a] = "input_required"}

PollStart(p) ==
  /\ IF p = "gateway" THEN up # "down" ELSE up = "serving"
  /\ p \notin polling
  /\ polling' = polling \cup {p}
  /\ todo' = [todo EXCEPT ![p] = Due]
  /\ UNCHANGED <<up, call, store, lapsed, crashes>>

Oldest(p) == CHOOSE a \in todo[p] : \A b \in todo[p] : a <= b

PollExpires(p) ==
  /\ todo[p] # {}
  /\ Resolvable(Oldest(p), "expired")
  /\ approval' = ResolvedApproval(Oldest(p), "expired")
  /\ task' = EndedTask(Oldest(p), "expired")
  /\ todo' = [todo EXCEPT ![p] = @ \ {Oldest(p)}]
  /\ UNCHANGED <<up, call, decision, reserved, lastSeq, lapsed, polling, crashes>>

\* An error leaves the poll; at start-up it leaves the process.
PollThrows(p) ==
  /\ todo[p] # {}
  /\ ~Resolvable(Oldest(p), "expired")
  /\ polling' = polling \ {p}
  /\ todo' = [todo EXCEPT ![p] = {}]
  /\ up' = IF up = "starting" THEN "down" ELSE up
  /\ UNCHANGED <<call, store, lapsed, crashes>>

PollEnds(p) ==
  /\ p \in polling /\ todo[p] = {}
  /\ polling' = polling \ {p}
  /\ up' = "serving"
  /\ UNCHANGED <<call, store, lapsed, todo, crashes>>

Halt ==
  /\ up # "down" /\ crashes < MaxCrashes
  /\ up' = "down"
  /\ crashes' = crashes + 1
  /\ call' = [k \in Call |-> IF call[k] = Idle THEN Idle ELSE Done]
  /\ polling' = {}
  /\ todo' = [p \in Poller |-> {}]

Crash == Halt /\ UNCHANGED <<store, lapsed>>

\* Between the approval's transaction and the task's.
CrashInResolve(a, status) ==
  /\ Halt
  /\ approval[a].status = "pending"
  /\ up = "serving" \/ (status = "expired" /\ a \in todo["gateway"])
  /\ approval' = ResolvedApproval(a, status)
  /\ UNCHANGED <<decision, reserved, lastSeq, task, lapsed>>

\* After the reservation, or in the resolution of an approval that lapsed.
CrashInAdmit(k) ==
  /\ Halt
  /\ call[k].at = "authority"
  /\ Reserved(k)
  /\ \/ UNCHANGED approval
     \/ /\ ReadExpires(call[k].with)
        /\ approval' = ResolvedApproval(call[k].with, "expired")
  /\ UNCHANGED <<decision, task, lapsed>>

\* Before the new approval's task, or before the decision.
CrashInRequest(k) ==
  /\ Halt
  /\ AwaitsApproval(k)
  /\ call[k].found.status # "pending"
  /\ Pending(call[k].claim) = {} /\ Unused # {}
  /\ approval' = Requested(call[k].claim)
  /\ task' \in {task, Created(NewApproval)}
  /\ UNCHANGED <<decision, reserved, lastSeq, lapsed>>

Restart ==
  /\ up = "down"
  /\ up' = "starting"
  /\ UNCHANGED <<call, store, lapsed, polling, todo, crashes>>

VerifyStep(k) ==
  \/ Refuse(k) \/ ReplayRefused(k) \/ Admit(k)
  \/ ApprovalUnbound(k) \/ PolicyDecides(k)
  \/ ApprovalStands(k) \/ ApprovalRequested(k)

PollStep(p) == PollStart(p) \/ PollExpires(p) \/ PollThrows(p) \/ PollEnds(p)

Next ==
  \/ \E k \in Call, c \in Claim, a \in Approval \cup {NoApproval} : Begin(k, c, a)
  \/ \E k \in Call : VerifyStep(k) \/ CrashInAdmit(k) \/ CrashInRequest(k)
  \/ \E a \in Approval : Lapse(a)
  \/ \E a \in Approval, s \in Terminal : Resolve(a, s) \/ CrashInResolve(a, s)
  \/ \E p \in Poller : PollStep(p)
  \/ Crash \/ Restart

Spec == Init /\ [][Next]_vars

\* The timer fires again and again, and a process that went down is started
\* again; nobody has to make a call or review an approval.
UpSpec == Spec /\ WF_vars(PollStep("gateway")) /\ WF_vars(Restart)
-----------------------------------------------------------------------------
(* Properties *)

\* An agent's reservations never share a nonce or an idempotency key, and
\* their sequence numbers are exactly 1 to the agent's last, each used once
\* (reserveReplay, over calls that race and processes that stop).
ReservationsConsecutive ==
  \A g \in Agent :
    LET mine == {r \in reserved : AgentOf[r] = g}
    IN /\ {SeqOf[r] : r \in mine} = 1..lastSeq[g]
       /\ \A r, s \in mine :
            (SeqOf[r] = SeqOf[s] \/ KeyOf[r] = KeyOf[s] \/ NonceOf[r] = NonceOf[s])
              => r = s

\* A claim whose profile demands human validation is on record as allowed
\* only if somebody approved an approval of that very claim (verifyAction
\* reads it before an await and uses it after it).
AllowedByHuman ==
  \A i \in ClaimId : decision[i].status = "allowed" /\ decision[i].claim \in Human =>
    \E a \in Approval : approval[a] = [status |-> "approved", claim |-> decision[i].claim]

\* What is allowed has reserved its replay material - for a claim whose
\* decision on record is returned and not made again.
AllowedReserved ==
  \A i \in ClaimId : decision[i].status = "allowed" /\ decision[i].claim \notin Fresh =>
    decision[i].claim \in reserved

\* Replay material is used once, and by everything that is allowed.
ReplayLedgerSound == ReservationsConsecutive /\ AllowedReserved

\* An approval task ends with its approval and as it ended; an approval that
\* was decided leaves its task open only if a crash came in between.
TaskFollowsApproval ==
  \A a \in Approval :
    /\ task[a] \in {"completed", "cancelled", "expired"} =>
         approval[a].status \in CASE task[a] = "completed" -> {"approved", "denied"}
                                  [] OTHER -> {task[a]}
    /\ task[a] = "input_required" /\ approval[a].status # "pending" => crashes > 0

\* "Terminal approval states are immutable", whoever resolves an approval,
\* reads it or polls for it (resolveApproval, getApproval, processDueTasks).
DecidedOnce ==
  [][\A a \in Approval : approval[a].status \in Terminal => approval'[a] = approval[a]]_vars

\* A crash left the task of an approval a reviewer had decided.
LeftBehind ==
  \E a \in Approval : task[a] = "input_required" /\ approval[a].status # "pending"

\* An approval nobody reviews in time is resolved in the end, unless a crash
\* left the task of another one behind, which stops every poll before it.
LapsedEnds ==
  \A a \in Approval :
    (a \in lapsed /\ approval[a].status = "pending" /\ task[a] # "none")
      ~> (approval[a].status \in Terminal \/ LeftBehind)

\* A gateway that is started again comes to serve.
StartsServe == up = "starting" ~> up = "serving"
=============================================================================
