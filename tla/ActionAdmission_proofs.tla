----------------------- MODULE ActionAdmission_proofs -----------------------
(* Theorems about ActionAdmission: its typing, what becomes of approvals    *)
(* and their tasks, and the inductive invariant behind its safety           *)
(* invariants.                                                              *)
EXTENDS ActionAdmission, FiniteInduction

-----------------------------------------------------------------------------
(* The oldest of a set of approvals.                                        *)

\* A new approval takes a number that is free.
LEMMA NewApprovalUnused ==
  ASSUME Unused # {}
  PROVE  NewApproval \in Approval /\ approval[NewApproval] = NoRow
<1>1. Unused \in SUBSET Nat
  BY ConstantsAssumption DEF Unused, Approval
<1>2. \E a \in Unused : \A b \in Unused : a <= b
  BY <1>1, LeastNatural
<1> QED
  BY <1>2 DEF NewApproval, Unused

\* A poll takes up a task that it has listed.
LEMMA OldestListed ==
  ASSUME NEW p \in Poller, todo[p] \subseteq Approval, todo[p] # {}
  PROVE  Oldest(p) \in todo[p]
<1>1. todo[p] \in SUBSET Nat
  BY ConstantsAssumption DEF Approval
<1>2. \E a \in todo[p] : \A b \in todo[p] : a <= b
  BY <1>1, LeastNatural
<1> QED
  BY <1>2 DEF Oldest

-----------------------------------------------------------------------------
(* Typing.                                                                  *)

\* What a call carries, at its two awaits.
LEMMA CallFields ==
  ASSUME NEW s \in CallState
  PROVE  /\ s.at \in {"authority", "policy"} =>
              /\ s.claim \in Claim
              /\ s.with \in Approval \cup {NoApproval}
              /\ s.seen \in Decision \cup {NoDecision}
         /\ s.at = "policy" => s.found \in ApprovalRow \cup {NoRow}
BY DEF CallState, Idle, Done

\* The fields of a decision and of an approval.
LEMMA RowFields ==
  /\ \A d \in Decision : d.status \in {"allowed", "denied", "pending_approval"}
                         /\ d.claim \in Claim
  /\ NoDecision.status = "none" /\ NoDecision \notin Decision
  /\ \A r \in ApprovalRow : r.status \in Terminal \cup {"pending"} /\ r.claim \in Claim
  /\ NoRow.status = "none" /\ NoRow \notin ApprovalRow
  /\ \A s \in {"allowed", "denied", "pending_approval"}, c \in Claim,
        a \in Approval \cup {NoApproval} :
       [status |-> s, claim |-> c, approval |-> a] \in Decision
  /\ \A s \in Terminal \cup {"pending"}, c \in Claim :
       [status |-> s, claim |-> c] \in ApprovalRow
BY DEF Decision, NoDecision, ApprovalRow, NoRow, Terminal

\* Resolving an approval changes its status only; if it was decided, nothing.
LEMMA ResolvedRow ==
  ASSUME TypeOK, NEW a \in Approval, approval[a] # NoRow, NEW s \in Terminal
  PROVE  /\ ResolvedApproval(a, s) \in [Approval -> ApprovalRow \cup {NoRow}]
         /\ ResolvedApproval(a, s)[a] = [status |-> s, claim |-> approval[a].claim]
         /\ \A b \in Approval \ {a} : ResolvedApproval(a, s)[b] = approval[b]
         /\ Resolvable(a, s) /\ approval[a].status \in Terminal =>
              ResolvedApproval(a, s)[a] = approval[a]
<1>1. approval[a] \in ApprovalRow
  BY DEF TypeOK
<1>2. [approval[a] EXCEPT !.status = s] = [status |-> s, claim |-> approval[a].claim]
  BY <1>1 DEF ApprovalRow
<1>3. [status |-> s, claim |-> approval[a].claim] \in ApprovalRow
  BY <1>1, RowFields
<1>4. approval[a].status = s => [status |-> s, claim |-> approval[a].claim] = approval[a]
  BY <1>1 DEF ApprovalRow
<1>5. Resolvable(a, s) /\ approval[a].status \in Terminal => approval[a].status = s
  BY DEF Resolvable, Terminal
<1> HIDE DEF ApprovalRow
<1> QED
  BY <1>2, <1>3, <1>4, <1>5 DEF ResolvedApproval, TypeOK

\* A new approval takes the place of none.
LEMMA RequestedRow ==
  ASSUME TypeOK, NEW c \in Claim, Unused # {}
  PROVE  /\ Requested(c) \in [Approval -> ApprovalRow \cup {NoRow}]
         /\ Requested(c)[NewApproval] = [status |-> "pending", claim |-> c]
         /\ \A b \in Approval \ {NewApproval} : Requested(c)[b] = approval[b]
BY NewApprovalUnused, RowFields DEF Requested, TypeOK

\* The end of a task follows the approval's, and a task that is created is open.
LEMMA TaskType ==
  ASSUME TypeOK, NEW a \in Approval, NEW s \in Terminal
  PROVE  /\ EndedTask(a, s) \in [Approval -> TaskStatus]
         /\ Created(a) \in [Approval -> TaskStatus]
BY DEF TypeOK, EndedTask, Created, TaskEnd, TaskStatus, Terminal

\* Writing a decision ends the call and is typed.
LEMMA PersistType ==
  ASSUME TypeOK, NEW k \in Call, NEW c \in Claim,
         NEW s \in {"allowed", "denied", "pending_approval"},
         NEW a \in Approval \cup {NoApproval}, Persist(k, c, s, a)
  PROVE  /\ decision' \in [ClaimId -> Decision \cup {NoDecision}]
         /\ call' \in [Call -> CallState]
<1>1. [status |-> s, claim |-> c, approval |-> a] \in Decision
  BY RowFields
<1>2. Done \in CallState
  BY DEF CallState
<1> HIDE DEF Decision, CallState, Done
<1> QED
  BY <1>1, <1>2 DEF Persist, Return, TypeOK, ClaimId

\* So is keeping the one on record.
LEMMA ConcludeType ==
  ASSUME TypeOK, NEW k \in Call, call[k].claim \in Claim,
         NEW s \in {"allowed", "denied", "pending_approval"},
         NEW a \in Approval \cup {NoApproval}, Conclude(k, s, a)
  PROVE  /\ decision' \in [ClaimId -> Decision \cup {NoDecision}]
         /\ call' \in [Call -> CallState]
<1>1. CASE Return(k) /\ UNCHANGED decision
  <2>1. Done \in CallState
    BY DEF CallState
  <2> QED
    BY <1>1, <2>1 DEF Return, TypeOK
<1>2. CASE Persist(k, call[k].claim, s, a)
  BY <1>2, PersistType
<1> QED
  BY <1>1, <1>2 DEF Conclude

\* A reservation is typed.
LEMMA ReservedType ==
  ASSUME TypeOK, NEW k \in Call, call[k].claim \in Claim, Reserved(k)
  PROVE  reserved' \subseteq Claim /\ lastSeq' \in [Agent -> Nat]
<1>1. SeqOf[call[k].claim] \in Nat
  BY ConstantsAssumption
<1> QED
  BY <1>1 DEF Reserved, Reserve, TypeOK

\* What getApproval reads is what the table holds once it has read.
LEMMA ReadType ==
  ASSUME TypeOK, NEW a \in Approval \cup {NoApproval}
  PROVE  /\ Read(a) \in ApprovalRow \cup {NoRow}
         /\ a = NoApproval => Read(a) = NoRow
         /\ a # NoApproval /\ ~ReadExpires(a) => Read(a) = approval[a]
         /\ ReadExpires(a) => /\ a \in Approval /\ approval[a] # NoRow
                              /\ approval[a].status = "pending"
                              /\ Read(a) = ResolvedApproval(a, "expired")[a]
<1>1. ReadExpires(a) => a \in Approval /\ approval[a].status = "pending" /\ approval[a] # NoRow
  BY DEF ReadExpires, NoRow
<1>2. "expired" \in Terminal
  BY DEF Terminal
<1>3. ReadExpires(a) => ResolvedApproval(a, "expired")[a] \in ApprovalRow \cup {NoRow}
  BY <1>1, <1>2, ResolvedRow
<1> QED
  BY <1>1, <1>3 DEF Read, ReadExpires, TypeOK

\* The initial state is typed.
LEMMA TypeInit == Init => TypeOK
BY ConstantsAssumption DEF Init, TypeOK, CallState, TaskStatus

\* Every step of verifyAction keeps the types.
LEMMA TypeVerify ==
  ASSUME TypeOK, NEW k \in Call, VerifyStep(k)
  PROVE  TypeOK'
<1> USE DEF poller
<1>1. call[k] \in CallState
  BY DEF TypeOK
<1>2. CASE Refuse(k)
  BY <1>1, <1>2, CallFields, PersistType DEF Refuse, TypeOK
<1>3. CASE ReplayRefused(k)
  BY <1>1, <1>3, CallFields, PersistType DEF ReplayRefused, TypeOK
<1>4. CASE Admit(k)
  <2> DEFINE a == call[k].with
  <2>1. /\ call[k].claim \in Claim /\ a \in Approval \cup {NoApproval}
        /\ call[k].seen \in Decision \cup {NoDecision}
    BY <1>1, <1>4, CallFields DEF Admit
  <2>2. reserved' \subseteq Claim /\ lastSeq' \in [Agent -> Nat]
    BY <1>4, <2>1, ReservedType DEF Admit
  <2>3. [at |-> "policy", claim |-> call[k].claim, with |-> a,
         seen |-> call[k].seen, found |-> Read(a)] \in CallState
    BY <2>1, ReadType DEF CallState
  <2>4. call' \in [Call -> CallState]
    <3> HIDE DEF CallState
    <3> QED
      BY <1>4, <2>3 DEF Admit, TypeOK
  <2>5. /\ approval' \in [Approval -> ApprovalRow \cup {NoRow}]
        /\ task' \in [Approval -> TaskStatus]
    <3>1. CASE ReadExpires(a)
      <4>1. a \in Approval /\ approval[a] # NoRow /\ "expired" \in Terminal
        BY <2>1, <3>1, ReadType DEF Terminal
      <4>2. approval' = ResolvedApproval(a, "expired") /\ task' = EndedTask(a, "expired")
        BY <1>4, <3>1 DEF Admit
      <4> HIDE DEF a
      <4> QED
        BY <4>1, <4>2, ResolvedRow, TaskType
    <3>2. CASE ~ReadExpires(a)
      BY <1>4, <3>2 DEF Admit, TypeOK
    <3> QED
      BY <3>1, <3>2
  <2> QED
    BY <1>4, <2>2, <2>4, <2>5 DEF Admit, TypeOK
<1>5. CASE ApprovalUnbound(k)
  BY <1>1, <1>5, CallFields, PersistType DEF ApprovalUnbound, TypeOK
<1>6. CASE PolicyDecides(k)
  <2>1. PICK s \in Answers(call[k].claim, call[k].with, call[k].found) \ {"pending_approval"} :
          Conclude(k, s, NoApproval)
    BY <1>6 DEF PolicyDecides
  <2>2. s \in {"allowed", "denied", "pending_approval"}
    BY <2>1 DEF Answers
  <2>3. call[k].claim \in Claim
    BY <1>1, <1>6, CallFields DEF PolicyDecides
  <2> QED
    BY <1>6, <2>1, <2>2, <2>3, ConcludeType DEF PolicyDecides, TypeOK
<1>7. CASE ApprovalStands(k)
  <2>1. call[k].claim \in Claim /\ call[k].with \in Approval \cup {NoApproval}
    BY <1>1, <1>7, CallFields DEF ApprovalStands, AwaitsApproval
  <2> QED
    BY <1>7, <2>1, ConcludeType DEF ApprovalStands, TypeOK
<1>8. CASE ApprovalRequested(k)
  <2>1. call[k].claim \in Claim
    BY <1>1, <1>8, CallFields DEF ApprovalRequested, AwaitsApproval
  <2>2. CASE \E a \in Pending(call[k].claim) :
               task' = Created(a) /\ Conclude(k, "pending_approval", a) /\ UNCHANGED approval
    <3>1. PICK a \in Approval :
            task' = Created(a) /\ Conclude(k, "pending_approval", a) /\ UNCHANGED approval
      BY <2>2 DEF Pending
    <3>2. task' \in [Approval -> TaskStatus]
      BY <3>1, TaskType DEF Terminal
    <3> QED
      BY <1>8, <2>1, <3>1, <3>2, ConcludeType DEF ApprovalRequested, TypeOK
  <2>3. CASE /\ Unused # {}
             /\ approval' = Requested(call[k].claim)
             /\ task' = Created(NewApproval)
             /\ Conclude(k, "pending_approval", NewApproval)
    <3>1. NewApproval \in Approval
      BY <2>3, NewApprovalUnused
    <3>2. task' \in [Approval -> TaskStatus]
      BY <2>3, <3>1, TaskType DEF Terminal
    <3>3. approval' \in [Approval -> ApprovalRow \cup {NoRow}]
      BY <2>1, <2>3, RequestedRow
    <3> QED
      BY <1>8, <2>1, <2>3, <3>1, <3>2, <3>3, ConcludeType DEF ApprovalRequested, TypeOK
  <2> QED
    BY <1>8, <2>2, <2>3 DEF ApprovalRequested
<1> QED
  BY <1>2, <1>3, <1>4, <1>5, <1>6, <1>7, <1>8 DEF VerifyStep

\* A call begins, a decision being made or one that exists being returned.
LEMMA TypeBegin ==
  ASSUME TypeOK, NEW k \in Call, NEW c \in Claim,
         NEW a \in Approval \cup {NoApproval}, Begin(k, c, a)
  PROVE  TypeOK'
<1> USE DEF poller
<1>1. CASE Persist(k, c, "denied", NoApproval)
  BY <1>1, PersistType DEF Begin, TypeOK
<1>2. CASE Return(k) /\ UNCHANGED decision
  <2>1. Done \in CallState
    BY DEF CallState
  <2> HIDE DEF CallState
  <2> QED
    BY <1>2, <2>1 DEF Begin, Return, TypeOK
<1>3. CASE /\ call' = [call EXCEPT ![k] = [at |-> "authority", claim |-> c, with |-> a,
                                          seen |-> decision[IdOf[c]]]]
           /\ UNCHANGED decision
  <2>1. decision[IdOf[c]] \in Decision \cup {NoDecision}
    BY DEF TypeOK, ClaimId
  <2>2. [at |-> "authority", claim |-> c, with |-> a, seen |-> decision[IdOf[c]]] \in CallState
    BY <2>1 DEF CallState
  <2> HIDE DEF CallState
  <2> QED
    BY <1>3, <2>2 DEF Begin, TypeOK
<1> QED
  BY <1>1, <1>2, <1>3 DEF Begin

\* A poll keeps the types.
LEMMA TypePoll ==
  ASSUME TypeOK, NEW p \in Poller, PollStep(p)
  PROVE  TypeOK'
<1> USE DEF store
<1>1. CASE PollStart(p)
  <2>1. up \in {"serving", "starting", "down"} /\ Due \subseteq Approval
    BY DEF TypeOK, Due
  <2> QED
    BY <1>1, <2>1 DEF PollStart, TypeOK
<1>2. CASE PollExpires(p)
  <2>1. Oldest(p) \in todo[p] /\ Oldest(p) \in Approval
    BY <1>2, OldestListed DEF PollExpires, TypeOK
  <2>2. approval[Oldest(p)] # NoRow /\ "expired" \in Terminal
    BY <1>2 DEF PollExpires, Resolvable, NoRow, Terminal
  <2>3. /\ approval' \in [Approval -> ApprovalRow \cup {NoRow}]
        /\ task' \in [Approval -> TaskStatus]
    BY <1>2, <2>1, <2>2, ResolvedRow, TaskType DEF PollExpires
  <2>4. todo' \in [Poller -> SUBSET Approval]
    BY <1>2 DEF PollExpires, TypeOK
  <2> QED
    BY <1>2, <2>3, <2>4 DEF PollExpires, TypeOK
<1>3. CASE PollThrows(p)
  BY <1>3 DEF PollThrows, TypeOK
<1>4. CASE PollEnds(p)
  BY <1>4 DEF PollEnds, TypeOK
<1> QED
  BY <1>1, <1>2, <1>3, <1>4 DEF PollStep

\* What a stop forgets is typed: calls end, and polls with their lists.
LEMMA HaltType ==
  ASSUME TypeOK, Halt
  PROVE  /\ up' \in {"serving", "starting", "down"}
         /\ call' \in [Call -> CallState]
         /\ polling' \subseteq Poller
         /\ todo' \in [Poller -> SUBSET Approval]
         /\ crashes' \in 0..MaxCrashes /\ crashes' > 0
<1>1. Idle \in CallState /\ Done \in CallState
  BY DEF CallState
<1>2. call' \in [Call -> CallState]
  BY <1>1 DEF Halt
<1> QED
  BY <1>2, ConstantsAssumption DEF Halt, TypeOK

\* Every step of the approvals' reviewers, of time and of a crash does.
LEMMA TypeCrashInAdmit ==
  ASSUME TypeOK, NEW k \in Call, CrashInAdmit(k)
  PROVE  TypeOK'
<1>1. Halt /\ Reserved(k) /\ UNCHANGED <<decision, task, lapsed>>
  BY DEF CrashInAdmit
<1>2. /\ call[k].claim \in Claim /\ call[k].with \in Approval \cup {NoApproval}
  BY CallFields DEF CrashInAdmit, TypeOK
<1>3. reserved' \subseteq Claim /\ lastSeq' \in [Agent -> Nat]
  BY <1>1, <1>2, ReservedType
<1>4. approval' \in [Approval -> ApprovalRow \cup {NoRow}]
  <2>1. CASE UNCHANGED approval
    BY <2>1 DEF TypeOK
  <2>2. CASE ReadExpires(call[k].with) /\ approval' = ResolvedApproval(call[k].with, "expired")
    <3>1. call[k].with \in Approval /\ approval[call[k].with] # NoRow /\ "expired" \in Terminal
      BY <1>2, <2>2, ReadType DEF Terminal
    <3> QED
      BY <2>2, <3>1, ResolvedRow
  <2> QED
    BY <2>1, <2>2 DEF CrashInAdmit
<1> QED
  BY <1>1, <1>3, <1>4, HaltType DEF TypeOK

LEMMA TypeCrashInRequest ==
  ASSUME TypeOK, NEW k \in Call, CrashInRequest(k)
  PROVE  TypeOK'
<1>1. call[k].claim \in Claim
  BY CallFields DEF CrashInRequest, AwaitsApproval, TypeOK
<1>2. NewApproval \in Approval
  BY NewApprovalUnused DEF CrashInRequest
<1>3. approval' \in [Approval -> ApprovalRow \cup {NoRow}]
  BY <1>1, RequestedRow DEF CrashInRequest
<1>4. task' \in [Approval -> TaskStatus]
  BY <1>2, TaskType DEF CrashInRequest, Terminal, TypeOK
<1> QED
  BY <1>3, <1>4, HaltType DEF CrashInRequest, TypeOK

LEMMA TypeResolve ==
  ASSUME TypeOK, NEW a \in Approval, NEW s \in Terminal,
         Resolve(a, s) \/ CrashInResolve(a, s)
  PROVE  TypeOK'
<1>1. approval[a] # NoRow
  BY DEF Resolve, CrashInResolve, NoRow
<1>2. /\ ResolvedApproval(a, s) \in [Approval -> ApprovalRow \cup {NoRow}]
      /\ EndedTask(a, s) \in [Approval -> TaskStatus]
  BY <1>1, ResolvedRow, TaskType
<1>3. CASE Resolve(a, s)
  BY <1>2, <1>3 DEF Resolve, TypeOK, poller
<1>4. CASE CrashInResolve(a, s)
  BY <1>2, <1>4, HaltType DEF CrashInResolve, TypeOK
<1> QED
  BY <1>3, <1>4

LEMMA TypeNext == TypeOK /\ [Next]_vars => TypeOK'
<1> SUFFICES ASSUME TypeOK, [Next]_vars PROVE TypeOK'
  OBVIOUS
<1>1. CASE UNCHANGED vars
  BY <1>1 DEF vars, TypeOK
<1>2. ASSUME NEW k \in Call, NEW c \in Claim, NEW a \in Approval \cup {NoApproval},
             Begin(k, c, a)
      PROVE  TypeOK'
  BY <1>2, TypeBegin
<1>3. ASSUME NEW k \in Call, VerifyStep(k) \/ CrashInAdmit(k) \/ CrashInRequest(k)
      PROVE  TypeOK'
  BY <1>3, TypeVerify, TypeCrashInAdmit, TypeCrashInRequest
<1>4. ASSUME NEW a \in Approval, Lapse(a) PROVE TypeOK'
  BY <1>4 DEF Lapse, TypeOK, store, poller
<1>5. ASSUME NEW a \in Approval, NEW s \in Terminal, Resolve(a, s) \/ CrashInResolve(a, s)
      PROVE  TypeOK'
  BY <1>5, TypeResolve
<1>6. ASSUME NEW p \in Poller, PollStep(p) PROVE TypeOK'
  BY <1>6, TypePoll
<1>7. CASE Crash
  BY <1>7, HaltType DEF Crash, TypeOK, store
<1>8. CASE Restart
  BY <1>8 DEF Restart, TypeOK, store
<1> QED
  BY <1>1, <1>2, <1>3, <1>4, <1>5, <1>6, <1>7, <1>8 DEF Next

\* The tables, the calls and the polls of the gateway keep their types.
THEOREM AdmissionTyped == Spec => []TypeOK
<1>1. Init => TypeOK
  BY TypeInit
<1>2. TypeOK /\ [Next]_vars => TypeOK'
  BY TypeNext
<1> QED
  BY <1>1, <1>2, PTL DEF Spec

-----------------------------------------------------------------------------
(* What a step may do to the approvals, to the reservations, to the calls   *)
(* and to the decisions.                                                    *)

\* An approval is resolved where the code allows it, or a new one requested.
ApprovalsMove ==
  \/ UNCHANGED approval
  \/ \E a \in Approval, s \in Terminal :
       /\ approval[a] # NoRow /\ Resolvable(a, s)
       /\ approval' = ResolvedApproval(a, s)
  \/ \E c \in Claim : Unused # {} /\ approval' = Requested(c)

\* No other write reaches the approvals.
LEMMA ApprovalsMoveNext ==
  ASSUME TypeOK, [Next]_vars
  PROVE  ApprovalsMove
<1> USE DEF store, ApprovalsMove
<1>0. "expired" \in Terminal
  BY DEF Terminal
<1>1. CASE UNCHANGED vars
  BY <1>1 DEF vars
<1>2. ASSUME NEW k \in Call, NEW c \in Claim, NEW a \in Approval \cup {NoApproval},
             Begin(k, c, a)
      PROVE  ApprovalsMove
  BY <1>2 DEF Begin
<1>3. ASSUME NEW k \in Call, Admit(k) \/ CrashInAdmit(k)
      PROVE  ApprovalsMove
  <2>1. call[k].with \in Approval \cup {NoApproval}
    BY <1>3, CallFields DEF Admit, CrashInAdmit, TypeOK
  <2>2. CASE ReadExpires(call[k].with) /\ approval' = ResolvedApproval(call[k].with, "expired")
    <3>1. /\ call[k].with \in Approval /\ approval[call[k].with] # NoRow
          /\ approval[call[k].with].status = "pending"
      BY <2>1, <2>2, ReadType
    <3>2. Resolvable(call[k].with, "expired")
      BY <3>1 DEF Resolvable
    <3> QED
      BY <1>0, <2>2, <3>1, <3>2
  <2> QED
    BY <1>3, <2>2 DEF Admit, CrashInAdmit
<1>4. ASSUME NEW k \in Call, ApprovalRequested(k) \/ CrashInRequest(k)
      PROVE  ApprovalsMove
  <2>1. call[k].claim \in Claim
    BY <1>4, CallFields DEF ApprovalRequested, CrashInRequest, AwaitsApproval, TypeOK
  <2> QED
    BY <1>4, <2>1 DEF ApprovalRequested, CrashInRequest
<1>5. ASSUME NEW k \in Call,
             \/ Refuse(k) \/ ReplayRefused(k) \/ ApprovalUnbound(k)
             \/ PolicyDecides(k) \/ ApprovalStands(k)
      PROVE  ApprovalsMove
  BY <1>5 DEF Refuse, ReplayRefused, ApprovalUnbound, PolicyDecides, ApprovalStands
<1>6. ASSUME NEW a \in Approval, Lapse(a)
      PROVE  ApprovalsMove
  BY <1>6 DEF Lapse
<1>7. ASSUME NEW a \in Approval, NEW s \in Terminal, Resolve(a, s) \/ CrashInResolve(a, s)
      PROVE  ApprovalsMove
  BY <1>7 DEF Resolve, CrashInResolve, Resolvable, NoRow
<1>8. ASSUME NEW p \in Poller, PollExpires(p)
      PROVE  ApprovalsMove
  <2>1. Oldest(p) \in Approval
    BY <1>8, OldestListed DEF PollExpires, TypeOK
  <2>2. approval[Oldest(p)] # NoRow
    BY <1>8 DEF PollExpires, Resolvable, NoRow
  <2> QED
    BY <1>0, <1>8, <2>1, <2>2 DEF PollExpires
<1>9. ASSUME NEW p \in Poller, PollStart(p) \/ PollThrows(p) \/ PollEnds(p)
      PROVE  ApprovalsMove
  BY <1>9 DEF PollStart, PollThrows, PollEnds
<1>10. CASE Crash \/ Restart
  BY <1>10 DEF Crash, Restart
<1> HIDE DEF ApprovalsMove
<1> QED
  BY <1>1, <1>2, <1>3, <1>4, <1>5, <1>6, <1>7, <1>8, <1>9, <1>10
     DEF Next, VerifyStep, PollStep

\* A decided approval stays as it was decided, a free number is taken only
\* by a pending one, and no approval changes its claim.
LEMMA DecidedStay ==
  ASSUME TypeOK, ApprovalsMove, NEW a \in Approval
  PROVE  /\ approval[a].status \in Terminal => approval'[a] = approval[a]
         /\ approval[a] # NoRow => approval'[a].claim = approval[a].claim
         /\ approval'[a] # approval[a] =>
              \/ approval[a] = NoRow /\ approval'[a].status = "pending"
              \/ approval[a].status = "pending" /\ approval'[a].status \in Terminal
<1>1. CASE UNCHANGED approval
  BY <1>1
<1>2. ASSUME NEW b \in Approval, NEW s \in Terminal, approval[b] # NoRow,
             Resolvable(b, s), approval' = ResolvedApproval(b, s)
      PROVE  /\ approval[a].status \in Terminal => approval'[a] = approval[a]
             /\ approval[a] # NoRow => approval'[a].claim = approval[a].claim
             /\ approval'[a] # approval[a] =>
                  approval[a].status = "pending" /\ approval'[a].status \in Terminal
  <2>1. CASE a # b
    <3>1. ResolvedApproval(b, s)[a] = approval[a]
      BY <2>1 DEF ResolvedApproval, TypeOK
    <3> QED
      BY <1>2, <3>1
  <2>2. CASE a = b
    <3>1. approval[a] \in ApprovalRow
      BY <1>2, <2>2 DEF TypeOK
    <3>2. approval[a].status \in Terminal \/ approval[a].status = "pending"
      BY <3>1, RowFields
    <3>3. approval'[a] = [status |-> s, claim |-> approval[a].claim]
      BY <1>2, <2>2, ResolvedRow
    <3> QED
      BY <1>2, <2>2, <3>2, <3>3, ResolvedRow
  <2> QED
    BY <2>1, <2>2
<1>3. ASSUME NEW c \in Claim, Unused # {}, approval' = Requested(c)
      PROVE  /\ approval[a].status \in Terminal => approval'[a] = approval[a]
             /\ approval[a] # NoRow => approval'[a].claim = approval[a].claim
             /\ approval'[a] # approval[a] =>
                  approval[a] = NoRow /\ approval'[a].status = "pending"
  <2>1. CASE a # NewApproval
    BY <1>3, <2>1, RequestedRow
  <2>2. CASE a = NewApproval
    <3>1. approval[a] = NoRow /\ approval'[a] = [status |-> "pending", claim |-> c]
      BY <1>3, <2>2, NewApprovalUnused, RequestedRow
    <3> QED
      BY <3>1, RowFields DEF Terminal, NoRow
  <2> QED
    BY <2>1, <2>2
<1> QED
  BY <1>1, <1>2, <1>3 DEF ApprovalsMove

\* "Terminal approval states are immutable", whoever resolves an approval,
\* reads it or polls for it, and whatever stops in between.
THEOREM DecidedApprovalsStay == Spec => DecidedOnce
<1>1. TypeOK /\ [Next]_vars =>
        [\A a \in Approval : approval[a].status \in Terminal => approval'[a] = approval[a]]_vars
  BY ApprovalsMoveNext, DecidedStay
<1> QED
  BY <1>1, AdmissionTyped, PTL DEF Spec, DecidedOnce

\* Reservations are only added, one at a time and only where reserveReplay
\* accepts the material.
ReservationsMove ==
  \/ UNCHANGED <<reserved, lastSeq>>
  \/ \E c \in Claim : Reservable(c) /\ Reserve(c)

LEMMA ReservationsMoveNext ==
  ASSUME TypeOK, [Next]_vars
  PROVE  ReservationsMove
<1> USE DEF store, ReservationsMove
<1>1. CASE UNCHANGED vars
  BY <1>1 DEF vars
<1>2. ASSUME NEW k \in Call, Admit(k) \/ CrashInAdmit(k)
      PROVE  ReservationsMove
  <2>1. Reserved(k) /\ call[k].claim \in Claim
    BY <1>2, CallFields DEF Admit, CrashInAdmit, TypeOK
  <2> QED
    BY <2>1 DEF Reserved
<1>3. ASSUME NEW k \in Call, NEW c \in Claim, NEW a \in Approval \cup {NoApproval},
             Begin(k, c, a)
      PROVE  ReservationsMove
  BY <1>3 DEF Begin
<1>4. ASSUME NEW k \in Call,
             \/ Refuse(k) \/ ReplayRefused(k) \/ ApprovalUnbound(k) \/ PolicyDecides(k)
             \/ ApprovalStands(k) \/ ApprovalRequested(k) \/ CrashInRequest(k)
      PROVE  ReservationsMove
  BY <1>4 DEF Refuse, ReplayRefused, ApprovalUnbound, PolicyDecides, ApprovalStands,
              ApprovalRequested, CrashInRequest
<1>5. ASSUME NEW a \in Approval, NEW s \in Terminal,
             Lapse(a) \/ Resolve(a, s) \/ CrashInResolve(a, s)
      PROVE  ReservationsMove
  BY <1>5 DEF Lapse, Resolve, CrashInResolve
<1>6. ASSUME NEW p \in Poller, PollStep(p)
      PROVE  ReservationsMove
  BY <1>6 DEF PollStep, PollStart, PollExpires, PollThrows, PollEnds
<1>7. CASE Crash \/ Restart
  BY <1>7 DEF Crash, Restart
<1>8. Terminal # {}
  BY DEF Terminal
<1> HIDE DEF ReservationsMove
<1> QED
  BY <1>1, <1>2, <1>3, <1>4, <1>5, <1>6, <1>7, <1>8 DEF Next, VerifyStep

\* Reserving the agent's next number keeps its numbers consecutive and its
\* material distinct.
LEMMA ConsecutiveKept ==
  ASSUME TypeOK, ReservationsConsecutive, ReservationsMove
  PROVE  ReservationsConsecutive' /\ reserved \subseteq reserved'
<1>1. CASE UNCHANGED <<reserved, lastSeq>>
  BY <1>1 DEF ReservationsConsecutive
<1>2. ASSUME NEW c \in Claim, Reservable(c), Reserve(c)
      PROVE  ReservationsConsecutive' /\ reserved \subseteq reserved'
  <2>1. reserved' = reserved \cup {c}
    BY <1>2 DEF Reserve
  <2>2. AgentOf[c] \in Agent
    BY DEF Agent
  <2>3. SUFFICES ASSUME NEW g \in Agent
                 PROVE  /\ {SeqOf[r] : r \in {r \in reserved' : AgentOf[r] = g}}
                              = 1..lastSeq'[g]
                        /\ \A r, s \in {r \in reserved' : AgentOf[r] = g} :
                             (SeqOf[r] = SeqOf[s] \/ KeyOf[r] = KeyOf[s] \/ NonceOf[r] = NonceOf[s])
                               => r = s
    BY <2>1 DEF ReservationsConsecutive
  <2> DEFINE mine == {r \in reserved : AgentOf[r] = g}
  <2>4. /\ {SeqOf[r] : r \in mine} = 1..lastSeq[g]
        /\ \A r, s \in mine :
             (SeqOf[r] = SeqOf[s] \/ KeyOf[r] = KeyOf[s] \/ NonceOf[r] = NonceOf[s])
               => r = s
    BY DEF ReservationsConsecutive
  <2>5. CASE g # AgentOf[c]
    <3>1. {r \in reserved' : AgentOf[r] = g} = mine /\ lastSeq'[g] = lastSeq[g]
      BY <1>2, <2>1, <2>5 DEF Reserve, TypeOK
    <3> QED
      BY <2>4, <3>1
  <2>6. CASE g = AgentOf[c]
    <3>1. {r \in reserved' : AgentOf[r] = g} = mine \cup {c}
      BY <2>1, <2>6
    <3>2. /\ SeqOf[c] = lastSeq[g] + 1 /\ lastSeq'[g] = SeqOf[c] /\ lastSeq[g] \in Nat
          /\ \A r \in mine : KeyOf[r] # KeyOf[c] /\ NonceOf[r] # NonceOf[c]
      BY <1>2, <2>2, <2>6 DEF Reservable, Reserve, TypeOK
    <3>3. \A r \in mine : SeqOf[r] \in 1..lastSeq[g]
      BY <2>4
    <3>4. \A r \in mine : SeqOf[r] # SeqOf[c]
      BY <3>2, <3>3
    <3>5. {SeqOf[r] : r \in mine \cup {c}} = (1..lastSeq[g]) \cup {SeqOf[c]}
      BY <2>4
    <3>6. (1..lastSeq[g]) \cup {SeqOf[c]} = 1..lastSeq'[g]
      BY <3>2
    <3>7. \A r, s \in mine \cup {c} :
             (SeqOf[r] = SeqOf[s] \/ KeyOf[r] = KeyOf[s] \/ NonceOf[r] = NonceOf[s])
               => r = s
      BY <2>4, <3>2, <3>4
    <3> QED
      BY <3>1, <3>5, <3>6, <3>7
  <2> QED
    BY <2>5, <2>6
<1> QED
  BY <1>1, <1>2 DEF ReservationsMove

\* A task is created with its approval pending, and ended with it; an
\* approval is resolved without its task only where a crash counts.
TasksMove ==
  \/ UNCHANGED <<approval, task, crashes>>
  \/ \E a \in Approval :
       /\ task' = Created(a) /\ approval[a].status = "pending"
       /\ UNCHANGED <<approval, crashes>>
  \/ \E c \in Claim :
       /\ Unused # {} /\ approval' = Requested(c)
       /\ task' = Created(NewApproval) /\ crashes' = crashes
  \/ \E a \in Approval, s \in Terminal :
       /\ approval[a] # NoRow /\ Resolvable(a, s) /\ approval' = ResolvedApproval(a, s)
       /\ task' = EndedTask(a, s) /\ crashes' = crashes
  \/ /\ crashes' > 0 /\ ApprovalsMove
     /\ task' = task \/ (Unused # {} /\ task' = Created(NewApproval) /\
                           \E c \in Claim : approval' = Requested(c))

LEMMA TasksMoveNext ==
  ASSUME TypeOK, [Next]_vars
  PROVE  TasksMove
<1> USE DEF store, poller, TasksMove
<1>0. "expired" \in Terminal /\ ApprovalsMove
  BY ApprovalsMoveNext DEF Terminal
<1>1. CASE UNCHANGED vars
  BY <1>1 DEF vars
<1>2. ASSUME NEW k \in Call, NEW c \in Claim, NEW a \in Approval \cup {NoApproval},
             Begin(k, c, a)
      PROVE  TasksMove
  BY <1>2 DEF Begin
<1>3. ASSUME NEW k \in Call, Admit(k)
      PROVE  TasksMove
  <2>1. call[k].with \in Approval \cup {NoApproval}
    BY <1>3, CallFields DEF Admit, TypeOK
  <2>2. CASE ReadExpires(call[k].with)
    <3>1. /\ call[k].with \in Approval /\ approval[call[k].with] # NoRow
          /\ approval[call[k].with].status = "pending"
      BY <2>1, <2>2, ReadType
    <3>2. Resolvable(call[k].with, "expired")
      BY <3>1 DEF Resolvable
    <3> QED
      BY <1>0, <1>3, <2>2, <3>1, <3>2 DEF Admit
  <2>3. CASE ~ReadExpires(call[k].with)
    BY <1>3, <2>3 DEF Admit
  <2> QED
    BY <2>2, <2>3
<1>4. ASSUME NEW k \in Call, ApprovalRequested(k)
      PROVE  TasksMove
  <2>1. call[k].claim \in Claim
    BY <1>4, CallFields DEF ApprovalRequested, AwaitsApproval, TypeOK
  <2> QED
    BY <1>4, <2>1 DEF ApprovalRequested, Pending
<1>5. ASSUME NEW k \in Call,
             \/ Refuse(k) \/ ReplayRefused(k) \/ ApprovalUnbound(k)
             \/ PolicyDecides(k) \/ ApprovalStands(k)
      PROVE  TasksMove
  BY <1>5 DEF Refuse, ReplayRefused, ApprovalUnbound, PolicyDecides, ApprovalStands
<1>6. ASSUME NEW a \in Approval, Lapse(a)
      PROVE  TasksMove
  BY <1>6 DEF Lapse
<1>7. ASSUME NEW a \in Approval, NEW s \in Terminal, Resolve(a, s)
      PROVE  TasksMove
  BY <1>7 DEF Resolve
<1>8. ASSUME NEW p \in Poller, PollStep(p)
      PROVE  TasksMove
  <2>1. CASE PollExpires(p)
    <3>1. Oldest(p) \in Approval
      BY <2>1, OldestListed DEF PollExpires, TypeOK
    <3>2. approval[Oldest(p)] # NoRow
      BY <2>1 DEF PollExpires, Resolvable, NoRow
    <3> QED
      BY <1>0, <2>1, <3>1, <3>2 DEF PollExpires
  <2> QED
    BY <1>8, <2>1 DEF PollStep, PollStart, PollThrows, PollEnds
<1>9. ASSUME Halt, task' = task
      PROVE  TasksMove
  BY <1>0, <1>9, HaltType
<1>10. ASSUME NEW k \in Call, CrashInRequest(k)
      PROVE  TasksMove
  <2>1. call[k].claim \in Claim
    BY <1>10, CallFields DEF CrashInRequest, AwaitsApproval, TypeOK
  <2> QED
    BY <1>0, <1>10, <2>1, HaltType DEF CrashInRequest
<1>11. ASSUME NEW k \in Call, CrashInAdmit(k)
       PROVE  TasksMove
  BY <1>9, <1>11 DEF CrashInAdmit
<1>12. ASSUME NEW a \in Approval, NEW s \in Terminal, CrashInResolve(a, s)
       PROVE  TasksMove
  BY <1>9, <1>12 DEF CrashInResolve
<1>13. CASE Crash \/ Restart
  BY <1>9, <1>13 DEF Crash, Restart
<1> HIDE DEF TasksMove
<1> QED
  BY <1>1, <1>2, <1>3, <1>4, <1>5, <1>6, <1>7, <1>8, <1>9, <1>10, <1>11, <1>12,
     <1>13
     DEF Next, VerifyStep

\* A task and its approval agree after each of these.
LEMMA TaskFollowsKept ==
  ASSUME TypeOK, TypeOK', TaskFollowsApproval, TasksMove
  PROVE  TaskFollowsApproval'
<1> SUFFICES ASSUME NEW a \in Approval
             PROVE  /\ task'[a] \in {"completed", "cancelled", "expired"} =>
                         approval'[a].status \in
                           CASE task'[a] = "completed" -> {"approved", "denied"}
                             [] OTHER -> {task'[a]}
                    /\ task'[a] = "input_required" /\ approval'[a].status # "pending"
                         => crashes' > 0
  BY DEF TaskFollowsApproval
<1>0. /\ task[a] \in {"completed", "cancelled", "expired"} =>
           approval[a].status \in CASE task[a] = "completed" -> {"approved", "denied"}
                                    [] OTHER -> {task[a]}
      /\ task[a] = "input_required" /\ approval[a].status # "pending" => crashes > 0
  BY DEF TaskFollowsApproval
<1>1. CASE UNCHANGED <<approval, task, crashes>>
  BY <1>0, <1>1
<1>2. ASSUME NEW b \in Approval, task' = Created(b), approval[b].status = "pending",
             UNCHANGED <<approval, crashes>>
      PROVE  /\ task'[a] = task[a] \/ (task'[a] = "input_required" /\ approval'[a].status = "pending")
             /\ UNCHANGED <<approval, crashes>>
  BY <1>2 DEF Created, TypeOK
<1>3. ASSUME NEW c \in Claim, Unused # {}, approval' = Requested(c), task' = Created(NewApproval),
             a # NewApproval
      PROVE  task'[a] = task[a] /\ approval'[a] = approval[a]
  <2>1. Requested(c)[a] = approval[a]
    BY <1>3, RequestedRow
  <2>2. task'[a] = task[a]
    BY <1>3 DEF Created, TypeOK
  <2> QED
    BY <1>3, <2>1, <2>2
<1>4. ASSUME NEW c \in Claim, Unused # {}, approval' = Requested(c), a = NewApproval,
             task' = Created(NewApproval) \/ task' = task
      PROVE  task'[a] \in {"none", "input_required"} /\ approval'[a].status = "pending"
  <2>0. approval'[a] = [status |-> "pending", claim |-> c]
    BY <1>4, RequestedRow
  <2>1. approval[a] = NoRow /\ approval'[a].status = "pending"
    BY <1>4, <2>0, NewApprovalUnused
  <2>2. task[a] \in {"none", "input_required"}
    BY <1>0, <2>1 DEF NoRow, TypeOK, TaskStatus
  <2> QED
    BY <1>4, <2>1, <2>2 DEF Created, TypeOK
<1>5. ASSUME NEW b \in Approval, NEW s \in Terminal, approval[b] # NoRow, Resolvable(b, s),
             approval' = ResolvedApproval(b, s), task' = EndedTask(b, s), crashes' = crashes
      PROVE  /\ task'[a] \in {"completed", "cancelled", "expired"} =>
                  approval'[a].status \in
                    CASE task'[a] = "completed" -> {"approved", "denied"}
                      [] OTHER -> {task'[a]}
             /\ task'[a] = "input_required" /\ approval'[a].status # "pending"
                  => crashes' > 0
  <2>1. CASE a # b
    <3>1. approval'[a] = approval[a]
      <4>1. ResolvedApproval(b, s)[a] = approval[a]
        BY <2>1 DEF ResolvedApproval, TypeOK
      <4> QED
        BY <1>5, <4>1
    <3>2. task'[a] = task[a]
      BY <1>5, <2>1 DEF EndedTask, TypeOK
    <3> QED
      BY <1>0, <1>5, <3>1, <3>2
  <2>2. CASE a = b
    <3>0. approval'[a] = [status |-> s, claim |-> approval[a].claim]
      BY <1>5, <2>2, ResolvedRow
    <3>1. approval'[a].status = s
      BY <3>0
    <3>2. CASE task[a] = "input_required"
      <4>1. task'[a] = TaskEnd(s)
        BY <1>5, <2>2, <3>2 DEF EndedTask, TypeOK
      <4> QED
        BY <3>1, <4>1 DEF TaskEnd, Terminal
    <3>3. CASE task[a] # "input_required"
      <4>1. task'[a] = task[a]
        BY <1>5, <2>2, <3>3 DEF EndedTask, TypeOK
      <4>2. approval[a].status \in {"pending", s}
        BY <1>5, <2>2 DEF Resolvable
      <4> QED
        BY <1>0, <3>1, <3>3, <4>1, <4>2
    <3> QED
      BY <3>2, <3>3
  <2> QED
    BY <2>1, <2>2
<1>6. ASSUME crashes' > 0, ApprovalsMove, task'[a] = task[a]
      PROVE  task[a] \in {"completed", "cancelled", "expired"} => approval'[a] = approval[a]
  <2>1. task[a] \in {"completed", "cancelled", "expired"} => approval[a].status \in Terminal
    BY <1>0 DEF Terminal
  <2> QED
    BY <1>6, <2>1, DecidedStay
<1>7. CASE /\ crashes' > 0 /\ ApprovalsMove
           /\ task' = task \/ (Unused # {} /\ task' = Created(NewApproval) /\
                                 \E c \in Claim : approval' = Requested(c))
  <2>1. CASE task'[a] = task[a]
    BY <1>0, <1>6, <1>7, <2>1
  <2>2. CASE task'[a] # task[a]
    <3>1. PICK c \in Claim : /\ Unused # {} /\ task' = Created(NewApproval)
                             /\ approval' = Requested(c)
      BY <1>7, <2>2
    <3> QED
      BY <1>3, <1>4, <2>2, <3>1, <1>7
  <2> QED
    BY <2>1, <2>2
<1> QED
  BY <1>0, <1>1, <1>2, <1>3, <1>4, <1>5, <1>7 DEF TasksMove

\* A call stays where it is, ends, passes the checks before its first await,
\* or is admitted to the policy.
CallMoves(j) ==
  \/ call'[j] = call[j]
  \/ call'[j].at \in {"idle", "done"}
  \/ \E c \in Claim, a \in Approval \cup {NoApproval} :
       LET seen == decision[IdOf[c]]
       IN /\ call'[j] = [at |-> "authority", claim |-> c, with |-> a, seen |-> seen]
          /\ seen # NoDecision => seen.claim = c
          /\ seen # NoDecision /\ c \notin Fresh => seen.status = "pending_approval"
  \/ Admit(j)

LEMMA CallMovesNext ==
  ASSUME TypeOK, [Next]_vars, NEW j \in Call
  PROVE  CallMoves(j)
<1> USE DEF store, CallMoves
<1>0. Done.at = "done" /\ Idle.at = "idle"
  BY DEF Done, Idle
<1>1. CASE UNCHANGED vars
  BY <1>1 DEF vars
<1>2. ASSUME NEW k \in Call, Return(k)
      PROVE  CallMoves(j)
  BY <1>0, <1>2 DEF Return, TypeOK
<1>3. ASSUME NEW k \in Call, NEW c \in Claim, NEW a \in Approval \cup {NoApproval},
             Begin(k, c, a)
      PROVE  CallMoves(j)
  <2> DEFINE seen == decision[IdOf[c]]
  <2>1. CASE Return(k)
    BY <1>2, <2>1
  <2>2. CASE /\ ~(seen # NoDecision /\ seen.claim # c)
             /\ ~(/\ seen # NoDecision /\ ~(seen # NoDecision /\ seen.claim # c)
                  /\ c \notin Fresh
                  /\ a = NoApproval \/ seen.status # "pending_approval")
             /\ call' = [call EXCEPT ![k] =
                  [at |-> "authority", claim |-> c, with |-> a, seen |-> seen]]
    BY <2>2 DEF TypeOK
  <2> QED
    BY <1>3, <2>1, <2>2 DEF Begin, Persist
<1>4. ASSUME NEW k \in Call, Admit(k)
      PROVE  CallMoves(j)
  BY <1>4 DEF Admit, TypeOK
<1>5. ASSUME NEW k \in Call, VerifyStep(k), ~Admit(k)
      PROVE  CallMoves(j)
  <2>1. Return(k)
    BY <1>5 DEF VerifyStep, Refuse, ReplayRefused, ApprovalUnbound, PolicyDecides,
       ApprovalStands, ApprovalRequested, Persist, Conclude
  <2> QED
    BY <1>2, <2>1
<1>6. CASE Halt
  BY <1>0, <1>6 DEF Halt
<1>7. ASSUME NEW k \in Call, CrashInAdmit(k) \/ CrashInRequest(k)
      PROVE  Halt
  BY <1>7 DEF CrashInAdmit, CrashInRequest
<1>8. ASSUME NEW a \in Approval, Lapse(a)
      PROVE  CallMoves(j)
  BY <1>8 DEF Lapse
<1>9. ASSUME NEW a \in Approval, NEW s \in Terminal, Resolve(a, s) \/ CrashInResolve(a, s)
      PROVE  CallMoves(j)
  BY <1>6, <1>9 DEF Resolve, CrashInResolve
<1>10. ASSUME NEW p \in Poller, PollStep(p)
       PROVE  CallMoves(j)
  BY <1>10 DEF PollStep, PollStart, PollExpires, PollThrows, PollEnds
<1>11. CASE Crash \/ Restart
  BY <1>6, <1>11 DEF Crash, Restart
<1> HIDE DEF CallMoves
<1> QED
  BY <1>1, <1>3, <1>4, <1>5, <1>6, <1>7, <1>8, <1>9, <1>10, <1>11 DEF Next

\* A decision is written as a denial, or as the policy's answer on a call.
DecisionsMove ==
  \/ UNCHANGED decision
  \/ \E c \in Claim :
       decision' = [decision EXCEPT ![IdOf[c]] =
                      [status |-> "denied", claim |-> c, approval |-> NoApproval]]
  \/ \E k \in Call, a \in Approval \cup {NoApproval} :
       /\ call[k].at = "policy" /\ Bound(k)
       /\ \E s \in Answers(call[k].claim, call[k].with, call[k].found) :
            decision' = [decision EXCEPT ![IdOf[call[k].claim]] =
                           [status |-> s, claim |-> call[k].claim, approval |-> a]]

LEMMA DecisionsMoveNext ==
  ASSUME TypeOK, [Next]_vars
  PROVE  DecisionsMove
<1> USE DEF store, DecisionsMove
<1>1. CASE UNCHANGED vars
  BY <1>1 DEF vars
<1>2. ASSUME NEW k \in Call, NEW c \in Claim, NEW a \in Approval \cup {NoApproval},
             Begin(k, c, a)
      PROVE  DecisionsMove
  BY <1>2 DEF Begin, Persist
<1>3. ASSUME NEW k \in Call, Refuse(k) \/ ReplayRefused(k) \/ ApprovalUnbound(k)
      PROVE  DecisionsMove
  <2>1. call[k].claim \in Claim
    BY <1>3, CallFields DEF Refuse, ReplayRefused, ApprovalUnbound, TypeOK
  <2> QED
    BY <1>3, <2>1 DEF Refuse, ReplayRefused, ApprovalUnbound, Persist
<1>4. ASSUME NEW k \in Call, NEW a \in Approval \cup {NoApproval}, call[k].at = "policy", Bound(k),
             NEW s \in Answers(call[k].claim, call[k].with, call[k].found), Conclude(k, s, a)
      PROVE  DecisionsMove
  BY <1>4 DEF Conclude, Persist
<1>5. ASSUME NEW k \in Call, PolicyDecides(k)
      PROVE  DecisionsMove
  BY <1>4, <1>5 DEF PolicyDecides
<1>6. ASSUME NEW k \in Call, ApprovalStands(k)
      PROVE  DecisionsMove
  <2>1. call[k].with \in Approval \cup {NoApproval}
    BY <1>6, CallFields DEF ApprovalStands, AwaitsApproval, TypeOK
  <2> QED
    BY <1>4, <1>6, <2>1 DEF ApprovalStands, AwaitsApproval
<1>7. ASSUME NEW k \in Call, ApprovalRequested(k)
      PROVE  DecisionsMove
  <2>1. PICK a \in Approval : Conclude(k, "pending_approval", a)
    BY <1>7, NewApprovalUnused DEF ApprovalRequested, Pending
  <2> QED
    BY <1>4, <1>7, <2>1 DEF ApprovalRequested, AwaitsApproval
<1>8. ASSUME NEW k \in Call, Admit(k) \/ CrashInAdmit(k) \/ CrashInRequest(k)
      PROVE  DecisionsMove
  BY <1>8 DEF Admit, CrashInAdmit, CrashInRequest
<1>9. ASSUME NEW a \in Approval, Lapse(a)
      PROVE  DecisionsMove
  BY <1>9 DEF Lapse
<1>10. ASSUME NEW a \in Approval, NEW s \in Terminal, Resolve(a, s) \/ CrashInResolve(a, s)
       PROVE  DecisionsMove
  BY <1>10 DEF Resolve, CrashInResolve
<1>11. ASSUME NEW p \in Poller, PollStep(p)
       PROVE  DecisionsMove
  BY <1>11 DEF PollStep, PollStart, PollExpires, PollThrows, PollEnds
<1>12. CASE Crash \/ Restart
  BY <1>12 DEF Crash, Restart
<1> HIDE DEF DecisionsMove
<1> QED
  BY <1>1, <1>2, <1>3, <1>5, <1>6, <1>7, <1>8, <1>9, <1>10, <1>11, <1>12 DEF Next, VerifyStep

-----------------------------------------------------------------------------
(* The inductive invariant.                                                 *)

\* What a call read of its approval before the await on the policy still
\* holds after it, once the approval was decided; and a call that will not
\* be evaluated again has reserved its replay material by then, or comes
\* after a decision that had.
CallSound(k) ==
  /\ call[k].at = "policy" =>
       /\ call[k].with = NoApproval => call[k].found = NoRow
       /\ call[k].found.status \in Terminal =>
            call[k].with \in Approval /\ approval[call[k].with] = call[k].found
  /\ /\ call[k].at = "policy" \/ (call[k].at = "authority" /\ call[k].seen # NoDecision)
     /\ call[k].claim \notin Fresh
     => call[k].claim \in reserved

\* So has every decision that is no denial.
DecisionReserved(i) ==
  /\ decision[i].status \in {"allowed", "pending_approval"}
  /\ decision[i].claim \notin Fresh
  => decision[i].claim \in reserved

AdmissionInv ==
  /\ TypeOK
  /\ ReservationsConsecutive
  /\ TaskFollowsApproval
  /\ \A k \in Call : CallSound(k)
  /\ \A i \in ClaimId : DecisionReserved(i)
  /\ AllowedByHuman

\* The initial state satisfies it.
LEMMA AdmissionInvInit == Init => AdmissionInv
<1> SUFFICES ASSUME Init PROVE AdmissionInv
  OBVIOUS
<1>1. TypeOK
  BY TypeInit
<1>2. ReservationsConsecutive
  BY DEF Init, ReservationsConsecutive
<1>3. TaskFollowsApproval
  BY DEF Init, TaskFollowsApproval
<1>4. \A k \in Call : CallSound(k)
  BY DEF Init, CallSound, Idle
<1>5. (\A i \in ClaimId : DecisionReserved(i)) /\ AllowedByHuman
  BY DEF Init, DecisionReserved, AllowedByHuman, NoDecision
<1> QED
  BY <1>1, <1>2, <1>3, <1>4, <1>5 DEF AdmissionInv

\* A call that is admitted carries what it read, and has reserved.
LEMMA AdmitSound ==
  ASSUME AdmissionInv, NEW k \in Call, Admit(k)
  PROVE  CallSound(k)'
<1> DEFINE a == call[k].with
<1>1. /\ call[k].at = "authority" /\ Reserved(k)
      /\ call[k].claim \in Claim /\ a \in Approval \cup {NoApproval}
  BY CallFields DEF Admit, AdmissionInv, TypeOK
<1>2. call'[k] = [at |-> "policy", claim |-> call[k].claim, with |-> a,
                  seen |-> call[k].seen, found |-> Read(a)]
  BY DEF Admit, AdmissionInv, TypeOK
<1>3. call[k].claim \notin Fresh => call[k].claim \in reserved'
  <2>1. CASE (call[k].seen # NoDecision \/ Idempotent(call[k].claim)) /\ reserved' = reserved
    BY <1>1, <2>1 DEF AdmissionInv, CallSound, Idempotent
  <2>2. CASE Reserve(call[k].claim)
    BY <2>2 DEF Reserve
  <2> QED
    BY <1>1, <2>1, <2>2 DEF Reserved
<1>4. a = NoApproval => Read(a) = NoRow
  BY DEF Read
<1>5. Read(a).status \in Terminal => a \in Approval /\ approval'[a] = Read(a)
  <2>1. CASE ReadExpires(a)
    <3>1. approval' = ResolvedApproval(a, "expired")
      BY <2>1 DEF Admit
    <3>2. a \in Approval /\ Read(a) = ResolvedApproval(a, "expired")[a]
      BY <1>1, <2>1, ReadType DEF AdmissionInv
    <3> QED
      BY <3>1, <3>2
  <2>2. CASE ~ReadExpires(a)
    <3>1. approval' = approval
      BY <2>2 DEF Admit
    <3>2. a = NoApproval => Read(a).status \notin Terminal
      BY <1>4, RowFields DEF Terminal
    <3>3. a # NoApproval => Read(a) = approval[a]
      BY <1>1, <2>2, ReadType DEF AdmissionInv
    <3> QED
      BY <1>1, <3>1, <3>2, <3>3
  <2> QED
    BY <2>1, <2>2
<1> HIDE DEF a
<1> QED
  BY <1>1, <1>2, <1>3, <1>4, <1>5 DEF CallSound

\* Every other step leaves what a call carries true.
LEMMA CallSoundKept ==
  ASSUME AdmissionInv, TypeOK', ApprovalsMove, reserved \subseteq reserved',
         NEW k \in Call, CallMoves(k)
  PROVE  CallSound(k)'
<1>1. CASE Admit(k)
  BY <1>1, AdmitSound
<1>2. CASE call'[k] = call[k]
  <2>1. CallSound(k) /\ TypeOK
    BY DEF AdmissionInv
  <2>2. ASSUME call[k].at = "policy", call[k].found.status \in Terminal
        PROVE  call[k].with \in Approval /\ approval'[call[k].with] = call[k].found
    BY <2>1, <2>2, DecidedStay DEF CallSound
  <2> QED
    BY <1>2, <2>1, <2>2 DEF CallSound
<1>3. CASE call'[k].at \in {"idle", "done"}
  BY <1>3 DEF CallSound
<1>4. ASSUME NEW c \in Claim, NEW a \in Approval \cup {NoApproval},
             call'[k] = [at |-> "authority", claim |-> c, with |-> a, seen |-> decision[IdOf[c]]],
             decision[IdOf[c]] # NoDecision => decision[IdOf[c]].claim = c,
             decision[IdOf[c]] # NoDecision /\ c \notin Fresh
               => decision[IdOf[c]].status = "pending_approval"
      PROVE  CallSound(k)'
  <2>1. IdOf[c] \in ClaimId
    BY DEF ClaimId
  <2>2. decision[IdOf[c]] # NoDecision /\ c \notin Fresh => c \in reserved
    BY <1>4, <2>1 DEF AdmissionInv, DecisionReserved
  <2>3. /\ call'[k].at = "authority" /\ call'[k].claim = c
        /\ call'[k].seen = decision[IdOf[c]]
    BY <1>4
  <2> QED
    BY <2>2, <2>3 DEF CallSound
<1> QED
  BY <1>1, <1>2, <1>3, <1>4 DEF CallMoves

\* A decision that comes on record is one its call could carry: its claim has
\* reserved, and if it needs a human there is the approval that was read.
LEMMA DecisionsKept ==
  ASSUME AdmissionInv, ApprovalsMove, reserved \subseteq reserved', DecisionsMove
  PROVE  /\ \A i \in ClaimId : DecisionReserved(i)'
         /\ AllowedByHuman'
<1> DEFINE Kept(i) ==
      /\ DecisionReserved(i)'
      /\ decision'[i].status = "allowed" /\ decision'[i].claim \in Human =>
           \E b \in Approval :
             approval'[b] = [status |-> "approved", claim |-> decision'[i].claim]
<1> SUFFICES ASSUME NEW i \in ClaimId PROVE Kept(i)
  BY DEF AllowedByHuman
<1>0. TypeOK
  BY DEF AdmissionInv
<1>1. ASSUME NEW a \in Approval, NEW c, approval[a] = [status |-> "approved", claim |-> c]
      PROVE  approval'[a] = [status |-> "approved", claim |-> c]
  BY <1>0, <1>1, DecidedStay DEF Terminal
<1>2. CASE decision'[i] = decision[i]
  <2>1. DecisionReserved(i)'
    BY <1>2 DEF AdmissionInv, DecisionReserved
  <2>2. decision[i].status = "allowed" /\ decision[i].claim \in Human =>
          \E a \in Approval : approval[a] = [status |-> "approved", claim |-> decision[i].claim]
    BY DEF AdmissionInv, AllowedByHuman
  <2> QED
    BY <1>1, <1>2, <2>1, <2>2
<1>3. CASE decision'[i].status = "denied"
  BY <1>3 DEF DecisionReserved
<1>4. ASSUME NEW k \in Call, NEW a \in Approval \cup {NoApproval},
             call[k].at = "policy", Bound(k),
             NEW s \in Answers(call[k].claim, call[k].with, call[k].found),
             decision'[i] = [status |-> s, claim |-> call[k].claim, approval |-> a]
      PROVE  Kept(i)
  <2>1. CallSound(k)
    BY DEF AdmissionInv
  <2>2. decision'[i].status = s /\ decision'[i].claim = call[k].claim
    BY <1>4
  <2>3. call[k].claim \in Claim /\ call[k].found \in ApprovalRow \cup {NoRow}
    BY <1>0, <1>4, CallFields DEF TypeOK
  <2>4. DecisionReserved(i)'
    BY <1>4, <2>1, <2>2 DEF CallSound, DecisionReserved
  <2>5. ASSUME s = "allowed", call[k].claim \in Human
        PROVE  \E b \in Approval :
                 approval'[b] = [status |-> "approved", claim |-> call[k].claim]
    <3>1. call[k].found.status = "approved"
      BY <1>4, <2>5 DEF Answers
    <3>2. call[k].found \in ApprovalRow /\ call[k].with # NoApproval
      BY <1>4, <2>1, <2>3, <3>1, RowFields DEF CallSound
    <3>3. call[k].with \in Approval /\ approval[call[k].with] = call[k].found
      BY <1>4, <2>1, <3>1 DEF CallSound, Terminal
    <3>4. call[k].found.claim = call[k].claim
      BY <1>4, <3>2 DEF Bound
    <3>5. call[k].found = [status |-> "approved", claim |-> call[k].claim]
      BY <3>1, <3>2, <3>4 DEF ApprovalRow
    <3> QED
      BY <1>1, <3>3, <3>5
  <2> QED
    BY <2>2, <2>4, <2>5
<1>5. ASSUME NEW c \in Claim, NEW d, decision' = [decision EXCEPT ![IdOf[c]] = d]
      PROVE  decision'[i] = decision[i] \/ decision'[i] = d
  BY <1>0, <1>5 DEF TypeOK
<1>6. CASE UNCHANGED decision
  BY <1>2, <1>6
<1>7. ASSUME NEW c \in Claim,
             decision' = [decision EXCEPT ![IdOf[c]] =
                            [status |-> "denied", claim |-> c, approval |-> NoApproval]]
      PROVE  Kept(i)
  <2>1. decision'[i] = decision[i] \/ decision'[i].status = "denied"
    BY <1>5, <1>7
  <2> QED
    BY <1>2, <1>3, <2>1
<1>8. ASSUME NEW k \in Call, NEW a \in Approval \cup {NoApproval},
             call[k].at = "policy", Bound(k),
             NEW s \in Answers(call[k].claim, call[k].with, call[k].found),
             decision' = [decision EXCEPT ![IdOf[call[k].claim]] =
                            [status |-> s, claim |-> call[k].claim, approval |-> a]]
      PROVE  Kept(i)
  <2>1. call[k].claim \in Claim
    BY <1>0, <1>8, CallFields DEF TypeOK
  <2>2. \/ decision'[i] = decision[i]
        \/ decision'[i] = [status |-> s, claim |-> call[k].claim, approval |-> a]
    BY <1>5, <1>8, <2>1
  <2> HIDE DEF Kept
  <2> QED
    BY <1>2, <1>4, <1>8, <2>2
<1> HIDE DEF Kept
<1> QED
  BY <1>6, <1>7, <1>8 DEF DecisionsMove

\* Every step keeps it.
LEMMA AdmissionInvNext == AdmissionInv /\ [Next]_vars => AdmissionInv'
<1> SUFFICES ASSUME AdmissionInv, [Next]_vars PROVE AdmissionInv'
  OBVIOUS
<1>1. TypeOK /\ TypeOK'
  BY TypeNext DEF AdmissionInv
<1>2. ReservationsConsecutive' /\ reserved \subseteq reserved'
  BY <1>1, ReservationsMoveNext, ConsecutiveKept DEF AdmissionInv
<1>3. TaskFollowsApproval'
  BY <1>1, TasksMoveNext, TaskFollowsKept DEF AdmissionInv
<1>4. \A k \in Call : CallSound(k)'
  BY <1>1, <1>2, ApprovalsMoveNext, CallMovesNext, CallSoundKept
<1>5. (\A i \in ClaimId : DecisionReserved(i)') /\ AllowedByHuman'
  BY <1>1, <1>2, ApprovalsMoveNext, DecisionsMoveNext, DecisionsKept
<1> QED
  BY <1>1, <1>2, <1>3, <1>4, <1>5 DEF AdmissionInv

LEMMA AdmissionInvAlways == Spec => []AdmissionInv
BY AdmissionInvInit, AdmissionInvNext, PTL DEF Spec

-----------------------------------------------------------------------------
(* What follows.                                                            *)

\* Replay material is used once, its numbers without a gap, and a decision
\* that allows a claim rests on a reservation, over calls that race and
\* processes that stop (reserveReplay).
THEOREM ReplayMaterialSound == Spec => []ReplayLedgerSound
<1>1. AdmissionInv => ReplayLedgerSound
  BY DEF AdmissionInv, ReplayLedgerSound, AllowedReserved, DecisionReserved
<1> QED
  BY <1>1, AdmissionInvAlways, PTL

\* Nothing that demands a human is allowed without an approval of that very
\* claim, although the approval is read before an await and used after it.
THEOREM HumanApproves == Spec => []AllowedByHuman
<1>1. AdmissionInv => AllowedByHuman
  BY DEF AdmissionInv
<1> QED
  BY <1>1, AdmissionInvAlways, PTL

\* An approval's task ends as its approval does, and outlives it only where
\* a process stopped between the two writes.
THEOREM TasksFollowApprovals == Spec => []TaskFollowsApproval
<1>1. AdmissionInv => TaskFollowsApproval
  BY DEF AdmissionInv
<1> QED
  BY <1>1, AdmissionInvAlways, PTL
=============================================================================
