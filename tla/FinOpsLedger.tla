---------------------------- MODULE FinOpsLedger ----------------------------
(***************************************************************************)
(* The FinOps budget ledger and the two gateways that call a provider on   *)
(* its reservations (palo-finops: ledger.js, gateway.js, gateway-probe.js; *)
(* palo-finops-core.js: replay, summarize, appendEvent,                    *)
(* evaluateTransition).  Gateways, probes and operators are processes of   *)
(* their own on one SQLite file: every transaction is a step, and a        *)
(* process may be stopped between any two.  Of the journal the model keeps *)
(* what replay makes of it: the attempts and the stamp of the last event.  *)
(***************************************************************************)
EXTENDS Integers, FiniteSetsExt

CONSTANTS
  Call,        \* calls of dispatch, each made at most once
  Request,     \* requests as submitted: one element per content (binding)
  Probe,       \* those sent through the loopback probe
  IdOf,        \* the requestId of a request
  AttemptOf,   \* the attempt it reserves for
  Manual,      \* attempts reserved by ledger-append alone
  Workload, WorkloadOf,  \* of an attempt
  AmountOf,    \* the reservation it asks for
  Cost,        \* final costs there may be
  Budget, WorkloadBudget, MaxTransition,
  ValidUntil,  \* of policy, rate card and pilot configuration
  MaxTime

Id == {IdOf[r] : r \in Request}
Attempt == {AttemptOf[r] : r \in Request} \cup Manual

ASSUME FinOpsAssumption ==
  /\ Probe \subseteq Request
  /\ AmountOf \in [Request -> Cost] /\ Cost \subseteq Nat
  /\ IsFiniteSet(Attempt)
  /\ WorkloadOf \in [Attempt -> Workload]
  /\ WorkloadBudget \in [Workload -> Nat]
  /\ Budget \in Nat /\ MaxTransition \in Nat
  /\ ValidUntil \in Nat /\ MaxTime \in Nat

VARIABLES
  now,
  attempt,   \* the attempts of the journal
  last,      \* stamp of the journal's last event
  dispatch,  \* tables finops_dispatch and finops_probe_dispatch
  call,      \* how far each call of dispatch is
  calls      \* how often the provider was called for an attempt

vars == <<now, attempt, last, dispatch, call, calls>>

Time == 0..MaxTime
None == [status |-> "none", reserved |-> 0, actual |-> 0]
AttemptRow == [status : {"none", "reserved", "unreconciled", "settled"},
               reserved : Cost \cup {0}, actual : Cost \cup {0}]
NoRow == [state |-> "none"]
Row == [request : Request,
        state : {"claimed", "rejected", "reserved_no_retry", "awaiting_billing",
                 "settled", "unknown"}]
Idle == [at |-> "idle"]
Done == [at |-> "done"]
Unknown == -1
CallState ==
  {Idle, Done}
    \cup [at : {"asked", "claimed", "rejected", "reserved", "send", "sent"},
          request : Request, stamp : Time]
    \cup [at : {"answered"}, request : Request, stamp : Time, cost : Cost \cup {Unknown}]
    \cup [at : {"receipt"}, request : Request, cost : Cost \cup {Unknown}]

FinOpsTypeOK ==
  /\ now \in Time
  /\ attempt \in [Attempt -> AttemptRow]
  /\ last \in Time
  /\ dispatch \in [Id -> Row \cup {NoRow}]
  /\ call \in [Call -> CallState]
  /\ calls \in [Attempt -> Nat]

FinOpsInit ==
  /\ now = 0
  /\ attempt = [a \in Attempt |-> None]
  /\ last = 0
  /\ dispatch = [i \in Id |-> NoRow]
  /\ call = [k \in Call |-> Idle]
  /\ calls = [a \in Attempt |-> 0]
-----------------------------------------------------------------------------
(* The journal *)

\* summarize: an attempt without a final cost counts with its reservation.
Committed(row) == IF row.status = "settled" THEN row.actual ELSE row.reserved

Total(att, S) == SumFunctionOnSet([a \in Attempt |-> Committed(att[a])], S)

\* A mutation: what is outstanding does not count.
RemainsOfSettled(att, a) ==
  SumFunctionOnSet([b \in Attempt |-> att[b].actual], Attempt \ {a}) + att[a].reserved <= Budget

Remains(att, a) ==
  /\ Total(att, Attempt) <= Budget
  /\ Total(att, {b \in Attempt : WorkloadOf[b] = WorkloadOf[a]})
       <= WorkloadBudget[WorkloadOf[a]]

Reserved(a, m) == [attempt EXCEPT ![a] = [status |-> "reserved", reserved |-> m, actual |-> 0]]

\* A reservation is appended if the attempt has none, no event is later, the
\* rate card is valid, and both budgets hold it.
Reservable(a, m, stamp) ==
  /\ attempt[a] = None
  /\ last <= stamp /\ stamp < ValidUntil
  /\ Remains(Reserved(a, m), a)

\* A reservation for a transition is assessed too (evaluateTransition).
Affordable(r, stamp) ==
  /\ Reservable(AttemptOf[r], AmountOf[r], stamp)
  /\ r \in Probe => AmountOf[r] <= MaxTransition

Appended(a, m, stamp) ==
  /\ attempt' = Reserved(a, m)
  /\ last' = stamp

\* A mutation: the unknown cost is kept as a number.
PricedAsNumber(a, c) ==
  [attempt EXCEPT ![a].status = IF c = Unknown THEN "unreconciled" ELSE "settled",
                  ![a].actual = c]

\* A settlement without a cost leaves the attempt unreconciled.
Priced(a, c) ==
  [attempt EXCEPT ![a].status = IF c = Unknown THEN "unreconciled" ELSE "settled",
                  ![a].actual = IF c = Unknown THEN 0 ELSE c]

Settleable(a, stamp) == attempt[a].status = "reserved" /\ stamp >= last
-----------------------------------------------------------------------------
(* dispatch, of the gateway and of the probe *)

Go(k, next) == call' = [call EXCEPT ![k] = next]
At(k, at) == call[k].at = at
To(k, at) == [at |-> at, request |-> call[k].request, stamp |-> call[k].stamp]
Put(k, state) ==
  dispatch' = [dispatch EXCEPT ![IdOf[call[k].request]] =
                 [request |-> call[k].request, state |-> state]]
Prior(k) == dispatch[IdOf[call[k].request]]

\* The call takes its time stamp and looks at the scope.
Ask(k, r) ==
  /\ call[k] = Idle
  /\ now < ValidUntil
  /\ Go(k, [at |-> "asked", request |-> r, stamp |-> now])
  /\ UNCHANGED <<now, attempt, last, dispatch, calls>>

\* A mutation: a dispatch that was interrupted is taken up again.
AfterReplayResumes(k) ==
  IF Prior(k).state = "reserved_no_retry" /\ Prior(k).request = call[k].request
  THEN To(k, "send") ELSE Done

\* A requestId on record is replayed, or refused for other contents: either
\* way the call ends.
AfterReplay(k) == Done

Replay(k) ==
  /\ At(k, "asked") /\ Prior(k) # NoRow
  /\ Go(k, AfterReplay(k))
  /\ UNCHANGED <<now, attempt, last, dispatch, calls>>

\* reserveDispatch: claim and reservation in one transaction.
ReserveDispatch(k) ==
  LET r == call[k].request
  IN /\ At(k, "asked") /\ r \notin Probe /\ Prior(k) = NoRow
     /\ Affordable(r, call[k].stamp)
     /\ Appended(AttemptOf[r], AmountOf[r], call[k].stamp)
     /\ Put(k, "reserved_no_retry")
     /\ Go(k, To(k, "send"))
     /\ UNCHANGED <<now, calls>>

ReserveRefused(k) ==
  /\ At(k, "asked") /\ call[k].request \notin Probe /\ Prior(k) = NoRow
  /\ ~Affordable(call[k].request, call[k].stamp)
  /\ Go(k, Done)
  /\ UNCHANGED <<now, attempt, last, dispatch, calls>>

\* The probe: claim, reservation and its mark are three transactions.
Claim(k) ==
  /\ At(k, "asked") /\ call[k].request \in Probe /\ Prior(k) = NoRow
  /\ Put(k, "claimed")
  /\ Go(k, To(k, "claimed"))
  /\ UNCHANGED <<now, attempt, last, calls>>

ReserveTransition(k) ==
  LET r == call[k].request
  IN /\ At(k, "claimed")
     /\ Affordable(r, call[k].stamp)
     /\ Appended(AttemptOf[r], AmountOf[r], call[k].stamp)
     /\ Go(k, To(k, "reserved"))
     /\ UNCHANGED <<now, dispatch, calls>>

TransitionRefused(k) ==
  /\ At(k, "claimed")
  /\ ~Affordable(call[k].request, call[k].stamp)
  /\ Go(k, To(k, "rejected"))
  /\ UNCHANGED <<now, attempt, last, dispatch, calls>>

MarkRejected(k) ==
  /\ At(k, "rejected")
  /\ Put(k, "rejected")
  /\ Go(k, Done)
  /\ UNCHANGED <<now, attempt, last, calls>>

\* A mutation: the row stays as it was claimed.
MarkNothing(k) == UNCHANGED dispatch

Mark(k) == Put(k, "reserved_no_retry")

MarkReserved(k) ==
  /\ At(k, "reserved")
  /\ Mark(k)
  /\ Go(k, To(k, "send"))
  /\ UNCHANGED <<now, attempt, last, calls>>

Send(k) ==
  /\ At(k, "send")
  /\ calls' = [calls EXCEPT ![AttemptOf[call[k].request]] = @ + 1]
  /\ Go(k, To(k, "sent"))
  /\ UNCHANGED <<now, attempt, last, dispatch>>

\* An answer, an error or the time-out.  Only the probe's answer can state a
\* final cost.
Answer(k) ==
  /\ At(k, "sent")
  /\ \E c \in {Unknown} \cup IF call[k].request \in Probe THEN Cost ELSE {} :
       Go(k, [at |-> "answered", request |-> call[k].request, stamp |-> now, cost |-> c])
  /\ UNCHANGED <<now, attempt, last, dispatch, calls>>

Settle(k) ==
  LET a == AttemptOf[call[k].request]
  IN /\ At(k, "answered")
     /\ Settleable(a, call[k].stamp)
     /\ attempt' = Priced(a, call[k].cost)
     /\ last' = call[k].stamp
     /\ Go(k, [at |-> "receipt", request |-> call[k].request, cost |-> call[k].cost])
     /\ UNCHANGED <<now, dispatch, calls>>

\* The error leaves dispatch, and the row as it is.
AfterRefused(k) == Done

SettleRefused(k) ==
  /\ At(k, "answered")
  /\ ~Settleable(AttemptOf[call[k].request], call[k].stamp)
  /\ Go(k, AfterRefused(k))
  /\ UNCHANGED <<now, attempt, last, dispatch, calls>>

Outcome(k) ==
  IF call[k].request \notin Probe THEN "awaiting_billing"
  ELSE IF call[k].cost = Unknown THEN "unknown" ELSE "settled"

Receipt(k) ==
  /\ At(k, "receipt")
  /\ Put(k, Outcome(k))
  /\ Go(k, Done)
  /\ UNCHANGED <<now, attempt, last, calls>>

\* The process is stopped, or a write fails.
Stop(k) ==
  /\ call[k] \notin {Idle, Done}
  /\ Go(k, Done)
  /\ UNCHANGED <<now, attempt, last, dispatch, calls>>

Dispatching(k) ==
  \/ Replay(k) \/ ReserveDispatch(k) \/ ReserveRefused(k)
  \/ Claim(k) \/ ReserveTransition(k) \/ TransitionRefused(k)
  \/ MarkRejected(k) \/ MarkReserved(k)
  \/ Send(k) \/ Answer(k) \/ Settle(k) \/ SettleRefused(k) \/ Receipt(k)
-----------------------------------------------------------------------------
(* ledger-append: an operator's event carries a stamp of its own. *)

OperatorReserves(a, m, stamp) ==
  /\ Reservable(a, m, stamp)
  /\ Appended(a, m, stamp)
  /\ UNCHANGED <<now, dispatch, call, calls>>

\* settle, or reconcile, which needs a known cost.
OperatorPrices(a, c, stamp) ==
  /\ \/ Settleable(a, stamp)
     \/ attempt[a].status = "unreconciled" /\ c # Unknown /\ stamp >= last
  /\ attempt' = Priced(a, c)
  /\ last' = stamp
  /\ UNCHANGED <<now, dispatch, call, calls>>

Tick == now < MaxTime /\ now' = now + 1 /\ UNCHANGED <<attempt, last, dispatch, call, calls>>

FinOpsNext ==
  \/ \E k \in Call, r \in Request : Ask(k, r)
  \/ \E k \in Call : Dispatching(k) \/ Stop(k)
  \/ \E a \in Attempt, stamp \in Time :
       \/ \E m \in Cost : OperatorReserves(a, m, stamp)
       \/ \E c \in Cost \cup {Unknown} : OperatorPrices(a, c, stamp)
  \/ Tick

FinOpsSpec == FinOpsInit /\ [][FinOpsNext]_vars
-----------------------------------------------------------------------------
(* Properties *)

\* What is committed exceeds the budgets by no more than what attempts cost
\* above their reservations: processes that reserve at the same time never
\* spend the same money twice (ledger.js, one transaction for check and
\* insert).
Overrun(a) == IF Committed(attempt[a]) > attempt[a].reserved
              THEN Committed(attempt[a]) - attempt[a].reserved ELSE 0
BudgetHeld ==
  LET over(S) == SumFunctionOnSet([a \in Attempt |-> Overrun(a)], S)
      mine(w) == {a \in Attempt : WorkloadOf[a] = w}
  IN /\ Total(attempt, Attempt) - over(Attempt) <= Budget
     /\ \A w \in Workload : Total(attempt, mine(w)) - over(mine(w)) <= WorkloadBudget[w]

\* A receipt says of an attempt what the journal says: one that awaits its
\* billing or is settled has left the reserved state, whoever settled it and
\* wherever processes stop (the last two writes of dispatch).
ReceiptAccounted ==
  \A i \in Id :
    LET row == dispatch[i]
        a == AttemptOf[row.request]
    IN row # NoRow =>
         /\ row.state \in {"awaiting_billing", "unknown"} =>
              attempt[a].status \in {"unreconciled", "settled"}
         /\ row.state = "settled" => attempt[a].status = "settled"

\* A call was made only for a requestId whose row says it was reserved: a row
\* that is missing, only claimed or rejected never stands for a sent request.
SentOnRecord ==
  \A r \in Request : calls[AttemptOf[r]] > 0 =>
    \E s \in Request :
      /\ AttemptOf[s] = AttemptOf[r]
      /\ dispatch[IdOf[s]] # NoRow
      /\ dispatch[IdOf[s]].request = s
      /\ dispatch[IdOf[s]].state \notin {"claimed", "rejected"}

\* What the journal of dispatches says of calls and attempts is so.
DispatchAccounted == ReceiptAccounted /\ SentOnRecord

\* The ledger and its gateways keep the promise of FinOpsBudget.
Account(a) ==
  [state |-> CASE attempt[a].status = "none" -> "free"
               [] attempt[a].status = "settled" -> "paid"
               [] OTHER -> "held",
   amount |-> Committed(attempt[a])]
Promise == INSTANCE FinOpsBudget WITH
  account <- [a \in Attempt |-> Account(a)], calls <- calls
KeepsPromise == Promise!Spec
=============================================================================
