------------------------- MODULE FinOpsLedger_proofs -------------------------
(* Theorems about FinOpsLedger: its typing, that the budgets hold, what the *)
(* record of a dispatch says, and that it implements FinOpsBudget.          *)
EXTENDS FinOpsLedger, FiniteInduction

-----------------------------------------------------------------------------
(* Rows and calls.                                                          *)

\* What a call of dispatch carries.
LEMMA CallFields ==
  ASSUME NEW s \in CallState
  PROVE  /\ s.at \in {"idle", "done"} <=> s \in {Idle, Done}
         /\ s.at \in {"idle", "done", "asked", "claimed", "rejected", "reserved", "send", "sent",
                      "answered", "receipt"}
         /\ s.at \notin {"idle", "done"} => s.request \in Request
         /\ s.at \notin {"idle", "done", "receipt"} => s.stamp \in Time
         /\ s.at \in {"answered", "receipt"} => s.cost \in Cost \cup {Unknown}
BY DEF CallState, Idle, Done

\* The attempt and the row of a request.
LEMMA RequestFields ==
  ASSUME NEW r \in Request
  PROVE  AttemptOf[r] \in Attempt /\ IdOf[r] \in Id /\ AmountOf[r] \in Cost
BY FinOpsAssumption DEF Attempt, Id

\* A reservation sets one row.
LEMMA ReservedRow ==
  ASSUME attempt \in [Attempt -> AttemptRow], NEW a \in Attempt, NEW m \in Cost
  PROVE  /\ Reserved(a, m) \in [Attempt -> AttemptRow]
         /\ Reserved(a, m)[a] = [status |-> "reserved", reserved |-> m, actual |-> 0]
         /\ \A b \in Attempt \ {a} : Reserved(a, m)[b] = attempt[b]
<1>1. [status |-> "reserved", reserved |-> m, actual |-> 0] \in AttemptRow
  BY DEF AttemptRow
<1> HIDE DEF AttemptRow
<1> QED
  BY <1>1 DEF Reserved

\* A settlement sets the status and the cost of one row, and never its
\* reservation.
LEMMA PricedRow ==
  ASSUME attempt \in [Attempt -> AttemptRow], NEW a \in Attempt, NEW c \in Cost \cup {Unknown}
  PROVE  /\ Priced(a, c) \in [Attempt -> AttemptRow]
         /\ Priced(a, c)[a] = [status |-> IF c = Unknown THEN "unreconciled" ELSE "settled",
                               reserved |-> attempt[a].reserved,
                               actual |-> IF c = Unknown THEN 0 ELSE c]
         /\ \A b \in Attempt \ {a} : Priced(a, c)[b] = attempt[b]
<1> DEFINE row == [status |-> IF c = Unknown THEN "unreconciled" ELSE "settled",
                   reserved |-> attempt[a].reserved,
                   actual |-> IF c = Unknown THEN 0 ELSE c]
<1>1. attempt[a] \in AttemptRow
  OBVIOUS
<1>2. row \in AttemptRow
  BY <1>1 DEF AttemptRow
<1>3. [[attempt[a] EXCEPT !.status = IF c = Unknown THEN "unreconciled" ELSE "settled"]
         EXCEPT !.actual = IF c = Unknown THEN 0 ELSE c] = row
  <2> DEFINE t == IF c = Unknown THEN "unreconciled" ELSE "settled"
             mid == [attempt[a] EXCEPT !.status = t]
  <2>1. mid \in AttemptRow /\ mid.status = t /\ mid.reserved = attempt[a].reserved
    BY <1>1 DEF AttemptRow
  <2> HIDE DEF mid
  <2>2. ASSUME NEW d PROVE [mid EXCEPT !.actual = d] =
          [status |-> mid.status, reserved |-> mid.reserved, actual |-> d]
    BY <2>1 DEF AttemptRow
  <2> QED
    BY <2>1, <2>2 DEF mid
<1>4. Priced(a, c) = [attempt EXCEPT ![a] = row]
  <2> HIDE DEF AttemptRow
  <2> QED
    BY <1>3 DEF Priced
<1> HIDE DEF AttemptRow, row
<1>5. /\ Priced(a, c) \in [Attempt -> AttemptRow]
      /\ Priced(a, c)[a] = row
      /\ \A b \in Attempt \ {a} : Priced(a, c)[b] = attempt[b]
  BY <1>2, <1>4
<1> QED
  BY <1>5 DEF row

-----------------------------------------------------------------------------
(* Typing.                                                                  *)

LEMMA PutType ==
  ASSUME FinOpsTypeOK, NEW k \in Call, call[k].request \in Request,
         NEW s \in {"claimed", "rejected", "reserved_no_retry", "awaiting_billing",
                    "settled", "unknown"},
         Put(k, s)
  PROVE  /\ dispatch' \in [Id -> Row \cup {NoRow}]
         /\ dispatch'[IdOf[call[k].request]] = [request |-> call[k].request, state |-> s]
         /\ \A i \in Id \ {IdOf[call[k].request]} : dispatch'[i] = dispatch[i]
<1>1. [request |-> call[k].request, state |-> s] \in Row
  BY DEF Row
<1>2. IdOf[call[k].request] \in Id
  BY RequestFields
<1> HIDE DEF Row
<1> QED
  BY <1>1, <1>2 DEF Put, FinOpsTypeOK

LEMMA GoType ==
  ASSUME FinOpsTypeOK, NEW k \in Call, NEW s \in CallState, Go(k, s)
  PROVE  /\ call' \in [Call -> CallState]
         /\ call'[k] = s
         /\ \A j \in Call \ {k} : call'[j] = call[j]
BY DEF Go, FinOpsTypeOK

LEMMA ToType ==
  ASSUME FinOpsTypeOK, NEW k \in Call,
         call[k].at \in {"asked", "claimed", "reserved", "send"},
         NEW at \in {"claimed", "rejected", "reserved", "send", "sent"}
  PROVE  /\ To(k, at) \in CallState /\ To(k, at).at = at
         /\ To(k, at).request = call[k].request
<1>1. call[k].request \in Request /\ call[k].stamp \in Time
  BY CallFields DEF FinOpsTypeOK
<1> QED
  BY <1>1 DEF To, CallState

LEMMA TypeInit == FinOpsInit => FinOpsTypeOK
BY FinOpsAssumption DEF FinOpsInit, FinOpsTypeOK, None, AttemptRow, CallState, Time

\* A call's steps keep the types.
LEMMA TypeDispatching ==
  ASSUME FinOpsTypeOK, NEW k \in Call, Dispatching(k)
  PROVE  FinOpsTypeOK'
<1>0. /\ call[k] \in CallState /\ attempt \in [Attempt -> AttemptRow]
      /\ Done \in CallState
  BY DEF FinOpsTypeOK, CallState
<1> DEFINE r == call[k].request
<1>1. ASSUME Replay(k) \/ ReserveRefused(k) \/ SettleRefused(k)
      PROVE  FinOpsTypeOK'
  <2>1. Go(k, Done)
    BY <1>1 DEF Replay, AfterReplay, ReserveRefused, SettleRefused, AfterRefused
  <2>2. call' \in [Call -> CallState]
    BY <1>0, <2>1, GoType
  <2> QED
    BY <1>1, <2>2 DEF Replay, ReserveRefused, SettleRefused, FinOpsTypeOK
<1>2. ASSUME ReserveDispatch(k)
      PROVE  FinOpsTypeOK'
  <2>1. r \in Request /\ call[k].stamp \in Time
    BY <1>0, <1>2, CallFields DEF ReserveDispatch, At
  <2>2. attempt' = Reserved(AttemptOf[r], AmountOf[r]) /\ last' = call[k].stamp
    BY <1>2 DEF ReserveDispatch, Appended
  <2>3. attempt' \in [Attempt -> AttemptRow]
    BY <1>0, <2>1, <2>2, RequestFields, ReservedRow
  <2>4. dispatch' \in [Id -> Row \cup {NoRow}]
    BY <1>2, <2>1, PutType DEF ReserveDispatch
  <2>5. call' \in [Call -> CallState]
    BY <1>2, ToType, GoType DEF ReserveDispatch, At
  <2> QED
    BY <1>2, <2>1, <2>2, <2>3, <2>4, <2>5 DEF ReserveDispatch, FinOpsTypeOK
<1>3. ASSUME Claim(k)
      PROVE  FinOpsTypeOK'
  <2>1. r \in Request
    BY <1>0, <1>3, CallFields DEF Claim, At
  <2>2. dispatch' \in [Id -> Row \cup {NoRow}]
    BY <1>3, <2>1, PutType DEF Claim
  <2>3. call' \in [Call -> CallState]
    BY <1>3, ToType, GoType DEF Claim, At
  <2> QED
    BY <1>3, <2>2, <2>3 DEF Claim, FinOpsTypeOK
<1>4. ASSUME ReserveTransition(k)
      PROVE  FinOpsTypeOK'
  <2>1. r \in Request /\ call[k].stamp \in Time
    BY <1>0, <1>4, CallFields DEF ReserveTransition, At
  <2>2. attempt' = Reserved(AttemptOf[r], AmountOf[r]) /\ last' = call[k].stamp
    BY <1>4 DEF ReserveTransition, Appended
  <2>3. attempt' \in [Attempt -> AttemptRow]
    BY <1>0, <2>1, <2>2, RequestFields, ReservedRow
  <2>4. call' \in [Call -> CallState]
    BY <1>4, ToType, GoType DEF ReserveTransition, At
  <2> QED
    BY <1>4, <2>1, <2>2, <2>3, <2>4 DEF ReserveTransition, FinOpsTypeOK
<1>5. ASSUME TransitionRefused(k)
      PROVE  FinOpsTypeOK'
  <2>1. call' \in [Call -> CallState]
    BY <1>5, ToType, GoType DEF TransitionRefused, At
  <2> QED
    BY <1>5, <2>1 DEF TransitionRefused, FinOpsTypeOK
<1>6. ASSUME MarkRejected(k)
      PROVE  FinOpsTypeOK'
  <2>1. r \in Request
    BY <1>0, <1>6, CallFields DEF MarkRejected, At
  <2>2. dispatch' \in [Id -> Row \cup {NoRow}]
    BY <1>6, <2>1, PutType DEF MarkRejected
  <2>3. call' \in [Call -> CallState]
    BY <1>0, <1>6, GoType DEF MarkRejected
  <2> QED
    BY <1>6, <2>2, <2>3 DEF MarkRejected, FinOpsTypeOK
<1>7. ASSUME MarkReserved(k)
      PROVE  FinOpsTypeOK'
  <2>1. r \in Request
    BY <1>0, <1>7, CallFields DEF MarkReserved, At
  <2>2. dispatch' \in [Id -> Row \cup {NoRow}]
    BY <1>7, <2>1, PutType DEF MarkReserved, Mark
  <2>3. call' \in [Call -> CallState]
    BY <1>7, ToType, GoType DEF MarkReserved, At
  <2> QED
    BY <1>7, <2>2, <2>3 DEF MarkReserved, FinOpsTypeOK
<1>8. ASSUME Send(k)
      PROVE  FinOpsTypeOK'
  <2>0. AttemptOf[r] \in Attempt
    BY <1>0, <1>8, CallFields, RequestFields DEF Send, At
  <2>1. calls' \in [Attempt -> Nat]
    BY <1>8, <2>0 DEF Send, FinOpsTypeOK
  <2>2. call' \in [Call -> CallState]
    BY <1>8, ToType, GoType DEF Send, At
  <2> QED
    BY <1>8, <2>1, <2>2 DEF Send, FinOpsTypeOK
<1>9. ASSUME Answer(k)
      PROVE  FinOpsTypeOK'
  <2>1. r \in Request /\ now \in Time
    BY <1>0, <1>9, CallFields DEF Answer, At, FinOpsTypeOK
  <2>2. PICK c \in Cost \cup {Unknown} :
          Go(k, [at |-> "answered", request |-> r, stamp |-> now, cost |-> c])
    BY <1>9 DEF Answer
  <2>3. [at |-> "answered", request |-> r, stamp |-> now, cost |-> c] \in CallState
    BY <2>1 DEF CallState
  <2>4. call' \in [Call -> CallState]
    BY <2>2, <2>3, GoType
  <2> QED
    BY <1>9, <2>4 DEF Answer, FinOpsTypeOK
<1>10. ASSUME Settle(k)
      PROVE  FinOpsTypeOK'
  <2>1. r \in Request /\ call[k].stamp \in Time /\ call[k].cost \in Cost \cup {Unknown}
    BY <1>0, <1>10, CallFields DEF Settle, At
  <2>2. attempt' = Priced(AttemptOf[r], call[k].cost) /\ last' = call[k].stamp
    BY <1>10 DEF Settle
  <2>3. attempt' \in [Attempt -> AttemptRow]
    BY <1>0, <2>1, <2>2, RequestFields, PricedRow
  <2>4. [at |-> "receipt", request |-> r, cost |-> call[k].cost] \in CallState
    BY <2>1 DEF CallState
  <2>5. call' \in [Call -> CallState]
    BY <1>10, <2>4, GoType DEF Settle
  <2> QED
    BY <1>10, <2>1, <2>2, <2>3, <2>5 DEF Settle, FinOpsTypeOK
<1>11. ASSUME Receipt(k)
      PROVE  FinOpsTypeOK'
  <2>1. r \in Request
    BY <1>0, <1>11, CallFields DEF Receipt, At
  <2>2. Put(k, Outcome(k)) /\ Outcome(k) \in {"awaiting_billing", "unknown", "settled"}
    BY <1>11 DEF Receipt, Outcome
  <2>3. dispatch' \in [Id -> Row \cup {NoRow}]
    BY <2>1, <2>2, PutType
  <2>4. call' \in [Call -> CallState]
    BY <1>0, <1>11, GoType DEF Receipt
  <2> QED
    BY <1>11, <2>3, <2>4 DEF Receipt, FinOpsTypeOK
<1> QED
  BY <1>1, <1>2, <1>3, <1>4, <1>5, <1>6, <1>7, <1>8, <1>9, <1>10, <1>11 DEF Dispatching

LEMMA TypeNext == FinOpsTypeOK /\ [FinOpsNext]_vars => FinOpsTypeOK'
<1> SUFFICES ASSUME FinOpsTypeOK, [FinOpsNext]_vars PROVE FinOpsTypeOK'
  OBVIOUS
<1>0. attempt \in [Attempt -> AttemptRow] /\ Done \in CallState
  BY DEF FinOpsTypeOK, CallState
<1>1. CASE UNCHANGED vars
  BY <1>1 DEF vars, FinOpsTypeOK
<1>2. ASSUME NEW k \in Call, NEW r \in Request, Ask(k, r)
      PROVE  FinOpsTypeOK'
  <2>1. [at |-> "asked", request |-> r, stamp |-> now] \in CallState
    BY DEF CallState, FinOpsTypeOK
  <2>2. call' \in [Call -> CallState]
    BY <1>2, <2>1, GoType DEF Ask
  <2> QED
    BY <1>2, <2>2 DEF Ask, FinOpsTypeOK
<1>3. ASSUME NEW k \in Call, Stop(k)
      PROVE  FinOpsTypeOK'
  <2>1. call' \in [Call -> CallState]
    BY <1>0, <1>3, GoType DEF Stop
  <2> QED
    BY <1>3, <2>1 DEF Stop, FinOpsTypeOK
<1>4. ASSUME NEW a \in Attempt, NEW stamp \in Time, NEW m \in Cost, OperatorReserves(a, m, stamp)
      PROVE  FinOpsTypeOK'
  <2>1. attempt' = Reserved(a, m) /\ last' = stamp
    BY <1>4 DEF OperatorReserves, Appended
  <2>2. attempt' \in [Attempt -> AttemptRow]
    BY <1>0, <2>1, ReservedRow
  <2> QED
    BY <1>4, <2>1, <2>2 DEF OperatorReserves, FinOpsTypeOK
<1>5. ASSUME NEW a \in Attempt, NEW stamp \in Time, NEW c \in Cost \cup {Unknown},
             OperatorPrices(a, c, stamp)
      PROVE  FinOpsTypeOK'
  <2>1. attempt' = Priced(a, c) /\ last' = stamp
    BY <1>5 DEF OperatorPrices
  <2>2. attempt' \in [Attempt -> AttemptRow]
    BY <1>0, <2>1, PricedRow
  <2> QED
    BY <1>5, <2>1, <2>2 DEF OperatorPrices, FinOpsTypeOK
<1>6. CASE Tick
  BY <1>6, FinOpsAssumption DEF Tick, FinOpsTypeOK, Time
<1> QED
  BY <1>1, <1>2, <1>3, <1>4, <1>5, <1>6, TypeDispatching DEF FinOpsNext

\* The journal, the dispatch records and the calls keep their types.
THEOREM FinOpsTyped == FinOpsSpec => []FinOpsTypeOK
<1>1. FinOpsInit => FinOpsTypeOK
  BY TypeInit
<1>2. FinOpsTypeOK /\ [FinOpsNext]_vars => FinOpsTypeOK'
  BY TypeNext
<1> QED
  BY <1>1, <1>2, PTL DEF FinOpsSpec

-----------------------------------------------------------------------------
(* The budgets.                                                             *)

\* The journal moves by a reservation that fits, or by a settlement of what
\* is not settled.
AttemptsMove ==
  \/ UNCHANGED attempt
  \/ \E a \in Attempt, m \in Cost, stamp \in Time :
       Reservable(a, m, stamp) /\ attempt' = Reserved(a, m)
  \/ \E a \in Attempt, c \in Cost \cup {Unknown} :
       /\ attempt[a].status = "reserved" \/ (attempt[a].status = "unreconciled" /\ c # Unknown)
       /\ attempt' = Priced(a, c)

LEMMA AttemptsMoveNext ==
  ASSUME FinOpsTypeOK, [FinOpsNext]_vars
  PROVE  AttemptsMove
<1> USE DEF AttemptsMove
<1>1. CASE UNCHANGED vars
  BY <1>1 DEF vars
<1>2. ASSUME NEW k \in Call, NEW r \in Request, Ask(k, r) \/ Stop(k)
      PROVE  AttemptsMove
  BY <1>2 DEF Ask, Stop
<1>3. ASSUME NEW k \in Call, ReserveDispatch(k) \/ ReserveTransition(k)
      PROVE  AttemptsMove
  <2> DEFINE r == call[k].request
  <2>1. r \in Request /\ call[k].stamp \in Time
    BY <1>3, CallFields DEF ReserveDispatch, ReserveTransition, At, FinOpsTypeOK
  <2>2. /\ Reservable(AttemptOf[r], AmountOf[r], call[k].stamp)
        /\ attempt' = Reserved(AttemptOf[r], AmountOf[r])
    BY <1>3 DEF ReserveDispatch, ReserveTransition, Affordable, Appended
  <2> QED
    BY <2>1, <2>2, RequestFields
<1>4. ASSUME NEW k \in Call, Settle(k)
      PROVE  AttemptsMove
  <2>1. call[k].request \in Request /\ call[k].cost \in Cost \cup {Unknown}
    BY <1>4, CallFields DEF Settle, At, FinOpsTypeOK
  <2>2. /\ attempt[AttemptOf[call[k].request]].status = "reserved"
        /\ attempt' = Priced(AttemptOf[call[k].request], call[k].cost)
    BY <1>4 DEF Settle, Settleable
  <2> QED
    BY <2>1, <2>2, RequestFields
<1>5. ASSUME NEW k \in Call,
             \/ Replay(k) \/ ReserveRefused(k) \/ Claim(k) \/ TransitionRefused(k)
             \/ MarkRejected(k) \/ MarkReserved(k) \/ Send(k) \/ Answer(k)
             \/ SettleRefused(k) \/ Receipt(k) \/ Stop(k)
      PROVE  AttemptsMove
  BY <1>5 DEF Replay, ReserveRefused, Claim, TransitionRefused, MarkRejected, MarkReserved,
              Send, Answer, SettleRefused, Receipt, Stop
<1>6. ASSUME NEW a \in Attempt, NEW stamp \in Time, NEW m \in Cost, OperatorReserves(a, m, stamp)
      PROVE  AttemptsMove
  BY <1>6 DEF OperatorReserves, Appended
<1>7. ASSUME NEW a \in Attempt, NEW stamp \in Time, NEW c \in Cost \cup {Unknown},
             OperatorPrices(a, c, stamp)
      PROVE  AttemptsMove
  BY <1>7 DEF OperatorPrices, Settleable
<1>8. CASE Tick
  BY <1>8 DEF Tick
<1> HIDE DEF AttemptsMove
<1> QED
  BY <1>1, <1>2, <1>3, <1>4, <1>5, <1>6, <1>7, <1>8 DEF FinOpsNext, Dispatching

\* What the attempts of S cost above their reservations.
OverrunIn(S) == SumFunctionOnSet([a \in Attempt |-> Overrun(a)], S)

\* What a row commits, and by how much it overruns, are natural numbers.
LEMMA CommittedNat ==
  ASSUME NEW row \in AttemptRow
  PROVE  Committed(row) \in Nat /\ row.reserved \in Nat /\ row.actual \in Nat
<1>1. Cost \cup {0} \subseteq Nat
  BY FinOpsAssumption
<1>2. row.reserved \in Nat /\ row.actual \in Nat
  BY <1>1 DEF AttemptRow
<1> QED
  BY <1>2 DEF Committed

LEMMA OverrunNat ==
  ASSUME attempt \in [Attempt -> AttemptRow], NEW a \in Attempt
  PROVE  Committed(attempt[a]) \in Nat /\ Overrun(a) \in Nat
<1>1. Committed(attempt[a]) \in Nat /\ attempt[a].reserved \in Nat
  BY CommittedNat
<1> QED
  BY <1>1 DEF Overrun

LEMMA TotalsInt ==
  ASSUME FinOpsTypeOK, NEW S \in SUBSET Attempt
  PROVE  /\ IsFiniteSet(S)
         /\ Total(attempt, S) \in Int /\ OverrunIn(S) \in Int /\ 0 <= OverrunIn(S)
<1>1. IsFiniteSet(S)
  BY FinOpsAssumption, FS_Subset
<1> DEFINE f == [a \in Attempt |-> Committed(attempt[a])]
           g == [a \in Attempt |-> Overrun(a)]
           z == [a \in Attempt |-> 0]
<1>2. \A a \in S : f[a] \in Int /\ g[a] \in Int /\ z[a] = 0 /\ 0 <= g[a]
  BY OverrunNat DEF FinOpsTypeOK
<1> HIDE DEF f, g, z
<1>3. SumFunctionOnSet(f, S) \in Int /\ SumFunctionOnSet(g, S) \in Int
  BY <1>1, <1>2, SumInt
<1>4. SumFunctionOnSet(z, S) = 0
  BY <1>1, <1>2, SumZero
<1>5. SumFunctionOnSet(z, S) <= SumFunctionOnSet(g, S)
  BY <1>1, <1>2, SumMonotonic
<1> QED
  BY <1>1, <1>3, <1>4, <1>5 DEF Total, OverrunIn, f, g

\* The same after a step.
LEMMA TotalsIntNext ==
  ASSUME FinOpsTypeOK', NEW S \in SUBSET Attempt
  PROVE  /\ Total(attempt', S) \in Int /\ OverrunIn(S)' \in Int /\ 0 <= OverrunIn(S)'
<1>1. IsFiniteSet(S)
  BY FinOpsAssumption, FS_Subset
<1> DEFINE f == [b \in Attempt |-> Committed(attempt'[b])]
           g == [b \in Attempt |-> Overrun(b)']
           z == [b \in Attempt |-> 0]
<1>2. \A b \in S : attempt'[b] \in AttemptRow
  BY DEF FinOpsTypeOK
<1>3. \A row \in AttemptRow : Committed(row) \in Nat /\ row.reserved \in Nat
  BY CommittedNat
<1>4. \A b \in S : f[b] \in Int /\ g[b] \in Int /\ z[b] = 0 /\ 0 <= g[b]
  BY <1>2, <1>3 DEF Overrun
<1> HIDE DEF f, g, z
<1>5. SumFunctionOnSet(f, S) \in Int /\ SumFunctionOnSet(g, S) \in Int
  BY <1>1, <1>4, SumInt
<1>6. SumFunctionOnSet(z, S) = 0
  BY <1>1, <1>4, SumZero
<1>7. SumFunctionOnSet(z, S) <= SumFunctionOnSet(g, S)
  BY <1>1, <1>4, SumMonotonic
<1> QED
  BY <1>5, <1>6, <1>7 DEF Total, OverrunIn, f, g, z

\* A step that leaves the rows of S alone leaves their sums.
LEMMA SumsUntouched ==
  ASSUME NEW S \in SUBSET Attempt, \A a \in S : attempt'[a] = attempt[a]
  PROVE  Total(attempt', S) = Total(attempt, S) /\ OverrunIn(S)' = OverrunIn(S)
<1>1. IsFiniteSet(S)
  BY FinOpsAssumption, FS_Subset
<1> DEFINE f == [a \in Attempt |-> Committed(attempt[a])]
           g == [a \in Attempt |-> Committed(attempt'[a])]
           o == [a \in Attempt |-> Overrun(a)]
           p == [a \in Attempt |-> Overrun(a)']
<1>2. \A a \in S : f[a] = g[a] /\ o[a] = p[a]
  BY DEF Overrun
<1> HIDE DEF f, g, o, p
<1>3. SumFunctionOnSet(f, S) = SumFunctionOnSet(g, S) /\ SumFunctionOnSet(o, S) = SumFunctionOnSet(p, S)
  BY <1>1, <1>2, SumSame
<1> QED
  BY <1>3 DEF Total, OverrunIn, f, g, o, p

\* A step that changes one row of S changes the sums by its difference.
LEMMA SumsChanged ==
  ASSUME FinOpsTypeOK, FinOpsTypeOK', NEW S \in SUBSET Attempt, NEW a \in S,
         \A b \in S \ {a} : attempt'[b] = attempt[b]
  PROVE  /\ Total(attempt', S) =
              Total(attempt, S) + (Committed(attempt'[a]) - Committed(attempt[a]))
         /\ OverrunIn(S)' = OverrunIn(S) + (Overrun(a)' - Overrun(a))
<1>1. IsFiniteSet(S)
  BY FinOpsAssumption, FS_Subset
<1> DEFINE f == [b \in Attempt |-> Committed(attempt[b])]
           g == [b \in Attempt |-> Committed(attempt'[b])]
           o == [b \in Attempt |-> Overrun(b)]
           p == [b \in Attempt |-> Overrun(b)']
<1>2. \A b \in S : f[b] \in Int /\ o[b] \in Int
  BY OverrunNat DEF FinOpsTypeOK
<1>3. \A b \in S : g[b] \in Int /\ p[b] \in Int
  <2>1. \A row \in AttemptRow : Committed(row) \in Nat /\ row.reserved \in Nat
    BY CommittedNat
  <2>2. \A b \in S : attempt'[b] \in AttemptRow
    BY DEF FinOpsTypeOK
  <2> HIDE DEF f, o
  <2> QED
    BY <2>1, <2>2 DEF Overrun
<1>4. \A b \in S \ {a} : f[b] = g[b] /\ o[b] = p[b]
  BY DEF Overrun
<1>5. /\ g[a] - f[a] = Committed(attempt'[a]) - Committed(attempt[a])
      /\ p[a] - o[a] = Overrun(a)' - Overrun(a)
  OBVIOUS
<1> HIDE DEF f, g, o, p
<1>6. SumFunctionOnSet(g, S) = SumFunctionOnSet(f, S) + (g[a] - f[a])
  BY <1>1, <1>2, <1>3, <1>4, SumChange
<1>7. SumFunctionOnSet(p, S) = SumFunctionOnSet(o, S) + (p[a] - o[a])
  BY <1>1, <1>2, <1>3, <1>4, SumChange
<1> QED
  BY <1>5, <1>6, <1>7 DEF Total, OverrunIn, f, g, o, p

\* Pricing an attempt that is not settled adds to what is committed no more
\* than to the overrun.
LEMMA PricedHolds ==
  ASSUME FinOpsTypeOK, FinOpsTypeOK', NEW a \in Attempt, NEW c \in Cost \cup {Unknown},
         attempt[a].status \in {"reserved", "unreconciled"}, attempt' = Priced(a, c),
         NEW S \in SUBSET Attempt
  PROVE  Total(attempt', S) - OverrunIn(S)' <= Total(attempt, S) - OverrunIn(S)
<1>0. attempt \in [Attempt -> AttemptRow] /\ attempt' \in [Attempt -> AttemptRow]
  BY DEF FinOpsTypeOK
<1>1. \A b \in Attempt \ {a} : attempt'[b] = attempt[b]
  <2>1. attempt \in [Attempt -> AttemptRow]
    BY <1>0
  <2>2. \A b \in Attempt \ {a} : Priced(a, c)[b] = attempt[b]
    BY <2>1 DEF Priced
  <2> QED
    BY <2>2
<1>2. Total(attempt, S) \in Int /\ OverrunIn(S) \in Int
  BY TotalsInt
<1>3. CASE a \notin S
  <2>1. Total(attempt', S) = Total(attempt, S) /\ OverrunIn(S)' = OverrunIn(S)
    BY <1>1, <1>3, SumsUntouched
  <2> QED
    BY <1>2, <2>1
<1>4. CASE a \in S
  <2> DEFINE old == Committed(attempt[a])
             new == Committed(attempt'[a])
  <2>1. /\ Total(attempt', S) = Total(attempt, S) + (new - old)
        /\ OverrunIn(S)' = OverrunIn(S) + (Overrun(a)' - Overrun(a))
    BY <1>1, <1>4, SumsChanged
  <2>2. attempt[a].reserved \in Nat /\ attempt'[a] \in AttemptRow
    BY <1>0, CommittedNat
  <2>3. attempt'[a].reserved = attempt[a].reserved
    <3>1. attempt'[a] = [status |-> IF c = Unknown THEN "unreconciled" ELSE "settled",
                         reserved |-> attempt[a].reserved,
                         actual |-> IF c = Unknown THEN 0 ELSE c]
      BY <1>0, PricedRow
    <3> QED
      BY <3>1
  <2>4. old = attempt[a].reserved
    BY DEF Committed
  <2>5. new \in Nat
    BY <2>2, CommittedNat
  <2>6. Overrun(a) = 0
    BY <2>2, <2>4 DEF Overrun
  <2>7. Overrun(a)' = IF new > attempt[a].reserved THEN new - attempt[a].reserved ELSE 0
    BY <2>3 DEF Overrun
  <2> HIDE DEF old, new
  <2> QED
    BY <1>2, <2>1, <2>2, <2>4, <2>5, <2>6, <2>7
<1> QED
  BY <1>3, <1>4

\* A reservation that fits leaves room: what is committed with it is in the
\* budgets.
LEMMA ReservedHolds ==
  ASSUME FinOpsTypeOK, FinOpsTypeOK', NEW a \in Attempt, NEW m \in Cost, NEW stamp \in Time,
         Reservable(a, m, stamp), attempt' = Reserved(a, m)
  PROVE  /\ Total(attempt', Attempt) - OverrunIn(Attempt)' <= Budget
         /\ Total(attempt', {b \in Attempt : WorkloadOf[b] = WorkloadOf[a]})
              - OverrunIn({b \in Attempt : WorkloadOf[b] = WorkloadOf[a]})'
              <= WorkloadBudget[WorkloadOf[a]]
<1> DEFINE mine == {b \in Attempt : WorkloadOf[b] = WorkloadOf[a]}
<1>2. Total(attempt', Attempt) <= Budget /\ Total(attempt', mine) <= WorkloadBudget[WorkloadOf[a]]
  BY DEF Reservable, Remains
<1>3. Budget \in Nat /\ WorkloadBudget[WorkloadOf[a]] \in Nat
  BY FinOpsAssumption
<1>4. mine \in SUBSET Attempt /\ Attempt \in SUBSET Attempt
  OBVIOUS
<1>5. /\ Total(attempt', Attempt) \in Int /\ OverrunIn(Attempt)' \in Int
      /\ 0 <= OverrunIn(Attempt)'
  BY TotalsIntNext, <1>4
<1>6. Total(attempt', mine) \in Int /\ OverrunIn(mine)' \in Int /\ 0 <= OverrunIn(mine)'
  BY TotalsIntNext, <1>4
<1>7. Total(attempt', Attempt) - OverrunIn(Attempt)' <= Budget
  BY <1>2, <1>3, <1>5
<1>8. Total(attempt', mine) - OverrunIn(mine)' <= WorkloadBudget[WorkloadOf[a]]
  <2> HIDE DEF mine
  <2> QED
    BY <1>2, <1>3, <1>6
<1> QED
  BY <1>7, <1>8

\* So the budgets hold after every step if they did before.
LEMMA BudgetKept ==
  ASSUME FinOpsTypeOK, FinOpsTypeOK', BudgetHeld, AttemptsMove
  PROVE  BudgetHeld'
<1> DEFINE mine(w) == {a \in Attempt : WorkloadOf[a] = w}
<1>0. /\ Total(attempt, Attempt) - OverrunIn(Attempt) <= Budget
      /\ \A w \in Workload : Total(attempt, mine(w)) - OverrunIn(mine(w)) <= WorkloadBudget[w]
  BY DEF BudgetHeld, OverrunIn
<1>1. SUFFICES /\ Total(attempt', Attempt) - OverrunIn(Attempt)' <= Budget
               /\ \A w \in Workload :
                    Total(attempt', mine(w)) - OverrunIn(mine(w))' <= WorkloadBudget[w]
  BY DEF BudgetHeld, OverrunIn
<1>2. /\ Budget \in Int /\ \A w \in Workload : WorkloadBudget[w] \in Int
      /\ \A S \in SUBSET Attempt : Total(attempt, S) \in Int /\ OverrunIn(S) \in Int
  BY FinOpsAssumption, TotalsInt
<1>3. CASE UNCHANGED attempt
  <2>1. \A S \in SUBSET Attempt : Total(attempt', S) = Total(attempt, S) /\ OverrunIn(S)' = OverrunIn(S)
    BY <1>3, SumsUntouched
  <2> QED
    BY <1>0, <2>1
<1>4. ASSUME NEW a \in Attempt, NEW c \in Cost \cup {Unknown},
             attempt[a].status \in {"reserved", "unreconciled"}, attempt' = Priced(a, c)
      PROVE  /\ Total(attempt', Attempt) - OverrunIn(Attempt)' <= Budget
             /\ \A w \in Workload :
                  Total(attempt', mine(w)) - OverrunIn(mine(w))' <= WorkloadBudget[w]
  <2>1. ASSUME NEW S \in SUBSET Attempt, NEW B \in Int, Total(attempt, S) - OverrunIn(S) <= B
        PROVE  Total(attempt', S) - OverrunIn(S)' <= B
    <3>1. Total(attempt', S) - OverrunIn(S)' <= Total(attempt, S) - OverrunIn(S)
      BY <1>4, PricedHolds
    <3>2. Total(attempt', S) \in Int /\ OverrunIn(S)' \in Int
      BY TotalsIntNext
    <3> QED
      BY <1>2, <2>1, <3>1, <3>2
  <2> QED
    BY <1>0, <1>2, <2>1
<1>5. ASSUME NEW a \in Attempt, NEW m \in Cost, NEW stamp \in Time,
             Reservable(a, m, stamp), attempt' = Reserved(a, m)
      PROVE  /\ Total(attempt', Attempt) - OverrunIn(Attempt)' <= Budget
             /\ \A w \in Workload :
                  Total(attempt', mine(w)) - OverrunIn(mine(w))' <= WorkloadBudget[w]
  <2>1. Total(attempt', Attempt) - OverrunIn(Attempt)' <= Budget
    BY <1>5, ReservedHolds
  <2>2. ASSUME NEW w \in Workload
        PROVE  Total(attempt', mine(w)) - OverrunIn(mine(w))' <= WorkloadBudget[w]
    <3>1. CASE w = WorkloadOf[a]
      BY <1>5, <3>1, ReservedHolds
    <3>2. CASE w # WorkloadOf[a]
      <4>1. attempt \in [Attempt -> AttemptRow]
        BY DEF FinOpsTypeOK
      <4>2. \A b \in mine(w) : attempt'[b] = attempt[b]
        BY <1>5, <3>2, <4>1, ReservedRow
      <4>3. mine(w) \in SUBSET Attempt
        OBVIOUS
      <4>4. Total(attempt', mine(w)) = Total(attempt, mine(w))
            /\ OverrunIn(mine(w))' = OverrunIn(mine(w))
        <5> HIDE DEF mine
        <5> QED
          BY <4>2, <4>3, SumsUntouched
      <4> QED
        BY <1>0, <4>4
    <3> QED
      BY <3>1, <3>2
  <2> QED
    BY <2>1, <2>2
<1> QED
  BY <1>3, <1>4, <1>5 DEF AttemptsMove

\* Nothing is committed at the start.
LEMMA BudgetInit == FinOpsInit => BudgetHeld
<1> SUFFICES ASSUME FinOpsInit PROVE BudgetHeld
  OBVIOUS
<1>1. FinOpsTypeOK
  BY TypeInit
<1>2. ASSUME NEW S \in SUBSET Attempt
      PROVE  Total(attempt, S) = 0 /\ OverrunIn(S) = 0
  <2>1. IsFiniteSet(S)
    BY FinOpsAssumption, FS_Subset
  <2> DEFINE f == [a \in Attempt |-> Committed(attempt[a])]
             o == [a \in Attempt |-> Overrun(a)]
  <2>2. \A a \in S : f[a] = 0 /\ o[a] = 0
    BY DEF FinOpsInit, Committed, Overrun, None
  <2> HIDE DEF f, o
  <2>3. SumFunctionOnSet(f, S) = 0 /\ SumFunctionOnSet(o, S) = 0
    BY <2>1, <2>2, SumZero
  <2> QED
    BY <2>3 DEF Total, OverrunIn, f, o
<1>3. ASSUME NEW S \in SUBSET Attempt, NEW B \in Nat
      PROVE  Total(attempt, S) - OverrunIn(S) <= B
  BY <1>2
<1> QED
  BY <1>3, FinOpsAssumption DEF BudgetHeld, OverrunIn

\* What is committed exceeds the budgets by no more than what attempts cost
\* above their reservations, however many processes reserve at once.
THEOREM BudgetsHold == FinOpsSpec => []BudgetHeld
<1>1. FinOpsInit => FinOpsTypeOK /\ BudgetHeld
  BY TypeInit, BudgetInit
<1>2. (FinOpsTypeOK /\ BudgetHeld) /\ [FinOpsNext]_vars => (FinOpsTypeOK /\ BudgetHeld)'
  BY TypeNext, AttemptsMoveNext, BudgetKept
<1> QED
  BY <1>1, <1>2, PTL DEF FinOpsSpec

-----------------------------------------------------------------------------
(* Dispatches: who has a requestId, who is about to call the provider, and  *)
(* what a receipt rests on.                                                 *)

RequestOfCall(k) == call[k].request
AttemptOfCall(k) == AttemptOf[call[k].request]

\* The call has taken its requestId and not yet given it up.
Owns(k) ==
  call[k].at \in {"claimed", "rejected", "reserved", "send", "sent", "answered", "receipt"}

\* The call has its reservation and has not called the provider.
Sending(k) == call[k].at \in {"reserved", "send"}

\* The row of an owner is its own, and says how far it is; a requestId has one
\* owner.
OwnersRecorded ==
  /\ \A k \in Call : Owns(k) =>
       dispatch[IdOf[RequestOfCall(k)]] =
         [request |-> RequestOfCall(k),
          state |-> IF call[k].at \in {"claimed", "rejected", "reserved"} THEN "claimed"
                    ELSE "reserved_no_retry"]
  /\ \A j, k \in Call :
       Owns(j) /\ Owns(k) /\ IdOf[RequestOfCall(j)] = IdOf[RequestOfCall(k)] => j = k

\* An attempt without status is empty, the provider was called only for
\* attempts that have one, and a call that is about to call it is the first
\* and the only one to do so for an attempt it has reserved.
SendersHold ==
  /\ \A a \in Attempt : attempt[a].status = "none" => attempt[a] = None
  /\ \A a \in Attempt : calls[a] > 0 => attempt[a] # None
  /\ \A k \in Call : Sending(k) =>
       attempt[AttemptOfCall(k)] # None /\ calls[AttemptOfCall(k)] = 0
  /\ \A j, k \in Call :
       Sending(j) /\ Sending(k) /\ AttemptOfCall(j) = AttemptOfCall(k) => j = k

\* A call that will write its receipt has settled its attempt, or found it so.
ReceiptsRest ==
  \A k \in Call : call[k].at = "receipt" =>
    attempt[AttemptOfCall(k)].status \in
      IF call[k].cost = Unknown THEN {"unreconciled", "settled"} ELSE {"settled"}

DispatchInv ==
  /\ FinOpsTypeOK
  /\ OwnersRecorded
  /\ SendersHold
  /\ ReceiptsRest
  /\ ReceiptAccounted
  /\ SentOnRecord

\* A reservation for the call's request.
Reserves(k) ==
  /\ attempt[AttemptOfCall(k)] = None
  /\ attempt' = Reserved(AttemptOfCall(k), AmountOf[RequestOfCall(k)])

\* How a call takes its requestId, goes on, and gives it up.
Takes(k) ==
  /\ call[k].at = "asked" /\ Prior(k) = NoRow /\ RequestOfCall(k)' = RequestOfCall(k)
  /\ UNCHANGED calls
  /\ \/ call'[k].at = "claimed" /\ Put(k, "claimed") /\ UNCHANGED attempt
     \/ call'[k].at = "send" /\ Put(k, "reserved_no_retry") /\ Reserves(k)

GoesOn(k) ==
  /\ RequestOfCall(k)' = RequestOfCall(k)
  /\ \/ /\ call[k].at = "claimed" /\ call'[k].at = "rejected"
        /\ UNCHANGED <<attempt, dispatch, calls>>
     \/ /\ call[k].at = "claimed" /\ call'[k].at = "reserved"
        /\ Reserves(k) /\ UNCHANGED <<dispatch, calls>>
     \/ /\ call[k].at = "reserved" /\ call'[k].at = "send"
        /\ Put(k, "reserved_no_retry") /\ UNCHANGED <<attempt, calls>>
     \/ /\ call[k].at = "send" /\ call'[k].at = "sent"
        /\ calls' = [calls EXCEPT ![AttemptOfCall(k)] = @ + 1] /\ UNCHANGED <<attempt, dispatch>>
     \/ /\ call[k].at = "sent" /\ call'[k].at = "answered"
        /\ UNCHANGED <<attempt, dispatch, calls>>
     \/ /\ call[k].at = "answered" /\ call'[k].at = "receipt" /\ call'[k].cost = call[k].cost
        /\ attempt' = Priced(AttemptOfCall(k), call[k].cost) /\ UNCHANGED <<dispatch, calls>>

Leaves(k) ==
  /\ call'[k].at \in {"done", "asked"} /\ UNCHANGED <<attempt, calls>>
  /\ \/ UNCHANGED dispatch
     \/ call[k].at = "rejected" /\ Put(k, "rejected")
     \/ call[k].at = "receipt" /\ Put(k, Outcome(k))

\* A step is one call's, or one of the others', who leave the calls alone.
CallsMove ==
  \/ UNCHANGED <<call, dispatch, calls>>
  \/ \E k \in Call :
       /\ \A j \in Call \ {k} : call'[j] = call[j]
       /\ Takes(k) \/ GoesOn(k) \/ Leaves(k)

LEMMA CallsMoveNext ==
  ASSUME FinOpsTypeOK, [FinOpsNext]_vars
  PROVE  CallsMove
<1>0. Done \in CallState /\ Done.at = "done"
  BY DEF CallState, Done
<1>1. CASE UNCHANGED <<call, dispatch, calls>>
  BY <1>1 DEF CallsMove
<1> DEFINE Others(k) == \A j \in Call \ {k} : call'[j] = call[j]
<1>2. ASSUME NEW k \in Call, NEW r \in Request, Ask(k, r)
      PROVE  Others(k) /\ Leaves(k)
  <2>1. [at |-> "asked", request |-> r, stamp |-> now] \in CallState
    BY DEF CallState, FinOpsTypeOK
  <2>2. call'[k] = [at |-> "asked", request |-> r, stamp |-> now] /\ Others(k)
    BY <1>2, <2>1, GoType DEF Ask
  <2> QED
    BY <1>2, <2>2 DEF Ask, Leaves
<1>3. ASSUME NEW k \in Call,
             \/ Replay(k) \/ ReserveRefused(k) \/ MarkRejected(k) \/ SettleRefused(k)
             \/ Receipt(k) \/ Stop(k)
      PROVE  Others(k) /\ Leaves(k)
  <2>1. Go(k, Done)
    BY <1>3 DEF Replay, AfterReplay, ReserveRefused, MarkRejected, SettleRefused, AfterRefused,
                Receipt, Stop
  <2>2. call'[k] = Done /\ Others(k)
    BY <1>0, <2>1, GoType
  <2> QED
    BY <1>0, <1>3, <2>2 DEF Replay, ReserveRefused, MarkRejected, SettleRefused, Receipt, Stop,
                            At, Leaves
<1>4. ASSUME NEW k \in Call, ReserveDispatch(k)
      PROVE  Others(k) /\ Takes(k)
  <2>1. /\ call'[k] = To(k, "send") /\ Others(k)
        /\ To(k, "send").at = "send" /\ To(k, "send").request = call[k].request
    BY <1>4, ToType, GoType DEF ReserveDispatch, At
  <2> QED
    BY <1>4, <2>1 DEF ReserveDispatch, At, Takes, Reserves, Affordable, Reservable, Appended,
                      AttemptOfCall, RequestOfCall
<1>5. ASSUME NEW k \in Call, Claim(k)
      PROVE  Others(k) /\ Takes(k)
  <2>1. /\ call'[k] = To(k, "claimed") /\ Others(k)
        /\ To(k, "claimed").at = "claimed" /\ To(k, "claimed").request = call[k].request
    BY <1>5, ToType, GoType DEF Claim, At
  <2> QED
    BY <1>5, <2>1 DEF Claim, At, Takes, RequestOfCall
<1>6. ASSUME NEW k \in Call, ReserveTransition(k)
      PROVE  Others(k) /\ GoesOn(k)
  <2>1. /\ call'[k] = To(k, "reserved") /\ Others(k)
        /\ To(k, "reserved").at = "reserved" /\ To(k, "reserved").request = call[k].request
    BY <1>6, ToType, GoType DEF ReserveTransition, At
  <2> QED
    BY <1>6, <2>1 DEF ReserveTransition, At, GoesOn, Reserves, Affordable, Reservable, Appended,
                      AttemptOfCall, RequestOfCall
<1>7. ASSUME NEW k \in Call, TransitionRefused(k)
      PROVE  Others(k) /\ GoesOn(k)
  <2>1. /\ call'[k] = To(k, "rejected") /\ Others(k)
        /\ To(k, "rejected").at = "rejected" /\ To(k, "rejected").request = call[k].request
    BY <1>7, ToType, GoType DEF TransitionRefused, At
  <2> QED
    BY <1>7, <2>1 DEF TransitionRefused, At, GoesOn, RequestOfCall
<1>8. ASSUME NEW k \in Call, MarkReserved(k)
      PROVE  Others(k) /\ GoesOn(k)
  <2>1. /\ call'[k] = To(k, "send") /\ Others(k)
        /\ To(k, "send").at = "send" /\ To(k, "send").request = call[k].request
    BY <1>8, ToType, GoType DEF MarkReserved, At
  <2> QED
    BY <1>8, <2>1 DEF MarkReserved, Mark, At, GoesOn, RequestOfCall
<1>9. ASSUME NEW k \in Call, Send(k)
      PROVE  Others(k) /\ GoesOn(k)
  <2>1. /\ call'[k] = To(k, "sent") /\ Others(k)
        /\ To(k, "sent").at = "sent" /\ To(k, "sent").request = call[k].request
    BY <1>9, ToType, GoType DEF Send, At
  <2> QED
    BY <1>9, <2>1 DEF Send, At, GoesOn, RequestOfCall, AttemptOfCall
<1>10. ASSUME NEW k \in Call, Answer(k)
       PROVE  Others(k) /\ GoesOn(k)
  <2>1. call[k].request \in Request /\ now \in Time
    BY <1>10, CallFields DEF Answer, At, FinOpsTypeOK
  <2>2. PICK c \in Cost \cup {Unknown} :
          Go(k, [at |-> "answered", request |-> call[k].request, stamp |-> now, cost |-> c])
    BY <1>10 DEF Answer
  <2>3. [at |-> "answered", request |-> call[k].request, stamp |-> now, cost |-> c] \in CallState
    BY <2>1 DEF CallState
  <2>4. /\ call'[k] = [at |-> "answered", request |-> call[k].request, stamp |-> now, cost |-> c]
        /\ Others(k)
    BY <2>2, <2>3, GoType
  <2> QED
    BY <1>10, <2>4 DEF Answer, At, GoesOn, RequestOfCall
<1>11. ASSUME NEW k \in Call, Settle(k)
       PROVE  Others(k) /\ GoesOn(k)
  <2>1. call[k].request \in Request /\ call[k].cost \in Cost \cup {Unknown}
    BY <1>11, CallFields DEF Settle, At, FinOpsTypeOK
  <2>2. [at |-> "receipt", request |-> call[k].request, cost |-> call[k].cost] \in CallState
    BY <2>1 DEF CallState
  <2>3. /\ call'[k] = [at |-> "receipt", request |-> call[k].request, cost |-> call[k].cost]
        /\ Others(k)
    BY <1>11, <2>2, GoType DEF Settle
  <2> QED
    BY <1>11, <2>3 DEF Settle, At, GoesOn, RequestOfCall, AttemptOfCall
<1>13. Tick \/ UNCHANGED vars => UNCHANGED <<call, dispatch, calls>>
  BY DEF Tick, vars
<1>14. CASE \E k \in Call : Others(k) /\ (Takes(k) \/ GoesOn(k) \/ Leaves(k))
  BY <1>14 DEF CallsMove
<1>12. ASSUME NEW a \in Attempt, NEW stamp \in Time,
              \/ \E m \in Cost : OperatorReserves(a, m, stamp)
              \/ \E c \in Cost \cup {Unknown} : OperatorPrices(a, c, stamp)
       PROVE  UNCHANGED <<call, dispatch, calls>>
  BY <1>12 DEF OperatorReserves, OperatorPrices
<1> HIDE DEF Others
<1> QED
  BY <1>1, <1>2, <1>3, <1>4, <1>5, <1>6, <1>7, <1>8, <1>9, <1>10, <1>11, <1>13, <1>14, <1>12
     DEF FinOpsNext, Dispatching

\* An attempt only goes forward: once reserved it is never empty again, once
\* priced it stays so, and a final cost stays.
LEMMA AttemptsForward ==
  ASSUME FinOpsTypeOK, AttemptsMove, NEW a \in Attempt
  PROVE  /\ attempt[a] # None => attempt'[a] # None
         /\ attempt'[a].status = "none" => attempt'[a] = attempt[a]
         /\ attempt[a].status \in {"unreconciled", "settled"} =>
              attempt'[a].status \in {"unreconciled", "settled"}
         /\ attempt[a].status = "settled" => attempt'[a] = attempt[a]
<1>0. attempt \in [Attempt -> AttemptRow]
  BY DEF FinOpsTypeOK
<1>1. CASE UNCHANGED attempt
  BY <1>1
<1>2. ASSUME NEW b \in Attempt, NEW m \in Cost, attempt[b] = None, attempt' = Reserved(b, m)
      PROVE  \/ attempt'[a] = attempt[a]
             \/ attempt[a] = None /\ attempt'[a].status = "reserved"
  <2>1. /\ Reserved(b, m)[b] = [status |-> "reserved", reserved |-> m, actual |-> 0]
        /\ \A d \in Attempt \ {b} : Reserved(b, m)[d] = attempt[d]
    BY <1>0, ReservedRow
  <2> QED
    BY <1>2, <2>1
<1>3. ASSUME NEW b \in Attempt, NEW c \in Cost \cup {Unknown},
             attempt[b].status \in {"reserved", "unreconciled"}, attempt' = Priced(b, c)
      PROVE  \/ attempt'[a] = attempt[a]
             \/ /\ attempt[a].status \in {"reserved", "unreconciled"}
                /\ attempt'[a].status \in {"unreconciled", "settled"}
  <2>1. /\ Priced(b, c)[b] = [status |-> IF c = Unknown THEN "unreconciled" ELSE "settled",
                              reserved |-> attempt[b].reserved,
                              actual |-> IF c = Unknown THEN 0 ELSE c]
        /\ \A d \in Attempt \ {b} : Priced(b, c)[d] = attempt[d]
    BY <1>0, PricedRow
  <2> QED
    BY <1>3, <2>1
<1>4. \/ attempt'[a] = attempt[a]
      \/ attempt[a] = None /\ attempt'[a].status = "reserved"
      \/ /\ attempt[a].status \in {"reserved", "unreconciled"}
         /\ attempt'[a].status \in {"unreconciled", "settled"}
  BY <1>1, <1>2, <1>3 DEF AttemptsMove, Reservable
<1>5. None.status = "none"
  BY DEF None
<1> QED
  BY <1>4, <1>5

\* What a step of the owner k does to the rows: only its own changes.
LEMMA OwnRow ==
  ASSUME FinOpsTypeOK, NEW k \in Call, Owns(k) \/ call[k].at = "asked",
         NEW s \in {"claimed", "rejected", "reserved_no_retry", "awaiting_billing",
                    "settled", "unknown"},
         Put(k, s)
  PROVE  /\ RequestOfCall(k) \in Request /\ IdOf[RequestOfCall(k)] \in Id
         /\ dispatch'[IdOf[RequestOfCall(k)]] = [request |-> RequestOfCall(k), state |-> s]
         /\ \A i \in Id \ {IdOf[RequestOfCall(k)]} : dispatch'[i] = dispatch[i]
<1>1. call[k].request \in Request
  BY CallFields DEF FinOpsTypeOK, Owns
<1> QED
  BY <1>1, PutType, RequestFields DEF RequestOfCall

LEMMA OwnersKept ==
  ASSUME FinOpsTypeOK, OwnersRecorded, CallsMove
  PROVE  OwnersRecorded'
<1> DEFINE Says(k) == [request |-> RequestOfCall(k),
                       state |-> IF call[k].at \in {"claimed", "rejected", "reserved"}
                                 THEN "claimed" ELSE "reserved_no_retry"]
           id(k) == IdOf[RequestOfCall(k)]
<1>1. CASE UNCHANGED <<call, dispatch>>
  BY <1>1 DEF OwnersRecorded, Owns, RequestOfCall
<1>2. ASSUME NEW k \in Call, \A j \in Call \ {k} : call'[j] = call[j],
             Takes(k) \/ GoesOn(k) \/ Leaves(k)
      PROVE  OwnersRecorded'
  <2>1. \A j \in Call \ {k} : Owns(j)' = Owns(j) /\ id(j)' = id(j) /\ Says(j)' = Says(j)
    BY <1>2 DEF Owns, RequestOfCall
  <2>2. \A j \in Call \ {k} : Owns(j) /\ Owns(k) => id(j) # id(k)
    BY DEF OwnersRecorded
  <2>3. \A j \in Call : Owns(j) => RequestOfCall(j) \in Request /\ id(j) \in Id
    BY CallFields, RequestFields DEF FinOpsTypeOK, Owns, RequestOfCall
  <2>4. \A j \in Call : Owns(j) => dispatch[id(j)] = Says(j) /\ dispatch[id(j)] # NoRow
    BY DEF OwnersRecorded, NoRow
  <2>5. CASE Takes(k)
    <3>1. PICK s \in {"claimed", "reserved_no_retry"} :
            /\ Put(k, s) /\ s = IF call'[k].at = "claimed" THEN "claimed" ELSE "reserved_no_retry"
            /\ call'[k].at \in {"claimed", "send"} /\ id(k)' = id(k) /\ call[k].at = "asked"
            /\ RequestOfCall(k)' = RequestOfCall(k) /\ dispatch[id(k)] = NoRow
      BY <2>5 DEF Takes, Prior, RequestOfCall
    <3>2. /\ dispatch'[id(k)] = [request |-> RequestOfCall(k), state |-> s]
          /\ \A i \in Id \ {id(k)} : dispatch'[i] = dispatch[i]
      BY <3>1, OwnRow
    <3>3. \A j \in Call \ {k} : Owns(j) => id(j) # id(k)
      BY <2>4, <3>1
    <3>4. \A j \in Call \ {k} : Owns(j) => dispatch'[id(j)] = Says(j)
      BY <2>3, <2>4, <3>2, <3>3
    <3>5. dispatch'[id(k)] = Says(k)'
      BY <3>1, <3>2
    <3>6. \A j \in Call : Owns(j)' => dispatch'[id(j)'] = Says(j)'
      <4> HIDE DEF Says, id, Owns
      <4> QED
        BY <2>1, <3>1, <3>4, <3>5
    <3>7. \A i, j \in Call : Owns(i)' /\ Owns(j)' /\ id(i)' = id(j)' => i = j
      <4>1. \A i, j \in Call : Owns(i) /\ Owns(j) /\ id(i) = id(j) => i = j
        BY DEF OwnersRecorded
      <4> HIDE DEF Says, id, Owns
      <4> QED
        BY <2>1, <3>1, <3>3, <4>1
    <3> QED
      BY <3>6, <3>7 DEF OwnersRecorded
  <2>6. CASE GoesOn(k)
    <3>1. /\ Owns(k) /\ Owns(k)' /\ RequestOfCall(k)' = RequestOfCall(k) /\ id(k)' = id(k)
          /\ \/ UNCHANGED dispatch /\ Says(k)' = Says(k)
             \/ Put(k, "reserved_no_retry") /\ Says(k)' =
                  [request |-> RequestOfCall(k), state |-> "reserved_no_retry"]
      BY <2>6 DEF GoesOn, Owns
    <3>2. dispatch'[id(k)] = Says(k)' /\ \A i \in Id \ {id(k)} : dispatch'[i] = dispatch[i]
      <4>1. CASE UNCHANGED dispatch /\ Says(k)' = Says(k)
        BY <2>4, <3>1, <4>1
      <4>2. CASE Put(k, "reserved_no_retry") /\ Says(k)' =
                  [request |-> RequestOfCall(k), state |-> "reserved_no_retry"]
        BY <3>1, <4>2, OwnRow
      <4> QED
        BY <3>1, <4>1, <4>2
    <3>3. \A j \in Call : Owns(j)' => dispatch'[id(j)'] = Says(j)'
      <4> HIDE DEF Says, id, Owns
      <4> QED
        BY <2>1, <2>2, <2>3, <2>4, <3>1, <3>2
    <3>4. \A i, j \in Call : Owns(i)' /\ Owns(j)' /\ id(i)' = id(j)' => i = j
      <4>1. \A i, j \in Call : Owns(i) /\ Owns(j) /\ id(i) = id(j) => i = j
        BY DEF OwnersRecorded
      <4> HIDE DEF Says, id, Owns
      <4> QED
        BY <2>1, <3>1, <4>1
    <3> QED
      BY <3>3, <3>4 DEF OwnersRecorded
  <2>7. CASE Leaves(k)
    <3>1. ~Owns(k)'
      BY <2>7 DEF Leaves, Owns
    <3>2. \A j \in Call \ {k} : Owns(j) => dispatch'[id(j)] = dispatch[id(j)]
      <4>1. CASE UNCHANGED dispatch
        BY <4>1
      <4>2. ASSUME NEW s \in {"rejected", "awaiting_billing", "unknown", "settled"},
                   Owns(k), Put(k, s)
            PROVE  \A j \in Call \ {k} : Owns(j) => dispatch'[id(j)] = dispatch[id(j)]
        <5>1. \A i \in Id \ {id(k)} : dispatch'[i] = dispatch[i]
          BY <4>2, OwnRow
        <5> HIDE DEF Owns, id
        <5> QED
          BY <2>2, <2>3, <4>2, <5>1
      <4> QED
        BY <2>7, <4>1, <4>2 DEF Leaves, Owns, Outcome
    <3>3. \A j \in Call : Owns(j)' => dispatch'[id(j)'] = Says(j)'
      <4> HIDE DEF Says, id, Owns
      <4> QED
        BY <2>1, <2>4, <3>1, <3>2
    <3>4. \A i, j \in Call : Owns(i)' /\ Owns(j)' /\ id(i)' = id(j)' => i = j
      <4>1. \A i, j \in Call : Owns(i) /\ Owns(j) /\ id(i) = id(j) => i = j
        BY DEF OwnersRecorded
      <4> HIDE DEF Says, id, Owns
      <4> QED
        BY <2>1, <3>1, <4>1
    <3> QED
      BY <3>3, <3>4 DEF OwnersRecorded
  <2> QED
    BY <1>2, <2>5, <2>6, <2>7
<1> QED
  BY <1>1, <1>2 DEF CallsMove

\* A call that is about to call the provider stays the only one for its attempt.
LEMMA SendersKept ==
  ASSUME FinOpsTypeOK, SendersHold, AttemptsMove, CallsMove
  PROVE  SendersHold'
<1>0. /\ \A a \in Attempt : attempt[a] # None => attempt'[a] # None
      /\ \A a \in Attempt : attempt'[a].status = "none" => attempt'[a] = None
  BY AttemptsForward DEF SendersHold
<1>1. CASE UNCHANGED <<call, calls>>
  <2>1. \A k \in Call : Sending(k)' = Sending(k) /\ AttemptOfCall(k)' = AttemptOfCall(k)
    BY <1>1 DEF Sending, AttemptOfCall
  <2>2. \A k \in Call : Sending(k) => AttemptOfCall(k) \in Attempt
    BY CallFields, RequestFields DEF Sending, AttemptOfCall, FinOpsTypeOK
  <2>3. \A k \in Call : Sending(k)' =>
          attempt'[AttemptOfCall(k)'] # None /\ calls'[AttemptOfCall(k)'] = 0
    BY <1>0, <1>1, <2>1, <2>2 DEF SendersHold
  <2>4. \A j, k \in Call :
          Sending(j)' /\ Sending(k)' /\ AttemptOfCall(j)' = AttemptOfCall(k)' => j = k
    BY <2>1 DEF SendersHold
  <2>5. \A a \in Attempt : calls'[a] > 0 => attempt'[a] # None
    BY <1>0, <1>1 DEF SendersHold
  <2> QED
    BY <1>0, <2>3, <2>4, <2>5 DEF SendersHold
<1>2. ASSUME NEW k \in Call, \A j \in Call \ {k} : call'[j] = call[j],
             Takes(k) \/ GoesOn(k) \/ Leaves(k)
      PROVE  SendersHold'
  <2> DEFINE a == AttemptOfCall(k)
  <2>1. \A j \in Call \ {k} : Sending(j)' = Sending(j) /\ AttemptOfCall(j)' = AttemptOfCall(j)
    BY <1>2 DEF Sending, AttemptOfCall
  <2>2. \A j \in Call : Sending(j) => AttemptOfCall(j) \in Attempt
    BY CallFields, RequestFields DEF Sending, AttemptOfCall, FinOpsTypeOK
  <2>3. CASE UNCHANGED calls /\ ~Sending(k)'
    <3>1. \A j \in Call : Sending(j)' =>
            attempt'[AttemptOfCall(j)'] # None /\ calls'[AttemptOfCall(j)'] = 0
      BY <1>0, <2>1, <2>2, <2>3 DEF SendersHold
    <3>2. \A i, j \in Call :
            Sending(i)' /\ Sending(j)' /\ AttemptOfCall(i)' = AttemptOfCall(j)' => i = j
      BY <2>1, <2>3 DEF SendersHold
    <3>3. \A b \in Attempt : calls'[b] > 0 => attempt'[b] # None
      BY <1>0, <2>3 DEF SendersHold
    <3> QED
      BY <1>0, <3>1, <3>2, <3>3 DEF SendersHold
  <2>4. CASE Reserves(k) /\ UNCHANGED calls /\ a' = a /\ a \in Attempt /\ Sending(k)'
    <3>1. attempt[a] = None /\ attempt'[a] # None
      <4>1. attempt \in [Attempt -> AttemptRow] /\ RequestOfCall(k) \in Request
        BY <1>2, <2>4, CallFields DEF FinOpsTypeOK, Reserves, RequestOfCall, Takes, GoesOn,
                                      Leaves, Sending
      <4>2. attempt'[a] = [status |-> "reserved", reserved |-> AmountOf[RequestOfCall(k)],
                           actual |-> 0]
        BY <2>4, <4>1, ReservedRow, RequestFields DEF Reserves
      <4> QED
        BY <2>4, <4>2 DEF Reserves, None
    <3>2. calls[a] = 0
      BY <2>4, <3>1 DEF SendersHold, FinOpsTypeOK
    <3>3. \A j \in Call \ {k} : Sending(j) => AttemptOfCall(j) # a
      BY <3>1 DEF SendersHold
    <3>4. \A j \in Call : Sending(j)' =>
            attempt'[AttemptOfCall(j)'] # None /\ calls'[AttemptOfCall(j)'] = 0
      <4> HIDE DEF a
      <4>1. ASSUME NEW j \in Call \ {k}, Sending(j)'
            PROVE  attempt'[AttemptOfCall(j)'] # None /\ calls'[AttemptOfCall(j)'] = 0
        BY <1>0, <2>1, <2>2, <2>4, <4>1 DEF SendersHold
      <4> QED
        BY <2>4, <3>1, <3>2, <4>1 DEF a
    <3>5. \A i, j \in Call :
            Sending(i)' /\ Sending(j)' /\ AttemptOfCall(i)' = AttemptOfCall(j)' => i = j
      BY <2>1, <2>4, <3>3 DEF SendersHold
    <3>6. \A b \in Attempt : calls'[b] > 0 => attempt'[b] # None
      BY <1>0, <2>4 DEF SendersHold
    <3> QED
      BY <1>0, <3>4, <3>5, <3>6 DEF SendersHold
  <2>5. CASE Sending(k) /\ Sending(k)' /\ a' = a /\ UNCHANGED calls
    <3>1. \A j \in Call : Sending(j)' = Sending(j) /\ AttemptOfCall(j)' = AttemptOfCall(j)
      BY <2>1, <2>5 DEF Sending
    <3>2. \A j \in Call : Sending(j)' =>
            attempt'[AttemptOfCall(j)'] # None /\ calls'[AttemptOfCall(j)'] = 0
      BY <1>0, <2>2, <2>5, <3>1 DEF SendersHold
    <3>3. \A i, j \in Call :
            Sending(i)' /\ Sending(j)' /\ AttemptOfCall(i)' = AttemptOfCall(j)' => i = j
      BY <3>1 DEF SendersHold
    <3>4. \A b \in Attempt : calls'[b] > 0 => attempt'[b] # None
      BY <1>0, <2>5 DEF SendersHold
    <3> QED
      BY <1>0, <3>2, <3>3, <3>4 DEF SendersHold
  <2>6. CASE Sending(k) /\ ~Sending(k)' /\ calls' = [calls EXCEPT ![a] = @ + 1]
    <3>1. a \in Attempt /\ attempt'[a] # None
      BY <1>0, <2>2, <2>6 DEF SendersHold
    <3>2. \A j \in Call \ {k} : Sending(j) => AttemptOfCall(j) # a
      BY <2>6 DEF SendersHold
    <3>3. \A b \in Attempt \ {a} : calls'[b] = calls[b]
      BY <2>6 DEF FinOpsTypeOK
    <3>4. \A j \in Call : Sending(j)' =>
            attempt'[AttemptOfCall(j)'] # None /\ calls'[AttemptOfCall(j)'] = 0
      BY <1>0, <2>1, <2>2, <2>6, <3>2, <3>3 DEF SendersHold
    <3>5. \A i, j \in Call :
            Sending(i)' /\ Sending(j)' /\ AttemptOfCall(i)' = AttemptOfCall(j)' => i = j
      BY <2>1, <2>6 DEF SendersHold
    <3>6. \A b \in Attempt : calls'[b] > 0 => attempt'[b] # None
      BY <1>0, <3>1, <3>3 DEF SendersHold
    <3> QED
      BY <1>0, <3>4, <3>5, <3>6 DEF SendersHold
  <2>7. CASE Takes(k)
    <3>1. a' = a /\ a \in Attempt
      BY <2>7, CallFields, RequestFields
         DEF Takes, RequestOfCall, AttemptOfCall, FinOpsTypeOK
    <3> QED
      BY <2>3, <2>4, <2>7, <3>1 DEF Takes, Sending
  <2>8. CASE GoesOn(k)
    <3>1. a' = a /\ a \in Attempt
      BY <2>8, CallFields, RequestFields
         DEF GoesOn, RequestOfCall, AttemptOfCall, FinOpsTypeOK
    <3> QED
      BY <2>3, <2>4, <2>5, <2>6, <2>8, <3>1 DEF GoesOn, Sending
  <2>9. CASE Leaves(k)
    BY <2>3, <2>9 DEF Leaves, Sending
  <2> QED
    BY <1>2, <2>7, <2>8, <2>9
<1> QED
  BY <1>1, <1>2 DEF CallsMove

\* A receipt to be written rests on what was written to the journal before it.
LEMMA ReceiptsKept ==
  ASSUME FinOpsTypeOK, FinOpsTypeOK', ReceiptsRest, AttemptsMove, CallsMove
  PROVE  ReceiptsRest'
<1> DEFINE Rests(k) == attempt[AttemptOfCall(k)].status \in
                         IF call[k].cost = Unknown THEN {"unreconciled", "settled"} ELSE {"settled"}
<1>1. ASSUME NEW j \in Call, call[j].at = "receipt", call'[j] = call[j]
      PROVE  Rests(j)'
  <2>1. AttemptOfCall(j) \in Attempt
    BY <1>1, CallFields, RequestFields DEF AttemptOfCall, FinOpsTypeOK
  <2>2. Rests(j)
    BY <1>1 DEF ReceiptsRest
  <2> DEFINE b == AttemptOfCall(j)
  <2>3. /\ attempt[b].status \in {"unreconciled", "settled"} =>
             attempt'[b].status \in {"unreconciled", "settled"}
        /\ attempt[b].status = "settled" => attempt'[b] = attempt[b]
    BY <2>1, AttemptsForward
  <2>4. b' = b /\ call'[j].cost = call[j].cost
    BY <1>1 DEF AttemptOfCall
  <2> HIDE DEF b
  <2> QED
    BY <2>2, <2>3, <2>4 DEF b
<1>2. ASSUME NEW k \in Call, Takes(k) \/ GoesOn(k) \/ Leaves(k), call'[k].at = "receipt"
      PROVE  Rests(k)'
  <2>1. /\ call[k].at = "answered" /\ call'[k].cost = call[k].cost
        /\ attempt' = Priced(AttemptOfCall(k), call[k].cost)
        /\ AttemptOfCall(k)' = AttemptOfCall(k)
    BY <1>2 DEF Takes, GoesOn, Leaves, RequestOfCall, AttemptOfCall
  <2>2. AttemptOfCall(k) \in Attempt /\ call[k].cost \in Cost \cup {Unknown}
    BY <2>1, CallFields, RequestFields DEF AttemptOfCall, FinOpsTypeOK
  <2>3. attempt'[AttemptOfCall(k)] =
          [status |-> IF call[k].cost = Unknown THEN "unreconciled" ELSE "settled",
           reserved |-> attempt[AttemptOfCall(k)].reserved,
           actual |-> IF call[k].cost = Unknown THEN 0 ELSE call[k].cost]
    BY <2>1, <2>2, PricedRow DEF FinOpsTypeOK
  <2> QED
    BY <2>1, <2>3
<1> HIDE DEF Rests
<1>3. \A j \in Call : call'[j].at = "receipt" => Rests(j)'
  BY <1>1, <1>2 DEF CallsMove
<1> QED
  BY <1>3 DEF ReceiptsRest, Rests

\* A row keeps its request, and changes under an owner that leaves, or goes on.
RowsMove ==
  \A i \in Id :
    \/ dispatch'[i] = dispatch[i]
    \/ \E k \in Call :
         /\ i = IdOf[RequestOfCall(k)] /\ RequestOfCall(k) \in Request
         /\ \/ dispatch[i] = NoRow /\ call[k].at # "receipt"
            \/ /\ dispatch[i].request = RequestOfCall(k)
               /\ dispatch[i].state = "claimed" /\ call[k].at # "receipt"
            \/ /\ dispatch[i].request = RequestOfCall(k)
               /\ dispatch[i].state = "reserved_no_retry" /\ call[k].at = "receipt"
               /\ dispatch'[i].state = Outcome(k)
         /\ dispatch'[i].request = RequestOfCall(k)
         /\ call[k].at # "receipt" =>
              dispatch'[i].state \in {"claimed", "reserved_no_retry", "rejected"}

LEMMA RowsMoveNext ==
  ASSUME FinOpsTypeOK, OwnersRecorded, CallsMove
  PROVE  RowsMove
<1>1. CASE UNCHANGED dispatch
  BY <1>1 DEF RowsMove
<1>2. ASSUME NEW k \in Call, NEW s \in {"claimed", "rejected", "reserved_no_retry",
                                        "awaiting_billing", "settled", "unknown"},
             Put(k, s),
             \/ call[k].at = "asked" /\ Prior(k) = NoRow /\ s \in {"claimed", "reserved_no_retry"}
             \/ call[k].at = "reserved" /\ s = "reserved_no_retry"
             \/ call[k].at = "rejected" /\ s = "rejected"
             \/ call[k].at = "receipt" /\ s = Outcome(k)
      PROVE  RowsMove
  <2> DEFINE i == IdOf[RequestOfCall(k)]
  <2>1. /\ RequestOfCall(k) \in Request /\ i \in Id
        /\ dispatch'[i] = [request |-> RequestOfCall(k), state |-> s]
        /\ \A j \in Id \ {i} : dispatch'[j] = dispatch[j]
    <3>1. Owns(k) \/ call[k].at = "asked"
      BY <1>2 DEF Owns
    <3> QED
      BY <1>2, <3>1, OwnRow
  <2>2. CASE call[k].at = "asked"
    BY <1>2, <2>1, <2>2 DEF Prior, RequestOfCall, RowsMove
  <2>3. CASE call[k].at \in {"reserved", "rejected", "receipt"}
    <3>1. dispatch[i] = [request |-> RequestOfCall(k),
                         state |-> IF call[k].at \in {"reserved", "rejected"} THEN "claimed"
                                   ELSE "reserved_no_retry"]
      BY <2>3 DEF OwnersRecorded, Owns
    <3> QED
      BY <1>2, <2>1, <2>3, <3>1 DEF RowsMove
  <2> QED
    BY <1>2, <2>2, <2>3
<1>3. ASSUME NEW k \in Call, Takes(k) \/ GoesOn(k) \/ Leaves(k)
      PROVE  RowsMove
  <2>1. Outcome(k) \in {"awaiting_billing", "settled", "unknown"}
    BY DEF Outcome
  <2> QED
    BY <1>1, <1>2, <1>3, <2>1 DEF Takes, GoesOn, Leaves
<1> QED
  BY <1>1, <1>3 DEF CallsMove

\* What a receipt says was so when it was written, and attempts only go forward.
LEMMA AccountedKept ==
  ASSUME FinOpsTypeOK, ReceiptsRest, ReceiptAccounted, AttemptsMove, RowsMove
  PROVE  ReceiptAccounted'
<1> DEFINE Right(row, att) ==
      /\ row.state \in {"awaiting_billing", "unknown"} =>
           att[AttemptOf[row.request]].status \in {"unreconciled", "settled"}
      /\ row.state = "settled" => att[AttemptOf[row.request]].status = "settled"
<1>1. ASSUME NEW row, row.request \in Request, Right(row, attempt)
      PROVE  Right(row, attempt')
  BY <1>1, AttemptsForward, RequestFields
<1>2. ASSUME NEW i \in Id, dispatch'[i] # NoRow
      PROVE  Right(dispatch'[i], attempt')
  <2>1. CASE dispatch'[i] = dispatch[i]
    <3>1. dispatch[i].request \in Request
      BY <1>2, <2>1 DEF FinOpsTypeOK, Row
    <3>2. Right(dispatch[i], attempt)
      BY <1>2, <2>1 DEF ReceiptAccounted
    <3> HIDE DEF Right
    <3> QED
      BY <1>1, <2>1, <3>1, <3>2
  <2>2. ASSUME NEW k \in Call, call[k].at # "receipt",
               dispatch'[i].state \in {"claimed", "reserved_no_retry", "rejected"}
        PROVE  Right(dispatch'[i], attempt')
    BY <2>2
  <2>3. ASSUME NEW k \in Call, call[k].at = "receipt", RequestOfCall(k) \in Request,
               dispatch'[i].request = RequestOfCall(k), dispatch'[i].state = Outcome(k)
        PROVE  Right(dispatch'[i], attempt')
    <3>1. Right(dispatch'[i], attempt)
      BY <2>3 DEF ReceiptsRest, Outcome, AttemptOfCall, RequestOfCall
    <3> HIDE DEF Right
    <3> QED
      BY <1>1, <2>3, <3>1
  <2> HIDE DEF Right
  <2> QED
    BY <2>1, <2>2, <2>3 DEF RowsMove
<1> QED
  BY <1>2 DEF ReceiptAccounted

\* A call on record stays on record: rows that stand for one are only replaced
\* by those that do, and a call that calls the provider has such a row.
LEMMA OnRecordKept ==
  ASSUME FinOpsTypeOK, OwnersRecorded, SentOnRecord, CallsMove, RowsMove
  PROVE  SentOnRecord'
<1> DEFINE Stands(s, d) == /\ d[IdOf[s]] # NoRow /\ d[IdOf[s]].request = s
                           /\ d[IdOf[s]].state \notin {"claimed", "rejected"}
<1>1. ASSUME NEW s \in Request, Stands(s, dispatch)
      PROVE  Stands(s, dispatch')
  <2> DEFINE i == IdOf[s]
  <2>1. i \in Id
    BY RequestFields
  <2>2. CASE dispatch'[i] = dispatch[i]
    BY <1>1, <2>2
  <2>3. ASSUME NEW k \in Call, dispatch'[i].request = s,
               dispatch'[i].state = Outcome(k), dispatch'[i] # NoRow
        PROVE  Stands(s, dispatch')
    BY <2>3 DEF Outcome
  <2>4. dispatch'[i] # dispatch[i] =>
          \E k \in Call : dispatch'[i].request = s /\ dispatch'[i].state = Outcome(k)
    BY <1>1, <2>1 DEF RowsMove
  <2>5. dispatch'[i].state \in {"awaiting_billing", "settled", "unknown"} => dispatch'[i] # NoRow
    BY DEF NoRow
  <2>6. \A k \in Call : Outcome(k) \in {"awaiting_billing", "settled", "unknown"}
    BY DEF Outcome
  <2> HIDE DEF i, Stands
  <2> QED
    BY <2>2, <2>3, <2>4, <2>5, <2>6
<1>2. ASSUME NEW r \in Request, calls'[AttemptOf[r]] > 0
      PROVE  \E s \in Request : AttemptOf[s] = AttemptOf[r] /\ Stands(s, dispatch')
  <2>1. CASE calls'[AttemptOf[r]] = calls[AttemptOf[r]]
    <3>1. PICK s \in Request : AttemptOf[s] = AttemptOf[r] /\ Stands(s, dispatch)
      BY <1>2, <2>1 DEF SentOnRecord
    <3> HIDE DEF Stands
    <3> QED
      BY <1>1, <3>1
  <2>2. CASE calls'[AttemptOf[r]] # calls[AttemptOf[r]]
    <3>1. PICK k \in Call : /\ call[k].at = "send" /\ UNCHANGED dispatch
                            /\ calls' = [calls EXCEPT ![AttemptOfCall(k)] = @ + 1]
      BY <2>2 DEF CallsMove, Takes, GoesOn, Leaves
    <3>2. AttemptOfCall(k) = AttemptOf[r]
      BY <2>2, <3>1, RequestFields DEF FinOpsTypeOK
    <3>3. RequestOfCall(k) \in Request
      BY <3>1, CallFields DEF RequestOfCall, FinOpsTypeOK
    <3>4. dispatch[IdOf[RequestOfCall(k)]] =
            [request |-> RequestOfCall(k), state |-> "reserved_no_retry"]
      BY <3>1 DEF OwnersRecorded, Owns
    <3>5. Stands(RequestOfCall(k), dispatch')
      BY <3>1, <3>4 DEF NoRow
    <3> HIDE DEF Stands
    <3> QED
      BY <3>2, <3>3, <3>5 DEF AttemptOfCall, RequestOfCall
  <2> QED
    BY <2>1, <2>2
<1> QED
  BY <1>2 DEF SentOnRecord

LEMMA DispatchInvInit == FinOpsInit => DispatchInv
<1> SUFFICES ASSUME FinOpsInit PROVE DispatchInv
  OBVIOUS
<1>1. FinOpsTypeOK
  BY TypeInit
<1>2. \A k \in Call : call[k].at = "idle"
  BY DEF FinOpsInit, Idle
<1>3. OwnersRecorded /\ ReceiptsRest
  BY <1>2 DEF OwnersRecorded, ReceiptsRest, Owns
<1>4. SendersHold
  BY <1>2 DEF SendersHold, Sending, FinOpsInit
<1>5. ReceiptAccounted
  BY DEF ReceiptAccounted, FinOpsInit
<1>6. SentOnRecord
  BY RequestFields DEF SentOnRecord, FinOpsInit
<1> QED
  BY <1>1, <1>3, <1>4, <1>5, <1>6 DEF DispatchInv

LEMMA DispatchInvNext == DispatchInv /\ [FinOpsNext]_vars => DispatchInv'
<1> SUFFICES ASSUME DispatchInv, [FinOpsNext]_vars PROVE DispatchInv'
  OBVIOUS
<1>0. /\ FinOpsTypeOK /\ OwnersRecorded /\ SendersHold
      /\ ReceiptsRest /\ ReceiptAccounted /\ SentOnRecord
  BY DEF DispatchInv
<1>1. FinOpsTypeOK'
  BY <1>0, TypeNext
<1>2. AttemptsMove /\ CallsMove
  BY <1>0, AttemptsMoveNext, CallsMoveNext
<1>3. RowsMove
  BY <1>0, <1>2, RowsMoveNext
<1>4. OwnersRecorded' /\ SendersHold'
  BY <1>0, <1>2, OwnersKept, SendersKept
<1>5. ReceiptsRest' /\ ReceiptAccounted'
  BY <1>0, <1>1, <1>2, <1>3, ReceiptsKept, AccountedKept
<1>6. SentOnRecord'
  BY <1>0, <1>2, <1>3, OnRecordKept
<1> QED
  BY <1>1, <1>4, <1>5, <1>6 DEF DispatchInv

LEMMA DispatchInvHolds == FinOpsSpec => []DispatchInv
BY DispatchInvInit, DispatchInvNext, PTL DEF FinOpsSpec

\* What the record of a dispatch says of calls and attempts is so, whoever
\* settles and wherever processes stop.
THEOREM DispatchesAccounted == FinOpsSpec => []DispatchAccounted
<1>1. DispatchInv => DispatchAccounted
  BY DEF DispatchInv, DispatchAccounted
<1> QED
  BY <1>1, DispatchInvHolds, PTL

-----------------------------------------------------------------------------
(* The promise of FinOpsBudget.                                             *)

\* The accounts of the promise, as the attempts make them.
Accounts == [a \in Attempt |-> Account(a)]

LEMMA AccountOfRow ==
  ASSUME NEW a \in Attempt, attempt[a] \in AttemptRow
  PROVE  /\ Account(a).amount = Committed(attempt[a])
         /\ attempt[a].status = "none" => Account(a).state = "free"
         /\ attempt[a].status = "settled" => Account(a).state = "paid"
         /\ attempt[a].status \in {"reserved", "unreconciled"} => Account(a).state = "held"
BY DEF Account, AttemptRow

\* What a step of the journal does to the accounts.
LEMMA AccountsNext ==
  ASSUME FinOpsTypeOK, NEW a \in Attempt, NEW row \in AttemptRow,
         attempt'[a] = row, \A b \in Attempt \ {a} : attempt'[b] = attempt[b]
  PROVE  Accounts' = [Accounts EXCEPT ![a] =
           [state |-> CASE row.status = "none" -> "free"
                        [] row.status = "settled" -> "paid"
                        [] OTHER -> "held",
            amount |-> Committed(row)]]
<1>1. \A b \in Attempt \ {a} : Account(b)' = Account(b)
  BY DEF Account
<1>2. Account(a)' = [state |-> CASE row.status = "none" -> "free"
                                 [] row.status = "settled" -> "paid"
                                 [] OTHER -> "held",
                     amount |-> Committed(row)]
  BY DEF Account
<1> HIDE DEF Account
<1> QED
  BY <1>1, <1>2 DEF Accounts

LEMMA PromiseInit == FinOpsInit => Promise!Init
<1> SUFFICES ASSUME FinOpsInit PROVE Promise!Init
  OBVIOUS
<1>1. \A a \in Attempt : Account(a) = [state |-> "free", amount |-> 0]
  BY DEF FinOpsInit, Account, Committed, None
<1> QED
  BY <1>1 DEF FinOpsInit, Promise!Init, Promise!Free

\* Its sums are those of the ledger.
LEMMA PromiseSums ==
  ASSUME NEW f, NEW S
  PROVE  Promise!SumFunctionOnSet(f, S) = SumFunctionOnSet(f, S)
BY DEF SumFunctionOnSet, FoldFunctionOnSet, MapThenFoldSet,
       Promise!SumFunctionOnSet, Promise!FoldFunctionOnSet, Promise!MapThenFoldSet

\* A reservation is a Hold, as the budget is checked with it.
LEMMA ReservationHolds ==
  ASSUME FinOpsTypeOK, NEW a \in Attempt, NEW m \in Cost, NEW stamp \in Time,
         Reservable(a, m, stamp), attempt' = Reserved(a, m), UNCHANGED calls
  PROVE  Promise!Hold(a)
<1> DEFINE row == [status |-> "reserved", reserved |-> m, actual |-> 0]
<1>0. attempt \in [Attempt -> AttemptRow]
  BY DEF FinOpsTypeOK
<1>1. row \in AttemptRow
  BY DEF AttemptRow
<1>2. attempt'[a] = row /\ \A b \in Attempt \ {a} : attempt'[b] = attempt[b]
  BY <1>0, ReservedRow
<1>3. Accounts' = [Accounts EXCEPT ![a] = [state |-> "held", amount |-> m]]
  <2>1. Committed(row) = m
    BY DEF Committed
  <2>2. row.status = "reserved"
    OBVIOUS
  <2> HIDE DEF row
  <2> QED
    BY <1>1, <1>2, <2>1, <2>2, AccountsNext
<1>4. Accounts[a] = [state |-> "free", amount |-> 0]
  BY DEF Reservable, Accounts, Account, None, Committed
<1>5. Promise!Counted(Accounts') = Total(attempt', Attempt)
  <2>1. \A b \in Attempt : Accounts'[b].amount = Committed(attempt'[b])
    BY DEF Accounts, Account
  <2>2. [b \in Attempt |-> Accounts'[b].amount] = [b \in Attempt |-> Committed(attempt'[b])]
    BY <2>1
  <2> QED
    BY <2>2, PromiseSums DEF Promise!Counted, Total
<1>6. Total(attempt', Attempt) <= Budget
  BY DEF Reservable, Remains
<1> QED
  BY <1>3, <1>4, <1>5, <1>6 DEF Promise!Hold, Promise!Free, Accounts

\* A final cost is a Pay, and an unknown one changes no account.
LEMMA PricingPays ==
  ASSUME FinOpsTypeOK, NEW a \in Attempt, NEW c \in Cost \cup {Unknown},
         attempt[a].status = "reserved" \/ (attempt[a].status = "unreconciled" /\ c # Unknown),
         attempt' = Priced(a, c), UNCHANGED calls
  PROVE  Promise!Pay(a) \/ UNCHANGED Promise!vars
<1> DEFINE row == [status |-> IF c = Unknown THEN "unreconciled" ELSE "settled",
                   reserved |-> attempt[a].reserved,
                   actual |-> IF c = Unknown THEN 0 ELSE c]
<1>0. attempt \in [Attempt -> AttemptRow] /\ attempt' \in [Attempt -> AttemptRow]
  BY PricedRow DEF FinOpsTypeOK
<1>1. attempt'[a] = row /\ \A b \in Attempt \ {a} : attempt'[b] = attempt[b]
  <2>1. /\ Priced(a, c)[a] = row
        /\ \A b \in Attempt \ {a} : Priced(a, c)[b] = attempt[b]
    BY <1>0, PricedRow
  <2> HIDE DEF row
  <2> QED
    BY <2>1
<1>2. row \in AttemptRow
  BY <1>0, <1>1
<1>3. Accounts[a] = [state |-> "held", amount |-> attempt[a].reserved]
  BY DEF Accounts, Account, Committed
<1>4. CASE c = Unknown
  <2>1. Accounts' = [Accounts EXCEPT ![a] = [state |-> "held", amount |-> attempt[a].reserved]]
    <3>1. Committed(row) = attempt[a].reserved /\ row.status = "unreconciled"
      BY <1>4 DEF Committed
    <3> HIDE DEF row
    <3> QED
      BY <1>1, <1>2, <3>1, AccountsNext
  <2>2. Accounts' = Accounts
    BY <1>3, <2>1 DEF Accounts
  <2> QED
    BY <2>2 DEF Promise!vars, Accounts
<1>5. CASE c # Unknown
  <2>1. Accounts' = [Accounts EXCEPT ![a] = [state |-> "paid", amount |-> c]]
    <3>1. Committed(row) = c /\ row.status = "settled"
      BY <1>5 DEF Committed
    <3> HIDE DEF row
    <3> QED
      BY <1>1, <1>2, <3>1, AccountsNext
  <2>2. c \in Cost /\ Accounts[a].state = "held"
    BY <1>3, <1>5
  <2>3. \E d \in Cost : Accounts' = [Accounts EXCEPT ![a] = [state |-> "paid", amount |-> d]]
    BY <2>1, <2>2
  <2>4. Promise!Pay(a) <=>
          /\ Accounts[a].state = "held"
          /\ \E d \in Cost : Accounts' = [Accounts EXCEPT ![a] = [state |-> "paid", amount |-> d]]
          /\ UNCHANGED calls
    BY DEF Promise!Pay, Accounts
  <2> QED
    BY <2>2, <2>3, <2>4
<1> QED
  BY <1>4, <1>5

\* Calling the provider is the promise's one call, for an account that holds.
LEMMA SendingCalls ==
  ASSUME FinOpsTypeOK, SendersHold, NEW k \in Call, call[k].at = "send", UNCHANGED attempt,
         calls' = [calls EXCEPT ![AttemptOfCall(k)] = @ + 1]
  PROVE  AttemptOfCall(k) \in Attempt /\ Promise!CallProvider(AttemptOfCall(k))
<1> DEFINE a == AttemptOfCall(k)
<1>1. a \in Attempt
  BY CallFields, RequestFields DEF AttemptOfCall, FinOpsTypeOK
<1>2. attempt[a] # None /\ calls[a] = 0
  BY DEF SendersHold, Sending
<1>3. attempt[a].status # "none"
  BY <1>1, <1>2 DEF SendersHold
<1>4. Accounts[a] # [state |-> "free", amount |-> 0]
  BY <1>1, <1>3 DEF Accounts, Account
<1>5. calls' = [calls EXCEPT ![a] = 1]
  BY <1>1, <1>2 DEF FinOpsTypeOK
<1>6. Accounts' = Accounts
  BY DEF Accounts, Account
<1> QED
  BY <1>1, <1>2, <1>4, <1>5, <1>6 DEF Promise!CallProvider, Promise!Free, Accounts

LEMMA PromiseNext == DispatchInv /\ [FinOpsNext]_vars => [Promise!Next]_(Promise!vars)
<1> SUFFICES ASSUME DispatchInv, [FinOpsNext]_vars
             PROVE  Promise!Next \/ UNCHANGED Promise!vars
  OBVIOUS
<1>0. FinOpsTypeOK /\ SendersHold
  BY DEF DispatchInv
<1>1. CASE UNCHANGED calls
  <2>1. AttemptsMove
    BY <1>0, AttemptsMoveNext
  <2>2. CASE UNCHANGED attempt
    BY <1>1, <2>2 DEF Promise!vars, Account
  <2>3. ASSUME NEW a \in Attempt, NEW m \in Cost, NEW stamp \in Time,
               Reservable(a, m, stamp), attempt' = Reserved(a, m)
        PROVE  Promise!Next
    BY <1>0, <1>1, <2>3, ReservationHolds DEF Promise!Next
  <2>4. ASSUME NEW a \in Attempt, NEW c \in Cost \cup {Unknown},
               attempt[a].status = "reserved" \/ (attempt[a].status = "unreconciled" /\ c # Unknown),
               attempt' = Priced(a, c)
        PROVE  Promise!Next \/ UNCHANGED Promise!vars
    BY <1>0, <1>1, <2>4, PricingPays DEF Promise!Next
  <2> QED
    BY <2>1, <2>2, <2>3, <2>4 DEF AttemptsMove
<1>2. CASE ~UNCHANGED calls
  <2>1. CallsMove
    BY <1>0, CallsMoveNext
  <2>2. PICK k \in Call : /\ call[k].at = "send" /\ UNCHANGED attempt
                          /\ calls' = [calls EXCEPT ![AttemptOfCall(k)] = @ + 1]
    BY <1>2, <2>1 DEF CallsMove, Takes, GoesOn, Leaves
  <2> QED
    BY <1>0, <2>2, SendingCalls DEF Promise!Next
<1> QED
  BY <1>1, <1>2

\* The ledger and its gateways keep the promise of FinOpsBudget: money is held
\* before the provider is called, it is called once for an attempt, and what
\* is held stays in the count until the final cost replaces it.
THEOREM LedgerKeepsPromise == FinOpsSpec => KeepsPromise
<1>1. FinOpsInit => Promise!Init
  BY PromiseInit
<1>2. DispatchInv /\ [FinOpsNext]_vars => [Promise!Next]_(Promise!vars)
  BY PromiseNext
<1> QED
  BY <1>1, <1>2, DispatchInvHolds, PTL DEF FinOpsSpec, KeepsPromise, Promise!Spec
=============================================================================
