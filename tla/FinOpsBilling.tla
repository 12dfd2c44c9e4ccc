--------------------------- MODULE FinOpsBilling ---------------------------
(***************************************************************************)
(* Billing and exceptions on the FinOps page (assets: palo-finops-         *)
(* billing.js, palo-finops-operations.js and their views): exports of a    *)
(* provider are imported as revisions of source records, linked to the     *)
(* attempts of the workspace and settled from there, and the findings      *)
(* become cases that people close: the page evaluates them again whenever  *)
(* it renders changed records.  The replay of a billing book is kept as    *)
(* its result.  An import and a settlement read files and digests: people  *)
(* go on with the workspace and the cases before they are committed.       *)
(* One source, account, currency and partition, one component of an        *)
(* attempt per record; a day is the unit of time.                          *)
(***************************************************************************)
EXTENDS Integers, Sequences, FiniteSetsExt

CONSTANTS
  BillAttempt,
  ReservedOn,   \* the day of an attempt's reservation
  Batch,        \* exports there may be
  LinkAmount,   \* signed amounts people link
  HandCost,     \* final costs they enter by hand
  MaxRuns,      \* bound on the imports
  Reviewable    \* the kinds of cases that are closed

BillDay == UNION {b.coverage : b \in Batch}
SourceRow == UNION {b.rows : b \in Batch}

\* Amounts are integers, and an export lists a source once.
ASSUME BillingAssumption ==
  /\ IsFiniteSet(BillAttempt)
  /\ ReservedOn \in [BillAttempt -> BillDay]
  /\ LinkAmount \subseteq Int \ {0} /\ HandCost \subseteq Nat
  /\ MaxRuns \in Nat
  /\ \A b \in Batch :
       /\ IsFiniteSet(b.rows)
       /\ \A row \in b.rows :
            row.amount \in Int /\ row.usage # {} /\ row.usage \subseteq b.coverage
       /\ \A row, other \in b.rows : row.source = other.source => row = other

VARIABLES
  fbAttempt,    \* attempts of the workspace
  fbBook,       \* the billing book
  fbCases,      \* the cases of operations, by id
  fbJob         \* the import or settlement in flight

fbVars == <<fbAttempt, fbBook, fbCases, fbJob>>

NoCost == 0
Resting == [at |-> "rest"]
RefOf(row) == <<row.source, row.revision>>
SourceRef == {RefOf(row) : row \in SourceRow}
BillLink == [ref : SourceRef, attempt : BillAttempt, amount : LinkAmount,
             measured : BOOLEAN]

AttemptsTyped(att) ==
  att \in [BillAttempt ->
    [status : {"none", "reserved", "unreconciled", "settled"}, cost : Nat]]
BookTyped(book) ==
  /\ book.active \subseteq book.history /\ book.history \subseteq SourceRow
  /\ book.links \subseteq BillLink
  /\ \A i \in DOMAIN book.runs :
       /\ book.runs[i].batch \in Batch
       /\ book.runs[i].status \in {"accepted", "reused", "quarantined", "resolved"}

BillingTypeOK ==
  /\ AttemptsTyped(fbAttempt) /\ BookTyped(fbBook)
  /\ fbJob # Resting => AttemptsTyped(fbJob.attempt) /\ BookTyped(fbJob.book)
  /\ \A id \in DOMAIN fbCases :
       /\ fbCases[id].status \in {"open", "closed"} /\ fbCases[id].active \in BOOLEAN
       /\ Cardinality(fbCases[id].reviewed) <= 1
-----------------------------------------------------------------------------
(* The book *)

Refs(rows) == {RefOf(row) : row \in rows}
Sources(rows) == {row.source : row \in rows}
RunsOf(book, statuses) == {i \in DOMAIN book.runs : book.runs[i].status \in statuses}

Overlapping(book, b) ==
  {p \in {book.runs[i].batch : i \in RunsOf(book, {"accepted"})} :
     p.coverage \cap b.coverage # {}}

\* A record nobody knows, for days that another export covered.
Ambiguous(book, b) ==
  \E p \in Overlapping(book, b), row \in b.rows :
    /\ RefOf(row) \notin Refs(book.history) /\ row.source \notin Sources(book.active)
    /\ row.usage \cap p.coverage # {}

Verdict(book, b) ==
  CASE ~b.ours \/ ~b.complete -> "quarantined"
    [] \E i \in RunsOf(book, {"accepted", "reused"}) : book.runs[i].batch = b -> "reused"
    [] b.mode = "snapshot" /\ \E p \in Overlapping(book, b) : p.coverage # b.coverage
         -> "quarantined"
    [] b.mode = "delta" /\ ~b.distinct /\ Ambiguous(book, b) -> "quarantined"
    [] OTHER -> "accepted"

\* A record is the active revision again, supersedes it, or is new to the book.
RevisionFits(book, row) ==
  \/ row \in book.active
  \/ /\ RefOf(row) \notin Refs(book.history)
     /\ \/ \E prior \in book.active :
             /\ prior.source = row.source
             /\ row.revision > prior.revision /\ row.supersedes = prior.revision
        \/ /\ row.source \notin Sources(book.history)
           /\ row.revision = 1 /\ row.supersedes = 0

\* One record that does not fit refuses the whole import.
Importable(book, b, resolves) ==
  /\ Verdict(book, b) = "accepted" => \A row \in b.rows : RevisionFits(book, row)
  /\ resolves # {} => Verdict(book, b) # "quarantined"
  /\ \A i \in resolves : book.runs[i].status = "quarantined"
                         /\ book.runs[i].batch.coverage \subseteq b.coverage

\* A snapshot removes what it covers and does not list.
ActiveAfter(book, b) ==
  LET listed == {row \in book.active : row.source \notin Sources(b.rows)}
      covered == IF b.mode = "snapshot" THEN {row \in listed : row.usage \subseteq b.coverage}
                                        ELSE {}
  IN (listed \ covered) \cup b.rows

\* The runs it resolves are no longer unresolved, and its own is appended.
Imported(book, b, resolves) ==
  LET verdict == Verdict(book, b)
      runs == [i \in DOMAIN book.runs |->
                 IF i \in resolves THEN [book.runs[i] EXCEPT !.status = "resolved"]
                                   ELSE book.runs[i]]
      run == Append(runs, [batch |-> b, status |-> verdict])
  IN IF verdict = "accepted"
     THEN [book EXCEPT !.runs = run, !.history = @ \cup b.rows, !.active = ActiveAfter(book, b)]
     ELSE [book EXCEPT !.runs = run]

Sum(links) == SumFunctionOnSet([l \in links |-> l.amount], links)
Size(n) == IF n < 0 THEN -n ELSE n

\* A mutation: the links of a revision that was superseded count on.
EveryLink(book) == book.links

CurrentLinks(book) == {l \in book.links : l.ref \in Refs(book.active)}
LinksOf(book, a) == {l \in CurrentLinks(book) : l.attempt = a}

LinkFits(book, att, l) ==
  LET others == {k \in book.links : k.ref = l.ref} IN
  /\ att[l.attempt].status # "none"
  /\ \A k \in others : k.attempt # l.attempt
  /\ \E row \in book.active :
       /\ RefOf(row) = l.ref
       /\ ReservedOn[l.attempt] \in row.usage
       /\ (l.amount > 0) = (row.amount > 0)
       /\ Size(Sum(others)) + Size(l.amount) <= Size(row.amount)

Unresolved(book) == RunsOf(book, {"quarantined"})

\* settleFromBilling: all active links of the attempt, measured, to final
\* records, with no import unresolved and a cost that is not negative.
Billable(book, att, a) ==
  /\ att[a].status \in {"reserved", "unreconciled"}
  /\ LinksOf(book, a) # {} /\ Sum(LinksOf(book, a)) >= 0
  /\ \A l \in LinksOf(book, a) :
       l.measured /\ \E row \in book.active : RefOf(row) = l.ref /\ row.final
  /\ Unresolved(book) = {}

Settled(att, a, cost) == [att EXCEPT ![a] = [status |-> "settled", cost |-> cost]]
-----------------------------------------------------------------------------
(* What an evaluation finds: pairs of an id and a fingerprint *)

Found(kind, key, print) == <<<<kind, key>>, print>>

Residual(book, row) ==
  row.amount - Sum({l \in CurrentLinks(book) : l.ref = RefOf(row)})

OfBook(book) ==
  {Found("import-quarantine", i, "unresolved") : i \in Unresolved(book)}
  \cup {Found("billing-residual", row.source, <<row.revision, Residual(book, row)>>) :
          row \in {r \in book.active : Residual(book, r) # 0}}
  \cup {Found("estimated-source", row.source, <<row.revision, row.amount>>) :
          row \in {r \in book.active : ~r.final}}

Differs(book, att, a) ==
  /\ att[a].status = "settled"
  /\ LinksOf(book, a) = {} \/ Sum(LinksOf(book, a)) # att[a].cost

Differences(book, att) ==
  {Found("ledger-difference", a, <<att[a].cost, LinksOf(book, a)>>) :
     a \in {b \in BillAttempt : Differs(book, att, b)}}

\* deriveCases, without what concerns task outcomes and shared costs.  There is
\* a book once an import was made.
Findings(book, att) ==
  {Found("unknown-cost", a, att[a].status) :
     a \in {b \in BillAttempt : att[b].status \in {"reserved", "unreconciled"}}}
  \cup IF book.runs = <<>> THEN {Found("missing-billing", "workspace", "missing")}
                           ELSE OfBook(book) \cup Differences(book, att)

NewCase(print) == [print |-> print, active |-> TRUE, status |-> "open", reviewed |-> {}]

\* A finding that changed or returned reopens its case.
CaseAgain(case, print) ==
  [case EXCEPT !.print = print, !.active = TRUE,
               !.status = IF case.active /\ case.print = print THEN @ ELSE "open"]

SyncedCases(cases, findings) ==
  LET found == {f[1] : f \in findings}
      printOf(id) == (CHOOSE f \in findings : f[1] = id)[2]
  IN [id \in DOMAIN cases \cup found |->
        IF id \notin found THEN [cases[id] EXCEPT !.active = FALSE]
        ELSE IF id \in DOMAIN cases THEN CaseAgain(cases[id], printOf(id))
        ELSE NewCase(printOf(id))]
-----------------------------------------------------------------------------
(* Imports and settlements, with what they were computed from *)

BillingInit ==
  /\ fbAttempt = [a \in BillAttempt |-> [status |-> "none", cost |-> NoCost]]
  /\ fbBook = [runs |-> <<>>, history |-> {}, active |-> {}, links |-> {}]
  /\ fbCases = SyncedCases([id \in {} |-> {}], Findings(fbBook, fbAttempt))
  /\ fbJob = Resting

\* What changes the records renders the page, which evaluates them.
Rendered(book, att) ==
  /\ fbBook' = book /\ fbAttempt' = att
  /\ fbCases' = SyncedCases(fbCases, Findings(book, att))

Start(att, book) ==
  /\ fbJob = Resting
  /\ fbJob' = [base |-> <<fbAttempt, fbBook, fbCases>>, attempt |-> att, book |-> book]
  /\ UNCHANGED <<fbAttempt, fbBook, fbCases>>

ImportBilling(b, resolves) ==
  /\ Len(fbBook.runs) < MaxRuns
  /\ Importable(fbBook, b, resolves)
  /\ Start(fbAttempt, Imported(fbBook, b, resolves))

SettleFromBilling(a) ==
  /\ Billable(fbBook, fbAttempt, a)
  /\ Start(Settled(fbAttempt, a, Sum(LinksOf(fbBook, a))), fbBook)

\* A mutation: the result is committed on whatever there is by then.
OnAnything == TRUE

OnItsBase == fbJob.base = <<fbAttempt, fbBook, fbCases>>

CommitJob ==
  /\ fbJob # Resting
  /\ OnItsBase
  /\ Rendered(fbJob.book, fbJob.attempt)
  /\ fbJob' = Resting

\* It fails, or the records changed: "Nothing imported; retry against current
\* records".
DropJob ==
  /\ fbJob # Resting
  /\ fbJob' = Resting
  /\ UNCHANGED <<fbAttempt, fbBook, fbCases>>
-----------------------------------------------------------------------------
(* What the user does in one go.  The billing view is busy during a job. *)

Relinked(links) ==
  /\ fbJob = Resting
  /\ Rendered([fbBook EXCEPT !.links = links], fbAttempt)
  /\ UNCHANGED fbJob

LinkBilling(l) == LinkFits(fbBook, fbAttempt, l) /\ Relinked(fbBook.links \cup {l})
UnlinkBilling(l) == l \in CurrentLinks(fbBook) /\ Relinked(fbBook.links \ {l})

Recorded(att) == Rendered(fbBook, att) /\ UNCHANGED fbJob

ReserveByHand(a) ==
  /\ fbAttempt[a].status = "none"
  /\ Recorded([fbAttempt EXCEPT ![a].status = "reserved"])

\* The settle form: a final cost, or that it is not known.
SettleByHand(a) ==
  \/ /\ fbAttempt[a].status \in {"reserved", "unreconciled"}
     /\ \E c \in HandCost : Recorded(Settled(fbAttempt, a, c))
  \/ /\ fbAttempt[a].status = "reserved"
     /\ Recorded([fbAttempt EXCEPT ![a].status = "unreconciled"])

\* updateCase with a reason, on the finding as the case states it.
CloseCase(id) ==
  /\ id[1] \in Reviewable /\ fbCases[id].status = "open"
  /\ fbCases' = [fbCases EXCEPT ![id].status = "closed",
                                ![id].reviewed = {fbCases[id].print}]
  /\ UNCHANGED <<fbAttempt, fbBook, fbJob>>

BillingNext ==
  \/ \E b \in Batch, resolves \in SUBSET Unresolved(fbBook) : ImportBilling(b, resolves)
  \/ \E a \in BillAttempt : SettleFromBilling(a) \/ ReserveByHand(a) \/ SettleByHand(a)
  \/ CommitJob
  \/ DropJob
  \/ \E l \in BillLink : LinkBilling(l)
  \/ \E l \in fbBook.links : UnlinkBilling(l)
  \/ \E id \in DOMAIN fbCases : CloseCase(id)

BillingSpec == BillingInit /\ [][BillingNext]_fbVars
-----------------------------------------------------------------------------
(* Properties *)

\* The settled costs that no ledger difference questions are no more than what
\* the source bills, whatever was superseded, removed or linked again since they
\* were settled, and a case is closed only by a review of the finding as it is
\* (deriveCases and syncCases, palo-finops-operations.js).
CostsExplained ==
  LET shown == {id \in DOMAIN fbCases : fbCases[id].active}
      unquestioned == {a \in BillAttempt : fbAttempt[a].status = "settled"
                                           /\ <<"ledger-difference", a>> \notin shown}
      billed == {row \in fbBook.active : row.amount > 0}
  IN /\ fbBook.runs # <<>> =>
          SumFunctionOnSet([a \in unquestioned |-> fbAttempt[a].cost], unquestioned)
            <= SumFunctionOnSet([row \in billed |-> row.amount], billed)
     /\ \A id \in shown : fbCases[id].status = "closed" =>
          fbCases[id].reviewed = {fbCases[id].print}
          /\ <<id, fbCases[id].print>> \in Findings(fbBook, fbAttempt)

\* Nothing that is on record is lost to an import or a settlement that was
\* computed before it: attempts are neither forgotten nor settled again,
\* revisions stay in the history and runs as they were but for their
\* resolution (run, palo-finops-billing-ui.js:41).
RecordsStand ==
  [][/\ \A a \in BillAttempt :
          /\ fbAttempt[a].status # "none" => fbAttempt'[a].status # "none"
          /\ fbAttempt[a].status = "unreconciled" => fbAttempt'[a].status # "reserved"
          /\ fbAttempt[a].status = "settled" => fbAttempt'[a] = fbAttempt[a]
     /\ fbBook.history \subseteq fbBook'.history
     /\ \A i \in DOMAIN fbBook.runs :
          /\ i \in DOMAIN fbBook'.runs /\ fbBook'.runs[i].batch = fbBook.runs[i].batch
          /\ fbBook.runs[i].status \in {fbBook'.runs[i].status, "quarantined"}
     /\ \A id \in DOMAIN fbCases : id \in DOMAIN fbCases']_fbVars
=============================================================================
