------------------------------ MODULE Hub_proofs ------------------------------
(* Theorems about the Governance Hub: the bundle lifecycle and the audit    *)
(* chain of its control plane, its logins, its guided builder and its       *)
(* review of signals.                                                       *)
EXTENDS HubService, HubLogin, HubWizard, SignalRegistry, FiniteInduction

-----------------------------------------------------------------------------
(* The control plane.                                                       *)

Holds(k) == hubCall[k].at \in Open /\ hubCall[k].to \in Status

\* One transaction at a time holds the audit chain, with its latest digest.
ChainHeld ==
  \A k \in HubCall : hubCall[k].at = "chained" =>
    /\ hubCall[k].prev = Len(hubAudit)
    /\ \A j \in HubCall : hubCall[j].at = "chained" => j = k

\* One at a time holds a row, which stays as it was expected.
RowsHeld ==
  \A k \in HubCall : Holds(k) =>
    /\ hubBundle[hubCall[k].bundle].status = Expected[hubCall[k].to]
    /\ \A j \in HubCall : Holds(j) /\ hubCall[j].bundle = hubCall[k].bundle => j = k

\* The identifier of a draft in flight is its own.
DraftsApart ==
  \A k \in HubCall : hubCall[k] # AtRest /\ hubCall[k].to = "draft" =>
    /\ ~Stored(hubCall[k].bundle)
    /\ \A j \in HubCall :
         hubCall[j] # AtRest /\ hubCall[j].to = "draft"
         /\ hubCall[j].bundle = hubCall[k].bundle => j = k

\* Who reviews a bundle is not its author, who does not change.
ReviewersOther ==
  \A k \in HubCall :
    hubCall[k] # AtRest /\ hubCall[k].to \in {"approved", "rejected"} =>
      Stored(hubCall[k].bundle) /\ hubBundle[hubCall[k].bundle].author # hubCall[k].by

\* A bundle that is still to be reviewed has no review on record.
UnreviewedYet ==
  \A b \in Bundle : hubBundle[b].status \in {"missing", "draft", "in_review"} =>
    \A i \in EventsOf(b) : hubAudit[i].what \notin {"approved", "rejected"}

HubInv ==
  /\ HubTypeOK
  /\ ChainHeld /\ RowsHeld /\ DraftsApart /\ ReviewersOther
  /\ UnreviewedYet
  /\ HubOnRecord

LEMMA StatusIs ==
  /\ Status = {"draft", "in_review", "approved", "rejected", "published"}
  /\ Expected["draft"] = "missing" /\ Expected["in_review"] = "draft"
  /\ Expected["approved"] = "in_review" /\ Expected["rejected"] = "in_review"
  /\ Expected["published"] = "approved"
BY DEF Status, Expected

LEMMA CallFields ==
  ASSUME NEW c \in InFlight
  PROVE  /\ c # AtRest /\ c.at \in {"sign", "ready", "locked", "chained"}
         /\ c.to \in Status \cup {"simulated", "read"} /\ c.by \in Person
         /\ c.bundle \in Bundle /\ c.prev \in 0..MaxAudit
BY DEF InFlight, AtRest

LEMMA RowFields ==
  ASSUME NEW row \in BundleRow
  PROVE  /\ row.status \in Status \cup {"missing"}
         /\ row = Missing \/ row \in [status : Status, author : Person,
                                      reviewer : Person \cup {Nobody}]
         /\ row = Missing <=> row.status = "missing"
BY StatusIs DEF BundleRow, Missing

LEMMA HubInvInit == HubInit => HubInv
<1> SUFFICES ASSUME HubInit PROVE HubInv
  OBVIOUS
<1>1. HubTypeOK
  BY DEF HubInit, HubTypeOK, BundleRow
<1>2. \A b \in Bundle : EventsOf(b) = {}
  BY DEF HubInit, EventsOf
<1>3. \A k \in HubCall : hubCall[k] = AtRest /\ hubCall[k].at \notin {"chained", "locked"}
  BY DEF HubInit, AtRest
<1>4. HubOnRecord
  BY <1>2 DEF HubInit, HubOnRecord, HubAuditChained, HubLifecycleOnRecord, StatusAfter, Missing
<1>5. ChainHeld /\ RowsHeld /\ DraftsApart /\ ReviewersOther
  BY <1>3 DEF ChainHeld, RowsHeld, Holds, Open, DraftsApart, ReviewersOther
<1> QED
  BY <1>1, <1>2, <1>4, <1>5 DEF HubInv, UnreviewedYet

\* A request that takes a step before its commit, or ends without one.
LEMMA CallGoes ==
  ASSUME HubInv, NEW k \in HubCall, NEW c \in InFlight \cup {AtRest}, HubGo(k, c),
         c.at = "chained" =>
           c.prev = Len(hubAudit) /\ \A j \in HubCall \ {k} : hubCall[j].at # "chained",
         c.at \in Open /\ c.to \in Status =>
           /\ hubBundle[c.bundle].status = Expected[c.to]
           /\ \A j \in HubCall \ {k} : Holds(j) => hubCall[j].bundle # c.bundle,
         c # AtRest /\ c.to = "draft" =>
           /\ ~Stored(c.bundle)
           /\ \A j \in HubCall \ {k} :
                hubCall[j] # AtRest /\ hubCall[j].to = "draft" => hubCall[j].bundle # c.bundle,
         c # AtRest /\ c.to \in {"approved", "rejected"} =>
           Stored(c.bundle) /\ hubBundle[c.bundle].author # c.by
  PROVE  HubInv'
<1>1. /\ hubCall'[k] = c /\ \A j \in HubCall \ {k} : hubCall'[j] = hubCall[j]
      /\ UNCHANGED <<hubBundle, hubSimulated, hubAudit>>
  BY DEF HubGo, HubInv, HubTypeOK
<1>2. HubTypeOK'
  BY DEF HubGo, HubInv, HubTypeOK
<1>3. ChainHeld'
  BY <1>1 DEF HubInv, ChainHeld
<1>4. RowsHeld'
  <2>1. \A j \in HubCall \ {k} : Holds(j)' <=> Holds(j)
    BY <1>1 DEF Holds
  <2>2. Holds(k)' <=> c.at \in Open /\ c.to \in Status
    BY <1>1 DEF Holds
  <2> QED
    BY <1>1, <2>1, <2>2 DEF HubInv, RowsHeld
<1>5. DraftsApart'
  BY <1>1 DEF HubInv, DraftsApart, Stored
<1>6. ReviewersOther'
  BY <1>1 DEF HubInv, ReviewersOther, Stored
<1>7. UnreviewedYet' /\ HubOnRecord'
  <2>1. \A b \in Bundle : EventsOf(b)' = EventsOf(b)
    BY <1>1 DEF EventsOf
  <2>2. UnreviewedYet'
    BY <1>1, <2>1 DEF HubInv, UnreviewedYet
  <2>3. HubAuditChained'
    BY <1>1 DEF HubInv, HubOnRecord, HubAuditChained
  <2>4. HubLifecycleOnRecord'
    BY <1>1, <2>1 DEF HubInv, HubOnRecord, HubLifecycleOnRecord, StatusAfter
  <2> QED
    BY <2>2, <2>3, <2>4 DEF HubOnRecord
<1> QED
  BY <1>2, <1>3, <1>4, <1>5, <1>6, <1>7 DEF HubInv

LEMMA CallIs ==
  ASSUME HubTypeOK, NEW k \in HubCall, hubCall[k] # AtRest
  PROVE  hubCall[k] \in InFlight
BY DEF HubTypeOK

LEMMA CallEnters ==
  ASSUME HubInv, NEW k \in HubCall, NEW p \in Person, NEW b \in Bundle,
         NEW to \in Status \cup {"simulated", "read"}, NEW at \in {"sign", "ready"},
         Enter(k, p, b, to, at),
         to = "draft" => ~Taken(b),
         to \in {"approved", "rejected"} => Stored(b) /\ hubBundle[b].author # p
  PROVE  HubInv'
<1> DEFINE c == [at |-> at, to |-> to, by |-> p, bundle |-> b,
                 seen |-> hubBundle[b].status, prev |-> 0]
<1>1. hubBundle[b].status \in Status \cup {"missing"}
  BY RowFields DEF HubInv, HubTypeOK
<1>2. c \in InFlight
  BY <1>1, HubAssumption DEF InFlight
<1>3. c.at \notin {"locked", "chained"} /\ c.to = to /\ c.by = p /\ c.bundle = b /\ HubGo(k, c)
  BY DEF Enter
<1>4. to = "draft" =>
        /\ ~Stored(b)
        /\ \A j \in HubCall \ {k} :
             hubCall[j] # AtRest /\ hubCall[j].to = "draft" => hubCall[j].bundle # b
  BY DEF Taken
<1> HIDE DEF c
<1> QED
  BY <1>2, <1>3, <1>4, CallGoes DEF Open

\* A request goes on, for the same transition of the same bundle.
LEMMA CallProceeds ==
  ASSUME HubInv, NEW k \in HubCall, hubCall[k] # AtRest, NEW c \in InFlight, HubGo(k, c),
         c.to = hubCall[k].to, c.by = hubCall[k].by, c.bundle = hubCall[k].bundle,
         c.at = "chained" =>
           c.prev = Len(hubAudit) /\ \A j \in HubCall \ {k} : hubCall[j].at # "chained",
         c.at \in Open /\ c.to \in Status =>
           /\ hubBundle[c.bundle].status = Expected[c.to]
           /\ \A j \in HubCall \ {k} : Holds(j) => hubCall[j].bundle # c.bundle
  PROVE  HubInv'
<1>1. c.to = "draft" =>
        /\ ~Stored(c.bundle)
        /\ \A j \in HubCall \ {k} :
             hubCall[j] # AtRest /\ hubCall[j].to = "draft" => hubCall[j].bundle # c.bundle
  BY DEF HubInv, DraftsApart
<1>2. c.to \in {"approved", "rejected"} =>
        Stored(c.bundle) /\ hubBundle[c.bundle].author # c.by
  BY DEF HubInv, ReviewersOther
<1> QED
  BY <1>1, <1>2, CallGoes

LEMMA CallSigned ==
  ASSUME HubInv, NEW k \in HubCall, Sign(k)
  PROVE  HubInv'
<1> DEFINE c == [hubCall[k] EXCEPT !.at = "ready"]
<1>1. hubCall[k] # AtRest /\ hubCall[k] \in InFlight
  BY DEF Sign, AtRest, HubInv, HubTypeOK
<1>2. /\ c \in InFlight /\ c.at = "ready" /\ c.to = hubCall[k].to
      /\ c.by = hubCall[k].by /\ c.bundle = hubCall[k].bundle
  BY <1>1 DEF InFlight
<1>3. HubGo(k, c)
  BY DEF Sign
<1> HIDE DEF c
<1> QED
  BY <1>1, <1>2, <1>3, CallProceeds DEF Open

\* The check under the lock: for a draft its row is missing, as it is new.
LEMMA RowLocked ==
  ASSUME HubInv, NEW k \in HubCall, LockRow(k)
  PROVE  HubInv'
<1> DEFINE b == hubCall[k].bundle
           c == [hubCall[k] EXCEPT !.at = "locked"]
<1>1. /\ hubCall[k] # AtRest /\ hubCall[k] \in InFlight /\ b \in Bundle
      /\ hubCall[k].at = "ready" /\ hubCall[k].to \in Status
  <2>1. hubCall[k].at = "ready" /\ hubCall[k].to \in Status
    BY DEF LockRow
  <2>2. hubCall[k] # AtRest
    BY <2>1 DEF AtRest
  <2> QED
    BY <2>1, <2>2, CallIs, CallFields DEF HubInv
<1>2. /\ c \in InFlight /\ c.at = "locked" /\ c.to = hubCall[k].to
      /\ c.by = hubCall[k].by /\ c.bundle = b
  BY <1>1 DEF InFlight
<1>3. HubGo(k, c)
  BY DEF LockRow
<1>4. hubBundle[b].status = Expected[hubCall[k].to]
  <2>1. CASE hubCall[k].to = "draft"
    <3>1. hubBundle[b] = Missing
      BY <1>1, <2>1 DEF HubInv, DraftsApart, Stored
    <3> QED
      BY <2>1, <3>1, StatusIs DEF Missing
  <2>2. CASE hubCall[k].to # "draft"
    BY <2>2 DEF LockRow, AsExpected
  <2> QED
    BY <2>1, <2>2
<1>5. \A j \in HubCall : Holds(j) => hubCall[j].bundle # b
  BY DEF LockRow, LockFree, DigestFree, RowFree, Holds
<1> HIDE DEF c
<1> QED
  BY <1>1, <1>2, <1>3, <1>4, <1>5, CallProceeds

LEMMA LatestRead ==
  ASSUME HubInv, NEW k \in HubCall, ReadLatest(k)
  PROVE  HubInv'
<1> DEFINE c == [hubCall[k] EXCEPT !.at = "chained", !.prev = Len(hubAudit)]
<1>1. /\ hubCall[k].at = "locked" \/ (hubCall[k].at = "ready" /\ hubCall[k].to \notin Status)
      /\ \A j \in HubCall : hubCall[j].at # "chained"
      /\ Len(hubAudit) \in 0..MaxAudit
  BY HubAssumption DEF ReadLatest, ChainFree, HubInv, HubTypeOK
<1>2. hubCall[k] # AtRest /\ hubCall[k] \in InFlight
  BY <1>1 DEF AtRest, HubInv, HubTypeOK
<1>3. /\ c \in InFlight /\ c.at = "chained" /\ c.prev = Len(hubAudit)
      /\ c.to = hubCall[k].to /\ c.by = hubCall[k].by /\ c.bundle = hubCall[k].bundle
  BY <1>1, <1>2 DEF InFlight
<1>4. HubGo(k, c)
  BY DEF ReadLatest
<1>5. hubCall[k].to \in Status =>
        /\ hubBundle[hubCall[k].bundle].status = Expected[hubCall[k].to]
        /\ \A j \in HubCall \ {k} : Holds(j) => hubCall[j].bundle # hubCall[k].bundle
  <2>1. hubCall[k].to \in Status => Holds(k)
    BY <1>1 DEF Holds, Open
  <2> QED
    BY <2>1 DEF HubInv, RowsHeld
<1> HIDE DEF c
<1> QED
  BY <1>1, <1>2, <1>3, <1>4, <1>5, CallProceeds

LEMMA CallEnds ==
  ASSUME HubInv, NEW k \in HubCall, HubGo(k, AtRest)
  PROVE  HubInv'
<1>1. AtRest.at \notin {"locked", "chained"}
  BY DEF AtRest
<1> QED
  BY <1>1, CallGoes DEF Open

\* What some events lead to does not change when another is appended.
LeadsTo(audit, events) == IF events = {} THEN "missing" ELSE audit[Max(events)].what

LEMMA AuditGrows ==
  ASSUME hubAudit \in Seq(AuditEvent), NEW e,
         NEW events \in SUBSET (1..Len(hubAudit))
  PROVE  /\ LeadsTo(Append(hubAudit, e), events) = LeadsTo(hubAudit, events)
         /\ events # {} => Max(events) \in events
<1>1. Len(hubAudit) \in Nat /\ \A i \in 1..Len(hubAudit) : Append(hubAudit, e)[i] = hubAudit[i]
  OBVIOUS
<1>2. ASSUME events # {} PROVE Max(events) \in events
  <2>1. events \in SUBSET Nat /\ \A i \in events : i <= Len(hubAudit)
    BY <1>1
  <2> QED
    BY <1>1, <1>2, <2>1, GreatestNatural
<1> QED
  BY <1>1, <1>2 DEF LeadsTo

\* The row that is committed.
LEMMA RowPatched ==
  ASSUME HubInv, NEW k \in HubCall, hubCall[k].at = "chained"
  PROVE  LET c == hubCall[k]
             row == hubBundle[c.bundle]
             new == Patched(c) IN
         /\ c \in InFlight /\ c.bundle \in Bundle /\ new \in BundleRow
         /\ c.to \notin Status => new = row
         /\ c.to \in Status =>
              /\ row.status = Expected[c.to] /\ new.status = c.to
              /\ c.to = "draft" => row = Missing /\ new.author = c.by
              /\ c.to # "draft" => row # Missing /\ new.author = row.author
              /\ c.to \in {"approved", "rejected"} =>
                   new.reviewer = c.by /\ row.author # c.by
              /\ c.to \notin {"draft", "approved", "rejected"} => new.reviewer = row.reviewer
<1> DEFINE c == hubCall[k]
           row == hubBundle[c.bundle]
           new == Patched(c)
<1>1. c # AtRest
  BY DEF AtRest
<1>2. /\ c \in InFlight /\ c.bundle \in Bundle /\ c.by \in Person
      /\ c.to \in Status \cup {"simulated", "read"}
  BY <1>1, CallIs, CallFields DEF HubInv
<1>3. row \in BundleRow
  BY <1>2 DEF HubInv, HubTypeOK
<1>4. CASE c.to \notin Status
  <2>1. new = row
    BY <1>4, StatusIs DEF Patched
  <2> QED
    BY <1>2, <1>3, <1>4, <2>1
<1>5. CASE c.to \in Status
  <2>1. row.status = Expected[c.to]
    BY <1>5 DEF HubInv, RowsHeld, Holds, Open
  <2>2. CASE c.to = "draft"
    <3>1. new = [status |-> "draft", author |-> c.by, reviewer |-> Nobody]
      BY <2>2 DEF Patched
    <3>2. row = Missing
      BY <1>3, <2>1, <2>2, StatusIs, RowFields
    <3>3. new \in BundleRow
      BY <1>2, <3>1, StatusIs DEF BundleRow
    <3> QED
      BY <1>2, <1>5, <2>1, <2>2, <3>1, <3>2, <3>3
  <2>3. CASE c.to # "draft"
    <3>1. row # Missing
      BY <1>3, <1>5, <2>1, <2>3, StatusIs, RowFields
    <3>2. row \in [status : Status, author : Person, reviewer : Person \cup {Nobody}]
      BY <1>3, <3>1, RowFields
    <3>3. CASE c.to \in {"approved", "rejected"}
      <4>1. new = [row EXCEPT !.status = c.to, !.reviewer = c.by]
        BY <3>3 DEF Patched
      <4>2. /\ new \in [status : Status, author : Person, reviewer : Person \cup {Nobody}]
            /\ new.status = c.to /\ new.author = row.author /\ new.reviewer = c.by
        BY <1>2, <1>5, <3>2, <4>1
      <4>3. row.author # c.by
        BY <1>1, <3>3 DEF HubInv, ReviewersOther
      <4> QED
        BY <1>2, <1>5, <2>1, <2>3, <3>1, <3>3, <4>2, <4>3 DEF BundleRow
    <3>4. CASE c.to \in {"in_review", "published"}
      <4>1. new = [row EXCEPT !.status = c.to]
        BY <3>4 DEF Patched
      <4>2. /\ new \in [status : Status, author : Person, reviewer : Person \cup {Nobody}]
            /\ new.status = c.to /\ new.author = row.author /\ new.reviewer = row.reviewer
        BY <1>2, <1>5, <3>2, <4>1
      <4> QED
        BY <1>2, <1>5, <2>1, <2>3, <3>1, <3>4, <4>2 DEF BundleRow
    <3> QED
      BY <1>5, <2>3, <3>3, <3>4, StatusIs
  <2> QED
    BY <2>2, <2>3
<1> QED
  BY <1>4, <1>5

LEMMA Committed ==
  ASSUME HubInv, NEW k \in HubCall, Commit(k)
  PROVE  HubInv'
<1> DEFINE c == hubCall[k]
           row == hubBundle[c.bundle]
           new == Patched(c)
           e == [what |-> c.to, by |-> c.by, bundle |-> c.bundle, prev |-> c.prev]
           n == Len(hubAudit) + 1
<1>1. c.at = "chained"
  BY DEF Commit
<1>2. /\ c \in InFlight /\ c.bundle \in Bundle /\ new \in BundleRow
      /\ c.to \notin Status => new = row
      /\ c.to \in Status =>
           /\ row.status = Expected[c.to] /\ new.status = c.to
           /\ c.to = "draft" => row = Missing /\ new.author = c.by
           /\ c.to # "draft" => row # Missing /\ new.author = row.author
           /\ c.to \in {"approved", "rejected"} => new.reviewer = c.by /\ row.author # c.by
           /\ c.to \notin {"draft", "approved", "rejected"} => new.reviewer = row.reviewer
  BY <1>1, RowPatched
<1>3. /\ hubBundle' = [hubBundle EXCEPT ![c.bundle] = new]
      /\ hubAudit' = Append(hubAudit, e)
      /\ hubCall' = [hubCall EXCEPT ![k] = AtRest]
  BY DEF Commit
<1>4. /\ hubBundle'[c.bundle] = new
      /\ \A b \in Bundle \ {c.bundle} : hubBundle'[b] = hubBundle[b]
      /\ hubCall'[k] = AtRest /\ \A j \in HubCall \ {k} : hubCall'[j] = hubCall[j]
  BY <1>2, <1>3 DEF HubInv, HubTypeOK
<1>5. e \in AuditEvent /\ e.what = c.to /\ e.by = c.by /\ e.bundle = c.bundle
      /\ e.prev = Len(hubAudit)
  BY <1>1, <1>2, CallFields DEF AuditEvent, HubInv, ChainHeld
<1>6. hubAudit \in Seq(AuditEvent) /\ Len(hubAudit) \in Nat
  BY DEF HubInv, HubTypeOK
<1> HIDE DEF new, e
<1>7. /\ hubAudit' \in Seq(AuditEvent) /\ Len(hubAudit') = n /\ hubAudit'[n] = e
      /\ DOMAIN hubAudit = 1..Len(hubAudit) /\ DOMAIN hubAudit' = 1..n
      /\ \A i \in 1..Len(hubAudit) : hubAudit'[i] = hubAudit[i]
  BY <1>3, <1>5, <1>6
<1>8. HubTypeOK'
  <2>1. hubSimulated' \subseteq Digest
    BY <1>2, HubAssumption DEF Commit, HubInv, HubTypeOK
  <2>2. hubBundle' \in [Bundle -> BundleRow]
    BY <1>2, <1>3 DEF HubInv, HubTypeOK
  <2>3. hubCall' \in [HubCall -> InFlight \cup {AtRest}]
    BY <1>3 DEF HubInv, HubTypeOK
  <2> QED
    BY <1>7, <2>1, <2>2, <2>3 DEF HubTypeOK
<1>9. ChainHeld'
  BY <1>1, <1>4 DEF HubInv, ChainHeld, AtRest
<1>10. RowsHeld'
  <2>1. \A j \in HubCall : Holds(j)' => j # k /\ Holds(j)
    BY <1>4 DEF Holds, Open, AtRest
  <2>2. c.to \in Status => Holds(k)
    BY <1>1 DEF Holds, Open
  <2>3. ASSUME NEW j \in HubCall, Holds(j)'
        PROVE  hubBundle'[hubCall[j].bundle] = hubBundle[hubCall[j].bundle]
    <3>1. hubCall[j].bundle \in Bundle
      <4>1. hubCall[j] # AtRest
        BY <2>1, <2>3 DEF Holds, Open, AtRest
      <4> QED
        BY <4>1, CallIs, CallFields DEF HubInv
    <3>2. CASE c.to \in Status
      BY <1>4, <2>1, <2>2, <2>3, <3>1, <3>2 DEF HubInv, RowsHeld
    <3>3. CASE c.to \notin Status
      BY <1>2, <1>4, <3>1, <3>3
    <3> QED
      BY <3>2, <3>3
  <2> QED
    BY <1>4, <2>1, <2>3 DEF HubInv, RowsHeld
<1>11. DraftsApart'
  <2>1. ASSUME NEW j \in HubCall, j # k, hubCall[j] # AtRest, hubCall[j].to = "draft"
        PROVE  hubBundle'[hubCall[j].bundle] = Missing
    <3>1. hubBundle[hubCall[j].bundle] = Missing /\ hubCall[j].bundle \in Bundle
      BY <2>1, CallIs, CallFields DEF HubInv, DraftsApart, Stored
    <3>2. CASE c.to = "draft"
      <4>1. c # AtRest
        BY <1>2, CallFields
      <4>2. hubCall[j].bundle # c.bundle
        BY <2>1, <3>2, <4>1 DEF HubInv, DraftsApart
      <4> QED
        BY <1>4, <3>1, <4>2
    <3>3. CASE c.to # "draft"
      BY <1>2, <1>4, <3>1, <3>3
    <3> QED
      BY <3>2, <3>3
  <2> QED
    BY <1>4, <2>1 DEF HubInv, DraftsApart, Stored
<1>12. ReviewersOther'
  <2>1. ASSUME NEW j \in HubCall, j # k, hubCall[j] # AtRest,
               hubCall[j].to \in {"approved", "rejected"}
        PROVE  /\ hubBundle'[hubCall[j].bundle] # Missing
               /\ hubBundle'[hubCall[j].bundle].author # hubCall[j].by
    <3>1. /\ hubBundle[hubCall[j].bundle] # Missing /\ hubCall[j].bundle \in Bundle
          /\ hubBundle[hubCall[j].bundle].author # hubCall[j].by
      BY <2>1, CallIs, CallFields DEF HubInv, ReviewersOther, Stored
    <3>2. CASE hubCall[j].bundle = c.bundle /\ c.to \in Status
      <4>1. row # Missing
        BY <3>1, <3>2
      <4>2. new.author = row.author /\ new.status # "missing"
        BY <1>2, <3>2, <4>1, StatusIs
      <4> QED
        BY <1>4, <3>1, <3>2, <4>2 DEF Missing
    <3>3. CASE hubCall[j].bundle # c.bundle \/ c.to \notin Status
      BY <1>2, <1>4, <3>1, <3>3
    <3> QED
      BY <3>2, <3>3
  <2> QED
    BY <1>4, <2>1 DEF HubInv, ReviewersOther, Stored
<1>13. \A S \in SUBSET (1..Len(hubAudit)) :
         /\ LeadsTo(hubAudit', S) = LeadsTo(hubAudit, S)
         /\ S # {} => Max(S) \in S
  BY <1>3, <1>6, AuditGrows
<1>14. \A b \in Bundle : EventsOf(b) \subseteq 1..Len(hubAudit)
  BY <1>7 DEF EventsOf
<1>15. \A b \in Bundle :
         EventsOf(b)' = IF b = c.bundle /\ c.to \in Status THEN EventsOf(b) \cup {n} ELSE EventsOf(b)
  <2>1. ASSUME NEW b \in Bundle, NEW i
        PROVE  i \in EventsOf(b)' <=>
                 \/ i \in EventsOf(b)
                 \/ i = n /\ b = c.bundle /\ c.to \in Status
    <3>1. i \in 1..n <=> i \in 1..Len(hubAudit) \/ i = n
      BY <1>6
    <3>2. n \notin 1..Len(hubAudit)
      BY <1>6
    <3>3. i \in EventsOf(b)' <=> i \in 1..n /\ hubAudit'[i].bundle = b /\ hubAudit'[i].what \in Status
      BY <1>7 DEF EventsOf
    <3>4. i \in EventsOf(b) <=>
            i \in 1..Len(hubAudit) /\ hubAudit[i].bundle = b /\ hubAudit[i].what \in Status
      BY <1>7 DEF EventsOf
    <3> HIDE DEF c, n
    <3> QED
      BY <1>5, <1>7, <3>1, <3>2, <3>3, <3>4
  <2> HIDE DEF c, n
  <2> QED
    BY <2>1
<1>16. HubAuditChained'
  <2>1. \A i \in 1..n : i \in 1..Len(hubAudit) \/ i = n
    BY <1>6
  <2>2. n - 1 = Len(hubAudit)
    BY <1>6
  <2> QED
    BY <1>5, <1>7, <2>1, <2>2 DEF HubInv, HubOnRecord, HubAuditChained
<1>17. ASSUME NEW b \in Bundle
       PROVE  /\ hubBundle[b].status = LeadsTo(hubAudit, EventsOf(b))
              /\ \A i \in EventsOf(b) :
                   /\ Expected[hubAudit[i].what]
                        = LeadsTo(hubAudit, {j \in EventsOf(b) : j < i})
                   /\ hubAudit[i].what = "draft" => hubBundle[b].author = hubAudit[i].by
                   /\ hubAudit[i].what \in {"approved", "rejected"} =>
                        /\ hubBundle[b].reviewer = hubAudit[i].by
                        /\ hubBundle[b].reviewer # hubBundle[b].author
  BY DEF HubInv, HubOnRecord, HubLifecycleOnRecord, StatusAfter, LeadsTo
\* What has no status has no event, and what is not reviewed no review.
<1>18. ASSUME NEW b \in Bundle
       PROVE  /\ hubBundle[b].status = "missing" => EventsOf(b) = {}
              /\ hubBundle[b].status \in {"missing", "draft", "in_review"} =>
                   \A i \in EventsOf(b) : hubAudit[i].what \notin {"approved", "rejected"}
  <2>1. ASSUME EventsOf(b) # {} PROVE hubBundle[b].status # "missing"
    <3>1. Max(EventsOf(b)) \in EventsOf(b)
      BY <1>13, <1>14, <2>1
    <3>2. hubAudit[Max(EventsOf(b))].what # "missing"
      BY <3>1, StatusIs DEF EventsOf
    <3> QED
      BY <1>17, <2>1, <3>2 DEF LeadsTo
  <2> QED
    BY <2>1 DEF HubInv, UnreviewedYet
<1>19. ASSUME NEW b \in Bundle, b # c.bundle \/ c.to \notin Status
       PROVE  /\ EventsOf(b)' = EventsOf(b) /\ hubBundle'[b] = hubBundle[b]
              /\ \A i \in EventsOf(b) : hubAudit'[i] = hubAudit[i]
  BY <1>2, <1>4, <1>7, <1>14, <1>15, <1>19
\* The new event of the bundle whose status changes.
<1>20. ASSUME NEW b \in Bundle, b = c.bundle, c.to \in Status
       PROVE  /\ EventsOf(b)' = EventsOf(b) \cup {n} /\ n \notin EventsOf(b)
              /\ Max(EventsOf(b) \cup {n}) = n /\ hubAudit'[n] = e
              /\ \A i \in EventsOf(b) : hubAudit'[i] = hubAudit[i]
              /\ {j \in EventsOf(b) \cup {n} : j < n} = EventsOf(b)
              /\ \A i \in EventsOf(b) :
                   {j \in EventsOf(b) \cup {n} : j < i} = {j \in EventsOf(b) : j < i}
  <2>1. /\ EventsOf(b) \subseteq Nat /\ n \in Nat
        /\ \A i \in EventsOf(b) : i < n /\ ~ (n < i) /\ i # n
        /\ ~ (n < n)
    <3>1. \A i \in 1..Len(hubAudit) : i \in Nat /\ i < n /\ ~ (n < i) /\ i # n
      BY <1>6
    <3>2. n \in Nat /\ ~ (n < n)
      BY <1>6
    <3> HIDE DEF n
    <3> QED
      BY <1>14, <3>1, <3>2
  <2> HIDE DEF n, c
  <2>2. Max(EventsOf(b) \cup {n}) = n
    BY <2>1, GreatestIsNewest
  <2>3. {j \in EventsOf(b) \cup {n} : j < n} = EventsOf(b)
    BY <2>1
  <2>4. \A i \in EventsOf(b) :
          {j \in EventsOf(b) \cup {n} : j < i} = {j \in EventsOf(b) : j < i}
    BY <2>1
  <2> QED
    BY <1>7, <1>14, <1>15, <1>20, <2>1, <2>2, <2>3, <2>4
<1> DEFINE OnRecord(b) ==
      /\ hubBundle'[b].status = LeadsTo(hubAudit', EventsOf(b)')
      /\ \A i \in EventsOf(b)' :
           /\ Expected[hubAudit'[i].what] = LeadsTo(hubAudit', {j \in EventsOf(b)' : j < i})
           /\ hubAudit'[i].what = "draft" => hubBundle'[b].author = hubAudit'[i].by
           /\ hubAudit'[i].what \in {"approved", "rejected"} =>
                /\ hubBundle'[b].reviewer = hubAudit'[i].by
                /\ hubBundle'[b].reviewer # hubBundle'[b].author
<1>21. \A b \in Bundle : \A i : {j \in EventsOf(b) : j < i} \subseteq 1..Len(hubAudit)
  BY <1>14
<1>22. ASSUME NEW b \in Bundle
       PROVE  OnRecord(b)
  <2>1. CASE b # c.bundle \/ c.to \notin Status
    <3>1. /\ EventsOf(b)' = EventsOf(b) /\ hubBundle'[b] = hubBundle[b]
          /\ \A i \in EventsOf(b) : hubAudit'[i] = hubAudit[i]
      BY <1>19, <2>1
    <3>2. LeadsTo(hubAudit', EventsOf(b)) = LeadsTo(hubAudit, EventsOf(b))
      BY <1>13, <1>14
    <3>3. \A i \in EventsOf(b) :
            LeadsTo(hubAudit', {j \in EventsOf(b) : j < i})
              = LeadsTo(hubAudit, {j \in EventsOf(b) : j < i})
      BY <1>13, <1>21
    <3> QED
      BY <1>17, <3>1, <3>2, <3>3
  <2>2. CASE b = c.bundle /\ c.to \in Status
    <3>1. /\ EventsOf(b)' = EventsOf(b) \cup {n} /\ hubBundle'[b] = new /\ row = hubBundle[b]
          /\ LeadsTo(hubAudit, EventsOf(b)) = Expected[c.to]
      BY <1>2, <1>4, <1>17, <1>20, <2>2
    <3>2. new.status = LeadsTo(hubAudit', EventsOf(b) \cup {n})
      BY <1>2, <1>5, <1>20, <2>2 DEF LeadsTo
    <3>3. /\ Expected[hubAudit'[n].what]
               = LeadsTo(hubAudit', {j \in EventsOf(b) \cup {n} : j < n})
          /\ hubAudit'[n].what = "draft" => new.author = hubAudit'[n].by
          /\ hubAudit'[n].what \in {"approved", "rejected"} =>
               new.reviewer = hubAudit'[n].by /\ new.reviewer # new.author
      <4>1. hubAudit'[n].what = c.to /\ hubAudit'[n].by = c.by
        BY <1>5, <1>20, <2>2
      <4>2. LeadsTo(hubAudit', {j \in EventsOf(b) \cup {n} : j < n}) = Expected[c.to]
        BY <1>13, <1>14, <1>20, <2>2, <3>1
      <4>3. c.to \in {"approved", "rejected"} => c.to # "draft"
        OBVIOUS
      <4> HIDE DEF c, n, row
      <4> QED
        BY <1>2, <2>2, <4>1, <4>2, <4>3
    <3>4. ASSUME NEW i \in EventsOf(b)
          PROVE  /\ Expected[hubAudit'[i].what]
                      = LeadsTo(hubAudit', {j \in EventsOf(b) \cup {n} : j < i})
                 /\ hubAudit'[i].what = "draft" => new.author = hubAudit'[i].by
                 /\ hubAudit'[i].what \in {"approved", "rejected"} =>
                      new.reviewer = hubAudit'[i].by /\ new.reviewer # new.author
      <4>1. /\ hubAudit'[i] = hubAudit[i]
            /\ {j \in EventsOf(b) \cup {n} : j < i} = {j \in EventsOf(b) : j < i}
        BY <1>20, <2>2
      <4>2. Expected[hubAudit'[i].what]
              = LeadsTo(hubAudit', {j \in EventsOf(b) \cup {n} : j < i})
        BY <1>13, <1>17, <1>21, <4>1
      <4>3. /\ row.status # "missing"
            /\ row.status \in {"draft", "in_review"} =>
                 hubAudit[i].what \notin {"approved", "rejected"}
        BY <1>18, <2>2
      <4>4. c.to \in Status /\ c.to # "draft"
        BY <1>2, <2>2, <4>3, StatusIs
      <4>5. new.author = row.author
        BY <1>2, <4>4
      <4>6. hubAudit[i].what \in {"approved", "rejected"} => new.reviewer = row.reviewer
        BY <1>2, <4>3, <4>4, StatusIs
      <4>7. /\ hubAudit[i].what = "draft" => row.author = hubAudit[i].by
            /\ hubAudit[i].what \in {"approved", "rejected"} =>
                 row.reviewer = hubAudit[i].by /\ row.reviewer # row.author
        BY <1>17, <2>2
      <4> HIDE DEF c, n, row
      <4> QED
        BY <4>1, <4>2, <4>5, <4>6, <4>7
    <3> HIDE DEF n, c, row
    <3> QED
      BY <3>1, <3>2, <3>3, <3>4
  <2> QED
    BY <2>1, <2>2
<1>23. HubLifecycleOnRecord'
  BY <1>22 DEF HubLifecycleOnRecord, StatusAfter, LeadsTo
<1>24. UnreviewedYet'
  <2>1. ASSUME NEW b \in Bundle, hubBundle'[b].status \in {"missing", "draft", "in_review"},
               NEW i \in EventsOf(b)'
        PROVE  hubAudit'[i].what \notin {"approved", "rejected"}
    <3>1. CASE b # c.bundle \/ c.to \notin Status
      BY <1>18, <1>19, <2>1, <3>1
    <3>2. CASE b = c.bundle /\ c.to \in Status
      <4>1. c.to \in {"draft", "in_review"} /\ row.status \in {"missing", "draft"}
        BY <1>2, <1>4, <2>1, <3>2, StatusIs
      <4>2. \A j \in EventsOf(b) : hubAudit[j].what \notin {"approved", "rejected"}
        BY <1>18, <3>2, <4>1
      <4> QED
        BY <1>5, <1>20, <2>1, <3>2, <4>1, <4>2
    <3> QED
      BY <3>1, <3>2
  <2> QED
    BY <2>1 DEF UnreviewedYet
<1> QED
  BY <1>8, <1>9, <1>10, <1>11, <1>12, <1>16, <1>23, <1>24 DEF HubInv, HubOnRecord

LEMMA HubInvNext == HubInv /\ [HubNext]_hubVars => HubInv'
<1> SUFFICES ASSUME HubInv, [HubNext]_hubVars PROVE HubInv'
  OBVIOUS
<1>1. ASSUME NEW k \in HubCall, NEW p \in Person, NEW b \in Bundle,
             \/ Simulate(k, p, b) \/ CreateDraft(k, p, b) \/ SubmitReview(k, p, b)
             \/ \E decision \in Requested : Review(k, p, b, decision)
             \/ Publish(k, p, b) \/ ReadAudited(k, p, b)
      PROVE  HubInv'
  <2>1. CASE Simulate(k, p, b)
    BY <2>1, CallEnters, StatusIs DEF Simulate
  <2>2. CASE CreateDraft(k, p, b)
    BY <2>2, CallEnters, StatusIs DEF CreateDraft
  <2>3. CASE SubmitReview(k, p, b)
    BY <2>3, CallEnters, StatusIs DEF SubmitReview
  <2>4. ASSUME NEW decision \in Requested, Review(k, p, b, decision)
        PROVE  HubInv'
    BY <2>4, CallEnters, StatusIs DEF Review, Reviewable
  <2>5. CASE Publish(k, p, b)
    BY <2>5, CallEnters, StatusIs DEF Publish
  <2>6. CASE ReadAudited(k, p, b)
    BY <2>6, CallEnters, StatusIs DEF ReadAudited
  <2> QED
    BY <1>1, <2>1, <2>2, <2>3, <2>4, <2>5, <2>6
<1>2. ASSUME NEW k \in HubCall, Conflict(k) \/ Rollback(k)
      PROVE  HubInv'
  BY <1>2, CallEnds DEF Conflict, Rollback
<1>3. CASE UNCHANGED hubVars
  <2>1. \A b \in Bundle : EventsOf(b)' = EventsOf(b)
    BY <1>3 DEF hubVars, EventsOf
  <2>2. HubTypeOK' /\ ChainHeld' /\ RowsHeld' /\ DraftsApart' /\ ReviewersOther'
    BY <1>3 DEF hubVars, HubInv, HubTypeOK, ChainHeld, RowsHeld, Holds, DraftsApart,
                ReviewersOther, Stored
  <2>3. UnreviewedYet'
    BY <1>3, <2>1 DEF hubVars, HubInv, UnreviewedYet
  <2>4. HubOnRecord'
    <3>1. HubAuditChained'
      BY <1>3 DEF hubVars, HubInv, HubOnRecord, HubAuditChained
    <3>2. HubLifecycleOnRecord'
      BY <1>3, <2>1 DEF hubVars, HubInv, HubOnRecord, HubLifecycleOnRecord, StatusAfter
    <3> QED
      BY <3>1, <3>2 DEF HubOnRecord
  <2> QED
    BY <2>2, <2>3, <2>4 DEF HubInv
<1> QED
  BY <1>1, <1>2, <1>3, CallSigned, RowLocked, LatestRead, Committed DEF HubNext

\* However requests interleave and wherever they fail, rows, calls and events
\* stay what they are said to be.
THEOREM HubTyped == HubSpec => []HubTypeOK
<1>1. HubInv => HubTypeOK
  BY DEF HubInv
<1> QED
  BY <1>1, HubInvInit, HubInvNext, PTL DEF HubSpec

\* The audit of a tenant is one chain, whose events of a bundle are a path of the
\* lifecycle to its committed status and name its author and its reviewer.
THEOREM LifecycleOnRecord == HubSpec => []HubOnRecord
<1>1. HubInv => HubOnRecord
  BY DEF HubInv
<1> QED
  BY <1>1, HubInvInit, HubInvNext, PTL DEF HubSpec

-----------------------------------------------------------------------------
(* The logins.                                                              *)

Redeems(k) == hlCall[k].at \in {"taken", "verified"}

\* A login whose transaction is there has led to nothing, and one call redeems it
\* at most, which has not made its session yet.
OneRedeemer ==
  /\ \A x \in LoginState : /\ hlMade[x] <= 1
                           /\ hlTransaction[x] # Gone => hlMade[x] = 0
  /\ \A k \in LoginCall : Redeems(k) =>
       /\ hlTransaction[hlCall[k].login] = Gone /\ hlMade[hlCall[k].login] = 0
       /\ \A j \in LoginCall : Redeems(j) /\ hlCall[j].login = hlCall[k].login => j = k

\* A session ends with its identity and its own time, whichever comes first.
Bounded(s) == s.expiresAt <= s.identityExpiresAt /\ s.expiresAt <= s.createdAt + SessionTtl

SessionsBounded ==
  /\ \A s \in hlSession : Bounded(s)
  /\ \A k \in LoginCall : hlCall[k].at \in {"served", "audited"} =>
       Bounded(hlCall[k].session) /\ hlCall[k].since < hlCall[k].session.expiresAt

LoginInv == LoginTypeOK /\ OneRedeemer /\ SessionsBounded

TakenCall == [at : {"taken"}, login : LoginState]
VerifiedCall == [at : {"verified"}, login : LoginState, exp : Instant]
ServedCall == [at : {"served", "audited"}, session : Session, since : Instant]

LEMMA Times ==
  /\ Instant \subseteq Nat /\ \A t \in 0..LoginTime : t \in Instant /\ t >= 0
  /\ \A t \in 0..LoginTime : t + TransactionTtl \in Instant /\ t + SessionTtl \in Instant
  /\ SessionTtl \in Nat
BY LoginAssumption DEF Instant

LEMMA LoginCallFields ==
  ASSUME NEW c \in {Free} \cup TakenCall \cup VerifiedCall \cup ServedCall
  PROVE  /\ c.at = "taken" => c \in TakenCall /\ c.login \in LoginState
         /\ c.at = "verified" => c \in VerifiedCall /\ c.login \in LoginState /\ c.exp \in Instant
         /\ c.at \in {"served", "audited"} =>
              c \in ServedCall /\ c.session \in Session /\ c.since \in Instant
         /\ c.at \in {"free", "taken", "verified", "served", "audited"}
BY DEF Free, TakenCall, VerifiedCall, ServedCall

LEMMA SessionFields ==
  ASSUME NEW s \in Session
  PROVE  s.expiresAt \in Nat /\ s.identityExpiresAt \in Nat /\ s.createdAt \in Nat
BY Times DEF Session

LEMMA LoginTypes ==
  LoginTypeOK <=>
    /\ hlNow \in 0..LoginTime
    /\ hlTransaction \in [LoginState -> Instant \cup {NotStarted, Gone}]
    /\ hlSession \subseteq Session
    /\ hlCall \in [LoginCall -> {Free} \cup TakenCall \cup VerifiedCall \cup ServedCall]
    /\ hlMade \in [LoginState -> Nat]
BY DEF LoginTypeOK, TakenCall, VerifiedCall, ServedCall

LEMMA LoginInvInit == LoginInit => LoginInv
<1> SUFFICES ASSUME LoginInit PROVE LoginInv
  OBVIOUS
<1>1. LoginTypeOK
  BY LoginAssumption DEF LoginInit, LoginTypeOK
<1>2. \A k \in LoginCall : hlCall[k].at = "free"
  BY DEF LoginInit, Free
<1> QED
  BY <1>1, <1>2 DEF LoginInit, LoginInv, OneRedeemer, Redeems, SessionsBounded, Gone, NotStarted

\* What a call becomes, and what stays of the others.
LEMMA CallBecomes ==
  ASSUME LoginTypeOK, NEW k \in LoginCall, NEW c, Goes(k, c)
  PROVE  hlCall'[k] = c /\ \A j \in LoginCall \ {k} : hlCall'[j] = hlCall[j]
BY DEF LoginTypeOK, Goes

LEMMA LoginStarted ==
  ASSUME LoginInv, NEW x \in LoginState, StartLogin(x)
  PROVE  LoginInv'
<1>1. /\ hlTransaction[x] # Gone
      /\ hlTransaction' = [hlTransaction EXCEPT ![x] = hlNow + TransactionTtl]
      /\ UNCHANGED <<hlNow, hlSession, hlCall, hlMade>>
  BY DEF StartLogin, Gone, NotStarted
<1>2. LoginTypeOK'
  BY <1>1, Times DEF LoginInv, LoginTypeOK
<1>3. \A y \in LoginState : hlTransaction[y] = Gone => hlTransaction'[y] = Gone
  BY <1>1 DEF LoginInv, LoginTypeOK
<1>4. \A y \in LoginState : hlTransaction'[y] # Gone => hlTransaction[y] # Gone
  BY <1>3
<1>5. \A k \in LoginCall : Redeems(k) => hlCall[k].login \in LoginState
  BY LoginCallFields, LoginTypes DEF LoginInv, Redeems
<1>6. OneRedeemer'
  BY <1>1, <1>3, <1>4, <1>5 DEF LoginInv, OneRedeemer, Redeems
<1>7. SessionsBounded'
  BY <1>1 DEF LoginInv, SessionsBounded
<1> QED
  BY <1>2, <1>6, <1>7 DEF LoginInv

LEMMA TransactionTaken ==
  ASSUME LoginInv, NEW k \in LoginCall, NEW x \in LoginState, TakeTransaction(k, x)
  PROVE  LoginInv'
<1> DEFINE c == [at |-> "taken", login |-> x]
<1>1. /\ hlTransaction' = [hlTransaction EXCEPT ![x] = Gone] /\ Goes(k, c)
      /\ UNCHANGED <<hlNow, hlSession, hlMade>>
  BY DEF TakeTransaction, DeletedTransaction
<1>2. hlTransaction[x] # Gone /\ hlMade[x] = 0
  <2>1. hlTransaction[x] > hlNow /\ hlNow \in Nat
    BY DEF TakeTransaction, LoginInv, LoginTypeOK
  <2> QED
    BY <2>1 DEF Gone, LoginInv, OneRedeemer
<1>3. c \in TakenCall /\ c.at = "taken" /\ c.login = x
  BY DEF TakenCall
<1> HIDE DEF c
<1>4. hlCall'[k] = c /\ \A j \in LoginCall \ {k} : hlCall'[j] = hlCall[j]
  BY <1>1, CallBecomes DEF LoginInv
<1>5. LoginTypeOK'
  <2>1. hlCall' \in [LoginCall -> {Free} \cup TakenCall \cup VerifiedCall \cup ServedCall]
    BY <1>1, <1>3, LoginTypes DEF LoginInv, Goes
  <2> QED
    BY <1>1, <2>1, LoginTypes DEF LoginInv, LoginTypeOK, TakenCall, VerifiedCall, ServedCall
<1>6. /\ hlTransaction'[x] = Gone
      /\ \A y \in LoginState : y # x => hlTransaction'[y] = hlTransaction[y]
  BY <1>1 DEF LoginInv, LoginTypeOK
<1>7. \A j \in LoginCall : Redeems(j) => hlCall[j].login \in LoginState /\ hlCall[j].login # x
  BY <1>2, LoginCallFields, LoginTypes DEF LoginInv, Redeems, OneRedeemer
<1>8. OneRedeemer'
  <2>1. \A j \in LoginCall \ {k} : Redeems(j)' <=> Redeems(j)
    BY <1>4 DEF Redeems
  <2> QED
    BY <1>1, <1>2, <1>3, <1>4, <1>6, <1>7, <2>1 DEF LoginInv, OneRedeemer
<1>9. SessionsBounded'
  BY <1>1, <1>3, <1>4 DEF LoginInv, SessionsBounded
<1> QED
  BY <1>5, <1>8, <1>9 DEF LoginInv

LEMMA CodeExchanged ==
  ASSUME LoginInv, NEW k \in LoginCall, NEW exp \in Instant, Exchange(k, exp)
  PROVE  LoginInv'
<1> DEFINE c == [at |-> "verified", login |-> hlCall[k].login, exp |-> exp]
<1>1. Goes(k, c) /\ hlCall[k].at = "taken"
      /\ UNCHANGED <<hlNow, hlTransaction, hlSession, hlMade>>
  BY DEF Exchange
<1>2. hlCall[k].login \in LoginState
  BY <1>1, LoginCallFields, LoginTypes DEF LoginInv
<1>3. c \in VerifiedCall /\ c.at = "verified" /\ c.login = hlCall[k].login
  BY <1>2 DEF VerifiedCall
<1> HIDE DEF c
<1>4. hlCall'[k] = c /\ \A j \in LoginCall \ {k} : hlCall'[j] = hlCall[j]
  BY <1>1, CallBecomes DEF LoginInv
<1>5. LoginTypeOK'
  <2>1. hlCall' \in [LoginCall -> {Free} \cup TakenCall \cup VerifiedCall \cup ServedCall]
    BY <1>1, <1>3, LoginTypes DEF LoginInv, Goes
  <2> QED
    BY <1>1, <2>1, LoginTypes DEF LoginInv, LoginTypeOK, TakenCall, VerifiedCall, ServedCall
<1>6. OneRedeemer'
  <2>1. \A j \in LoginCall : /\ Redeems(j)' <=> Redeems(j)
                             /\ Redeems(j) => hlCall'[j].login = hlCall[j].login
    BY <1>1, <1>3, <1>4 DEF Redeems
  <2> QED
    BY <1>1, <2>1 DEF LoginInv, OneRedeemer
<1>7. SessionsBounded'
  BY <1>1, <1>3, <1>4 DEF LoginInv, SessionsBounded
<1> QED
  BY <1>5, <1>6, <1>7 DEF LoginInv

LEMMA SessionCreated ==
  ASSUME LoginInv, NEW k \in LoginCall, CreateSession(k)
  PROVE  LoginInv'
<1> DEFINE x == hlCall[k].login
           identity == hlCall[k].exp
           s == [login |-> x, createdAt |-> hlNow, identityExpiresAt |-> identity,
                 expiresAt |-> IF hlNow + SessionTtl < identity THEN hlNow + SessionTtl
                                                                ELSE identity]
<1>1. /\ hlCall[k].at = "verified" /\ Goes(k, Free)
      /\ hlSession' = hlSession \cup {s}
      /\ hlMade' = [hlMade EXCEPT ![x] = @ + 1]
      /\ UNCHANGED <<hlNow, hlTransaction>>
  BY DEF CreateSession
<1>2. /\ x \in LoginState /\ identity \in Instant /\ Redeems(k)
      /\ hlMade[x] = 0 /\ hlTransaction[x] = Gone
  BY <1>1, LoginCallFields, LoginTypes DEF LoginInv, Redeems, OneRedeemer
<1>3. s \in Session /\ Bounded(s)
  <2>1. /\ hlNow \in Instant /\ hlNow + SessionTtl \in Instant /\ hlNow + SessionTtl \in Nat
        /\ identity \in Nat
    BY <1>2, Times DEF LoginInv, LoginTypeOK
  <2> HIDE DEF x, identity
  <2> QED
    BY <1>2, <2>1 DEF Session, Bounded
<1> HIDE DEF s
<1>4. hlCall'[k] = Free /\ \A j \in LoginCall \ {k} : hlCall'[j] = hlCall[j]
  BY <1>1, CallBecomes DEF LoginInv
<1>5. hlMade'[x] = 1 /\ \A y \in LoginState \ {x} : hlMade'[y] = hlMade[y]
  BY <1>1, <1>2 DEF LoginInv, LoginTypeOK
<1>6. LoginTypeOK'
  <2>1. hlCall' \in [LoginCall -> {Free} \cup TakenCall \cup VerifiedCall \cup ServedCall]
    BY <1>1, LoginTypes DEF LoginInv, Goes
  <2>2. hlMade' \in [LoginState -> Nat] /\ hlSession' \subseteq Session
    BY <1>1, <1>2, <1>3 DEF LoginInv, LoginTypeOK
  <2> QED
    BY <1>1, <2>1, <2>2, LoginTypes DEF LoginInv, LoginTypeOK, TakenCall, VerifiedCall,
                                        ServedCall
<1>7. OneRedeemer'
  <2>1. \A j \in LoginCall : /\ Redeems(j)' => Redeems(j) /\ j # k
                             /\ Redeems(j) /\ j # k => hlCall[j].login # x
                             /\ Redeems(j) => hlCall[j].login \in LoginState
    BY <1>2, <1>4, LoginCallFields, LoginTypes DEF LoginInv, OneRedeemer, Redeems, Free
  <2>2. \A y \in LoginState : /\ hlMade'[y] <= 1
                              /\ hlTransaction'[y] # Gone => hlMade'[y] = 0
    BY <1>1, <1>2, <1>5 DEF LoginInv, OneRedeemer
  <2>3. ASSUME NEW j \in LoginCall, Redeems(j)'
        PROVE  /\ hlTransaction'[hlCall'[j].login] = Gone /\ hlMade'[hlCall'[j].login] = 0
               /\ \A i \in LoginCall : Redeems(i)' /\ hlCall'[i].login = hlCall'[j].login => i = j
    <3>1. j # k /\ Redeems(j) /\ hlCall'[j] = hlCall[j] /\ hlCall[j].login \in LoginState \ {x}
      BY <1>4, <2>1, <2>3
    <3>2. \A i \in LoginCall : Redeems(i)' => Redeems(i) /\ hlCall'[i] = hlCall[i]
      BY <1>4, <2>1
    <3> HIDE DEF x
    <3> QED
      BY <1>1, <1>5, <3>1, <3>2 DEF LoginInv, OneRedeemer
  <2> QED
    BY <2>2, <2>3 DEF OneRedeemer
<1>8. SessionsBounded'
  BY <1>1, <1>3, <1>4 DEF LoginInv, SessionsBounded, Free
<1> QED
  BY <1>6, <1>7, <1>8 DEF LoginInv

\* A call that redeems nothing, now and before: a served request, or none.
LEMMA RequestGoes ==
  ASSUME LoginInv, NEW k \in LoginCall, NEW c \in {Free} \cup ServedCall, Goes(k, c),
         c.at \in {"served", "audited"} => Bounded(c.session) /\ c.since < c.session.expiresAt,
         hlSession' \subseteq hlSession, UNCHANGED <<hlNow, hlTransaction, hlMade>>
  PROVE  LoginInv'
<1>1. hlCall'[k] = c /\ \A j \in LoginCall \ {k} : hlCall'[j] = hlCall[j]
  BY CallBecomes DEF LoginInv
<1>2. c.at \notin {"taken", "verified"}
  BY DEF Free, ServedCall
<1>3. LoginTypeOK'
  <2>1. hlCall' \in [LoginCall -> {Free} \cup TakenCall \cup VerifiedCall \cup ServedCall]
    BY LoginTypes DEF LoginInv, Goes
  <2> QED
    BY <2>1, LoginTypes DEF LoginInv, LoginTypeOK, TakenCall, VerifiedCall, ServedCall
<1>4. OneRedeemer'
  <2>1. \A j \in LoginCall : Redeems(j)' => Redeems(j) /\ hlCall'[j] = hlCall[j]
    BY <1>1, <1>2 DEF Redeems
  <2> QED
    BY <2>1 DEF LoginInv, OneRedeemer
<1>5. SessionsBounded'
  BY <1>1 DEF LoginInv, SessionsBounded
<1> QED
  BY <1>3, <1>4, <1>5 DEF LoginInv

LEMMA RequestServed ==
  ASSUME LoginInv, NEW k \in LoginCall, NEW s \in hlSession, ServeRequest(k, s)
  PROVE  LoginInv'
<1> DEFINE c == [at |-> "served", session |-> s, since |-> hlNow]
<1>1. s \in Session /\ Bounded(s) /\ hlNow \in Instant
  BY Times DEF LoginInv, LoginTypeOK, SessionsBounded
<1>2. c \in ServedCall /\ c.session = s /\ c.since = hlNow
  BY <1>1 DEF ServedCall
<1>3. hlNow < s.expiresAt
  BY <1>1, SessionFields, Times DEF ServeRequest
<1>4. Goes(k, c) /\ UNCHANGED <<hlNow, hlTransaction, hlSession, hlMade>>
  BY DEF ServeRequest
<1> HIDE DEF c
<1> QED
  BY <1>1, <1>2, <1>3, <1>4, RequestGoes

LEMMA LogoutAudited ==
  ASSUME LoginInv, NEW k \in LoginCall, AuditLogout(k)
  PROVE  LoginInv'
<1> DEFINE c == [hlCall[k] EXCEPT !.at = "audited"]
<1>1. hlCall[k].at = "served" /\ Goes(k, c)
      /\ UNCHANGED <<hlNow, hlTransaction, hlSession, hlMade>>
  BY DEF AuditLogout
<1>2. hlCall[k] \in ServedCall
  BY <1>1, LoginCallFields, LoginTypes DEF LoginInv
<1>3. c \in ServedCall /\ c.session = hlCall[k].session /\ c.since = hlCall[k].since
  BY <1>2 DEF ServedCall
<1>4. Bounded(hlCall[k].session) /\ hlCall[k].since < hlCall[k].session.expiresAt
  BY <1>1 DEF LoginInv, SessionsBounded
<1> HIDE DEF c
<1> QED
  BY <1>1, <1>3, <1>4, RequestGoes

LEMMA LoginInvNext == LoginInv /\ [LoginNext]_hlVars => LoginInv'
<1> SUFFICES ASSUME LoginInv, [LoginNext]_hlVars PROVE LoginInv'
  OBVIOUS
<1>1. ASSUME NEW k \in LoginCall, DeleteSession(k) \/ EndCall(k)
      PROVE  LoginInv'
  <2>1. /\ Goes(k, Free) /\ hlSession' \subseteq hlSession
        /\ UNCHANGED <<hlNow, hlTransaction, hlMade>>
    BY <1>1 DEF DeleteSession, EndCall
  <2>2. Free.at \notin {"served", "audited"}
    BY DEF Free
  <2> QED
    BY <2>1, <2>2, RequestGoes
<1>2. CASE Purge
  <2>1. /\ hlTransaction' = [x \in LoginState |->
              IF hlTransaction[x] \in 0..hlNow THEN Gone ELSE hlTransaction[x]]
        /\ hlSession' \subseteq hlSession /\ UNCHANGED <<hlNow, hlCall, hlMade>>
    BY <1>2 DEF Purge
  <2>2. LoginTypeOK'
    BY <2>1 DEF LoginInv, LoginTypeOK
  <2>3. \A x \in LoginState : hlTransaction'[x] # Gone => hlTransaction[x] # Gone
    BY <2>1
  <2>4. \A k \in LoginCall : Redeems(k) => hlCall[k].login \in LoginState
    BY LoginCallFields, LoginTypes DEF LoginInv, Redeems
  <2>5. OneRedeemer'
    BY <2>1, <2>3, <2>4 DEF LoginInv, OneRedeemer, Redeems
  <2>6. SessionsBounded'
    BY <2>1 DEF LoginInv, SessionsBounded
  <2> QED
    BY <2>2, <2>5, <2>6 DEF LoginInv
<1>3. CASE LoginTick
  <2>1. hlNow' \in 0..LoginTime /\ UNCHANGED <<hlTransaction, hlSession, hlCall, hlMade>>
    BY <1>3, LoginAssumption DEF LoginTick, LoginInv, LoginTypeOK
  <2> QED
    BY <2>1 DEF LoginInv, LoginTypeOK, OneRedeemer, Redeems, SessionsBounded
<1>4. CASE UNCHANGED hlVars
  BY <1>4 DEF hlVars, LoginInv, LoginTypeOK, OneRedeemer, Redeems, SessionsBounded
<1> QED
  BY <1>1, <1>2, <1>3, <1>4, LoginStarted, TransactionTaken, CodeExchanged, SessionCreated,
     RequestServed, LogoutAudited DEF LoginNext

LEMMA ServedInTime == LoginInv => SessionsFromLogins
<1> SUFFICES ASSUME LoginInv PROVE SessionsFromLogins
  OBVIOUS
<1>1. ASSUME NEW k \in LoginCall, hlCall[k].at \in {"served", "audited"}
      PROVE  LET s == hlCall[k].session IN
             /\ hlCall[k].since < s.identityExpiresAt
             /\ hlCall[k].since < s.createdAt + SessionTtl
  <2> DEFINE s == hlCall[k].session
  <2>1. /\ Bounded(s) /\ hlCall[k].since < s.expiresAt
        /\ s.expiresAt \in Nat /\ s.identityExpiresAt \in Nat /\ s.createdAt \in Nat
        /\ hlCall[k].since \in Nat /\ SessionTtl \in Nat
    BY <1>1, LoginCallFields, LoginTypes, SessionFields, Times DEF LoginInv, SessionsBounded
  <2>2. /\ hlCall[k].since < s.identityExpiresAt
        /\ hlCall[k].since < s.createdAt + SessionTtl
    <3> HIDE DEF s
    <3> QED
      BY <2>1 DEF Bounded
  <2> QED
    BY <2>2
<1> QED
  BY <1>1 DEF LoginInv, OneRedeemer, SessionsFromLogins

\* Transactions, sessions and requests in flight stay what they are said to be.
THEOREM LoginTyped == LoginSpec => []LoginTypeOK
<1>1. LoginInv => LoginTypeOK
  BY DEF LoginInv
<1> QED
  BY <1>1, LoginInvInit, LoginInvNext, PTL DEF LoginSpec

\* However often its callback arrives a login makes one session at most, and no
\* request is served on one that is too old or whose identity has expired.
THEOREM OneSessionPerLogin == LoginSpec => []SessionsFromLogins
BY LoginInvInit, LoginInvNext, ServedInTime, PTL DEF LoginSpec

-----------------------------------------------------------------------------
(* The guided builder.                                                      *)

\* Receipts, also those that requests in flight carry, are of inputs the suite
\* was run for, and what is asked about a stored bundle is about one.
Tested ==
  /\ ArtifactTested
  /\ wzReceipt \in wzSimulated \cup {Nothing}
  /\ \A q \in wzAsked :
       /\ q.receipt \in wzSimulated \cup {Nothing}
       /\ q.do = "load" => wzStored[q.input] # Nothing

WizardInv == WizardTypeOK /\ Tested

LEMMA LifecycleIs ==
  /\ DOMAIN Before = {"submit", "approve", "reject", "publish"}
  /\ Lifecycle = {"draft", "load", "submit", "approve", "reject", "publish"}
  /\ \A do \in DOMAIN Before : /\ Before[do] \in BundleStatus /\ After[do] \in BundleStatus
                               /\ Before[do] # Nothing
  /\ "draft" \in BundleStatus /\ Nothing \notin BundleStatus
BY DEF Before, After, Lifecycle, BundleStatus, Nothing

LEMMA AskedFields ==
  ASSUME NEW q \in Asked
  PROVE  /\ q.do \in {"check", "simulate", "local"} \cup Lifecycle
         /\ q.input \in Input /\ q.receipt \in Input \cup {Nothing}
BY DEF Asked

LEMMA WizardInvInit == WizardInit => WizardInv
<1> SUFFICES ASSUME WizardInit PROVE WizardInv
  OBVIOUS
<1>1. WizardTypeOK
  BY WizardAssumption DEF WizardInit, WizardTypeOK, WizardStep, Connect, Test, Publishing,
                          BundleRecord
<1>2. Tested
  BY DEF WizardInit, Tested, ArtifactTested
<1> QED
  BY <1>1, <1>2 DEF WizardInv

\* A step that concerns only what the wizard shows of its steps and its bundle.
LEMMA WizardMoves ==
  ASSUME WizardInv, WizardTypeOK', wzReceipt' \in {wzReceipt, Nothing},
         wzLocal' \in {wzLocal, Nothing}, wzAsked' \subseteq wzAsked, UNCHANGED wzServer
  PROVE  WizardInv'
<1>1. UNCHANGED <<wzSimulated, wzStored>>
  BY DEF wzServer
<1>2. Tested'
  BY <1>1 DEF WizardInv, Tested, ArtifactTested
<1> QED
  BY <1>2 DEF WizardInv

LEMMA InputEdited ==
  ASSUME WizardInv, NEW i \in Input, UpdateConnection(i) \/ UpdateAuthority(i)
  PROVE  WizardInv'
<1>1. /\ wzInput' = i /\ wzReceipt' = Nothing /\ wzLocal' = Nothing /\ wzBundle' = NoRecord
      /\ UNCHANGED <<wzStep, wzAsked, wzServer>> /\ UNCHANGED <<wzSimulated, wzStored>>
      /\ wzChecked' \in {wzChecked, Nothing}
      /\ wzConfirmed' \in {wzConfirmed, -1, 0}
  BY DEF UpdateConnection, UpdateAuthority, Invalidated, Connect, Configure, wzServer
<1>2. WizardTypeOK'
  BY <1>1 DEF WizardInv, WizardTypeOK, BundleRecord, Test
<1> QED
  BY <1>1, <1>2, WizardMoves

LEMMA StepTaken ==
  ASSUME WizardInv, ContinueToNext \/ \E step \in WizardStep : NavigateToStep(step)
  PROVE  WizardInv'
<1>1. /\ UNCHANGED <<wzInput, wzChecked, wzReceipt, wzLocal, wzBundle, wzAsked, wzServer>>
      /\ UNCHANGED <<wzSimulated, wzStored>>
  BY DEF ContinueToNext, NavigateToStep, MoveTo, wzServer
<1>2. wzStep' \in WizardStep /\ wzConfirmed' \in -1..Test
  <2>1. CASE ContinueToNext
    <3>1. wzStep \in WizardStep /\ wzConfirmed \in -1..Test
      BY DEF WizardInv, WizardTypeOK
    <3>2. wzStep # Publishing
      BY <2>1 DEF ContinueToNext, Validity, Publishing, Connect, Configure, Test
    <3> QED
      BY <2>1, <3>1, <3>2 DEF ContinueToNext, MoveTo, WizardStep, Connect, Test, Publishing
  <2>2. ASSUME NEW step \in WizardStep, NavigateToStep(step)
        PROVE  wzStep' \in WizardStep /\ wzConfirmed' \in -1..Test
    BY <2>2 DEF NavigateToStep, MoveTo, WizardInv, WizardTypeOK
  <2> QED
    BY <2>1, <2>2
<1>3. WizardTypeOK'
  BY <1>1, <1>2 DEF WizardInv, WizardTypeOK
<1> QED
  BY <1>1, <1>3, WizardMoves

\* A request carries the receipt the wizard holds.
LEMMA RequestAsked ==
  ASSUME WizardInv, NEW do \in {"check", "simulate", "local"} \cup Lifecycle, NEW i \in Input,
         AskFor(do, i), do = "load" => wzStored[i] # Nothing
  PROVE  WizardInv'
<1> DEFINE q == [do |-> do, input |-> i,
                 receipt |-> IF do \in {"local", "draft"} THEN wzReceipt ELSE Nothing]
<1>1. /\ wzAsked' = wzAsked \cup {q}
      /\ UNCHANGED <<wzInput, wzProgress, wzChecked, wzReceipt, wzLocal, wzBundle, wzServer>>
      /\ UNCHANGED <<wzStep, wzConfirmed, wzSimulated, wzStored>>
  BY DEF AskFor, wzProgress, wzServer
<1>2. q \in Asked /\ q.do = do /\ q.input = i /\ q.receipt \in {wzReceipt, Nothing}
  BY DEF Asked, WizardInv, WizardTypeOK
<1> HIDE DEF q
<1>3. WizardTypeOK'
  BY <1>1, <1>2 DEF WizardInv, WizardTypeOK
<1>4. Tested'
  BY <1>1, <1>2 DEF WizardInv, Tested, ArtifactTested
<1> QED
  BY <1>3, <1>4 DEF WizardInv

LEMMA LifecycleAsked ==
  ASSUME WizardInv, NEW do \in Lifecycle, LifecycleAction(do)
  PROVE  WizardInv'
<1>1. CASE do = "draft" /\ AskFor(do, wzInput)
  BY <1>1, RequestAsked DEF WizardInv, WizardTypeOK
<1>2. CASE do \in DOMAIN Before /\ wzBundle.status = Before[do] /\ AskFor(do, wzBundle.input)
  <2>1. wzBundle.input \in Input /\ do # "load"
    BY <1>2, LifecycleIs DEF WizardInv, WizardTypeOK, BundleRecord, NoRecord, Nothing
  <2> QED
    BY <1>2, <2>1, RequestAsked
<1> QED
  BY <1>1, <1>2 DEF LifecycleAction

\* What the control plane stores: a draft of what it has run the suite for.
LEMMA RequestServedOnce ==
  ASSUME WizardInv, NEW q \in wzAsked, Served(q)
  PROVE  /\ wzStored' \in [Input -> BundleStatus \cup {Nothing}]
         /\ wzStored'[q.input] \in BundleStatus
         /\ \A i \in Input : /\ wzStored'[i] # Nothing => i \in wzSimulated
                             /\ wzStored[i] # Nothing => wzStored'[i] # Nothing
<1>1. /\ q.input \in Input /\ wzStored \in [Input -> BundleStatus \cup {Nothing}]
      /\ \A i \in Input : wzStored[i] # Nothing => i \in wzSimulated
  BY AskedFields DEF WizardInv, WizardTypeOK, Tested, ArtifactTested
<1>2. CASE q.do = "load" /\ UNCHANGED wzStored
  BY <1>1, <1>2 DEF WizardInv, Tested
<1>3. CASE /\ q.do = "draft" /\ q.input \in wzSimulated
           /\ wzStored' = [wzStored EXCEPT ![q.input] = "draft"]
  BY <1>1, <1>3, LifecycleIs
<1>4. CASE /\ q.do \in DOMAIN Before /\ wzStored[q.input] = Before[q.do]
           /\ wzStored' = [wzStored EXCEPT ![q.input] = After[q.do]]
  <2>1. After[q.do] \in BundleStatus /\ wzStored[q.input] # Nothing
    BY <1>4, LifecycleIs
  <2> QED
    BY <1>1, <1>4, <2>1, LifecycleIs
<1> QED
  BY <1>2, <1>3, <1>4 DEF Served

LEMMA TestAsked ==
  ASSUME WizardInv, CheckConnection \/ RunBoundaryTest \/ GenerateLocalBundle
  PROVE  WizardInv'
<1>1. wzInput \in Input
  BY DEF WizardInv, WizardTypeOK
<1>2. PICK do \in {"check", "simulate", "local"} : AskFor(do, wzInput)
  BY DEF CheckConnection, RunBoundaryTest, GenerateLocalBundle
<1>3. do # "load"
  BY <1>2
<1> QED
  BY <1>1, <1>2, <1>3, RequestAsked

LEMMA BundleAsked ==
  ASSUME WizardInv, NEW i \in Input, LoadBundle(i)
  PROVE  WizardInv'
BY RequestAsked, LifecycleIs DEF LoadBundle

LEMMA ConnectionChecked ==
  ASSUME WizardInv, NEW q \in wzAsked, Checked(q)
  PROVE  WizardInv'
<1>1. q.input \in Input /\ ProfileOf[q.input] \in Profile
  BY AskedFields, WizardAssumption DEF WizardInv, WizardTypeOK
<1>2. /\ wzChecked' = ProfileOf[q.input] /\ wzAsked' \subseteq wzAsked
      /\ UNCHANGED <<wzInput, wzStep, wzConfirmed, wzReceipt, wzLocal, wzBundle, wzServer,
                     wzSimulated, wzStored>>
  BY DEF Checked, Closed, wzProgress, wzServer
<1>3. WizardTypeOK'
  BY <1>1, <1>2 DEF WizardInv, WizardTypeOK
<1> QED
  BY <1>2, <1>3, WizardMoves

\* The suite has been run for the input of the request, whatever the wizard shows.
LEMMA SuiteRun ==
  ASSUME WizardInv, NEW q \in wzAsked, Simulated(q)
  PROVE  WizardInv'
<1>1. q.input \in Input
  BY AskedFields DEF WizardInv, WizardTypeOK
<1>2. /\ wzSimulated' = wzSimulated \cup {q.input}
      /\ wzReceipt' = q.input /\ wzLocal' = Nothing /\ wzBundle' = NoRecord
      /\ wzAsked' \subseteq wzAsked
      /\ UNCHANGED <<wzInput, wzStep, wzConfirmed, wzChecked, wzStored>>
  BY DEF Simulated, Closed, wzProgress
<1>3. WizardTypeOK'
  BY <1>1, <1>2 DEF WizardInv, WizardTypeOK, BundleRecord
<1>4. Tested'
  BY <1>1, <1>2 DEF WizardInv, Tested, ArtifactTested
<1> QED
  BY <1>3, <1>4 DEF WizardInv

LEMMA BundleGenerated ==
  ASSUME WizardInv, NEW q \in wzAsked, GeneratedLocally(q)
  PROVE  WizardInv'
<1>1. q.input \in Input
  BY AskedFields DEF WizardInv, WizardTypeOK
<1>2. /\ wzLocal' = q.receipt /\ wzLocal' = q.input /\ wzAsked' \subseteq wzAsked
      /\ UNCHANGED <<wzInput, wzStep, wzConfirmed, wzChecked, wzReceipt, wzBundle,
                     wzSimulated, wzStored>>
  BY DEF GeneratedLocally, OwnReceipt, Closed, wzProgress, wzServer
<1>3. WizardTypeOK'
  BY <1>1, <1>2 DEF WizardInv, WizardTypeOK
<1>4. Tested'
  BY <1>2 DEF WizardInv, Tested, ArtifactTested
<1> QED
  BY <1>3, <1>4 DEF WizardInv

\* Whether or not its answer arrives, a request of the lifecycle is served.
LEMMA ServedKeepsTested ==
  ASSUME WizardInv, NEW q \in wzAsked, Served(q), wzAsked' \subseteq wzAsked,
         UNCHANGED <<wzReceipt, wzLocal, wzSimulated>>
  PROVE  Tested'
<1>1. \A r \in wzAsked : r.input \in Input
  BY AskedFields DEF WizardInv, WizardTypeOK
<1> QED
  BY <1>1, RequestServedOnce DEF WizardInv, Tested, ArtifactTested

LEMMA RecordAnswered ==
  ASSUME WizardInv, NEW q \in wzAsked, LifecycleAnswered(q)
  PROVE  WizardInv'
<1>1. q.input \in Input
  BY AskedFields DEF WizardInv, WizardTypeOK
<1>2. /\ Served(q) /\ wzAsked' \subseteq wzAsked
      /\ wzBundle' = [input |-> q.input, status |-> wzStored'[q.input]]
      /\ wzStep' \in {Publishing, wzStep}
      /\ UNCHANGED <<wzInput, wzConfirmed, wzChecked, wzReceipt, wzLocal, wzSimulated>>
  BY DEF LifecycleAnswered, Closed
<1>3. wzBundle' \in BundleRecord
  BY <1>1, <1>2, RequestServedOnce DEF BundleRecord
<1>4. wzStep' \in WizardStep
  BY <1>2 DEF WizardInv, WizardTypeOK, WizardStep, Publishing, Connect
<1>5. WizardTypeOK'
  BY <1>2, <1>3, <1>4, RequestServedOnce DEF WizardInv, WizardTypeOK
<1> QED
  BY <1>2, <1>5, ServedKeepsTested DEF WizardInv

LEMMA RecordLost ==
  ASSUME WizardInv, NEW q \in wzAsked, AnswerLost(q)
  PROVE  WizardInv'
<1>1. /\ Served(q) /\ wzAsked' \subseteq wzAsked
      /\ UNCHANGED <<wzInput, wzStep, wzConfirmed, wzChecked, wzReceipt, wzLocal, wzBundle,
                     wzSimulated>>
  BY DEF AnswerLost, Closed, wzProgress
<1>2. WizardTypeOK'
  BY <1>1, RequestServedOnce DEF WizardInv, WizardTypeOK
<1> QED
  BY <1>1, <1>2, ServedKeepsTested DEF WizardInv

LEMMA RequestRefused ==
  ASSUME WizardInv, NEW q \in wzAsked, Failed(q)
  PROVE  WizardInv'
<1>1. /\ wzAsked' \subseteq wzAsked
      /\ UNCHANGED <<wzInput, wzStep, wzConfirmed, wzChecked, wzReceipt, wzLocal, wzBundle,
                     wzServer, wzSimulated, wzStored>>
  BY DEF Failed, Closed, wzProgress, wzServer
<1>2. WizardTypeOK'
  BY <1>1 DEF WizardInv, WizardTypeOK
<1> QED
  BY <1>1, <1>2, WizardMoves

LEMMA MovedElsewhere ==
  ASSUME WizardInv, NEW i \in Input, NEW do \in DOMAIN Before, Elsewhere(i, do)
  PROVE  WizardInv'
<1>1. /\ wzStored[i] = Before[do] /\ wzStored' = [wzStored EXCEPT ![i] = After[do]]
      /\ UNCHANGED <<wzInput, wzStep, wzConfirmed, wzChecked, wzReceipt, wzLocal, wzBundle,
                     wzAsked, wzSimulated>>
  BY DEF Elsewhere, wzProgress
<1>2. /\ After[do] \in BundleStatus /\ After[do] # Nothing /\ wzStored[i] # Nothing
      /\ wzStored \in [Input -> BundleStatus \cup {Nothing}]
  BY <1>1, LifecycleIs DEF WizardInv, WizardTypeOK
<1>3. /\ wzStored' \in [Input -> BundleStatus \cup {Nothing}]
      /\ \A x \in Input : wzStored'[x] # Nothing <=> wzStored[x] # Nothing
  BY <1>1, <1>2
<1>4. WizardTypeOK'
  BY <1>1, <1>3 DEF WizardInv, WizardTypeOK
<1>5. \A r \in wzAsked : r.input \in Input
  BY AskedFields DEF WizardInv, WizardTypeOK
<1>6. Tested'
  BY <1>1, <1>3, <1>5 DEF WizardInv, Tested, ArtifactTested
<1> QED
  BY <1>4, <1>6 DEF WizardInv

LEMMA WizardInvNext == WizardInv /\ [WizardNext]_wzVars => WizardInv'
<1> SUFFICES ASSUME WizardInv, [WizardNext]_wzVars PROVE WizardInv'
  OBVIOUS
<1>1. ASSUME NEW i \in Input, UpdateConnection(i) \/ UpdateAuthority(i) PROVE WizardInv'
  BY <1>1, InputEdited
<1>2. ASSUME NEW i \in Input, LoadBundle(i) PROVE WizardInv'
  BY <1>2, BundleAsked
<1>3. CASE ContinueToNext \/ \E step \in WizardStep : NavigateToStep(step)
  BY <1>3, StepTaken
<1>4. CASE CheckConnection \/ RunBoundaryTest \/ GenerateLocalBundle
  BY <1>4, TestAsked
<1>5. ASSUME NEW do \in Lifecycle, LifecycleAction(do) PROVE WizardInv'
  BY <1>5, LifecycleAsked
<1>6. ASSUME NEW q \in wzAsked,
             \/ Checked(q)
             \/ Simulated(q)
             \/ GeneratedLocally(q)
             \/ LifecycleAnswered(q)
             \/ Failed(q)
             \/ AnswerLost(q)
      PROVE  WizardInv'
  BY <1>6, ConnectionChecked, SuiteRun, BundleGenerated, RecordAnswered, RequestRefused, RecordLost
<1>7. ASSUME NEW i \in Input, NEW do \in DOMAIN Before, Elsewhere(i, do) PROVE WizardInv'
  BY <1>7, MovedElsewhere
<1>8. CASE UNCHANGED wzVars
  <2>1. UNCHANGED <<wzInput, wzStep, wzConfirmed, wzChecked, wzReceipt, wzLocal, wzBundle,
                    wzAsked, wzServer, wzSimulated, wzStored>>
    BY <1>8 DEF wzVars, wzProgress, wzServer
  <2>2. WizardTypeOK'
    BY <2>1 DEF WizardInv, WizardTypeOK
  <2> QED
    BY <2>1, <2>2, WizardMoves
<1> QED
  BY <1>1, <1>2, <1>3, <1>4, <1>5, <1>6, <1>7, <1>8 DEF WizardNext

\* The wizard and the requests it has in flight stay well formed.
THEOREM WizardTyped == WizardSpec => []WizardTypeOK
<1>1. WizardInv => WizardTypeOK
  BY DEF WizardInv
<1> QED
  BY <1>1, WizardInvInit, WizardInvNext, PTL DEF WizardSpec

\* Whatever is edited while requests are in flight, and whichever of them fail or
\* lose their answer, no draft is stored and no local bundle made of an input the
\* suite was not run for.
THEOREM ArtifactsTested == WizardSpec => []ArtifactTested
<1>1. WizardInv => ArtifactTested
  BY DEF WizardInv, Tested
<1> QED
  BY <1>1, WizardInvInit, WizardInvNext, PTL DEF WizardSpec

-----------------------------------------------------------------------------
(* The signal registry.                                                     *)

\* A registry says active only of a signal whose content it has.
Entries == {e \in [Signal -> Entry] :
              \A s \in Signal : e[s].status = "active" => e[s].version # 0}
Registries == [entries : Entries,
               transport : {"not-synchronized", "healthy", "degraded", "unavailable"},
               synced : BOOLEAN]
Runs == [at : {"pages"}, previous : Registries, observed : Observation,
         cursor : Signal \cup {0}, pages : 0..MaxPages]
        \cup [at : {"state", "site"}, registry : Registries]
Reviews == [Signal -> ReviewEntry]
Tabs == [entries : Entries, reviews : Reviews]

SignalsHeld ==
  /\ feed \in Observation
  /\ swState \in Registries /\ swSite \in Registries
  /\ swSync \in Runs \cup {Resting}
  /\ swRuns \in 0..MaxSync
  /\ swStorage \in Reviews
  /\ swTab \in [Tab -> Tabs]
  /\ swDecided \subseteq Signal \X Version
  /\ swAgain \subseteq Signal /\ swSteady \subseteq Signal

\* While a run pages through the feed it has seen the signals up to its cursor,
\* as far as they stand still, and the registry it started from is the stored one.
PagesSeen ==
  swSync.at = "pages" =>
    /\ swSync.previous = swState
    /\ \A s \in swSteady :
         swSync.observed[s] = IF s <= swSync.cursor THEN feed[s] ELSE 0

\* A review that is closed was closed for the version it names.
DecidedFor(reviews, decided) ==
  \A s \in Signal : reviews[s].state # Pending => <<s, reviews[s].version>> \in decided

ReviewsDecided ==
  /\ DecidedFor(swStorage, swDecided)
  /\ \A t \in Tab : DecidedFor(swTab[t].reviews, swDecided)

SignalInv == SignalsHeld /\ PagesSeen /\ RunFollowsFeed /\ ReviewsDecided

LEMMA VersionsPositive == Version \in SUBSET (Nat \ {0})
BY SignalAssumption DEF Version

LEMMA EntryFields ==
  ASSUME NEW e \in Entry
  PROVE  /\ e.status \in {"absent", "active", "revoked"} /\ e.version \in Version \cup {0}
         /\ e.revokedAt \in 0..MaxSync
BY DEF Entry

LEMMA RegistryFields ==
  ASSUME NEW r \in Registries
  PROVE  /\ r.entries \in Entries /\ r.synced \in BOOLEAN
         /\ r.transport \in {"not-synchronized", "healthy", "degraded", "unavailable"}
BY DEF Registries

LEMMA RunFields ==
  ASSUME NEW r \in Runs \cup {Resting}
  PROVE  /\ r.at = "pages" => /\ r.previous \in Registries /\ r.observed \in Observation
                              /\ r.cursor \in Signal \cup {0} /\ r.pages \in 0..MaxPages
         /\ r.at \in {"state", "site"} => r.registry \in Registries
         /\ r # Resting => r.at \in {"pages", "state", "site"}
         /\ r = Resting => r.at = "rest"
BY DEF Runs, Resting

LEMMA TabFields ==
  ASSUME NEW p \in Tabs
  PROVE  p.entries \in Entries /\ p.reviews \in Reviews
BY DEF Tabs

LEMMA RegistriesTyped ==
  /\ Entries \subseteq [Signal -> Entry]
  /\ Registries \subseteq Registry /\ Runs \subseteq Run
  /\ Tabs \subseteq [entries : [Signal -> Entry], reviews : [Signal -> ReviewEntry]]
<1>1. Entries \subseteq [Signal -> Entry]
  BY DEF Entries
<1>2. Registries \subseteq Registry
  BY <1>1 DEF Registries, Registry
<1>3. Runs \subseteq Run
  BY <1>2 DEF Runs, Run
<1> QED
  BY <1>1, <1>2, <1>3 DEF Tabs, Reviews

LEMMA EmptyHeld == EmptyRegistry \in Registries /\ EmptyRegistry.transport # "healthy"
                   /\ EmptyRegistry.entries \in Entries
<1>1. Absent \in Entry /\ Absent.status # "active"
  BY SignalAssumption DEF Absent, Entry
<1>2. [s \in Signal |-> Absent] \in Entries
  BY <1>1 DEF Entries
<1> QED
  BY <1>2 DEF EmptyRegistry, Registries

\* A page takes the signals behind the cursor in their order, and leaves none out.
LEMMA PageTakesNext ==
  ASSUME NEW c \in Signal \cup {0}, HasMore(c), Page(c) # {}
  PROVE  /\ Max(Page(c)) \in Page(c) /\ Max(Page(c)) \in Signal /\ c < Max(Page(c))
         /\ \A x \in Page(c) : x <= Max(Page(c))
         /\ \A x \in Behind(c) : x <= Max(Page(c)) => x \in Page(c)
<1> DEFINE m == Max(Page(c))
<1>1. Page(c) \in SUBSET Nat /\ IsFiniteSet(Page(c)) /\ Page(c) \subseteq Behind(c)
      /\ Behind(c) \subseteq Signal /\ Signal \in SUBSET Nat /\ IsFiniteSet(Behind(c))
  <2>1. Page(c) \subseteq Behind(c) /\ Behind(c) \subseteq Signal
    BY DEF Page, Behind
  <2> QED
    BY <2>1, SignalAssumption, FS_Subset
<1>2. m \in Page(c) /\ \A x \in Page(c) : x <= m
  BY <1>1, FiniteGreatest
<1>3. m \in Signal /\ c < m
  BY <1>1, <1>2, SignalAssumption DEF Behind
<1>4. ASSUME NEW x \in Behind(c), x <= m PROVE x \in Page(c)
  <2> DEFINE below(z) == {y \in Behind(c) : y < z}
  <2>1. below(x) \in SUBSET below(m)
    <3>1. x \in Nat /\ m \in Nat /\ \A y \in Behind(c) : y \in Nat
      BY <1>1, <1>2
    <3>2. ASSUME NEW y \in Behind(c), y < x PROVE y < m
      <4> HIDE DEF m
      <4> QED
        BY <3>1, <3>2, <1>4
    <3> QED
      BY <3>2
  <2>2. IsFiniteSet(below(m)) /\ IsFiniteSet(below(x))
    BY <1>1, FS_Subset
  <2>3. Cardinality(below(x)) <= Cardinality(below(m))
    BY <2>1, <2>2, FS_Subset
  <2>4. Cardinality(below(m)) < PageLimit
    BY <1>2 DEF Page
  <2>5. Cardinality(below(x)) \in Nat /\ Cardinality(below(m)) \in Nat /\ PageLimit \in Nat
    BY <2>2, FS_CardinalityType, SignalAssumption
  <2>6. Cardinality(below(x)) < PageLimit
    BY <2>3, <2>4, <2>5
  <2> QED
    BY <2>6 DEF Page
<1> QED
  BY <1>2, <1>3, <1>4

\* There is a next page as long as a signal is behind the cursor.
LEMMA PageTakesSome ==
  ASSUME NEW c \in Signal \cup {0}, Behind(c) # {}
  PROVE  Page(c) # {}
<1>1. Behind(c) \in SUBSET Nat
  BY SignalAssumption DEF Behind
<1>2. PICK m \in Behind(c) : \A n \in Behind(c) : m <= n
  BY <1>1, LeastNatural
<1>3. {y \in Behind(c) : y < m} = {}
  BY <1>1, <1>2
<1>4. Cardinality({y \in Behind(c) : y < m}) < PageLimit
  BY <1>3, FS_EmptySet, SignalAssumption
<1> QED
  BY <1>2, <1>4 DEF Page

LEMMA LastPageTakesAll ==
  ASSUME NEW c \in Signal \cup {0}, ~HasMore(c)
  PROVE  Page(c) = Behind(c)
<1>1. IsFiniteSet(Behind(c)) /\ Behind(c) \in SUBSET Nat
  BY SignalAssumption, FS_Subset DEF Behind
<1>2. Cardinality(Behind(c)) <= PageLimit /\ Cardinality(Behind(c)) \in Nat /\ PageLimit \in Nat
  BY <1>1, FS_CardinalityType, SignalAssumption DEF HasMore
<1>3. ASSUME NEW x \in Behind(c) PROVE x \in Page(c)
  <2> DEFINE below == {y \in Behind(c) : y < x}
  <2>1. below \in SUBSET (Behind(c) \ {x})
    BY <1>1, <1>3
  <2>2. IsFiniteSet(Behind(c) \ {x}) /\ Cardinality(Behind(c) \ {x}) = Cardinality(Behind(c)) - 1
    BY <1>1, FS_RemoveElement
  <2>3. Cardinality(below) <= Cardinality(Behind(c)) - 1 /\ Cardinality(below) \in Nat
    BY <2>1, <2>2, FS_Subset, FS_CardinalityType
  <2>4. Cardinality(below) < PageLimit
    BY <1>2, <2>3
  <2> QED
    BY <2>4 DEF Page
<1> QED
  BY <1>3 DEF Page

\* A complete traversal makes active what it observed and nothing else.
LEMMA CompleteFollows ==
  ASSUME NEW previous \in Registries, NEW observed \in Observation, swRuns \in 0..MaxSync
  PROVE  /\ Complete(previous, observed) \in Registries
         /\ \A s \in Signal : LET entry == Complete(previous, observed).entries[s] IN
              /\ observed[s] # 0 => entry.status = "active" /\ entry.version = observed[s]
              /\ observed[s] = 0 => entry.status # "active"
<1> DEFINE entry == [s \in Signal |->
        IF observed[s] # 0 THEN [status |-> "active", version |-> observed[s], revokedAt |-> 0]
        ELSE IF previous.entries[s].status = "active"
        THEN [previous.entries[s] EXCEPT !.status = "revoked", !.revokedAt = swRuns]
        ELSE previous.entries[s]]
           room == PageLimit * MaxPages - Cardinality({s \in Signal : observed[s] # 0})
           kept == Retained(entry, room)
           after == [s \in Signal |->
             IF entry[s].status = "revoked" /\ s \notin kept THEN Absent ELSE entry[s]]
<1>1. Complete(previous, observed) = [entries |-> after, transport |-> "healthy", synced |-> TRUE]
  BY DEF Complete
<1>2. ASSUME NEW s \in Signal
      PROVE  /\ entry[s] \in Entry
             /\ observed[s] # 0 => entry[s].status = "active" /\ entry[s].version = observed[s]
             /\ observed[s] = 0 => entry[s].status # "active"
  <2>1. previous.entries[s] \in Entry /\ observed[s] \in Version \cup {0}
    BY RegistryFields DEF Entries, Observation
  <2>2. 0 \in 0..MaxSync
    BY SignalAssumption
  <2>3. CASE observed[s] # 0
    <3>1. entry[s] = [status |-> "active", version |-> observed[s], revokedAt |-> 0]
      BY <2>3
    <3> HIDE DEF entry
    <3> QED
      BY <3>1, <2>1, <2>2, <2>3 DEF Entry
  <2>4. CASE observed[s] = 0 /\ previous.entries[s].status = "active"
    <3>1. entry[s] = [previous.entries[s] EXCEPT !.status = "revoked", !.revokedAt = swRuns]
      BY <2>4
    <3> HIDE DEF entry
    <3>2. PICK e \in Entry : e = previous.entries[s]
      BY <2>1
    <3>3. entry[s] = [e EXCEPT !.status = "revoked", !.revokedAt = swRuns]
      BY <3>1, <3>2
    <3>4. entry[s] = [status |-> "revoked", version |-> e.version, revokedAt |-> swRuns]
      BY <3>3 DEF Entry
    <3>5. entry[s] \in Entry /\ entry[s].status = "revoked"
      BY <3>4, EntryFields DEF Entry
    <3> QED
      BY <3>5, <2>4
  <2>5. CASE observed[s] = 0 /\ previous.entries[s].status # "active"
    <3>1. entry[s] = previous.entries[s]
      BY <2>5
    <3> HIDE DEF entry
    <3> QED
      BY <3>1, <2>1, <2>5
  <2> QED
    BY <2>3, <2>4, <2>5
<1> HIDE DEF entry, kept
<1>3. Absent \in Entry /\ Absent.status # "active"
  BY SignalAssumption DEF Absent, Entry
<1>4. ASSUME NEW s \in Signal
      PROVE  /\ after[s] \in Entry
             /\ observed[s] # 0 => after[s].status = "active" /\ after[s].version = observed[s]
             /\ observed[s] = 0 => after[s].status # "active"
  BY <1>2, <1>3
<1>5. after \in [Signal -> Entry]
  BY <1>4
<1> HIDE DEF after
<1>6. after \in Entries
  BY <1>4, <1>5 DEF Entries
<1> QED
  BY <1>1, <1>4, <1>6 DEF Registries

\* A run that failed keeps every entry and does not claim to be complete.
LEMMA FailedKeepsEntries ==
  ASSUME NEW run, run.previous \in Registries
  PROVE  /\ FailedRegistry(run) \in Registries
         /\ FailedRegistry(run).entries = run.previous.entries
         /\ FailedRegistry(run).transport # "healthy"
<1>1. PICK r \in Registries : r = run.previous
  OBVIOUS
<1>2. FailedRegistry(run)
        = [r EXCEPT !.transport = IF r.synced THEN "degraded" ELSE "unavailable"]
  BY <1>1 DEF FailedRegistry
<1>3. FailedRegistry(run) = [entries |-> r.entries, synced |-> r.synced,
                             transport |-> IF r.synced THEN "degraded" ELSE "unavailable"]
  BY <1>2 DEF Registries
<1> QED
  BY <1>1, <1>3, RegistryFields DEF Registries

\* What follows from a run at its end.
RegistryFollows(registry) ==
  \A s \in swSteady :
    LET entry == registry.entries[s] IN
    /\ feed[s] # 0 => entry.status # "revoked" \/ entry = swState.entries[s]
    /\ registry.transport = "healthy" =>
         IF feed[s] = 0 THEN entry.status # "active"
         ELSE entry.status = "active" /\ entry.version = feed[s]

LEMMA FollowsIs ==
  RunFollowsFeed <=> (swSync.at = "state" => RegistryFollows(swSync.registry))
BY DEF RunFollowsFeed, RegistryFollows

LEMMA SignalInvInit == SignalInit => SignalInv
<1> SUFFICES ASSUME SignalInit PROVE SignalInv
  OBVIOUS
<1>1. Unreviewed \in ReviewEntry /\ Unreviewed.state = Pending
  BY DEF Unreviewed, ReviewEntry
<1>2. [s \in Signal |-> Unreviewed] \in Reviews
  BY <1>1 DEF Reviews
<1>3. SignalsHeld
  <2>1. feed \in Observation /\ swRuns \in 0..MaxSync
    BY SignalAssumption DEF SignalInit
  <2>2. swTab \in [Tab -> Tabs]
    BY <1>2, EmptyHeld DEF SignalInit, Tabs
  <2> QED
    BY <2>1, <2>2, <1>2, EmptyHeld DEF SignalInit, SignalsHeld
<1>4. swSync.at = "rest"
  BY DEF SignalInit, Resting
<1>5. ReviewsDecided
  BY <1>1 DEF SignalInit, ReviewsDecided, DecidedFor
<1> QED
  BY <1>3, <1>4, <1>5 DEF SignalInv, PagesSeen, RunFollowsFeed

\* A step that concerns neither the run nor the registry it started from.
LEMMA RunUndisturbed ==
  ASSUME SignalInv, UNCHANGED <<feed, swState, swSync, swSteady>>
  PROVE  PagesSeen' /\ RunFollowsFeed'
BY DEF SignalInv, PagesSeen, RunFollowsFeed

LEMMA ReviewsUndisturbed ==
  ASSUME SignalInv, UNCHANGED swReviews
  PROVE  ReviewsDecided' /\ UNCHANGED <<swStorage, swTab, swDecided>>
BY DEF SignalInv, ReviewsDecided, DecidedFor, swReviews

LEMMA FeedChanged ==
  ASSUME SignalInv, NEW s \in Signal, NEW v \in VersionOf[s] \cup {0}, Publication(s, v)
  PROVE  SignalInv'
<1>1. /\ feed' = [feed EXCEPT ![s] = v] /\ swSteady' = swSteady \ {s}
      /\ UNCHANGED <<swFiles, swSync, swRuns, swReviews>>
      /\ UNCHANGED <<swState, swSite, swAgain>>
  BY DEF Publication, swFiles
<1>2. feed \in Observation /\ v \in Version \cup {0} /\ swSteady \subseteq Signal
  BY SignalAssumption DEF SignalInv, SignalsHeld, Version
<1>3. feed' \in Observation /\ \A x \in Signal \ {s} : feed'[x] = feed[x]
  BY <1>1, <1>2 DEF Observation
<1>4. SignalsHeld'
  BY <1>1, <1>2, <1>3, ReviewsUndisturbed DEF SignalInv, SignalsHeld
<1>5. PagesSeen'
  BY <1>1, <1>2, <1>3 DEF SignalInv, PagesSeen
<1>6. RunFollowsFeed'
  BY <1>1, <1>2, <1>3 DEF SignalInv, RunFollowsFeed
<1> QED
  BY <1>1, <1>4, <1>5, <1>6, ReviewsUndisturbed DEF SignalInv

LEMMA RunBegun ==
  ASSUME SignalInv, Begin
  PROVE  SignalInv'
<1> DEFINE run == [at |-> "pages", previous |-> swState, observed |-> [s \in Signal |-> 0],
                   cursor |-> 0, pages |-> 0]
<1>1. /\ swSync' = run /\ swRuns' = swRuns + 1 /\ swRuns < MaxSync /\ swSteady' = Signal
      /\ UNCHANGED <<feed, swFiles, swReviews>> /\ UNCHANGED <<swState, swSite, swAgain>>
  BY DEF Begin, swFiles
<1>2. run \in Runs
  BY SignalAssumption DEF SignalInv, SignalsHeld, Runs, Observation
<1>3. /\ run.at = "pages" /\ run.previous = swState
      /\ \A s \in Signal : run.observed[s] = 0 /\ ~(s <= run.cursor)
  BY SignalAssumption
<1> HIDE DEF run
<1>4. swRuns' \in 0..MaxSync
  BY <1>1, SignalAssumption DEF SignalInv, SignalsHeld
<1>5. SignalsHeld'
  BY <1>1, <1>2, <1>4, ReviewsUndisturbed DEF SignalInv, SignalsHeld
<1>6. PagesSeen' /\ RunFollowsFeed'
  BY <1>1, <1>3 DEF PagesSeen, RunFollowsFeed
<1> QED
  BY <1>1, <1>5, <1>6, ReviewsUndisturbed DEF SignalInv

\* The run goes on from its pages to a registry.
LEMMA RunClosed ==
  ASSUME SignalInv, NEW registry \in Registries, Closing(registry), RegistryFollows(registry)
  PROVE  SignalInv'
<1> DEFINE run == [at |-> "state", registry |-> registry]
<1>1. /\ swSync' = run
      /\ UNCHANGED <<feed, swFiles, swRuns, swReviews, swSteady>>
      /\ UNCHANGED <<swState, swSite, swAgain>>
  BY DEF Closing, swFiles
<1>2. run \in Runs /\ run.at = "state" /\ run.registry = registry
  BY DEF Runs
<1> HIDE DEF run
<1>3. SignalsHeld'
  BY <1>1, <1>2, ReviewsUndisturbed DEF SignalInv, SignalsHeld
<1>4. PagesSeen' /\ RunFollowsFeed'
  BY <1>1, <1>2 DEF PagesSeen, RunFollowsFeed, RegistryFollows
<1> QED
  BY <1>1, <1>3, <1>4, ReviewsUndisturbed DEF SignalInv

LEMMA RunFails ==
  ASSUME SignalInv, FetchFailed
  PROVE  SignalInv'
<1>1. swSync.at = "pages" /\ Closing(FailedRegistry(swSync)) /\ swSync.previous = swState
  BY DEF FetchFailed, SignalInv, PagesSeen
<1>2. swSync.previous \in Registries
  BY <1>1 DEF SignalInv, SignalsHeld
<1>3. RegistryFollows(FailedRegistry(swSync))
  BY <1>1, <1>2, FailedKeepsEntries DEF RegistryFollows
<1> QED
  BY <1>1, <1>2, <1>3, FailedKeepsEntries, RunClosed

\* The run on its way from one page to the next.
Turned(r, o, c, n) == [r EXCEPT !.observed = o, !.cursor = c, !.pages = n]

LEMMA PagesTurn ==
  ASSUME NEW r \in Runs, r.at = "pages", NEW o \in Observation, NEW c \in Signal \cup {0},
         NEW n \in 0..MaxPages
  PROVE  /\ Turned(r, o, c, n) \in Runs /\ Turned(r, o, c, n).at = "pages"
         /\ Turned(r, o, c, n).previous = r.previous
         /\ Turned(r, o, c, n).observed = o /\ Turned(r, o, c, n).cursor = c
<1> DEFINE x == Turned(r, o, c, n)
<1>1. r \in [at : {"pages"}, previous : Registries, observed : Observation,
             cursor : Signal \cup {0}, pages : 0..MaxPages]
  BY DEF Runs
<1>2. x \in [at : {"pages"}, previous : Registries, observed : Observation,
             cursor : Signal \cup {0}, pages : 0..MaxPages]
  BY <1>1 DEF Turned
<1>3. x.previous = r.previous /\ x.observed = o /\ x.cursor = c
  BY <1>1 DEF Turned
<1> QED
  BY <1>2, <1>3 DEF Runs

LEMMA PageFetched ==
  ASSUME SignalInv, Fetch
  PROVE  SignalInv'
<1> DEFINE page == Page(swSync.cursor)
           observed == [s \in Signal |-> IF s \in page THEN feed[s] ELSE swSync.observed[s]]
<1>1. /\ swSync.at = "pages" /\ swSync.pages < MaxPages /\ swSync.previous \in Registries
      /\ swSync.observed \in Observation /\ swSync.cursor \in Signal \cup {0}
      /\ swSync.pages \in 0..MaxPages /\ swSync \in Runs
  BY RunFields DEF Fetch, SignalInv, SignalsHeld, Resting
<1>2. /\ swSync.previous = swState
      /\ \A s \in swSteady :
           swSync.observed[s] = IF s <= swSync.cursor THEN feed[s] ELSE 0
      /\ swSteady \subseteq Signal /\ feed \in Observation /\ swRuns \in 0..MaxSync
  BY <1>1 DEF SignalInv, PagesSeen, SignalsHeld
<1>3. observed \in Observation
  BY <1>1, <1>2 DEF Observation
<1>4. /\ Signal \in SUBSET Nat /\ \A s \in Signal : s \in Nat
      /\ \A s \in Signal : s \in Behind(swSync.cursor) <=> feed[s] # 0 /\ s > swSync.cursor
      /\ \A s \in page : s \in Behind(swSync.cursor)
      /\ 0 \in Nat
  BY SignalAssumption DEF Behind, Page
<1>5. CASE HasMore(swSync.cursor)
  <2> DEFINE m == Max(page)
             run == [swSync EXCEPT !.observed = observed, !.cursor = m,
                                   !.pages = swSync.pages + 1]
  <2>1. page # {}
    <3>1. Behind(swSync.cursor) # {}
      <4>1. SUFFICES ASSUME Behind(swSync.cursor) = {} PROVE FALSE
        OBVIOUS
      <4> QED
        BY <1>5, <4>1, FS_EmptySet, SignalAssumption DEF HasMore
    <3> QED
      BY <1>1, <3>1, PageTakesSome
  <2>2. /\ m \in Signal /\ swSync.cursor < m /\ \A x \in page : x <= m
        /\ \A x \in Behind(swSync.cursor) : x <= m => x \in page
    BY <1>1, <1>5, <2>1, PageTakesNext
  <2>3. swSync' = run /\ UNCHANGED <<feed, swFiles, swRuns, swReviews, swSteady>>
        /\ UNCHANGED <<swState, swSite, swAgain>>
    BY <1>5 DEF Fetch, swFiles
  <2> HIDE DEF observed, page
  <2>4. swSync.pages + 1 \in 0..MaxPages
    BY <1>1, SignalAssumption
  <2>5. /\ run \in Runs /\ run.at = "pages" /\ run.previous = swSync.previous
        /\ run.observed = observed /\ run.cursor = m
    <3>1. run = Turned(swSync, observed, m, swSync.pages + 1)
      BY DEF Turned
    <3> HIDE DEF m, run
    <3>2. swSync \in Runs /\ m \in Signal \cup {0}
      BY <1>1, <2>2
    <3> QED
      <4> DEFINE n == swSync.pages + 1
      <4>1. n \in 0..MaxPages /\ swSync.at = "pages"
        BY <1>1, <2>4
      <4> HIDE DEF n
      <4>2. run = Turned(swSync, observed, m, n)
        BY <3>1 DEF n
      <4>3. /\ Turned(swSync, observed, m, n) \in Runs
            /\ Turned(swSync, observed, m, n).at = "pages"
            /\ Turned(swSync, observed, m, n).previous = swSync.previous
            /\ Turned(swSync, observed, m, n).observed = observed
            /\ Turned(swSync, observed, m, n).cursor = m
        BY <1>3, <3>2, <4>1, PagesTurn
      <4> QED
        BY <4>2, <4>3
  <2> HIDE DEF run
  <2>6. ASSUME NEW s \in swSteady
        PROVE  observed[s] = IF s <= m THEN feed[s] ELSE 0
    <3>1. s \in Signal /\ s \in Nat /\ m \in Nat /\ swSync.cursor \in Nat
          /\ feed[s] \in Version \cup {0}
      <4>1. s \in Signal /\ swSync.cursor \in Nat
        BY <1>1, <1>2, <1>4
      <4>2. feed[s] \in Version \cup {0}
        BY <4>1, <1>2 DEF Observation
      <4> HIDE DEF m
      <4> QED
        BY <4>1, <4>2, <1>4, <2>2
    <3>2. observed[s] = IF s \in page THEN feed[s] ELSE swSync.observed[s]
      BY <3>1 DEF observed
    <3>3. swSync.observed[s] = IF s <= swSync.cursor THEN feed[s] ELSE 0
      BY <1>2
    <3>4. CASE s <= swSync.cursor
      BY <3>1, <3>2, <3>3, <3>4, <2>2
    <3>5. CASE swSync.cursor < s /\ s <= m
      <4>1. feed[s] # 0 => s \in page
        BY <3>1, <3>5, <1>4, <2>2
      <4> QED
        BY <3>1, <3>2, <3>3, <3>5, <4>1
    <3>6. CASE m < s
      <4>1. s \notin page
        BY <3>1, <3>6, <2>2
      <4> QED
        BY <3>1, <3>2, <3>3, <3>6, <4>1, <2>2
    <3> QED
      BY <3>1, <3>4, <3>5, <3>6
  <2>7. SignalsHeld'
    BY <2>3, <2>5, ReviewsUndisturbed DEF SignalInv, SignalsHeld
  <2>8. PagesSeen' /\ RunFollowsFeed'
    BY <1>2, <2>3, <2>5, <2>6 DEF PagesSeen, RunFollowsFeed
  <2> QED
    BY <2>3, <2>7, <2>8, ReviewsUndisturbed DEF SignalInv
<1>6. CASE ~HasMore(swSync.cursor)
  <2>1. page = Behind(swSync.cursor)
    BY <1>1, <1>6, LastPageTakesAll
  <2>2. Closing(Complete(swSync.previous, observed))
    BY <1>6 DEF Fetch
  <2>3. ASSUME NEW s \in swSteady PROVE observed[s] = feed[s]
    <3>1. s \in Signal /\ s \in Nat /\ swSync.cursor \in Nat
      <4>1. s \in Signal /\ swSync.cursor \in Nat
        BY <1>1, <1>2, <1>4
      <4> QED
        BY <4>1, <1>4
    <3>2. observed[s] = IF s \in page THEN feed[s] ELSE swSync.observed[s]
      BY <3>1
    <3>3. s \notin page => feed[s] = 0 \/ s <= swSync.cursor
      BY <3>1, <2>1, <1>4
    <3> HIDE DEF observed, page
    <3> QED
      BY <3>2, <3>3, <1>2
  <2> HIDE DEF observed
  <2>4. RegistryFollows(Complete(swSync.previous, observed))
    BY <1>1, <1>2, <1>3, <2>3, CompleteFollows DEF RegistryFollows
  <2> QED
    BY <1>1, <1>2, <1>3, <2>2, <2>4, CompleteFollows, RunClosed
<1> QED
  BY <1>5, <1>6

\* A step after the pages: nothing is left that has to follow the feed.
LEMMA RunWrites ==
  ASSUME SignalInv, swSync' \in Runs \cup {Resting}, swSync'.at \notin {"pages", "state"},
         swState' \in Registries, swSite' \in Registries, swAgain' \subseteq Signal,
         UNCHANGED <<feed, swRuns, swReviews, swSteady>>
  PROVE  SignalInv'
<1>1. SignalsHeld'
  BY ReviewsUndisturbed DEF SignalInv, SignalsHeld
<1>2. PagesSeen' /\ RunFollowsFeed'
  BY DEF PagesSeen, RunFollowsFeed
<1> QED
  BY <1>1, <1>2, ReviewsUndisturbed DEF SignalInv

LEMMA WritingSite ==
  ASSUME NEW r \in Runs, r.at = "state"
  PROVE  [r EXCEPT !.at = "site"] \in Runs /\ [r EXCEPT !.at = "site"].at = "site"
<1>1. r \in [at : {"state", "site"}, registry : Registries]
  BY DEF Runs
<1>2. [r EXCEPT !.at = "site"] \in [at : {"state", "site"}, registry : Registries]
      /\ [r EXCEPT !.at = "site"].at = "site"
  BY <1>1
<1> QED
  BY <1>2 DEF Runs

LEMMA RegistryWritten ==
  ASSUME SignalInv, WriteState \/ WriteSite \/ Cancelled \/ StateLost
  PROVE  SignalInv'
<1>1. /\ swSync \in Runs \cup {Resting} /\ swState \in Registries /\ swSite \in Registries
      /\ swAgain \subseteq Signal
  BY DEF SignalInv, SignalsHeld
<1>2. Resting.at = "rest"
  BY DEF Resting
<1>3. CASE WriteState
  <2>1. swSync.at = "state" /\ swSync \in Runs /\ swSync.registry \in Registries
    BY <1>1, <1>2, <1>3, RunFields DEF WriteState
  <2>2. /\ swState' = swSync.registry /\ swSync' = [swSync EXCEPT !.at = "site"]
        /\ UNCHANGED <<feed, swSite, swAgain, swRuns, swReviews, swSteady>>
    BY <1>3 DEF WriteState
  <2>3. swSync' \in Runs /\ swSync'.at = "site"
    BY <2>1, <2>2, WritingSite
  <2> QED
    BY <1>1, <2>1, <2>2, <2>3, RunWrites
<1>4. CASE WriteSite
  <2>1. swSync.at = "site" /\ swSync.registry \in Registries
    BY <1>1, <1>4, RunFields DEF WriteSite
  <2>2. /\ swSite' = swSync.registry /\ swSync' = Resting /\ swAgain' \subseteq Signal
        /\ UNCHANGED <<feed, swState, swRuns, swReviews, swSteady>>
    BY <1>1, <1>4 DEF WriteSite
  <2> QED
    BY <1>1, <1>2, <2>1, <2>2, RunWrites
<1>5. CASE Cancelled
  <2>1. swSync' = Resting /\ UNCHANGED <<swState, swSite, swAgain>>
        /\ UNCHANGED <<feed, swRuns, swReviews, swSteady>>
    BY <1>5 DEF Cancelled, swFiles
  <2> QED
    BY <1>1, <1>2, <2>1, RunWrites
<1>6. CASE StateLost
  <2>1. /\ swSync' = Resting /\ swState' = EmptyRegistry
        /\ UNCHANGED <<feed, swSite, swAgain, swRuns, swReviews, swSteady>>
    BY <1>6 DEF StateLost
  <2> QED
    BY <1>1, <1>2, <2>1, EmptyHeld, RunWrites
<1> QED
  BY <1>3, <1>4, <1>5, <1>6

\* Only reviews of the shown version survive, and they stay as they were.
LEMMA NormalizedKeeps ==
  ASSUME NEW map \in Reviews, NEW entries \in Entries, NEW decided, DecidedFor(map, decided)
  PROVE  /\ Normalized(map, entries) \in Reviews
         /\ DecidedFor(Normalized(map, entries), decided)
<1>1. Unreviewed \in ReviewEntry /\ Unreviewed.state = Pending
  BY DEF Unreviewed, ReviewEntry
<1>2. /\ Normalized(map, entries) \in Reviews
      /\ \A s \in Signal : Normalized(map, entries)[s] \in {map[s], Unreviewed}
  BY <1>1 DEF Normalized, Reviews
<1> QED
  BY <1>1, <1>2 DEF DecidedFor

LEMMA MoreDecided ==
  ASSUME NEW reviews, NEW decided, NEW more, decided \subseteq more, DecidedFor(reviews, decided)
  PROVE  DecidedFor(reviews, more)
BY DEF DecidedFor

LEMMA TabOpened ==
  ASSUME SignalInv, NEW t \in Tab, OpenTab(t)
  PROVE  SignalInv'
<1> DEFINE new == [entries |-> swSite.entries,
                   reviews |-> Normalized(swStorage, swSite.entries)]
<1>1. /\ swTab' = [swTab EXCEPT ![t] = new]
      /\ UNCHANGED <<feed, swFiles, swSync, swRuns, swStorage, swDecided, swSteady>>
      /\ UNCHANGED <<swState, swSite, swAgain>>
  BY DEF OpenTab, swFiles
<1>2. /\ swSite.entries \in Entries /\ swStorage \in Reviews /\ swTab \in [Tab -> Tabs]
      /\ DecidedFor(swStorage, swDecided) /\ \A p \in Tab : DecidedFor(swTab[p].reviews, swDecided)
  BY RegistryFields DEF SignalInv, SignalsHeld, ReviewsDecided
<1>3. new \in Tabs /\ DecidedFor(new.reviews, swDecided)
  BY <1>2, NormalizedKeeps DEF Tabs
<1> HIDE DEF new
<1>4. swTab' \in [Tab -> Tabs] /\ swTab'[t] = new /\ \A p \in Tab \ {t} : swTab'[p] = swTab[p]
  BY <1>1, <1>2, <1>3
<1>5. SignalsHeld'
  BY <1>1, <1>4 DEF SignalInv, SignalsHeld
<1>6. ReviewsDecided'
  <2>1. \A p \in Tab : DecidedFor(swTab'[p].reviews, swDecided)
    BY <1>2, <1>3, <1>4
  <2> QED
    BY <1>1, <1>2, <2>1 DEF ReviewsDecided, DecidedFor
<1> QED
  BY <1>1, <1>5, <1>6, RunUndisturbed DEF SignalInv

LEMMA ReviewSaved ==
  ASSUME SignalInv, NEW t \in Tab, NEW s \in Signal,
         NEW state \in {Pending, "reviewed-no-action"}, SaveReview(t, s, state)
  PROVE  SignalInv'
<1> DEFINE entries == swTab[t].entries
           kept == Normalized(swTab[t].reviews, entries)
           entry == [version |-> entries[s].version, state |-> state]
           next == [kept EXCEPT ![s] = entry]
           decided == swDecided \cup {<<s, entries[s].version>>}
<1>1. /\ entries[s].status = "active"
      /\ swTab' = [swTab EXCEPT ![t].reviews = next] /\ swStorage' = next
      /\ swDecided' = decided /\ swAgain' \subseteq swAgain
      /\ UNCHANGED <<feed, swState, swSite, swSync, swRuns, swSteady>>
  BY DEF SaveReview
<1>2. /\ entries \in Entries /\ swTab[t].reviews \in Reviews /\ swTab \in [Tab -> Tabs]
      /\ swTab[t] \in Tabs
      /\ DecidedFor(swStorage, swDecided) /\ \A p \in Tab : DecidedFor(swTab[p].reviews, swDecided)
  BY TabFields DEF SignalInv, SignalsHeld, ReviewsDecided
<1>3. entries[s].version \in Version
  BY <1>1, <1>2, EntryFields DEF Entries
<1> HIDE DEF entries
<1>4. kept \in Reviews /\ DecidedFor(kept, swDecided)
  BY <1>2, NormalizedKeeps
<1>5. entry \in ReviewEntry /\ entry.version = entries[s].version
  BY <1>3 DEF ReviewEntry
<1> HIDE DEF kept, entry
<1>6. next \in Reviews /\ next[s] = entry /\ \A x \in Signal \ {s} : next[x] = kept[x]
  BY <1>4, <1>5 DEF Reviews
<1>7. DecidedFor(next, decided)
  BY <1>4, <1>5, <1>6 DEF DecidedFor
<1> HIDE DEF next
<1>8. /\ swTab' \in [Tab -> Tabs] /\ swTab'[t].reviews = next
      /\ \A p \in Tab \ {t} : swTab'[p] = swTab[p]
  <2> DEFINE new == [entries |-> swTab[t].entries, reviews |-> next]
  <2>1. swTab' = [swTab EXCEPT ![t] = new]
    <3>1. PICK tab \in Tabs : tab = swTab[t]
      BY <1>2
    <3>2. [tab EXCEPT !.reviews = next] = new
      BY <3>1 DEF Tabs
    <3> HIDE DEF new
    <3> QED
      BY <1>1, <3>1, <3>2
  <2>2. new \in Tabs /\ new.reviews = next
    BY <1>2, <1>6, TabFields DEF Tabs
  <2> HIDE DEF new
  <2> QED
    BY <1>2, <2>1, <2>2
<1>9. SignalsHeld'
  <2>1. decided \subseteq Signal \X Version
    BY <1>3 DEF SignalInv, SignalsHeld
  <2> HIDE DEF decided
  <2> QED
    BY <1>1, <1>6, <1>8, <2>1 DEF SignalInv, SignalsHeld
<1>10. ReviewsDecided'
  <2>1. swDecided \subseteq decided
    OBVIOUS
  <2> HIDE DEF decided
  <2>2. \A p \in Tab : DecidedFor(swTab'[p].reviews, decided)
    BY <1>2, <1>7, <1>8, <2>1, MoreDecided
  <2>3. DecidedFor(next, decided)
    BY <1>7
  <2> QED
    BY <1>1, <2>2, <2>3 DEF ReviewsDecided, DecidedFor
<1> QED
  BY <1>1, <1>9, <1>10, RunUndisturbed DEF SignalInv

LEMMA SignalInvNext == SignalInv /\ [SignalNext]_swVars => SignalInv'
<1> SUFFICES ASSUME SignalInv, [SignalNext]_swVars PROVE SignalInv'
  OBVIOUS
<1>1. ASSUME NEW s \in Signal, NEW v \in VersionOf[s] \cup {0}, Publication(s, v)
      PROVE  SignalInv'
  BY <1>1, FeedChanged
<1>2. CASE Begin
  BY <1>2, RunBegun
<1>3. CASE Fetch
  BY <1>3, PageFetched
<1>4. CASE FetchFailed
  BY <1>4, RunFails
<1>5. CASE WriteState \/ WriteSite \/ Cancelled \/ StateLost
  BY <1>5, RegistryWritten
<1>6. ASSUME NEW t \in Tab, OpenTab(t) PROVE SignalInv'
  BY <1>6, TabOpened
<1>7. ASSUME NEW t \in Tab, NEW s \in Signal, NEW state \in {Pending, "reviewed-no-action"},
             SaveReview(t, s, state)
      PROVE  SignalInv'
  BY <1>7, ReviewSaved
<1>8. CASE UNCHANGED swVars
  <2>1. UNCHANGED <<feed, swState, swSite, swAgain, swSync, swRuns, swReviews, swSteady>>
    BY <1>8 DEF swVars, swFiles
  <2>2. SignalsHeld'
    BY <2>1, ReviewsUndisturbed DEF SignalInv, SignalsHeld
  <2> QED
    BY <2>1, <2>2, RunUndisturbed, ReviewsUndisturbed DEF SignalInv
<1> QED
  BY <1>1, <1>2, <1>3, <1>4, <1>5, <1>6, <1>7, <1>8 DEF SignalNext

\* The feed, the registries and the reviews stay well formed.
THEOREM SignalTyped == SignalSpec => []SignalTypeOK
<1>1. SignalsHeld => SignalTypeOK
  <2> SUFFICES ASSUME SignalsHeld PROVE SignalTypeOK
    OBVIOUS
  <2>1. swTab \in [Tab -> [entries : [Signal -> Entry], reviews : [Signal -> ReviewEntry]]]
    BY RegistriesTyped DEF SignalsHeld
  <2>2. swSync \in Run \cup {Resting} /\ {swState, swSite} \subseteq Registry
    BY RegistriesTyped DEF SignalsHeld
  <2> QED
    BY <2>1, <2>2 DEF SignalsHeld, SignalTypeOK, Reviews
<1>2. SignalInv => SignalsHeld
  BY DEF SignalInv
<1> QED
  BY <1>1, <1>2, SignalInvInit, SignalInvNext, PTL DEF SignalSpec

\* Whatever changes in the feed while a run pages through it, and wherever the run
\* fails, is cancelled or loses its state, what it says at its end of a signal that
\* stood still is that signal's state.
THEOREM RegistryFollowsFeed == SignalSpec => []RunFollowsFeed
<1>1. SignalInv => RunFollowsFeed
  BY DEF SignalInv
<1> QED
  BY <1>1, SignalInvInit, SignalInvNext, PTL DEF SignalSpec

\* In every page, however old, a review shown as closed was closed for the version
\* that the page shows.
THEOREM ReviewsOfShownVersion == SignalSpec => []ReviewOfShownVersion
<1>1. SignalInv => ReviewOfShownVersion
  BY DEF SignalInv, ReviewsDecided, DecidedFor, ReviewOfShownVersion, EffectiveState
<1> QED
  BY <1>1, SignalInvInit, SignalInvNext, PTL DEF SignalSpec
===============================================================================
