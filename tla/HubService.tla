----------------------------- MODULE HubService -----------------------------
(***************************************************************************)
(* The bundle lifecycle and the audit chain of the Governance Hub control  *)
(* plane (palo-governance-control-plane: service.js, store.js, signer.js)  *)
(* on PostgreSQL, for one tenant: every query is scoped to the caller's.   *)
(* Requests of several server processes interleave statement by statement: *)
(* a transition locks its row and checks the status, takes the advisory    *)
(* lock of the audit chain, reads the latest digest and commits.  A        *)
(* request may fail, or its process stop, between any two statements.      *)
(***************************************************************************)
EXTENDS Integers, Sequences, FiniteSetsExt

CONSTANTS
  HubCall,     \* requests that may be in flight at a time
  Person,
  ScopeOf,     \* the scopes of a person's roles, with the step-up they ask for
  Bundle,      \* bundle identifiers, 1..n in the order they are given out
  Digest, DigestOf,  \* the input a bundle is made of
  Passing,     \* inputs whose simulation passes
  MaxAudit     \* bound on the audit events

ASSUME HubAssumption ==
  /\ ScopeOf \in [Person -> SUBSET {"read", "operate", "review", "publish", "audit"}]
  /\ Bundle \subseteq Nat
  /\ DigestOf \in [Bundle -> Digest] /\ Passing \subseteq Digest
  /\ MaxAudit \in Nat

VARIABLES
  hubBundle,     \* table palo_hub_bundles, as committed
  hubSimulated,  \* inputs with a row in palo_hub_simulations
  hubAudit,      \* table palo_hub_audit_events; an event's digest is its index
  hubCall        \* the requests in flight

hubVars == <<hubBundle, hubSimulated, hubAudit, hubCall>>

Nobody == "nobody"
Missing == [status |-> "missing", author |-> Nobody, reviewer |-> Nobody]

\* What a transition expects, by the status it leads to.
Expected == [draft |-> "missing", in_review |-> "draft", approved |-> "in_review",
             rejected |-> "in_review", published |-> "approved"]

Status == DOMAIN Expected
BundleRow == [status : Status, author : Person, reviewer : Person \cup {Nobody}]
             \cup {Missing}
AtRest == [at |-> "rest"]
InFlight == [at : {"sign", "ready", "locked", "chained"},
             to : Status \cup {"simulated", "read"}, by : Person, bundle : Bundle,
             seen : Status \cup {"missing"}, prev : 0..MaxAudit]
AuditEvent == [what : Status \cup {"simulated", "read"}, by : Person, bundle : Bundle,
               prev : 0..MaxAudit]

HubTypeOK ==
  /\ hubBundle \in [Bundle -> BundleRow]
  /\ hubSimulated \subseteq Digest
  /\ hubAudit \in Seq(AuditEvent)
  /\ hubCall \in [HubCall -> InFlight \cup {AtRest}]

HubInit ==
  /\ hubBundle = [b \in Bundle |-> Missing]
  /\ hubSimulated = {}
  /\ hubAudit = <<>>
  /\ hubCall = [k \in HubCall |-> AtRest]
-----------------------------------------------------------------------------
(* Requests: what a handler reads and checks before its transaction *)

HubGo(k, c) ==
  /\ hubCall' = [hubCall EXCEPT ![k] = c]
  /\ UNCHANGED <<hubBundle, hubSimulated, hubAudit>>

\* A handler that gets past its checks goes on with the status it has read.
Enter(k, p, b, to, at) ==
  /\ hubCall[k] = AtRest
  /\ Len(hubAudit) < MaxAudit
  /\ HubGo(k, [at |-> at, to |-> to, by |-> p, bundle |-> b,
               seen |-> hubBundle[b].status, prev |-> 0])

\* The first bundle of an input stands for the input.
Simulate(k, p, b) ==
  /\ "operate" \in ScopeOf[p]
  /\ \A a \in Bundle : a < b => DigestOf[a] # DigestOf[b]
  /\ DigestOf[b] \notin hubSimulated
  /\ Enter(k, p, b, "simulated", "ready")

Stored(b) == hubBundle[b] # Missing

Taken(b) ==
  \/ Stored(b)
  \/ \E j \in HubCall : /\ hubCall[j] # AtRest
                        /\ hubCall[j].to = "draft" /\ hubCall[j].bundle = b

\* A draft needs a passed simulation of the same input; its identifier is new.
CreateDraft(k, p, b) ==
  /\ "operate" \in ScopeOf[p]
  /\ DigestOf[b] \in hubSimulated \cap Passing
  /\ ~Taken(b)
  /\ \A a \in Bundle : a < b /\ DigestOf[a] = DigestOf[b] => Taken(a)
  /\ Enter(k, p, b, "draft", "ready")

SubmitReview(k, p, b) ==
  /\ "operate" \in ScopeOf[p]
  /\ Stored(b)
  /\ hubBundle[b].author = p \/ "publish" \in ScopeOf[p]
  /\ Enter(k, p, b, "in_review", "ready")

\* What the body of a request may name as its decision.
Requested == Status \cup {"deferred"}

\* A mutation: the decision is patched into the record as the request's body names it.
AsRequested(decision) == TRUE

Reviewable(decision) == decision \in {"approved", "rejected"}

Review(k, p, b, decision) ==
  /\ "review" \in ScopeOf[p]
  /\ Reviewable(decision)
  /\ Stored(b)
  /\ hubBundle[b].author # p
  /\ Enter(k, p, b, decision, "ready")

\* publish has the bundle it read signed before the transition is tried.
Publish(k, p, b) ==
  /\ "publish" \in ScopeOf[p]
  /\ Stored(b)
  /\ Enter(k, p, b, "published", "sign")

Sign(k) ==
  /\ hubCall[k].at = "sign"
  /\ HubGo(k, [hubCall[k] EXCEPT !.at = "ready"])

\* getBundle, listBundles, auditEvents and the adapter reads only append an event.
ReadAudited(k, p, b) ==
  /\ "read" \in ScopeOf[p]
  /\ Stored(b)
  /\ Enter(k, p, b, "read", "ready")
-----------------------------------------------------------------------------
(* Transactions *)

Open == {"locked", "chained"}

\* Open transactions that hold the row of bundle b, or of one with its digest.
RowFree(b) ==
  \A j \in HubCall :
    hubCall[j].at \in Open /\ hubCall[j].to \in Status => hubCall[j].bundle # b

DigestFree(d) ==
  \A j \in HubCall :
    hubCall[j].at \in Open /\ hubCall[j].to \in Status => DigestOf[hubCall[j].bundle] # d

\* The unique index over digests of bundles that are not rejected.
NoneLive(d) ==
  \A b \in Bundle : Stored(b) /\ DigestOf[b] = d => hubBundle[b].status = "rejected"

LockFree(c) == IF c.to = "draft" THEN DigestFree(DigestOf[c.bundle]) ELSE RowFree(c.bundle)

\* A mutation: the status is not read again under the lock.
AsSeen(c) ==
  IF c.to = "draft" THEN NoneLive(DigestOf[c.bundle]) ELSE c.seen = Expected[c.to]

AsExpected(c) ==
  IF c.to = "draft" THEN NoneLive(DigestOf[c.bundle])
  ELSE hubBundle[c.bundle].status = Expected[c.to]

LockRow(k) ==
  LET c == hubCall[k] IN
  /\ c.at = "ready" /\ c.to \in Status
  /\ LockFree(c) /\ AsExpected(c)
  /\ HubGo(k, [c EXCEPT !.at = "locked"])

\* 409: rolled back.
Conflict(k) ==
  LET c == hubCall[k] IN
  /\ c.at = "ready" /\ c.to \in Status
  /\ LockFree(c) /\ ~AsExpected(c)
  /\ HubGo(k, AtRest)

ChainFree == \A j \in HubCall : hubCall[j].at # "chained"

\* appendAuditUsing: the advisory lock, held until the commit, and the latest digest.
ReadLatest(k) ==
  LET c == hubCall[k] IN
  /\ c.at = "locked" \/ (c.at = "ready" /\ c.to \notin Status)
  /\ ChainFree
  /\ Len(hubAudit) < MaxAudit
  /\ HubGo(k, [c EXCEPT !.at = "chained", !.prev = Len(hubAudit)])

\* The record under the lock, with the patch of the transition.
Patched(c) ==
  LET row == hubBundle[c.bundle] IN
  CASE c.to = "draft" -> [status |-> "draft", author |-> c.by, reviewer |-> Nobody]
    [] c.to \in {"approved", "rejected"} -> [row EXCEPT !.status = c.to, !.reviewer = c.by]
    [] c.to \in {"in_review", "published"} -> [row EXCEPT !.status = c.to]
    [] OTHER -> row

Commit(k) ==
  LET c == hubCall[k] IN
  /\ c.at = "chained"
  /\ hubBundle' = [hubBundle EXCEPT ![c.bundle] = Patched(c)]
  /\ hubSimulated' = IF c.to = "simulated" THEN hubSimulated \cup {DigestOf[c.bundle]}
                     ELSE hubSimulated
  /\ hubAudit' = Append(hubAudit, [what |-> c.to, by |-> c.by, bundle |-> c.bundle,
                                   prev |-> c.prev])
  /\ hubCall' = [hubCall EXCEPT ![k] = AtRest]

\* A statement fails, the signer does, or the process stops: nothing is kept.
Rollback(k) ==
  /\ hubCall[k] # AtRest
  /\ HubGo(k, AtRest)

HubNext ==
  \E k \in HubCall :
    \/ \E p \in Person, b \in Bundle :
         \/ Simulate(k, p, b)
         \/ CreateDraft(k, p, b)
         \/ SubmitReview(k, p, b)
         \/ \E decision \in Requested : Review(k, p, b, decision)
         \/ Publish(k, p, b)
         \/ ReadAudited(k, p, b)
    \/ Sign(k)
    \/ LockRow(k)
    \/ Conflict(k)
    \/ ReadLatest(k)
    \/ Commit(k)
    \/ Rollback(k)

HubSpec == HubInit /\ [][HubNext]_hubVars
-----------------------------------------------------------------------------
(* Properties *)

\* Every audit event names the digest of the one before it: whatever requests
\* commit concurrently, the chain of a tenant never forks
\* (appendAuditUsing, store.js:240).
HubAuditChained == \A i \in 1..Len(hubAudit) : hubAudit[i].prev = i - 1

EventsOf(b) == {i \in DOMAIN hubAudit : hubAudit[i].bundle = b /\ hubAudit[i].what \in Status}

\* The status the last of some events leads to.
StatusAfter(events) == IF events = {} THEN "missing" ELSE hubAudit[Max(events)].what

\* The audit events of a bundle are a path of the lifecycle to the status that
\* is committed, and name its author and a reviewer who is someone else
\* (submitReview, review, publish; transitionBundleWithAudit, store.js:229).
HubLifecycleOnRecord ==
  \A b \in Bundle :
    LET row == hubBundle[b] IN
    /\ row.status = StatusAfter(EventsOf(b))
    /\ \A i \in EventsOf(b) :
         LET event == hubAudit[i] IN
         /\ Expected[event.what] = StatusAfter({j \in EventsOf(b) : j < i})
         /\ event.what = "draft" => row.author = event.by
         /\ event.what \in {"approved", "rejected"} =>
              row.reviewer = event.by /\ row.reviewer # row.author

\* The audit of a tenant is one chain that tells how each bundle came to be
\* what it is.
HubOnRecord == HubAuditChained /\ HubLifecycleOnRecord

\* What the remote signer has signed was approved when publish read it
\* (palo-governance-hub-operations.md:25: the lifecycle is draft, in-review,
\* approved or rejected, remotely signed, published).
SignedWhenApproved ==
  \A k \in HubCall :
    hubCall[k].at = "ready" /\ hubCall[k].to = "published"
      => hubCall[k].seen \in {"approved", "published"}
=============================================================================
