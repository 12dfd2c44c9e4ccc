--------------------------- MODULE SignalRegistry ---------------------------
(***************************************************************************)
(* The PolicyWatcher signal registry: the scheduled synchronization        *)
(* (palo-policywatcher-operations/index.js, scripts/sync-policywatcher-    *)
(* signals.mjs) pages through a feed that goes on changing, and keeps its  *)
(* registry in a state file and in the file the site is built from; the    *)
(* Governance Hub keeps the reviewers' decisions in browser storage        *)
(* (policyWatcherReviewLedger.js, App.jsx).  A signal's version stands for *)
(* its digest, 0 for its absence.                                          *)
(***************************************************************************)
EXTENDS Integers, FiniteSetsExt

CONSTANTS
  Signal,     \* signal identifiers, numbered in the order of the feed
  VersionOf,  \* the contents a signal may be given, numbered from 1
  PageLimit, MaxPages,  \* a snapshot holds PageLimit * MaxPages signals
  Tab,        \* open pages of the hub
  MaxSync     \* bound on the runs of the workflow

ASSUME SignalAssumption ==
  /\ Signal \subseteq Nat \ {0} /\ IsFiniteSet(Signal)
  /\ VersionOf \in [Signal -> SUBSET (Nat \ {0})]
  /\ PageLimit \in Nat \ {0} /\ MaxPages \in Nat \ {0} /\ MaxSync \in Nat

Version == UNION {VersionOf[s] : s \in Signal}

VARIABLES
  feed,        \* the public signals (external)
  swState,     \* the registry in the state file
  swSite,      \* the registry the site is built from
  swSync,      \* the run of the workflow
  swRuns,
  swStorage,   \* the review map in browser storage
  swTab,       \* and in each page, with the registry the page was built from
  swDecided,   \* history: the versions a reviewer chose a state for
  swAgain,     \* history: signals public again and not reviewed since
  swSteady     \* history: the signals that did not change during the run

swReviews == <<swStorage, swTab, swDecided>>
swFiles == <<swState, swSite, swAgain>>
swVars == <<feed, swFiles, swSync, swRuns, swReviews, swSteady>>

Absent == [status |-> "absent", version |-> 0, revokedAt |-> 0]
Entry == [status : {"absent", "active", "revoked"}, version : Version \cup {0},
          revokedAt : 0..MaxSync]
Registry == [entries : [Signal -> Entry],
             transport : {"not-synchronized", "healthy", "degraded", "unavailable"},
             synced : BOOLEAN]  \* lastSuccessfulSyncAt is set
EmptyRegistry == [entries |-> [s \in Signal |-> Absent],
                  transport |-> "not-synchronized", synced |-> FALSE]

Observation == [Signal -> Version \cup {0}]
Resting == [at |-> "rest"]
Run == [at : {"pages"}, previous : Registry, observed : Observation,
        cursor : Signal \cup {0}, pages : 0..MaxPages]
       \cup [at : {"state", "site"}, registry : Registry]

\* The version a decision was made for and whether it closed the review.
Pending == "pending-human-review"
ReviewEntry == [version : Version \cup {0}, state : {Pending, "reviewed-no-action"}]
Unreviewed == [version |-> 0, state |-> Pending]

SignalTypeOK ==
  /\ feed \in Observation
  /\ {swState, swSite} \subseteq Registry
  /\ swSync \in Run \cup {Resting}
  /\ swRuns \in 0..MaxSync
  /\ swStorage \in [Signal -> ReviewEntry]
  /\ swTab \in [Tab -> [entries : [Signal -> Entry], reviews : [Signal -> ReviewEntry]]]
  /\ swDecided \subseteq Signal \X Version
  /\ swAgain \subseteq Signal /\ swSteady \subseteq Signal

SignalInit ==
  /\ feed \in Observation /\ \A s \in Signal : feed[s] \in VersionOf[s] \cup {0}
  /\ swState = EmptyRegistry /\ swSite = EmptyRegistry
  /\ swSync = Resting /\ swRuns = 0
  /\ swStorage = [s \in Signal |-> Unreviewed]
  /\ swTab = [t \in Tab |-> [entries |-> EmptyRegistry.entries, reviews |-> swStorage]]
  /\ swDecided = {}
  /\ swAgain = {} /\ swSteady = {}
-----------------------------------------------------------------------------
(* The feed and one run of the synchronization *)

Publication(s, v) ==
  /\ feed[s] # v
  /\ feed' = [feed EXCEPT ![s] = v]
  /\ swSteady' = swSteady \ {s}
  /\ UNCHANGED <<swFiles, swSync, swRuns, swReviews>>

Begin ==
  /\ swSync = Resting /\ swRuns < MaxSync
  /\ swRuns' = swRuns + 1
  /\ swSync' = [at |-> "pages", previous |-> swState, observed |-> [s \in Signal |-> 0],
                cursor |-> 0, pages |-> 0]
  /\ swSteady' = Signal
  /\ UNCHANGED <<feed, swFiles, swReviews>>

Behind(s) == {x \in Signal : feed[x] # 0 /\ x > s}

\* The next page: the first PageLimit signals behind the cursor.
Page(cursor) == {x \in Behind(cursor) : Cardinality({y \in Behind(cursor) : y < x}) < PageLimit}
HasMore(cursor) == Cardinality(Behind(cursor)) > PageLimit

Retained(entries, room) ==
  {s \in Signal :
     /\ entries[s].status = "revoked"
     /\ Cardinality({t \in Signal :
          /\ entries[t].status = "revoked"
          /\ \/ entries[t].revokedAt > entries[s].revokedAt
             \/ entries[t].revokedAt = entries[s].revokedAt /\ t < s}) < room}

\* The registry of a complete traversal: what was observed is active, what was
\* active and was not observed is revoked; the newest revocations are kept as
\* long as there is room.
Complete(previous, observed) ==
  LET entry == [s \in Signal |->
        IF observed[s] # 0 THEN [status |-> "active", version |-> observed[s], revokedAt |-> 0]
        ELSE IF previous.entries[s].status = "active"
        THEN [previous.entries[s] EXCEPT !.status = "revoked", !.revokedAt = swRuns]
        ELSE previous.entries[s]]
      room == PageLimit * MaxPages - Cardinality({s \in Signal : observed[s] # 0})
      kept == Retained(entry, room) IN
  [entries |-> [s \in Signal |->
     IF entry[s].status = "revoked" /\ s \notin kept THEN Absent ELSE entry[s]],
   transport |-> "healthy", synced |-> TRUE]

\* A mutation: a traversal that failed is closed with what it has seen.
FailedAsComplete(run) == Complete(run.previous, run.observed)

\* The catch clause: every entry is kept.
FailedRegistry(run) ==
  [run.previous EXCEPT !.transport = IF run.previous.synced THEN "degraded" ELSE "unavailable"]

Closing(registry) ==
  /\ swSync' = [at |-> "state", registry |-> registry]
  /\ UNCHANGED <<feed, swFiles, swRuns, swReviews, swSteady>>

Fetch ==
  /\ swSync.at = "pages"
  /\ swSync.pages < MaxPages
  /\ LET page == Page(swSync.cursor)
         observed == [s \in Signal |-> IF s \in page THEN feed[s] ELSE swSync.observed[s]] IN
     IF HasMore(swSync.cursor)
     THEN /\ swSync' = [swSync EXCEPT !.observed = observed, !.cursor = Max(page),
                                      !.pages = swSync.pages + 1]
          /\ UNCHANGED <<feed, swFiles, swRuns, swReviews, swSteady>>
     ELSE Closing(Complete(swSync.previous, observed))

\* A request fails, or its answer breaks the contract, or the snapshot is too big.
FetchFailed ==
  /\ swSync.at = "pages"
  /\ Closing(FailedRegistry(swSync))

WriteState ==
  /\ swSync.at = "state"
  /\ swState' = swSync.registry
  /\ swSync' = [swSync EXCEPT !.at = "site"]
  /\ UNCHANGED <<feed, swSite, swAgain, swRuns, swReviews, swSteady>>

WriteSite ==
  /\ swSync.at = "site"
  /\ swSite' = swSync.registry
  /\ swAgain' = swAgain \cup {s \in Signal : /\ swSite.entries[s].status = "revoked"
                                            /\ swSite'.entries[s].status = "active"}
  /\ swSync' = Resting
  /\ UNCHANGED <<feed, swState, swRuns, swReviews, swSteady>>

\* A later push cancels the workflow, or its cache is gone (readPrevious).
Cancelled ==
  /\ swSync # Resting /\ swSync' = Resting
  /\ UNCHANGED <<feed, swFiles, swRuns, swReviews, swSteady>>

StateLost ==
  /\ swSync = Resting /\ swState # EmptyRegistry
  /\ swState' = EmptyRegistry
  /\ UNCHANGED <<feed, swSite, swAgain, swSync, swRuns, swReviews, swSteady>>
-----------------------------------------------------------------------------
(* The review ledger in the browser *)

\* A mutation: the review of a signal is kept whatever the signal says now.
NormalizedBySignal(map, entries) ==
  [s \in Signal |-> IF entries[s] # Absent THEN [map[s] EXCEPT !.version = entries[s].version]
                    ELSE Unreviewed]

\* normalizedReviewMap: reviews of the digests the registry of the page has.
Normalized(map, entries) ==
  [s \in Signal |-> IF entries[s].version = map[s].version THEN map[s] ELSE Unreviewed]

OpenTab(t) ==
  /\ swTab' = [swTab EXCEPT ![t] = [entries |-> swSite.entries,
                                    reviews |-> Normalized(swStorage, swSite.entries)]]
  /\ UNCHANGED <<feed, swFiles, swSync, swRuns, swStorage, swDecided, swSteady>>

SaveReview(t, s, state) ==
  LET entries == swTab[t].entries
      next == [Normalized(swTab[t].reviews, entries) EXCEPT
                 ![s] = [version |-> entries[s].version, state |-> state]] IN
  /\ entries[s].status = "active"
  /\ swTab' = [swTab EXCEPT ![t].reviews = next]
  /\ swStorage' = next
  /\ swDecided' = swDecided \cup {<<s, entries[s].version>>}
  /\ swAgain' = swAgain \ {s}
  /\ UNCHANGED <<feed, swState, swSite, swSync, swRuns, swSteady>>

EffectiveState(t, s) ==
  LET review == swTab[t].reviews[s] IN
  IF review.version = swTab[t].entries[s].version THEN review.state ELSE Pending

SignalNext ==
  \/ \E s \in Signal : \E v \in VersionOf[s] \cup {0} : Publication(s, v)
  \/ Begin
  \/ Fetch
  \/ FetchFailed
  \/ WriteState
  \/ WriteSite
  \/ Cancelled
  \/ StateLost
  \/ \E t \in Tab : OpenTab(t) \/ \E s \in Signal, state \in {Pending, "reviewed-no-action"} :
                                    SaveReview(t, s, state)

SignalSpec == SignalInit /\ [][SignalNext]_swVars
-----------------------------------------------------------------------------
(* Properties *)

\* What a run publishes of a signal that did not change while it ran is its
\* state: if it is public, the run never revokes it, and after a complete
\* traversal it is active with its version and nothing withdrawn before is
\* (palo-policywatcher-signal-operations.md:13: "Partial pagination, capacity
\* limits, timeouts, ... never create a revocation").
RunFollowsFeed ==
  swSync.at = "state" =>
    \A s \in swSteady :
      LET entry == swSync.registry.entries[s] IN
      /\ feed[s] # 0 => entry.status # "revoked" \/ entry = swState.entries[s]
      /\ swSync.registry.transport = "healthy" =>
           IF feed[s] = 0 THEN entry.status # "active"
           ELSE entry.status = "active" /\ entry.version = feed[s]

\* A review that is shown as closed was closed for the version that is shown
\* (effectiveReviewState, policyWatcherReviewLedger.js:50).
ReviewOfShownVersion ==
  \A t \in Tab, s \in Signal :
    EffectiveState(t, s) # Pending => <<s, swTab[t].entries[s].version>> \in swDecided

\* A signal that is public again after its withdrawal is pending until someone
\* reviews it again ("A previously withdrawn signal is public again and requires
\* a new human review decision", index.js:220).
RepublishedPending ==
  \A t \in Tab, s \in Signal :
    s \in swAgain /\ swTab[t].entries = swSite.entries => EffectiveState(t, s) = Pending
=============================================================================
