# A TLA+ verification of the PALO framework runtime

The PALO framework repository holds a governance runtime for agent actions, a
budget gateway, a control plane for governance bundles, a knowledge base with
its readers, and the web pages around them.  This directory models the parts
whose order of steps matters, checks the models with TLC and proves theorems
about them with TLAPS.  Paths below are relative to the repository.

## 1. Inventory

### Governance runtime (`packages/palo-mcp-server`)

One Node.js process owns an SQLite database (`core.js:196-254`).  SQLite calls
are synchronous, so the code between two `await`s of a handler is never
interrupted by another handler; it can be cut by a crash between two
transactions.  Handlers wait for parties outside the process: the authority
verifier, the policy evaluator, the state verifier and the executor.  At each
of these waits any other handler can run.

| part | state | operations | hard behaviour | what makes it correct |
|---|---|---|---|---|
| governed execution | `decisions`, `execution_capabilities`, `executions`, `disclosure_receipts`, the map `authorityVerifications` | `executeGovernedAction` (l. 1135), `verifyAction` (898), `issue-/revoke-/consumeCapability...` (1057-1133), `ingestAssuranceSignal` (601) | calls racing for one claim; what was checked before an await and used after it; a signal, an expiry or a crash in between | a capability is granted and spent once, on an allowed decision; intent is on disk before the connector is called; a start is revalidated |
| outcome verification | `executions`, `incidents`, `resource_holds`, `assurance_tasks` | `verifyOutcome` (1228), `openIncident` (1329), `resolveIncident` (1409), `processDueTasks` (808), `recoverPendingExecutions` (1296) | several verifications of one execution at once, human and automatic resolution, recovery cut short, the task poller | every outcome that is not verified has its incident and its hold; a task ends once |
| approvals | `approvals`, approval tasks | `requestApproval` (984), `resolveApproval` (1013) | expiry by reader and by poller, crash between approval and task | an approval is decided once, by an eligible reviewer |
| replay ledger | `replay_claims`, `agent_sequences` | `reserveReplay` (882) inside `verifyAction` | a denied claim asked for again; concurrent claims with adjacent sequence numbers | an allowed decision has reserved its nonce, key and sequence number |
| evidence ledger | `evidence` (hash chain) | `recordEvidence` (1424), `verifyLedger` (1454) | row and evidence in different transactions | the chain is unbroken and covers what was done |
| inputs | data fitness decisions, disclosure contracts, delegation chains, effect contracts | `data-assurance.js`, `assurance-foundation.js`, `enforcement-provider.js` | boundaries of comparisons, combination of partial results | fail closed |
| ingress | none | `gateway.js`, `server.js`, `auth.js` | start-up order: recovery, one task poll, then serving; poller with a re-entrancy flag | polls do not overlap |

### Other packages

| part | state | operations | hard behaviour | what makes it correct |
|---|---|---|---|---|
| FinOps ledger and gateways (`packages/palo-finops`, `assets/palo-finops-core.js`) | append-only ledger and dispatch tables in one SQLite file | `append`, gateway `dispatch`, probe, `ledger-append` | processes stopped between reserving, sending and settling; a settlement the ledger refuses | a budget is never spent twice, a provider never called twice for an attempt |
| governance control plane (`packages/palo-governance-control-plane`) | bundles, audit chain, sessions, login transactions in PostgreSQL | bundle routes, OIDC login, logout | requests interleave statement by statement; a callback that arrives twice | the audit chain never forks, the lifecycle is on record, one session per login |
| PolicyWatcher operations (`packages/palo-policywatcher-operations`, two scripts, the hub's review ledger) | state file, site file, review map in the browser | synchronization, review | a feed that changes while it is paged; a signal that comes back | nothing public is revoked; a review counts for what was reviewed |
| governance hub (`governance-hub`) | the wizard's React state | editing, checks, drafts, lifecycle buttons | answers of requests whose input was edited meanwhile | nothing untested is stored |
| Knowledge Reader (`reader-http.js`) | two limiters in memory | `/mcp` | a response body that fails or is cancelled while a chunk is read | every slot comes back, once |
| knowledge base (`knowledge-base.js`) | draft, review and published files | `submitDraft`, `reviewDraft` | a stop between two files | what is published was reviewed |
| FinOps billing and operations (`assets/palo-finops-billing.js`, `palo-finops-operations.js` and their views) | workspace, billing book and cases on one page | import, link, settle, review a case | a job that awaits digests while people go on; revisions that supersede what was settled from | settled costs are billed or questioned; no job undoes what was done meanwhile |
| knowledge copilot (`packages/palo-knowledge-copilot`, the hub's `AskPaloView.jsx`) | sessions in the store, one cookie per browser, a CSRF token per page | sign in, ask, sign out | tabs that show different people under one cookie; late answers | nobody's question is served for somebody else |
| n8n nodes, tri-graph, external evidence | little or none | pure evaluation and request building | | |

`dist/`, `audit/`, `designs/`, `media/`, `deploy/`, schemas, data and the web
pages are generated, static or deployment material and are left out.

## 2. Plan

Done, in this order: the capability life cycle and its proofs; outcomes, incidents,
holds and tasks and their proofs; approvals and the replay ledger; the FinOps
ledger and the budget it implements; registry, data assurance and delegated
authority; the knowledge base; the control plane, its logins, the wizard and the
signal registry; admission to the Knowledge Reader; billing and its cases; the
sessions of the copilot.

Then proofs of the safety properties of every module, and of the refinement of
`FinOpsBudget`.

Left, most useful first:

1. The hash chain of `recordEvidence` and `verifyLedger`.
2. The effect predicates of `enforcement-provider.js` against a reference definition.
3. Shared costs, period snapshots and the replacement of whole workspaces in
   `FinOpsBilling`.
4. `ActionAdmission` composed with `GovernedExecution`, of which each now has the
   other by its effects.
5. Theorems about the reference Rego policy and the boundaries of data fitness as
   functions, apart from the components that use them.

## 3. Modules

| module | what it is |
|---|---|
| `OneTimeCapability` | the contract of an execution capability, with no process, database or call in it |
| `GovernedExecution` | the runtime from an Action Claim to the executor's answer, over the tables of `core.js` |
| `GovernedExecution_proofs` | its inductive invariant, theorems, and the refinement of `OneTimeCapability` |
| `OutcomeVerification` | the runtime from the executor's answer on: receipt, attestation, incident, hold, task, start-up |
| `OutcomeVerification_proofs` | its inductive invariant and theorems |
| `ActionAdmission` | from a claim to its decision: replay reservation, approval, approval tasks and their poller |
| `FinOpsBudget` | what the ledger promises about a budget, with no file, process or gateway in it |
| `FinOpsLedger` | ledger, gateway, probe and operator on one file |
| `FinOpsBilling` | imports, links and settlements of a billing book, and the cases of operations |
| `DataAssurance` | evidence, fitness decisions, disclosure contracts and observations |
| `AuthorityRegistry` | versions of policies, profiles, executors, verifiers, fitness policies, AI systems |
| `ActionAuthority` | delegation chains and the reference Rego policy, as functions of a claim |
| `KnowledgeCuration` | drafts, reviews and published records |
| `HubService`, `HubLogin` | the control plane: bundles and audit chain; logins and sessions |
| `HubWizard` | the guided builder in the browser and the requests it has in flight |
| `SignalRegistry` | synchronization of signals, their review in open pages |
| `ReaderAdmission` | quota, concurrency slots and response bodies of the Knowledge Reader |
| `AskPalo` | sessions of the Knowledge copilot and the tabs that use them |
| `ActionAdmission_proofs` | its inductive invariant and theorems |
| `FiniteInduction` | least elements, and what follows about sums over finite sets |
| `FinOpsLedger_proofs` | budgets, dispatches, and the refinement of `FinOpsBudget` |
| `Ledgers_proofs` | curation, registry, authority, data assurance, billing, and the suite of the ledgers |
| `Hub_proofs` | control plane, logins, wizard and signal registry |
| `Knowledge_proofs` | copilot and Reader, and the suite of the hub |
| `MC...` | the instances TLC checks; `MCLedgers` and `MCHub` are suites, `MCReplay` adds to `MCActionAdmission` a record of refused replay material |

`MCLedgers` and `MCHub` hold components that share no state.  A behaviour of a
suite runs one of its parts, named by `part`, and the others stay at their initial
state: the reachable states are the union of the parts', not their product.

### How an action corresponds to code

Calls interleave at `await`s and nowhere else, also at those that resolve at
once (a microtask).  One action is the code of one call from one `await` to the
next, every table write and early return included.  What a call carries across
an `await` is a variable of its own, read where the code reads it, so that the
model can act on stale values where the code can.  Where the code between two
awaits commits more than one transaction, an action `CrashIn...` stops the
process between them.  `Crash` loses what is in memory and keeps the tables.

Answers of outside parties are any answer they can give.  In the runtime's
modules clocks are not modelled: whatever has an expiry can be found expired at any
time, and what was found expired stays so.

### GovernedExecution

`pc[k]` says at which `await` of `executeGovernedAction` call `k` is, `seen[k]`
and `verdict[k]` are its `existingDecision` and the decision `verifyAction`
returned.  `decision`, `capability`, `execution`, `disclosed` and `held` are
tables; `allowed` remembers which allowed decisions were ever persisted;
`authority` is the map `authorityVerifications`; `dispatched` counts the
executor's calls.

| await left | actions |
|---|---|
| none yet | `Begin`, `ReturnExisting`, `RefuseClaim` |
| profile | `ProfileRefused`, `AskAuthority` |
| authority verifier | `AuthorityRejected`, `AdmissionDenied`, `Admitted` |
| policy evaluator | `PolicyAnswered` |
| `verifyAction`'s own end | `IssueCapability`, `IssueRefused`, `HandlerMissing` |
| state verifier, before | `PreStateRejected`, `PreStateAccepted` |
| authority again | `ReauthorityRejected`, `Consume`, `ConsumeExisting`, `ConsumeRefused`, `CapabilityExpired` |
| executor | `ExecutorAnswered` |

Others: `SignalIngested` (an assurance signal invalidates a decision and revokes
what is bound to it, each in a transaction of its own: `CrashInSignal` stops before,
between or after the revocations), expiries, `OutcomeAttested` and `HoldReleased` (the effect
of the other module on these tables), crashes, `Restart` (start-up recovery).
Callers of `verifyAction` alone (the MCP tool and `/v1/actions/verify`) are calls
that end at `PolicyAnswered`.  A `claimId` used again with other content is
over-approximated by `RefuseClaim`.  All calls name one executor and one verifier.

### OutcomeVerification

`row[e]` is the executions row of `e` as far as this component reads it (receipt
status, attestation status, whether it names its incident, outbox state);
`task`, `incident` and `holder` are the tables `assurance_tasks`, `incidents` and
`resource_holds`.  A session is a request (`Caller`), a poll on request (`Poll`)
or the gateway itself (start-up and timer, which its flag keeps to one poll at a
time).  `session[s]` holds the copy of the row's incident and the task a
`verifyOutcome` read before it awaited the verifier, and the rest of a poll's list.

| code | actions |
|---|---|
| `issueExecutionCapability`, `consumeCapability...`, end of `executeGovernedAction` | `Admit`, `Start`, `ExecutorAnswered` |
| `verifyOutcome` | `Verify` to its await; `NotVerified`, `ResolveVerified`, `Verified`, `SigningFails` after it; `Conclude` is its end, with the errors `transitionTask` throws |
| `processDueTasks` | `PollStart`, `TakeTask` (its loop), `Settle` (after the result) |
| `resolveIncident` | `ReviewIncident`, and within `ResolveVerified` |
| `gateway.js` start-up | `Restart`, `Recover`, `ListUnattested`, `Resume`, `StartupPoll`; `Throw` there ends the process, as the top-level await does |

An answer of the verifier stands for everything `verifyOutcome` derives from it
(effect predicates, window, disclosure receipt), all of which can make any of the
three outcomes; only the rule on unknown receipts relates it to the row and is
modelled (`Judged`).  An execution's executor is called once here, and approval
tasks, which the poller also lists, are left out.

### ActionAdmission

`call[k]` is what a call of `verifyAction` carries over its two groups of awaits:
`Begin` reads the decision and goes to its first await; the steps after it
reserve (`reserveReplay`), read the approval, and record what the evaluator said.
`decision`, `reserved`, `lastSeq`, `approval` and `task` are tables.  Reading an
approval whose time is over expires it, as the poller does; a resolution is two
transactions, and a crash may separate them.  Start-up polls once and serves if
nothing throws.

### FinOpsLedger

Of the journal the model keeps what `replay` makes of it (`attempt`, `last`).  A
gateway's or probe's call is a process of its own: one step per transaction and one
for the provider, and it may stop before any of them.  `FinOpsBudget` sees an
attempt as free, held or paid for and forgets the rest.

### FinOpsBilling

`fbBook` is what `replayBilling` makes of a book: its runs, all revisions, the active
ones and the links.  `fbJob` is the import or settlement in flight with the records it
was computed from (`run` of the billing view, which allows one at a time); `CommitJob`
commits it if they are still the records, `DropJob` is every other end.  Every step
that changes records renders the page, which syncs the cases with what
`deriveCases` finds; cases keep the print of the finding that was reviewed.

### Data, registry, authority, knowledge base

Each operation of `DataAssurance` is one step, as the code awaits nothing; evidence
says of its subject that something is met, unmet, or nothing.  It has a clock.
Stamps of somebody else's clock, on evidence, contracts and observations, may be ahead
of it, or behind, by `Tolerance`, the 30 seconds of `core.js:468`, `537`, `548`, `654`
and `data-assurance.js:219`; the ages of evidence are cut off at zero, as there.  The
`importedAt` of evidence (l. 468, 469) enters no decision and is left out.  `AuthorityRegistry`
has one entry per kind, with one row per version, and keeps, for the decisions on
record, the profile they were made under.  `ActionAuthority` decides one claim in
one step, for every claim, chain and profile of the instance.  `KnowledgeCuration`
writes one file per step and may stop between two.

### The hub's modules and the Reader

A request of `HubService` is at a statement of its transaction: `LockRow` locks
and checks, `ReadLatest` takes the advisory lock and reads the latest digest,
`Commit` writes both; `Conflict` and `Rollback` end it earlier.  A review may name
any decision; `Reviewable` are those the handler accepts (`service.js:260`).  `HubLogin` has the
login transaction, the calls on their way through the callback and a clock, since
expiry of identity and of session meet.  `HubWizard` keeps what the page keeps, and
a request remembers the input it was made for; what the control plane has stored is
next to it.  The guard `q.input \in wzSimulated` of `Served` stands for the lookup of
the passed simulation of that input (`service.js:220`); so the half of
`ArtifactTested` about stored drafts shows that nothing but `Served` makes one, and the
half about local bundles, which no server checks, is the one that could go wrong
in the page.  `SignalRegistry` fetches page by page while `feed` changes, writes its
two files in two steps, and its pages show the registry they were built from.
`ReaderAdmission` admits in one step, as the code does between two awaits; a body
may have a read and a cancellation under way together.  `AskPalo` names a token by its
session; a request keeps the cookie and the token it was sent with and what its page
showed, is served in one step and received in another, or given up by the page and
served all the same.

## 4. Runs

| run | instance | shows |
|---|---|---|
| `crash` | 1 data-bound claim, 3 calls, crashes | type, `ExecutionConsumesCapability`, `IntentBeforeConnector`, `StagesBacked`, `StartRevalidated`, refinement of `OneTimeCapability` |
| `signal` | 2 data-bound claims on one Data Fitness Decision, 3 calls, no crash | `SignalWithdrawsCapabilities` |
| `verify` | 2 executions on one resource, one with a task of 2 attempts; request, poll on request, timer, reviewer, crashes, start-ups | type, `OutcomeHasIncident`, `UnknownNeverVerified`, `HoldHasIncident`, `TaskEndsOnce`, `ResolvedForGood`, `ResumedBeforeServing` |
| `retries` | 1 execution with a task of 3 attempts, request, poll on request, timer | liveness `RetriesEnd` |
| `admission` | 3 claims of one agent that share a claimId, a key and a nonce pairwise; 3 calls, 2 approvals, 1 crash | type, `ReplayLedgerSound`, `AllowedByHuman`, `TaskFollowsApproval`, `DecidedOnce`, liveness `LapsedEnds` |
| `ledgers` | suite, see below | types, `BudgetHeld`, `DispatchAccounted`, refinement `KeepsPromise`; `CostsExplained`, `RecordsStand`; `DisclosureUnderFitness`; `DecidedProfilesKept`; `PublishedAsReviewed`; `AllowedReachesAgent` |
| `hub` | suite, see below | types, `HubOnRecord`; `ArtifactTested`; `SessionsFromLogins`; `RunFollowsFeed`, `ReviewOfShownVersion`; `AskedAsShown`; `ReaderWithinLimits` |

Bounds of the first four: three calls are needed for a call that overtakes two
others (one that decided, one that is about to consume), two claims for one claim's
signal or hold to meet the other's call, two executions for a hold that replaces
another, three sessions for two that race while a third settles.  Versions of
decisions and the number of crashes need no bound, since every call ends once.
`MaxActive` is 1 so that the guardrail bites.  `Claimed` counts attempts up to
`MaxAttempts` and no further: the code's counter can exceed it when two sessions
claim one task, which nothing but `attempts < maxAttempts` reads.

Bounds of the others:

- `admission`: each pair of the three claims collides in a different field, and one
  that is refused stands between two that are not; two approvals, one that lapses
  and one that replaces it; one crash falls into every gap between two transactions.
- FinOps: two requests under one requestId, and a probe whose attempt an operator
  may have reserved for; two of the reservations fit the budget, three do not;
  instants before and after everything has expired (`ValidUntil`, `MaxTime`).
- billing: one attempt and three imports, of usage that is estimated, final or in a
  part of an export, an invoice that corrects it and a snapshot that removes it for
  a credit; amounts that link all, half or too much; every order in which an amount
  can be linked, settled, superseded and linked again fits three imports.  Only
  cases of ledger differences are closed, as all kinds share the code.
- data: two references of two types that overlap in time, two policies (one with an
  age limit, which needs both types), two decisions, so that one is invalidated
  and made again; `LastDay` is the last expiry.  `Tolerance` is one instant, which is coarse
  next to 30 seconds: evidence may lie one instant ahead of the start it supports, and
  a contract be issued before its decision or after its registration.
- registry: two versions and two texts of every kind, one that the server bundles.
- curation: two drafts and three people, so that there is a reviewer who is not
  the author.
- authority: chains of up to two links with every combination of scopes, in and out
  of order; a violation of a longer chain shows in two neighbours or at its ends.
- service: two requests in flight and two bundles of one input; the second is
  what the unique index refuses.  `MaxAudit` lets one bundle go through its life
  and a refused or second one start.
- login: one login and two calls, which is a callback that arrives twice; clock
  values before, at and after each expiry.
- wizard: three inputs, two of one profile, one invalid; two requests in flight.
- signals: three signals on pages of one, of which at most two fit a snapshot, so
  that traversals are cut; one page, two runs.
- copilot: two tabs, a session of each of two people, two requests in flight, so that
  one's question meets the other's sign-in.  Tabs and requests are symmetry sets:
  nothing names one, and no liveness is checked.
- reader: two principals of one client and one of another, two requests, room for
  two principals in the rate limiter, a clock that covers two windows' overlap.  With one slot per client
  and two clients the limit of each client refuses before the global one of two does:
  that TLC does not reach, and `LimitsHold` covers it for all limits.

Deadlock is not checked where the system really may stop: calls return once, claims
and clocks come to their end.

### Where the code does not do what is said of it

Each of these runs checks one property and finds it violated.

| run | what happens |
|---|---|
| `once` | two calls for one claim pass `ReturnExisting`; the loser finds the winner's row in the consume transaction and calls the executor with it |
| `open_hold` | the second incident of a resource replaces the first one's hold; resolving it frees the resource |
| `replay` | `reserveReplay` refuses a claim whose number is not the next and puts the denial on record (`ReplayRefused`); the same claim is sent again, the reservation is skipped for a claim that has a decision, and it is allowed |
| `served` | a crash between an approval and its task leaves a task every poll stumbles over; the one at start-up ends the process, at every start |
| `republished` | a signal that was reviewed, withdrawn and published again unchanged shows the old decision |

The modules state more that the code does not keep; TLC refutes each, and no run
of the list repeats it, for these are consequences of the same shapes:

| property | what happens |
|---|---|
| `HoldStopsConnector` | a hold placed after `issueExecutionCapability` does not stop the connector |
| `IssuedForCurrentDecision` | `verifyAction` returns the decision it read before three awaits although another call replaced it |
| `VerifiedReleasesHold` | a verification that began before the incident existed ends as verified and leaves the hold |
| `RecoveredAttested` | a start-up cut short between unknown receipt and attestation is never completed |
| `RetriesDurably` | a read of the outcome sets the requeued task to running and returns; no poll lists it again |
| `SignedWhenApproved` | `publish` has a bundle signed before it checks its status (`service.js:281`) |
| `ReceiptOfCurrentInput` | the wizard shows the receipt of a request whose input was edited meanwhile |

Met on the way, stated by no property:

- an attestation that fails after the incident was resolved gets the resolved
  incident and no hold (`Opened`, `Held`), although
  `docs/palo-ai-governance-hub-workflows.md:170` says it opens one; a later success
  releases the hold without the human of `docs/palo-ai-full-cycle-assurance.md:44`;
  after a task failed with its receipt unattested, the next start-up attests it,
  throws and ends the process;
- a policy's digest does not cover its version, so that an older version with the
  current bundle is registered and becomes current (`core.js:346`);
- a confirmed authority verification that lapses, or is forgotten by another call for
  the claim, between the check at `core.js:1157` and the transaction at l. 1105 ends
  the call with the capability issued; a later call takes it up, with every check
  made again;
- evidence observed up to 30 seconds after the server's clock counts for a decision
  at once, so that an execution may start before what it rests on was observed, by
  its source's clock; likewise a contract may be issued up to 30 seconds ahead
  (`DisclosureUnderFitness` states the bound);
- after a crash between a decision's row and its evidence (`core.js:978`), the row
  alone grants a capability;
- a contract's window is inclusive for an observation and exclusive for a start,
  and a signal invalidates decisions but not the evidence a next decision is made of;
- a logout is audited before the session is deleted, a login after its session is made;
- two open pages that save reviews overwrite each other's whole map; of the two
  files of a synchronization a stop may leave the site's one run behind;
- loading a bundle moves the wizard to its last step, whatever the steps before;
- a draft that was accepted but not published when the server stopped stays so;
- "a rejected digest cannot be promoted" holds for the bundle, while a new draft of
  the same input may be;
- an answer that arrives after the page has signed out is shown all the same
  (`AskPaloView.jsx:156`), and a late answer to an expired cookie deletes the cookie
  of a newer sign-in (`app.js:171`);
- `fetchBatch` clears its timeout when the headers are there, not the body.

The package's README (l. 24) disclaims universal exactly-once execution and
recovery across several instances; neither is claimed or checked here.  `once` is
about two calls inside one process and one capability.

## 5. Fairness

The safety runs assume none.  `UpSpec` of `OutcomeVerification`, for `retries`,
assumes:

- weak fairness of each session's steps: a handler that can go on does, and a
  verifier that was asked answers.  The second is an assumption about the
  verifier: `core.js:1244` awaits it without a timeout, and one that never answers
  stops the timer's polls for good;
- strong fairness of the timer listing a given task: the timer fires every
  `PALO_TASK_POLL_INTERVAL_MS` while no poll of its own is under way, a task that
  is due stays due, and the list is ordered by `available_at`.

It has no crash: a task that is running at a crash is not queued again.

`UpSpec` of `ActionAdmission`, for `admission` and `served`, assumes what
`gateway.js` does by itself: a process that is down is started, start-up goes on, the
timer's poll begins and handles its list.  Nothing is assumed of callers,
reviewers, requested polls or clocks.  `served` fails under it, so its
counterexample is a process that is started again and again.

## 6. Proofs

TLAPS checks every safety property of the passing runs, invariants and action
properties alike, and both refinements, for every value of the constants:

| theorem | about |
|---|---|
| `GovernedExecution_proofs!TypeCorrect`, `ExecutionNeedsCapability`, `IntentPrecedesConnector`, `CallsBacked` | the invariants of run `crash` |
| `StartsRevalidated`, `CapabilityContract` | its action property and the refinement of `OneTimeCapability` |
| `SignalsWithdraw` | the invariant of run `signal`, for the process that stays up |
| `OutcomeVerification_proofs!TypeCorrect`, `OutcomesHaveIncidents`, `UnknownsNeverVerified`, `HoldsHaveIncidents` | the invariants of run `verify` |
| `TasksEndOnce`, `IncidentsResolvedForGood`, `ReceiptsResumed` | its action properties |
| `ActionAdmission_proofs!AdmissionTyped`, `ReplayMaterialSound`, `HumanApproves`, `TasksFollowApprovals` | the invariants of run `admission` |
| `DecidedApprovalsStay` | its action property |
| `FinOpsLedger_proofs!BudgetsHold`, `DispatchesAccounted`, `LedgerKeepsPromise` | of run `ledgers`: the FinOps ledger and the refinement of `FinOpsBudget` |
| `Ledgers_proofs!RecordsReviewed`, `ProfilesKept`, `AllowedWasDelegated`, `DisclosuresFit`, `CostsAreExplained`, `RecordsAreKept`, `LedgersTyped` | the rest of run `ledgers`, `RecordsAreKept` its action property |
| `Hub_proofs!LifecycleOnRecord`, `OneSessionPerLogin`, `ArtifactsTested`, `RegistryFollowsFeed`, `ReviewsOfShownVersion` | of run `hub`: control plane, logins, wizard, signals |
| `Knowledge_proofs!AnsweredAsShown`, `LimitsHold`, `HubPartsTyped` | the rest of run `hub`: copilot, Reader |

The parts of a suite are proved apart, from their own specifications.
`LedgersRunParts` and `HubRunsParts` show that a behaviour of the suite, as TLC runs
it, is one of each of its parts, so that what is proved of a part is what the run
checks.

The assumptions are the named `ASSUME`s of the modules, which TLC evaluates on every
run: bounds are positive, identifiers of different kinds differ, tables name known
keys.  Those the proofs brought in say that what is summed or cut off by a maximum
is finite (attempts of the FinOps ledger and of the billing book, records of a
batch, contents of evidence, signals, requests to the Reader); that a batch
lists a source once, which the code checks (`palo-finops-billing.js:47-51`); that a
delegation chain is a sequence of links; and that a suite runs parts that exist.

*GovernedExecution.*  `IInv` adds to the checked invariants that a decision which
stands as allowed is on record and that every capability is bound to an allowed
decision of its claim.  `ExecutionConsumesCapability` alone is not inductive: that
`Consume` finds an issued capability and no execution follows from its guard, but
that a call waiting for the executor still has its execution needs `StagesBacked`,
and that needs the record of allowed decisions, since a call may carry a decision
that was replaced.  Each action changes the capability, execution and dispatch of
one claim in one of a few ways; lemmas give each action its fate, and from the
fates follow the invariant and the step of `OneTimeCapability` it maps to.

*OutcomeVerification.*  `IInv` adds three things.  Rows go through stages, so that
no receipt is overwritten by a recovery (`RowsStaged`).  What process and sessions
remember fits the stage of the row: a session that awaits a verifier has a receipt
behind it, one that records a success a conclusive one (`ProcessBacked`,
`SessionsBacked`); without it `UnknownNeverVerified` is not inductive, as a
session could hold the answer for a row that becomes unknown.  A task has a
receipt behind it (`TasksBacked`); without it the executor's answer could requeue
a task that ended.  Most actions leave rows without receipt alone and keep
receipts (`RowKept`); lemmas about `Throw`, `PollDone`, `TakeTask` and `Conclude`
are proved from that once and serve every action that ends in them.
`ResumedBeforeServing` speaks of one step, and needs an invariant of the phases
before it (`StartupInv`): only the gateway's own session works then, what is owed is
still to do or in that session's hand, and a task it is about to settle belongs to an
execution that was just attested.

*ActionAdmission.*  `AdmissionInv` says of every call what it still knows after an
await (`CallSound`).  If it read an approval that was decided, the row is still what
it read, since a decided approval never changes (`DecidedOnce`, proved first).  If it
is past the reservation, its claim has reserved its material, unless the claim has a
decision on record and comes again; decisions that are no denial have reserved too.

*FinOpsLedger.*  The sum of a budget is over all attempts, and each step changes one
of them: what it adds fits what `Remains`, checked and inserted in one transaction.
`DispatchInv` gives each dispatch record to one call (`OwnersRecorded`) and says that a
call about to send holds a reservation nobody has sent for (`SendersHold`); the rest
follows from that.  In the refinement an attempt is free, held or paid for; recording
and marking are stutters.

*The ledgers.*  A record is published after the review that accepts it is on file
(`PublishedLast`).  A profile in use, also by a call that has only read it, is at a
version that is not ahead of the current one, and of profiles only a newer version, or
the current one with its own text, is ever written (`RegistryInv`).  Along a delegation chain scopes only narrow: a chain that let more
reach the agent than the human gave would have a first link that does.  An allowed
decision expires no later than any of its evidence and was made no more than the
tolerance before its evidence was observed; a contract ends within its decision, and
an execution starts after its decision and before its contract ends, which bounds how
much younger than the start the evidence may be (`DataInv`).

*Billing.*  A job keeps the records it was computed from, and those it computed add to
them (`BillingInv`).  For the costs, `BilledInv` says that a record is linked to with its
own sign and never beyond what it bills (`BookHeld`), and that the cases on show are
those of the findings.  An attempt that no finding questions costs what its links add up to; the
links are grouped by record, and each group is at most its record (`SumGrouped`).

*The hub.*  One transaction at a time has the audit chain's latest digest, one at a time
has a row, and a row that waits for its review has none on record (`HubInv`).  A login
is redeemed by whoever deleted its transaction, who is one (`OneRedeemer`).  A request
of the wizard carries a receipt only of an input the suite was run for (`Tested`).  A run
over the feed has seen, of the signals that stand still, exactly those up to its cursor
(`PagesSeen`); a review, also one in an old page, was decided for the version it names.

*Copilot and Reader.*  What a request of a page was sent with, and what it found, agrees
with what its page showed (`CopilotInv`).  The limiter's counters are the number of
requests whose bodies still hold a slot, however many readers and cancellations a body
has (`SlotInv`).  For the quota, a live window began with a request, its count bounds
what passed in it, and less than a window's quota passed in the window's length before
it began (`QuotaHeld`): a span of that length meets two windows at most.

*Induction over data* is needed for sums and maxima.  The library's induction theorems
take an operator as a parameter, which the installed provers cannot instantiate;
`FiniteInduction` states an induction as a set instead: of the sizes, or the finite
sets, where a fact would fail there is a smallest one.  From that follow the facts
about `SumFunctionOnSet` that the modules above cite, which is why the models sum with
that operator.

Only model-checked:

- `RetriesEnd` and `LapsedEnds`: liveness under fairness and ENABLED are out of the
  provers' reach.  Their mutants show that they depend on the code's counters and
  polls, and the safety side of both (a task ends once, an approval is decided once)
  is proved.
- The properties that runs find violated, and those of section 4 that TLC refutes:
  there is nothing to prove.

## 7. Not modelled

- *Evidence chain*: `recordEvidence` and `verifyLedger` run without an await and no
  other part reads what they write; they are left out.
- *Across the two halves of `verifyAction`*: `GovernedExecution` has an approval as an
  answer of `PolicyAnswered` and a replay refusal as one of `AdmissionDenied`;
  `ActionAdmission` ends where the capability begins.
- *Several processes on one MCP server database*: the repository claims a single
  instance.  The FinOps ledger, the registry and the control plane are used by
  several, and their models have several.
- *Ingress*: routing, authentication, transport and start-up configuration checks add
  no order to the handlers beyond the calls the modules interleave.
- *Control plane*: the memory store (for development), adapters behind connection
  checks and inventories, its rate limiter.  *Hub*: other views, inventory.
- *Knowledge copilot*: its login transactions are those of `HubLogin` under other
  names; answering reads a release, one question at a time.
- *FinOps billing and operations*: shared costs and their allocation, reviews of
  liabilities, period snapshots, metrics, initiatives and forecasts, which are
  computed from frozen copies; the replacement of a whole workspace.
- *FinOps learning, provider reports, tri-graph, external
  evidence, effect predicates, n8n nodes*: arithmetic over imported records and
  request building, without state or order.  Documents mention agent swarms; there
  is no code for them.
- *Build, validation and smoke-test scripts, infographics and assessment pages*, the
  larger part of the repository's lines: they generate, check or show static
  content, once and in one order.

Signatures, schemas, redaction and telemetry have no influence on the order of steps.
