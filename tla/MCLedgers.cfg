CONSTANTS
  k1 = k1
  k2 = k2
  Parts = {"finops", "billing", "data", "registry", "curation", "authority"}
  Call = {k1, k2}
  Request <- MCRequest
  Probe = {"probe"}
  IdOf <- MCIdOf
  AttemptOf <- MCAttemptOf
  Manual = {}
  Workload = {"w1", "w2"}
  WorkloadOf <- MCWorkloadOf
  AmountOf <- MCAmountOf
  Cost = {1, 2, 3}
  Budget = 3
  WorkloadBudget <- MCWorkloadBudget
  MaxTransition = 2
  BillAttempt = {"a1"}
  ReservedOn <- MCReservedOn
  Batch <- MCBatch
  LinkAmount <- MCLinkAmount
  HandCost = {1}
  MaxRuns = 3
  Reviewable = {"ledger-difference"}
  ValidUntil = 2
  MaxTime = 2
  Subject = {"s"}
  EvidenceId = {1, 2}
  Content <- MCContent
  Policies <- MCPolicies
  Decision = {1, 2}
  Contract = {1}
  Execution = {1}
  LastDay = 3
  Tolerance = 1
  Replaced = {"policy", "profile"}
  Kept = {"system"}
  RegVersion = {1, 2}
  Text = {"x", "y"}
  Bundled <- MCBundled
  Draft = {"d1", "d2"}
  Curator = {"ada", "bob", "cyd"}
  Separation = TRUE
  Party = {"human", "agent", "sub"}
  Human = "human"
  Scope = {"d/*", "d/x"}
  Under <- MCUnder
  Chains <- MCChains
  MaxDelegationDepth = 2
  AuthorityClaim <- MCClaim
  AuthorityProfile <- MCProfile
  AuthorityApproval = {"none", "approved", "unbound", "denied"}
SPECIFICATION Spec
INVARIANTS LedgerTypesOK BudgetHeld DispatchAccounted CostsExplained
INVARIANTS DisclosureUnderFitness DecidedProfilesKept PublishedAsReviewed AllowedReachesAgent
PROPERTIES KeepsPromise RecordsStand
CHECK_DEADLOCK FALSE
