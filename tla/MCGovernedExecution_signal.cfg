SPECIFICATION UpSpec
CONSTANTS
  f1 = f1
  r1 = r1
  NoClaim = NoClaim
  Claim = {c1, c2}
  DataClaim = {c1, c2}
  Call = {k1, k2, k3}
  Fitness = {f1}
  Resource = {r1}
  FitnessOf <- OneFitness
  ResourceOf <- OneResource
  MaxActive = 1
SYMMETRY Symmetry
\* Every call returns once and claims expire: the runtime may come to rest.
CHECK_DEADLOCK FALSE
INVARIANT SignalWithdrawsCapabilities
