SPECIFICATION UpSpec
CONSTANTS
  f1 = f1
  r1 = r1
  NoClaim = NoClaim
  Claim = {c1}
  DataClaim = {c1}
  Call = {k1, k2}
  Fitness = {f1}
  Resource = {r1}
  FitnessOf <- OneFitness
  ResourceOf <- OneResource
  MaxActive = 1
SYMMETRY CallSymmetry
\* Every call returns once and claims expire: the runtime may come to rest.
CHECK_DEADLOCK FALSE
INVARIANT ConnectorCalledOnce
