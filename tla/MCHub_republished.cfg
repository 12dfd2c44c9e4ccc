CONSTANTS
  k1 = k1
  k2 = k2
  d1 = d1
  t1 = t1
  x1 = x1
  p1 = p1
  p2 = p2
  q1 = q1
  q2 = q2
  Parts = {"signals"}
  HubCall = {k1, k2}
  Person = {"ada", "rev"}
  ScopeOf <- MCScopeOf
  Bundle = {1, 2}
  Digest = {d1}
  DigestOf <- MCDigestOf
  Passing = {d1}
  MaxAudit = 5
  Input = {"a1", "a2", "b1"}
  Profile = {"a", "b"}
  ProfileOf <- MCProfileOf
  ValidInput = {"a1", "b1"}
  MaxAsked = 2
  MaxStored = 1
  LoginState = {x1}
  LoginCall = {k1, k2}
  TransactionTtl = 1
  SessionTtl = 2
  ClockTolerance = 1
  LoginTime = 3
  Signal = {1, 2}
  VersionOf <- MCVersionOf
  PageLimit = 1
  MaxPages = 2
  Tab = {t1}
  MaxSync = 3
  CopilotPage = {p1, p2}
  Logins <- MCLogins
  CopilotCall = {q1, q2}
  Principal = {"p1", "p2", "p3"}
  Client = {"c1", "c2"}
  ClientOf <- MCClientOf
  ReaderRequest = {"r1", "r2"}
  RateLimit = 2
  Window = 2
  MaxTracked = 2
  GlobalLimit = 2
  PerClientLimit = 1
  LastTick = 2
SPECIFICATION Spec
CHECK_DEADLOCK FALSE
INVARIANT RepublishedPending
