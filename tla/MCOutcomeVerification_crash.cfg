SPECIFICATION Spec
CONSTANTS
  e1 = e1
  r1 = r1
  Execution = {e1, e2}
  Delayed = {e1}
  Resource = {r1}
  ResourceOf <- OneResource
  MaxAttempts = 2
  Caller = {v1}
  Poll = {p1}
  Gateway = Gateway
  Nothing = Nothing
INVARIANT TypeOK
INVARIANT OutcomeHasIncident
INVARIANT UnknownNeverVerified
INVARIANT HoldHasIncident
PROPERTY TaskEndsOnce
PROPERTY ResolvedForGood
PROPERTY ResumedBeforeServing
