SPECIFICATION UpSpec
CONSTANTS
  e1 = e1
  r1 = r1
  Execution = {e1, e2}
  Delayed = {}
  Resource = {r1}
  ResourceOf <- OneResource
  MaxAttempts = 1
  Caller = {v1, v2}
  Poll = {}
  Gateway = Gateway
  Nothing = Nothing
INVARIANT OpenIncidentHeld
