SPECIFICATION UpSpec
CONSTANTS
  e1 = e1
  r1 = r1
  Execution = {e1}
  Delayed = {e1}
  Resource = {r1}
  ResourceOf <- OneResource
  MaxAttempts = 3
  Caller = {v1}
  Poll = {p1}
  Gateway = Gateway
  Nothing = Nothing
PROPERTY RetriesEnd
