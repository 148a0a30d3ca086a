SPECIFICATION Spec
CONSTANTS
  r1 = r1
  r2 = r2
  r3 = r3
  Request <- MCRequests
  Path <- MCPath
  MaxConcurrentRuns = 1
  Tokens = {current, wrong}
  ServiceTokens = {current}
  Outcomes <- MCFewOutcomes
INVARIANTS
  OneLimitForAll
