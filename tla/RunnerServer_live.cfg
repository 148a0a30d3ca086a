SPECIFICATION FairSpec
CONSTANTS
  r1 = r1
  r2 = r2
  r3 = r3
  Request <- MCPair
  Path <- MCOnePath
  MaxConcurrentRuns = 1
  Tokens = {current, previous, wrong}
  ServiceTokens = {current, previous}
  Outcomes <- MCOutcomes
PROPERTIES
  ShutdownTerminates
  EveryRequestAnswered
