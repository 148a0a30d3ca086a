SPECIFICATION Spec
CONSTANTS
  r1 = r1
  r2 = r2
  s1 = s1
  s2 = s2
  s3 = s3
  w = w
  Run <- MCRun
  Strong <- MCStrong
  Weak <- MCWeak
  maxTokens = 2
  ServiceEnv <- MCServiceEnv
  MetricsEnv <- MCMetricsEnv
SYMMETRY Runs
INVARIANTS
  RequireFailsClosed
  AutoTakesTheBest
  GatedInProduction
  WrittenTokensAreGood
  MistakesFailClosed
PROPERTIES
  RefusalIsSticky
