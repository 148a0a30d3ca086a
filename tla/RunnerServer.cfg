SPECIFICATION Spec
CONSTANTS
  r1 = r1
  r2 = r2
  r3 = r3
  Request <- MCRequests
  Path <- MCPath
  MaxConcurrentRuns = 1
  Tokens = {current, wrong}
  ServiceTokens = {current}
  Outcomes <- MCOutcomes
SYMMETRY Symmetry
INVARIANTS
  TypeOK
  SlotAccounting
  GaugeAccounting
  SlotsOnlyForAuthorized
  CleanExit
  LoadBounded
  MetricsMatchAnswers
PROPERTIES
  AnswerOnce
  ImplementsAdmission
