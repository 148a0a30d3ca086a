SPECIFICATION FairSpec
CONSTANTS
  Defaults = {1}
  Ceilings = {1, 3}
  Asked <- MCAsked
  Floors = {0, 2}
  Graces = {4}
  Slack = 1
  Inputs = 2
  Backends = {"nsjail", "netns"}
INVARIANTS
  TypeOK
  Aligned
  InputsSeeTheBuild
  NothingLeft
  HoldBounded
  GraceCoversHold
  FloorRespected
PROPERTIES
  ImplementsJudging
  RequestReturns
