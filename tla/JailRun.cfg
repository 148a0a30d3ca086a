SPECIFICATION Spec
CONSTANTS
  Jobs <- AllJobs
  OutputLimit = 1
  ReportLimit = 1
  PipeSize = 2
  MaxWritten = 2
INVARIANTS
  TypeOK
  CaptureExact
  NothingLost
  LimitVerdictSound
  SuccessSound
  SuiteVerdictSound
  VerdictComplete
  NothingOutlivesTheJail
