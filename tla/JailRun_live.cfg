SPECIFICATION FairSpec
CONSTANTS
  Jobs <- LiveJobs
  OutputLimit = 1
  ReportLimit = 2
  PipeSize = 1
  MaxWritten = 2
PROPERTIES
  RunReturns
