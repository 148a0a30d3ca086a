SPECIFICATION FairSpec
CONSTANTS
  Jobs <- OnlyNetns
  OutputLimit = 1
  ReportLimit = 2
  PipeSize = 1
  MaxWritten = 2
PROPERTIES
  RunReturns
