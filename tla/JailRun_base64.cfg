SPECIFICATION Spec
CONSTANTS
  Jobs <- OnlyBase64
  OutputLimit = 1
  ReportLimit = 2
  PipeSize = 1
  MaxWritten = 2
INVARIANTS
  EncodingIsWireOnly
