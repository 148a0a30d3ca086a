SPECIFICATION Spec
CONSTANTS
  Requests <- MCRequests
  Paths <- MCPaths
  Grammatical <- MCGrammatical
  Ext <- MCExt
  ClassName <- MCClassName
  Bytes <- MCBytes
  Before <- MCBefore
  Caps <- MCCaps
INVARIANTS
  InternalErrorIsOurs
