\* Two threads, two calls each, one failure of the device.  Up to three attributes
\* of each kind, four dictionaries; nine areas of other writers.
CONSTANTS
  Reader = {r1, r2}
  Nid <- MCNid
  FileSize <- MCFileSize
  BlockSize = 3
  Fragment <- MCFragment
  Names <- MCNames
  Short = Short
  Image <- MCImage
  NoPacked = NoPacked
  Empty = Empty
  Request <- MCRequest
  MaxCalls = 2
  MaxFaults = 1
  NULL = NULL
SPECIFICATION BothSpec
INVARIANTS
  OneCopy
  AnswersCorrect
  FailsForCause
  AttrsComeBack
CHECK_DEADLOCK FALSE
