CONSTANTS
  Inputs <- OverlongPut
  BufLen = 16
  ReadLen = 34
  ResLen = 3
  HdrLen = 2
  StaticLen = 1
SPECIFICATION Spec
INVARIANT OverlongPutIsBadRequest
CHECK_DEADLOCK FALSE
