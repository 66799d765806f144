CONSTANTS
  Alphabet <- Bytes
  MaxLen = 7
  SSIZE_MAX = 127
  Letters = {"x"}
  SUPPORTED_METHODS <- OneMethod
  Protocol <- ShortProtocol
  MaxMethod = 2
SPECIFICATION Spec
INVARIANTS
  LineEndFound
  ValueTrimmed
  NumberParsed
  RequestLineParsed
PROPERTY LineEndStable
CHECK_DEADLOCK FALSE
