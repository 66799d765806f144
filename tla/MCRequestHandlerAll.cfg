CONSTANTS
  Inputs <- AllRequests
  BufLen = 16
  ReadLen = 34
  ResLen = 3
  HdrLen = 2
  StaticLen = 1
SPECIFICATION FairSpec
INVARIANTS
  TypeOK
  BodyAccounting
  PutStoresBody
  ServedFileIsOpen
  ContentLengthHonest
  FilesClosed
  AnswerMatchesRequest
  CompleteRequestAnswered
PROPERTIES
  CallReturns
  ImplementsExchange
CHECK_DEADLOCK FALSE
