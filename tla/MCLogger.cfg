CONSTANTS
  Threads = {t1, t2, t3}
  NoThread = NoThread
  Size = 4
  Lens = {1, 3}
  MaxCalls = 3
SPECIFICATION FairSpec
INVARIANTS
  TypeOK
  CopyInBounds
  FlushExcludesCopy
  BytesAccounted
  SequentialLogExact
PROPERTY LogReturns
CHECK_DEADLOCK FALSE
