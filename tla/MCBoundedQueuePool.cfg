CONSTANTS
  Threads = {t1, t2, t3, t4}
  Elems = {e1}
  NoElem = NoElem
  NoThread = NoThread
  Capacity = 2
SPECIFICATION FairPoolSpec
INVARIANTS
  OnlyPoppersSleep
  NoLostWakeup
PROPERTY SleeperIsServed
