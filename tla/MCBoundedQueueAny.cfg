CONSTANTS
  Threads = {t1, t2, t3}
  Elems = {e1, e2}
  NoElem = NoElem
  NoThread = NoThread
  Capacity = 2
SPECIFICATION Spec
INVARIANTS
  TypeOK
  RingConsistent
PROPERTY ImplementsFifo
