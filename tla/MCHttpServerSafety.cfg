CONSTANTS
  Workers = {w1, w2}
  Main = Main
  Requests = {r1, r2, r3}
  Fds = {f1, f2, f3, f4}
  NoReq = NoReq
  NoFd = NoFd
  MaxBacklog = 1
  PollMayFail = TRUE
SPECIFICATION Spec
SYMMETRY Symmetric
INVARIANTS
  TypeOK
  ExclusiveOwnership
  NoRequestLost
  LiveJobsHaveConnections
  NoStrandedWorker
PROPERTY QueuesUsedAsPool
CHECK_DEADLOCK FALSE
