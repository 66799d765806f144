CONSTANTS
  Workers = {w1, w2}
  Main = Main
  Requests = {r1, r2}
  Fds = {f1, f2, f3}
  NoReq = NoReq
  NoFd = NoFd
  MaxBacklog = 1
  PollMayFail = FALSE
SPECIFICATION FairSpec
PROPERTY ShutdownCompletes
CHECK_DEADLOCK FALSE
