SPECIFICATION Spec
CONSTANTS
  t1 = t1
  t2 = t2
  a1 = a1
  a2 = a2
  NoTask = NoTask
  NoAddr = NoAddr
  Tasks <- TwoTasks
  Addrs <- TwoAddrs
  MaxFd = 4
  MaxSockets = 5
CHECK_DEADLOCK FALSE
INVARIANT ListenerStaysOpen
