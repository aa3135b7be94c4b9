\* Four clients and three descriptors: the server may run out of them and exit.
SPECIFICATION Spec
CONSTANTS
  t1 = t1
  t2 = t2
  c1 = c1
  c2 = c2
  c3 = c3
  c4 = c4
  Threads <- MCThreads
  Clients <- FourClients
  PortOf <- FourPortOf
  Fds <- ThreeFds
  PipeCap = 2
INVARIANTS
  TypeOK
  NoLostWakeup
  OneHome
  RightWorker
CHECK_DEADLOCK FALSE
