\* Three clients of one port that keep coming back, and descriptors for all:
\* nothing ever stops.
SPECIFICATION FairSpec
CONSTANTS
  t1 = t1
  t2 = t2
  c1 = c1
  c2 = c2
  c3 = c3
  c4 = c4
  Threads <- OneThread
  Clients <- ThreeClients
  PortOf <- OnePortOf
  Fds <- ThreeFds
  PipeCap = 1
PROPERTIES
  ReachesWorker
  LeftIsClosed
