\* Buckets of two slots, two locks, at most eight buckets, paths of up to two moves.
SPECIFICATION TableFairSpec
CONSTANTS
  kp = kp
  kq = kq
  kr = kr
  ks = ks
  kx = kx
  ky = ky
  v1 = v1
  v2 = v2
  t1 = t1
  t2 = t2
  NoThread = NoThread
  None = None
  NoCall = NoCall
  Vacant = Vacant
  Keys = {kp, kq, kr, ks, kx, ky}
  Vals = {v1, v2}
  Threads = {t1, t2}
  Hash <- MCHash
  SLOT_PER_BUCKET = 2
  kMaxNumLocks = 2
  MAX_BFS_PATH_LEN = 3
  SlotsPerElement = 3
  Calls <- MCCalls
  MaxHashpower = 3
  Starts <- MCStarts
INVARIANTS
  TypeOK
  NoDuplicates
  Homes
  CountersAddUp
  LazyRehashAccounted
  LocksStayCorrect
  WalkSeesAll
  
PROPERTIES
  Linearizable
  EveryCallReturns
CHECK_DEADLOCK FALSE
