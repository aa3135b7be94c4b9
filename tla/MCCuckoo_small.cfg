\* A table that starts with one bucket and one lock, and is doubled twice.
SPECIFICATION TableSpec
CONSTANTS
  kp = kp
  kq = kq
  kr = kr
  ks = ks
  kx = kx
  ky = ky
  v1 = v1
  v2 = v2
  t1 = t1
  t2 = t2
  NoThread = NoThread
  None = None
  NoCall = NoCall
  Vacant = Vacant
  Keys = {kp, kq, kr, ks, kx, ky}
  Vals = {v1, v2}
  Threads = {t1, t2}
  Hash <- MCHash
  SLOT_PER_BUCKET = 2
  kMaxNumLocks = 2
  MAX_BFS_PATH_LEN = 3
  SlotsPerElement = 20
  Calls <- MCCalls
  MaxHashpower = 2
  Starts <- SmallStarts
INVARIANTS
  LocksStayCorrect
CHECK_DEADLOCK FALSE
