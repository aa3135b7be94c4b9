\* Two GETs of an absent key.
SPECIFICATION Spec
CONSTANTS
  k1 = k1
  k2 = k2
  HeadLen = 2
  KeyLen = 1
  NotFoundLen = 1
  ReadBufSize = 8
  BatchBufSize = 11
  RoundNum = 3
  SndCap = 30
  RcvCap = 8
  Keys <- MCKeys
  Vals <- MCVals
  OtherVals <- NoVals
  Programs <- TwoGets
  MayClose = FALSE
INVARIANTS
  NoJunk
CHECK_DEADLOCK FALSE
