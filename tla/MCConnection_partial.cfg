\* An answer longer than the room in the send buffer.
SPECIFICATION FairSpec
CONSTANTS
  k1 = k1
  k2 = k2
  HeadLen = 2
  KeyLen = 1
  NotFoundLen = 1
  ReadBufSize = 8
  BatchBufSize = 11
  RoundNum = 3
  SndCap = 3
  RcvCap = 8
  Keys <- MCKeys
  Vals <- MCVals
  OtherVals <- NoVals
  Programs <- OneStore
  MayClose = FALSE
PROPERTIES
  PartialWriteContinues
CHECK_DEADLOCK FALSE
