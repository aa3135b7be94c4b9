\* One batch of 3, and a read buffer that holds more than RoundNum requests.
SPECIFICATION FairSpec
CONSTANTS
  k1 = k1
  k2 = k2
  HeadLen = 2
  KeyLen = 1
  NotFoundLen = 1
  ReadBufSize = 9
  BatchBufSize = 11
  RoundNum = 2
  SndCap = 30
  RcvCap = 12
  Keys <- MCKeys
  Vals <- MCVals
  OtherVals <- NoVals
  Programs <- OneBatch
  MayClose = FALSE
PROPERTIES
  EveryRequestServed
CHECK_DEADLOCK FALSE
