\* A client that may close at any time, under fairness.
SPECIFICATION FairSpec
CONSTANTS
  k1 = k1
  k2 = k2
  HeadLen = 2
  KeyLen = 1
  NotFoundLen = 1
  ReadBufSize = 8
  BatchBufSize = 11
  RoundNum = 2
  SndCap = 3
  RcvCap = 8
  Keys <- MCKeys
  Vals <- MCVals
  OtherVals <- NoVals
  Programs <- ClosePrograms
  MayClose = TRUE
INVARIANTS
  NothingLostAtClose
PROPERTIES
  HandlerReturns
  ClosedEventually
CHECK_DEADLOCK FALSE
