\* Every kind of request, cut into reads in every way, with partial writes and
\* a client that may close at any time.
SPECIFICATION Spec
CONSTANTS
  k1 = k1
  k2 = k2
  HeadLen = 2
  KeyLen = 1
  NotFoundLen = 1
  ReadBufSize = 8
  BatchBufSize = 11
  RoundNum = 2
  SndCap = 3
  RcvCap = 8
  Keys <- MCKeys
  Vals <- MCVals
  OtherVals <- MCOtherVals
  Programs <- MixedPrograms
  MayClose = TRUE
INVARIANTS
  TypeOK
  PhasesAgree
  StreamAligned
  WireInOrder
  JunkOnlyAfterMiss
  BatchConsistent
  BatchOverrunBounded
  RoundBounded
PROPERTY
  PromiseKept
CHECK_DEADLOCK FALSE
