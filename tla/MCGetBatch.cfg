\* Clients that stay, a read buffer that cannot hold RoundNum requests and
\* answers that fit one batch buffer, the send buffer and rec_buf.
SPECIFICATION AnySpec
CONSTANTS
  k1 = k1
  k2 = k2
  HeadLen = 2
  KeyLen = 1
  NotFoundLen = 1
  ReadBufSize = 8
  BatchBufSize = 12
  RoundNum = 3
  SndCap = 30
  RcvCap = 8
  BatchNum = 3
  PortNum = 2
  ThreadNum = 1
  RoundSet = 1
  PreHash <- MCPreHash
  Arrays <- MCArrays
  RecBufSize = 14
  Keys <- MCKeys
  Vals <- MCVals
  OtherVals <- NoVals
  Programs <- StayingPrograms
  MayClose = TRUE
INVARIANTS
  Lockstep
PROPERTIES
  EveryRequestServed
  GetBatchEnds
CHECK_DEADLOCK FALSE
