\* Two or three batches, and a send buffer that takes half of a batch's answers.
SPECIFICATION DoubleFairSpec
CONSTANTS
  k1 = k1
  k2 = k2
  HeadLen = 2
  KeyLen = 1
  NotFoundLen = 1
  ReadBufSize = 9
  BatchBufSize = 30
  RoundNum = 2
  SndCap = 6
  RcvCap = 9
  Keys <- MCKeys
  Vals <- NoVals
  OtherVals <- NoVals
  Programs <- BatchStreams
  MayClose = TRUE
  BatchNum = 3
  PortNum = 2
  ThreadNum = 2
  RoundSet = 1
  PreHash <- MCPreHash
  Arrays <- MCArrays
INVARIANTS
  LastBatchOnly
PROPERTIES
  RecvFinishes
CHECK_DEADLOCK FALSE
