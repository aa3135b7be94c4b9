\* Three threads, six packages, two rounds.
SPECIFICATION FairSpec
CONSTANTS
  t1 = t1
  t2 = t2
  t3 = t3
  p1 = p1
  p2 = p2
  Threads <- MCThreads
  Ports <- MCPorts
  KvNum = 6
  SendBatch = 2
  RoundSet = 2
  PreHash <- MCPreHash
INVARIANTS
  TypeOK
  ClaimsDisjoint
  Accounted
  DoneSent
PROPERTIES
  AllSent
