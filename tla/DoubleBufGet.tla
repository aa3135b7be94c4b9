---------------------------- MODULE DoubleBufGet ----------------------------
(***************************************************************************)
(* The client src/double_buf_get/double_buf_get.cpp on one of its          *)
(* connections, together with the server's side of it (Connection.tla).    *)
(* Its send thread writes one batch of GETs after the other and never      *)
(* reads; its receive thread counts the bytes of the answers up to a       *)
(* target, then closes, whatever the send thread does.                     *)
(***************************************************************************)
EXTENDS Connection, BatchDatabase

\* Answers have the same length whether the key is found or not, so what
\* others store makes no difference here.
ASSUME DoubleBufAssumption ==
  /\ MayClose /\ OtherVals = {}
  /\ DOMAIN PreHash = Keys
  /\ BatchStreams \subseteq Programs

VARIABLE client  \* "running", "closed" by recv_thread, "exited" on an error

clientVars == <<vars, client>>

DoubleInit == Init /\ reqs \in BatchStreams /\ client = "running"

\* thread_work_len * ROUND_SET.
Batches == Len(reqs) \div (BatchNum + 1)

-----------------------------------------------------------------------------
\* Mutant of RecvPackageBytes: the answers of a batch are taken for one.
RecvPackageBytesOne == HeadLen + KeyLen + NotFoundLen

\* RECV_PACKAGE_BYTES.
RecvPackageBytes == (HeadLen + KeyLen + NotFoundLen) * BatchNum

\* Mutant of Target: every byte of the answers is waited for.
TargetAll == Batches * RecvPackageBytes

\* target_recv_bytes: the last batch is given up unless it is the only one.
Target ==
  IF Batches > 1 THEN (Batches - 1) * RecvPackageBytes
  ELSE Batches * RecvPackageBytes

SendThread == client = "running" /\ ClientSend /\ UNCHANGED client

\* The descriptor is closed: "write error", exit(-1).
SendAfterClose ==
  /\ client = "closed" /\ outLeft > 0
  /\ client' = "exited"
  /\ UNCHANGED vars

RecvAndCount ==
  /\ client = "running" /\ taken < Target
  /\ ClientRecv /\ UNCHANGED client

RecvCloses ==
  /\ client = "running" /\ taken >= Target
  /\ ClientClose /\ client' = "closed"

Server == (ProcessFunc \/ EventFires) /\ UNCHANGED client

DoubleNext ==
  \/ SendThread \/ SendAfterClose \/ RecvAndCount \/ RecvCloses \/ Server

DoubleSpec == DoubleInit /\ [][DoubleNext]_clientVars

\* The client's threads run and never block: the sockets are non-blocking.
DoubleFairSpec ==
  /\ DoubleSpec
  /\ WF_clientVars(ProcessFunc /\ UNCHANGED client)
  /\ WF_clientVars(EventFires /\ UNCHANGED client)
  /\ WF_clientVars(SendThread)
  /\ WF_clientVars(RecvAndCount) /\ WF_clientVars(RecvCloses)

-----------------------------------------------------------------------------
(* Properties.                                                             *)

\* Although the server stops at ROUND_NUM requests with more in its read
\* buffer and answers nothing of the last batch, the receive thread reaches
\* its target (double_buf_get.cpp:363-368, server.cpp:388): when a batch is
\* longer than read_buf, what comes after a batch wakes the server up for it.
RecvFinishes == <>(client # "running")

\* When the receive thread closes, every batch but the last is sent and
\* answered (double_buf_get.cpp:386): only the last one can be cut off.
LastBatchOnly ==
  client # "running" /\ Batches > 1 =>
    /\ out > (Batches - 1) * (BatchNum + 1)
    /\ Served >= (Batches - 1) * (BatchNum + 1)
=============================================================================
