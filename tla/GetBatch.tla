------------------------------ MODULE GetBatch ------------------------------
(***************************************************************************)
(* The client src/get_batch/get_batch_test.cpp on one of its connections,  *)
(* together with the server's side of it (Connection.tla).  One thread     *)
(* writes a batch of GETs and then reads, on a socket that blocks (BLOCK): *)
(* it reads nothing while its write waits for room, and writes nothing     *)
(* while its read waits for an answer.                                     *)
(***************************************************************************)
EXTENDS Connection, BatchDatabase, FiniteSets

CONSTANT RecBufSize  \* the length of rec_buf

ASSUME GetBatchAssumption ==
  /\ RecBufSize \in Nat \ {0} /\ MayClose
  /\ DOMAIN PreHash = Keys
  /\ BatchStreams \subseteq Programs

VARIABLE caller  \* "write" or "read", the call it is in; then "close", "done"

callVars == <<vars, caller>>

\* One connection of data_dispatch.
GetBatchInit == Init /\ reqs \in BatchStreams /\ caller = "write"

-----------------------------------------------------------------------------
\* Mutant of AfterBatch: the next batch is written before the answer is read.
AfterBatchWrite == IF outLeft' = 0 THEN "read" ELSE "write"

\* fetch_and_send reads when it has written the whole of batchObj->buf.
AfterBatch == "read"

BatchWhole == outLeft' = 0 \/ (out' # out /\ reqs[out'].op = "BATCH")

\* What the kernel takes of a write that blocks, until it has taken the batch.
Write ==
  /\ caller = "write"
  /\ ClientSend
  /\ caller' = IF BatchWhole THEN AfterBatch ELSE "write"

\* One read, of what there is by then; data_dispatch goes on with the next
\* batch, whatever the answer still lacks.
Read ==
  /\ caller = "read" /\ taken < Len(wire)
  /\ taken' = taken + Least(RecBufSize, Len(wire) - taken)
  /\ caller' = IF outLeft = 0 THEN "close" ELSE "write"
  /\ UNCHANGED <<reqs, out, outLeft, sockIn, peer, wire, stateVars, parseVars,
                 replyVars, batchVars, schedVars, dataVars>>

\* The end of data_dispatch.
Close == caller = "close" /\ ClientClose /\ caller' = "done"

ServerTurn == (ProcessFunc \/ EventFires) /\ UNCHANGED caller

GetBatchNext == Write \/ Read \/ Close \/ ServerTurn

GetBatchFairness ==
  /\ WF_callVars(ProcessFunc /\ UNCHANGED caller)
  /\ WF_callVars(EventFires /\ UNCHANGED caller)
  /\ WF_callVars(Write) /\ WF_callVars(Read) /\ WF_callVars(Close)

GetBatchSpec ==
  GetBatchInit /\ [][GetBatchNext]_callVars /\ GetBatchFairness

-----------------------------------------------------------------------------
(* Properties.                                                             *)

\* Client and server never wait for each other, although the client does not
\* read while it writes a batch that is longer than both receive buffers, and
\* the server is only called when there is something to read
\* (get_batch_test.cpp:249, server.cpp:388).  It holds when read_buf cannot
\* hold ROUND_NUM requests and the answers of a batch fit one batch buffer,
\* the send buffer and rec_buf.
GetBatchEnds == caller # "other" => <>(caller = "done")

\* The client ignores how much it read, and yet is never ahead of the server
\* by more than the batch it writes (get_batch_test.cpp:275): the answers of
\* all batches before that one are written and read, so that none is left in
\* the sockets to fill them up in the long run.
Lockstep ==
  caller = "write" =>
    LET before == {i \in 1..(out - 1) : reqs[i].op = "GET" /\
                     \E j \in i + 1 .. out : reqs[j].op = "BATCH"}
    IN  taken = Cardinality(before) * (HeadLen + KeyLen + NotFoundLen)
=============================================================================
