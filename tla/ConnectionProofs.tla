-------------------------- MODULE ConnectionProofs --------------------------
(***************************************************************************)
(* Proofs about Connection, for every value of its constants.  Part one:   *)
(* the safety invariants the model checker checks on small instances, from *)
(* one inductive invariant IInv, and that Connection implements            *)
(* RequestStream.  Part two, where the bytes of a connection go: none of   *)
(* the stream is lost or parsed twice (StreamAligned), a client that only  *)
(* stores loses no request by closing (NothingLostAtClose), and what is    *)
(* written is the answers, in order and without junk while every GET hits  *)
(* (WireInOrder, JunkOnlyAfterMiss).                                       *)
(***************************************************************************)
EXTENDS Connection, DataTheorems

Keyed == {"read_key_value", "store_kvobj", "query_key"}

\* The request in hand is the one whose header was parsed last, and key and
\* value are its own by the time the table is used.
RequestInHand ==
  /\ work_state \in Keyed => cur >= 1 /\ reqs[cur].op \in {"SET", "GET"}
  /\ work_state \in {"store_kvobj", "query_key"} =>
       /\ running /\ conn_state = "conn_deal_with"
       /\ key = reqs[cur].key
  /\ work_state = "store_kvobj" => reqs[cur].op = "SET" /\ value = reqs[cur].val
  /\ work_state = "query_key" => reqs[cur].op = "GET"

\* The table holds values some connection stored.
StoredValues ==
  \A k \in Keys : store[k] \in Vals \cup OtherVals \cup {0}

\* Each turn through conn_new_cmd accounts for one executed request, but for
\* the one whose answer is being written or has just been.
BurstCounted ==
  /\ running => inst_count < RoundNum
  /\ burst <= inst_count
       + (IF work_state = "write_bcak" \/ conn_state = "conn_new_cmd"
          THEN 1 ELSE 0)

IInv ==
  /\ TypeOK /\ PhasesAgree /\ RequestInHand /\ StoredValues
  /\ BatchConsistent /\ BatchOverrunBounded
  /\ BurstCounted /\ RoundBounded

-----------------------------------------------------------------------------
(* The operators the actions are built from.                               *)

\* A body has a length (dispatch_bin_command lets no other be read).
LEMMA BodyLenNat ==
  ASSUME NEW r \in Request PROVE BodyLen(r) \in Nat /\ WireLen(r) \in Nat
<1>1. r.op \in Ops /\ r.val \in Nat
  BY DEF Request
<1>2. r.op = "SET" \/ r.op = "GET" \/ r.op = "BATCH"
        \/ r.op = "SHORT" \/ r.op = "REJECT"
  BY <1>1 DEF Ops
<1>3. BodyLen(r) \in Nat
  BY <1>1, <1>2, SizesAssumption DEF BodyLen
<1> QED
  BY <1>3, SizesAssumption DEF WireLen

\* The requests of a program are requests.
LEMMA RequestsOf ==
  ASSUME reqs \in Programs
  PROVE  /\ reqs \in Seq(Request) /\ reqs # <<>> /\ Len(reqs) \in Nat
         /\ Len(reqs) >= 1
         /\ \A i \in 1..Len(reqs) : reqs[i] \in Request
BY ProgramsAssumption

\* con_ret_buf writes head, key and value, and nothing else.
LEMMA ReplyType ==
  ASSUME NEW a \in Answer
  PROVE  /\ Reply(a) \in Seq(Byte)
         /\ Len(Reply(a)) = HeadLen + KeyLen + a.body
<1> DEFINE n == HeadLen + KeyLen + a.body
<1>1. n \in Nat /\ a.req \in Nat
  BY SizesAssumption DEF Answer
<1>2. \A p \in 1..n : <<a.req, p>> \in Byte
  BY <1>1 DEF Byte
<1>3. Reply(a) = [p \in 1..n |-> <<a.req, p>>]
  BY DEF Reply
<1> HIDE DEF n
<1>4. Reply(a) \in [1..n -> Byte]
  BY <1>2, <1>3
<1>5. Reply(a) \in Seq(Byte)
  BY <1>1, <1>4
<1>6. Len(Reply(a)) = n
  BY <1>1, <1>3
<1> QED
  BY <1>5, <1>6 DEF n

\* What the actions that write are given to write.
LEMMA PendingType ==
  ASSUME TypeOK
  PROVE  /\ PlainPending \in Seq(Byte)
         /\ \A b \in BatchBuf : BatchPending(b) \in Seq(Byte)
<1>1. ret_bytes \in Nat /\ ret_buf_offset \in Nat /\ ret_buf \in Seq(Byte)
  BY DEF TypeOK
<1>2. ASSUME NEW p \in 1..ret_bytes
      PROVE  (IF ret_buf_offset + p <= Len(ret_buf)
              THEN ret_buf[ret_buf_offset + p] ELSE Junk) \in Byte
  BY <1>1 DEF Junk, Byte
<1>3. PlainPending \in [1..ret_bytes -> Byte]
  BY <1>2 DEF PlainPending
<1>4. PlainPending \in Seq(Byte)
  BY <1>1, <1>3
<1>5. ASSUME NEW b \in BatchBuf PROVE BatchPending(b) \in Seq(Byte)
  BY DEF BatchPending, BatchBuf
<1> QED
  BY <1>4, <1>5

\* What write() does to the environment.
LEMMA AcceptsType ==
  ASSUME TypeOK, NEW pending \in Seq(Byte), NEW n \in Nat, Accepts(pending, n)
  PROVE  /\ wire' \in Seq(Byte) /\ Len(wire') >= Len(wire)
         /\ sockIn' \in Nat
         /\ peer' \in {"open", "fin", "reset", "dead"}
<1>1. wire \in Seq(Byte) /\ sockIn \in Nat /\ taken \in 0..Len(wire)
  BY DEF TypeOK
<1>2. CASE /\ peer = "open" /\ Room > 0 /\ pending # <<>>
           /\ n = Least(Len(pending), Room)
           /\ wire' = wire \o SubSeq(pending, 1, n)
           /\ UNCHANGED <<peer, sockIn>>
  <2>1. n <= Len(pending)
    BY <1>1, <1>2, SizesAssumption DEF Least, Room
  <2>2. SubSeq(pending, 1, n) \in Seq(Byte)
    BY <2>1
  <2> QED
    BY <1>1, <1>2, <2>2
<1>3. CASE /\ peer = "fin" /\ pending # <<>>
           /\ n = Len(pending)
           /\ peer' \in {"fin", "reset"}
           /\ sockIn' \in (IF peer' = "reset" THEN {sockIn, 0} ELSE {sockIn})
           /\ wire' = wire
  BY <1>1, <1>3
<1> QED
  BY <1>2, <1>3 DEF Accepts

-----------------------------------------------------------------------------
(* Type correctness.                                                       *)

LEMMA TypeInit == Init => TypeOK
<1> SUFFICES ASSUME Init PROVE TypeOK
  OBVIOUS
<1>1. reqs \in Programs
  BY DEF Init
<1>2. reqs[1] \in Request /\ Len(reqs) >= 1 /\ Len(reqs) \in Nat
  BY <1>1, RequestsOf
<1>3. outLeft \in Nat /\ out \in 1..Len(reqs)
  BY <1>2, BodyLenNat DEF Init
<1>4. /\ <<>> \in Seq(Byte) /\ <<>> \in Seq(Answer) /\ <<>> \in Seq(BatchBuf)
      /\ 0 \in 0..Len(<<>>)
  OBVIOUS
<1>5. store \in [Keys -> Nat]
  BY DEF Init
<1>6. 0 \in 0..Len(reqs) /\ 0 \in 0..ReadBufSize
  BY <1>2, SizesAssumption
<1> QED
  BY <1>1, <1>3, <1>4, <1>5, <1>6
  DEF Init, ServerInit, TypeOK, ConnStates, WorkStates

\* What a step that only moves the handler may do.
LEMMA TypeStep == IInv /\ [Next]_vars => TypeOK'
<1> SUFFICES ASSUME IInv, [Next]_vars PROVE TypeOK'
  OBVIOUS
<1> USE SizesAssumption
<1>t. TypeOK /\ RequestInHand /\ BatchConsistent /\ StoredValues
  BY DEF IInv
<1>r. /\ reqs \in Seq(Request) /\ Len(reqs) \in Nat
      /\ \A i \in 1..Len(reqs) : reqs[i] \in Request
  BY <1>t, RequestsOf DEF TypeOK
<1>c. work_state \in Keyed => reqs[cur] \in Request /\ cur \in 1..Len(reqs)
  BY <1>t, <1>r DEF TypeOK, RequestInHand
<1>1. CASE ClientSend
  <2>1. PICK n \in 1..outLeft :
          /\ sockIn' = sockIn + n
          /\ IF n = outLeft /\ out < Len(reqs)
             THEN out' = out + 1 /\ outLeft' = WireLen(reqs[out + 1])
             ELSE out' = out /\ outLeft' = outLeft - n
    BY <1>1 DEF ClientSend
  <2>2. CASE n = outLeft /\ out < Len(reqs)
    <3>1. out + 1 \in 1..Len(reqs)
      BY <1>t, <1>r, <2>2 DEF TypeOK
    <3>2. WireLen(reqs[out + 1]) \in Nat
      BY <3>1, <1>r, BodyLenNat
    <3> QED
      BY <1>t, <1>1, <2>1, <2>2, <3>1, <3>2
      DEF TypeOK, ClientSend, stateVars, parseVars, replyVars, batchVars,
          schedVars, dataVars
  <2>3. CASE ~(n = outLeft /\ out < Len(reqs))
    BY <1>t, <1>1, <2>1, <2>3
    DEF TypeOK, ClientSend, stateVars, parseVars, replyVars, batchVars,
        schedVars, dataVars
  <2> QED
    BY <2>2, <2>3
<1>2. CASE ClientRecv
  BY <1>t, <1>2 DEF TypeOK, ClientRecv, stateVars, parseVars, replyVars,
                    batchVars, schedVars, dataVars
<1>3. CASE ClientClose
  BY <1>t, <1>3 DEF TypeOK, ClientClose, stateVars, parseVars, replyVars,
                    batchVars, schedVars, dataVars
<1>4. CASE OtherStore
  BY <1>t, <1>4, ValuesAssumption
  DEF TypeOK, OtherStore, netVars, stateVars, parseVars, replyVars, batchVars,
      schedVars
<1>5. CASE EventFires
  BY <1>t, <1>5 DEF TypeOK, EventFires, netVars, stateVars, parseVars,
                    replyVars, batchVars
<1>6. CASE ConnRead
  BY SMTT(30), <1>t, <1>6 DEF TypeOK, ConnRead, ConnStates, TryRead, Avail, Least,
                    replyVars, batchVars, schedVars, dataVars
<1>7. CASE NewCmd
  <2>1. conn_state' \in ConnStates /\ inst_count' \in Nat
    <3>1. conn_state' = ResetTo \/ conn_state' = conn_state
      BY <1>7 DEF NewCmd
    <3>2. inst_count' = inst_count + 1
      BY <1>7 DEF NewCmd
    <3> QED
      BY <1>t, <3>1, <3>2 DEF TypeOK, ConnStates, ResetTo
  <2>2. running' \in BOOLEAN
    BY <1>t, <1>7 DEF TypeOK, NewCmd
  <2> QED
    BY <1>t, <1>7, <2>1, <2>2
    DEF TypeOK, NewCmd, netVars, parseVars, replyVars, batchVars, dataVars
<1>8. CASE Waiting
  <2>1. conn_state' \in ConnStates
    <3>1. \A ws : AfterWaiting(ws) \in ConnStates
      BY DEF AfterWaiting, ConnStates
    <3> QED BY <1>8, <3>1 DEF Waiting
  <2>2. /\ running' = FALSE
        /\ UNCHANGED <<reqs, netVars, work_state, parseVars, replyVars, batchVars,
                       inst_count, closed, up, dataVars>>
    BY <1>8 DEF Waiting
  <2> QED
    BY <1>t, <2>1, <2>2
    DEF TypeOK, netVars, parseVars, replyVars, batchVars, dataVars
<1>9. CASE Closing
  BY <1>t, <1>9 DEF TypeOK, Closing, netVars, stateVars, parseVars,
                    replyVars, batchVars, dataVars
<1>10. CASE NeedHead
  BY <1>t, <1>10 DEF TypeOK, NeedHead, Incomplete, ConnStates, netVars,
                     parseVars, replyVars, batchVars, schedVars, dataVars
<1>11. CASE BadMagic \/ BatchNumError
  BY <1>t, <1>11 DEF TypeOK, BadMagic, BatchNumError, Exit, netVars, stateVars,
                     parseVars, replyVars, batchVars, dataVars
<1>h. ASSUME NEW op, TakeHead(op)
      PROVE  /\ cur' \in 1..Len(reqs) /\ cur' = cur + 1
             /\ reqs[cur + 1] \in Request
             /\ remaining_bytes' \in 0..ReadBufSize
  <2>1. /\ cur \in 0..Len(reqs) /\ cur < Len(reqs) /\ cur' = cur + 1
        /\ remaining_bytes \in 0..ReadBufSize /\ remaining_bytes >= HeadLen
        /\ remaining_bytes' = remaining_bytes - HeadLen
    BY <1>t, <1>h DEF TypeOK, TakeHead, HeadArrived, AfterHead
  <2>2. cur + 1 \in 1..Len(reqs)
    BY <2>1, <1>r
  <2> QED
    BY <2>1, <2>2, <1>r
<1>12. CASE ParseKeyed
  <2>1. PICK op : TakeHead(op)
    BY <1>12 DEF ParseKeyed
  <2>2. /\ cur' \in 0..Len(reqs) /\ remaining_bytes' \in 0..ReadBufSize
    BY <2>1, <1>h, <1>r
  <2> QED
    BY <1>t, <1>12, <2>2
    DEF TypeOK, ParseKeyed, TakeHead, WorkStates, netVars, replyVars,
        batchVars, schedVars, dataVars
<1>13. CASE ParseBatchHead
  <2>1. /\ cur' \in 0..Len(reqs) /\ remaining_bytes' \in 0..ReadBufSize
        /\ reqs[cur + 1] \in Request
    BY <1>h, <1>r, <1>13 DEF ParseBatchHead
  <2>2. reqs[cur + 1].num \in Nat
    BY <2>1 DEF Request
  <2>3. EmptyBuf \in BatchBuf
    BY DEF EmptyBuf, BatchBuf
  <2>4. batch_ret_vector' \in Seq(BatchBuf)
    BY <1>t, <1>13, <2>3 DEF TypeOK, ParseBatchHead
  <2> QED
    BY <1>t, <1>13, <2>1, <2>2, <2>4
    DEF TypeOK, ParseBatchHead, TakeHead, WorkStates, netVars, replyVars, schedVars, dataVars
<1>14. CASE ParseShort
  <2>1. /\ cur' \in 0..Len(reqs) /\ remaining_bytes' \in 0..ReadBufSize
    BY <1>h, <1>r, <1>14 DEF ParseShort
  <2> QED
    BY <1>t, <1>14, <2>1
    DEF TypeOK, ParseShort, TakeHead, ConnStates, netVars, replyVars,
        batchVars, schedVars, dataVars
<1>15. CASE ParseRejected
  <2>1. /\ cur' \in 0..Len(reqs) /\ remaining_bytes' \in 0..ReadBufSize
    BY <1>h, <1>r, <1>15 DEF ParseRejected
  <2> QED
    BY <1>t, <1>15, <2>1
    DEF TypeOK, ParseRejected, TakeHead, stateVars, netVars, replyVars,
        batchVars, schedVars, dataVars
<1>16. CASE NeedBody
  BY <1>t, <1>16 DEF TypeOK, NeedBody, Incomplete, ConnStates, netVars,
                     parseVars, replyVars, batchVars, schedVars, dataVars
<1>17. CASE TakeBody
  <2>1. reqs[cur] \in Request
    BY <1>c, <1>17 DEF TakeBody, At, Keyed
  <2>2. /\ BodyLen(reqs[cur]) \in Nat
        /\ reqs[cur].key \in Keys /\ reqs[cur].val \in Nat
    BY <2>1, BodyLenNat DEF Request
  <2>3. value' \in Nat /\ key' \in Keys
    BY <1>t, <1>17, <2>2 DEF TypeOK, TakeBody
  <2>4. remaining_bytes' \in 0..ReadBufSize
    BY SMTT(30), <1>t, <1>17, <2>2 DEF TypeOK, TakeBody
  <2> QED
    BY <1>t, <1>17, <2>3, <2>4
    DEF TypeOK, TakeBody, BodyRead, WorkStates, netVars, replyVars, batchVars,
        schedVars, dataVars
<1>18. CASE StoreKvobj
  <2>1. store' \in [Keys -> Nat]
    BY <1>t, <1>18 DEF TypeOK, StoreKvobj
  <2> QED
    BY <1>t, <1>18, <2>1
    DEF TypeOK, StoreKvobj, ConnStates, WorkStates, netVars, parseVars,
        replyVars, batchVars, schedVars
<1>19. CASE QueryKey
  <2>1. key \in Keys
    BY <1>t, <1>c, <1>19 DEF RequestInHand, QueryKey, At, Keyed, Request
  <2>2. Composed \in Answer
    BY <1>t, <2>1 DEF TypeOK, Composed, Answer, AnswerLen
  <2> DEFINE len == HeadLen + KeyLen + Composed.body
  <2>3. /\ Reply(Composed) \in Seq(Byte)
        /\ len \in Nat
        /\ Composed.body \in Nat /\ Composed.hit \in BOOLEAN
    BY <2>2, ReplyType DEF Answer
  <2>4. RetBytesAdded(Composed, len) \in Nat
    BY <2>3 DEF RetBytesAdded
  <2>5. ret_bytes' \in Nat /\ value' \in Nat
    <3>1. /\ ret_bytes' = ret_bytes + RetBytesAdded(Composed, len)
          /\ value' = IF Composed.hit THEN Composed.body ELSE value
      BY <1>19 DEF QueryKey
    <3>2. ret_bytes \in Nat /\ value \in Nat
      BY <1>t DEF TypeOK
    <3> HIDE DEF len
    <3> QED
      BY <2>3, <2>4, <3>1, <3>2
  <2>6. answers' \in Seq(Answer)
    BY <1>t, <1>19, <2>2 DEF QueryKey, TypeOK
  <2>7. ret_buf' \in Seq(Byte)
    <3>1. SubSeq(ret_buf, 1, ret_buf_offset) \in Seq(Byte)
      <4>1. ret_buf_offset = 0
        BY <1>19, <1>t DEF IInv, PhasesAgree, TypeOK, QueryKey, At
      <4> QED
        BY <4>1, <1>t DEF TypeOK
    <3>2. ret_buf \in Seq(Byte)
      BY <1>t DEF TypeOK
    <3>3. \/ ret_buf' = SubSeq(ret_buf, 1, ret_buf_offset) \o Reply(Composed)
          \/ ret_buf' = ret_buf
      BY <1>19 DEF QueryKey
    <3>4. SubSeq(ret_buf, 1, ret_buf_offset) \o Reply(Composed) \in Seq(Byte)
      BY <2>3, <3>1
    <3> QED
      BY <3>2, <3>3, <3>4
  <2>8. batch_ret_vector' \in Seq(BatchBuf) /\ batch_count' \in Nat
    <3>1. CASE ~in_batch_get
      BY <1>t, <1>19, <3>1 DEF QueryKey, TypeOK
    <3>2. CASE in_batch_get
      <4> DEFINE vec == IF NeedsNewBuf(Last(batch_ret_vector), value')
                        THEN Append(batch_ret_vector, EmptyBuf)
                        ELSE batch_ret_vector
      <4>1. EmptyBuf \in BatchBuf
        BY DEF EmptyBuf, BatchBuf
      <4>2. vec \in Seq(BatchBuf) /\ vec # <<>>
        <5>1. batch_ret_vector \in Seq(BatchBuf)
          BY <1>t DEF TypeOK
        <5>2. batch_ret_vector # <<>>
          BY <1>t, <3>2 DEF BatchConsistent
        <5>3. /\ Append(batch_ret_vector, EmptyBuf) \in Seq(BatchBuf)
              /\ Append(batch_ret_vector, EmptyBuf) # <<>>
          BY <4>1, <5>1
        <5> QED
          BY <5>1, <5>2, <5>3
      <4> HIDE DEF vec
      <4>3. Len(vec) \in 1..Len(vec) /\ vec[Len(vec)] \in BatchBuf
        BY <4>2
      <4> DEFINE last == [vec[Len(vec)] EXCEPT !.buf = @ \o Reply(Composed)]
      <4>4. last \in BatchBuf
        <5>1. vec[Len(vec)].buf \o Reply(Composed) \in Seq(Byte)
          BY <2>3, <4>3 DEF BatchBuf
        <5> QED
          BY <4>3, <5>1 DEF BatchBuf
      <4>5. IntoBatch(Composed, value') = [vec EXCEPT ![Len(vec)] = last]
        BY DEF IntoBatch, vec
      <4> HIDE DEF last
      <4>6. IntoBatch(Composed, value') \in Seq(BatchBuf)
        BY <4>2, <4>3, <4>4, <4>5, ExceptSeq
      <4> QED
        BY <1>t, <1>19, <3>2, <4>6 DEF QueryKey, TypeOK
    <3> QED
      BY <3>1, <3>2
  <2> QED
    BY <1>t, <1>19, <2>5, <2>6, <2>7, <2>8
    DEF TypeOK, QueryKey, WorkStates, netVars, schedVars
<1>20. CASE WriteBack
  <2>1. CASE \E n \in 1..ret_bytes : Accepts(PlainPending, n) /\ PlainWritten(n)
             /\ UNCHANGED <<out, outLeft, taken, ret_buf, batchVars>>
    <3>1. PICK n \in 1..ret_bytes :
            /\ Accepts(PlainPending, n) /\ PlainWritten(n)
            /\ UNCHANGED <<out, outLeft, taken, ret_buf, batchVars>>
      BY <2>1
    <3>2. /\ wire' \in Seq(Byte) /\ Len(wire') >= Len(wire)
          /\ sockIn' \in Nat /\ peer' \in {"open", "fin", "reset", "dead"}
      BY <1>t, <3>1, PendingType, AcceptsType DEF TypeOK
    <3>3. /\ conn_state' \in ConnStates /\ work_state' \in WorkStates
          /\ ret_buf_offset' \in Nat /\ ret_bytes' \in Nat
      BY SMTT(30), <1>t, <3>1
      DEF TypeOK, PlainWritten, ReadyForNext, ConnStates, WorkStates
    <3>4. UNCHANGED <<reqs, out, outLeft, taken, ret_buf, parseVars, batchVars,
                      schedVars, dataVars>>
      BY <1>20, <3>1 DEF WriteBack
    <3> QED
      BY <1>t, <3>2, <3>3, <3>4
      DEF TypeOK, parseVars, batchVars, schedVars, dataVars
  <2>2. CASE NotWritten(PlainPending)
    BY <1>t, <1>20, <2>2
    DEF TypeOK, WriteBack, NotWritten, ConnStates, netVars, parseVars,
        replyVars, batchVars, schedVars, dataVars
  <2> QED
    BY <1>20, <2>1, <2>2 DEF WriteBack
<1>21. CASE BatchGathers
  BY <1>t, <1>21
  DEF TypeOK, BatchGathers, ReadyForNext, ConnStates, WorkStates, netVars,
      parseVars, replyVars, batchVars, schedVars, dataVars
<1>22. CASE SendBatch
  <2> DEFINE it == Head(batch_ret_vector)
             pending == BatchPending(it)
  <2>1. /\ batch_ret_vector \in Seq(BatchBuf) /\ batch_ret_vector # <<>>
        /\ it \in BatchBuf
    BY <1>t, <1>22 DEF TypeOK, BatchConsistent, SendBatch
  <2>2. pending \in Seq(Byte) /\ Len(pending) \in Nat
    BY <1>t, <2>1, PendingType
  <2>3. CASE \E n \in 1..Len(pending) : Accepts(pending, n) /\ BatchWritten(n)
             /\ UNCHANGED <<out, outLeft, taken, replyVars>>
    <3>1. PICK n \in 1..Len(pending) :
            /\ Accepts(pending, n) /\ BatchWritten(n)
            /\ UNCHANGED <<out, outLeft, taken, replyVars>>
      BY <2>3
    <3>2. /\ wire' \in Seq(Byte) /\ Len(wire') >= Len(wire)
          /\ sockIn' \in Nat /\ peer' \in {"open", "fin", "reset", "dead"}
      BY <1>t, <2>2, <3>1, AcceptsType DEF TypeOK
    <3>3. AdvanceBatch(n) \in Seq(BatchBuf)
      <4> DEFINE first == [batch_ret_vector[1] EXCEPT !.offset = @ + n]
      <4>1. 1 \in 1..Len(batch_ret_vector) /\ batch_ret_vector[1] \in BatchBuf
        BY <2>1
      <4> HIDE DEF pending
      <4>2. n \in Nat
        BY <2>2
      <4>4. batch_ret_vector[1].offset + n \in Nat
        BY <4>1, <4>2 DEF BatchBuf
      <4>5. first \in BatchBuf
        BY <4>1, <4>4 DEF BatchBuf
      <4>3. AdvanceBatch(n) = [batch_ret_vector EXCEPT ![1] = first]
        BY DEF AdvanceBatch
      <4> HIDE DEF first
      <4> QED
        BY <2>1, <4>1, <4>5, <4>3, ExceptSeq
    <3>4. batch_ret_vector' \in Seq(BatchBuf)
      <4>1. Tail(batch_ret_vector) \in Seq(BatchBuf)
        BY <2>1
      <4> QED
        BY <3>1, <3>3, <4>1 DEF BatchWritten
    <3>5. /\ conn_state' \in ConnStates /\ work_state' \in WorkStates
          /\ in_batch_get' \in BOOLEAN /\ batch_num' \in Nat
          /\ batch_count' \in Nat
      <4>1. conn_state' \in ConnStates
        BY <3>1 DEF BatchWritten, ReadyForNext, ConnStates
      <4>2. work_state' \in WorkStates
        BY <1>t, <3>1 DEF BatchWritten, ReadyForNext, WorkStates, TypeOK
      <4>3. in_batch_get' \in BOOLEAN
        BY <1>t, <3>1 DEF BatchWritten, TypeOK
      <4>4. batch_num' \in Nat /\ batch_count' \in Nat
        BY SMTT(30), <1>t, <3>1 DEF BatchWritten, TypeOK
      <4> QED
        BY <4>1, <4>2, <4>3, <4>4
    <3> HIDE DEF it, pending
    <3> QED
      BY SMTT(30), <1>t, <1>22, <3>1, <3>2, <3>4, <3>5
      DEF TypeOK, SendBatch, parseVars, replyVars, schedVars, dataVars
  <2>4. CASE NotWritten(pending)
    BY <1>t, <1>22, <2>4
    DEF TypeOK, SendBatch, NotWritten, ConnStates, netVars, parseVars,
        replyVars, batchVars, schedVars, dataVars
  <2> QED
    BY <1>22, <2>3, <2>4 DEF SendBatch
<1>23. CASE UNCHANGED vars
  BY <1>t, <1>23 DEF TypeOK, vars, netVars, stateVars, parseVars, replyVars,
                     batchVars, schedVars, dataVars
<1> QED
  BY <1>1, <1>2, <1>3, <1>4, <1>5, <1>6, <1>7, <1>8, <1>9, <1>10, <1>11, <1>12,
     <1>13, <1>14, <1>15, <1>16, <1>17, <1>18, <1>19, <1>20, <1>21, <1>22, <1>23
  DEF Next, ProcessFunc, BatchOvercounted, Environment

-----------------------------------------------------------------------------
(* The phases of the handler.                                              *)

\* The two state machines stay in agreement.
LEMMA PhasesStep == IInv /\ [Next]_vars => PhasesAgree'
<1> SUFFICES ASSUME IInv, [Next]_vars PROVE PhasesAgree'
  OBVIOUS
<1> USE DEF PhasesAgree, netVars, stateVars, parseVars, replyVars, batchVars,
            schedVars, dataVars
<1>t. PhasesAgree /\ RequestInHand /\ TypeOK
  BY DEF IInv
<1>1. CASE Environment
  BY <1>t, <1>1 DEF Environment, ClientSend, ClientRecv, ClientClose, OtherStore
<1>2. CASE EventFires
  BY <1>t, <1>2 DEF EventFires
<1>3. CASE ConnRead
  BY <1>t, <1>3 DEF ConnRead
<1>4. CASE NewCmd
  <2>1. /\ work_state = "parse_head" /\ work_state' = work_state
        /\ conn_state' \in {"conn_deal_with", "conn_waiting", "conn_new_cmd"}
        /\ conn_state' # "conn_new_cmd" => running'
        /\ UNCHANGED <<ret_buf_offset, in_batch_get>>
    BY <1>t, <1>4 DEF NewCmd, ResetTo
  <2> QED
    BY <1>t, <2>1
<1>5. CASE Waiting
  <2>1. CASE work_state = "write_bcak"
    BY <1>t, <1>5, <2>1 DEF Waiting, AfterWaiting
  <2>2. CASE work_state \in {"parse_head", "read_key_value"}
    BY <1>t, <1>5, <2>2 DEF Waiting, AfterWaiting
  <2> QED
    BY <1>t, <1>5, <2>1, <2>2 DEF Waiting
<1>6. CASE Closing
  BY <1>t, <1>6 DEF Closing
<1>7. CASE NeedHead \/ NeedBody
  BY <1>t, <1>7 DEF NeedHead, NeedBody, At, Incomplete
<1>8. CASE BadMagic \/ BatchNumError
  BY <1>t, <1>8 DEF BadMagic, BatchNumError, Exit
<1>9. CASE ParseKeyed
  BY <1>t, <1>9 DEF ParseKeyed, TakeHead, HeadArrived, At
<1>10. CASE ParseBatchHead
  BY <1>t, <1>10 DEF ParseBatchHead, TakeHead, HeadArrived, At
<1>11. CASE ParseShort \/ ParseRejected
  BY <1>t, <1>11 DEF ParseShort, ParseRejected, TakeHead, HeadArrived, At
<1>12. CASE TakeBody
  BY <1>t, <1>12 DEF TakeBody, At
<1>13. CASE StoreKvobj
  BY <1>t, <1>13 DEF StoreKvobj, At
<1>14. CASE QueryKey
  BY <1>t, <1>14 DEF QueryKey, At
<1>15. CASE WriteBack
  <2>1. CASE NotWritten(PlainPending)
    BY <1>t, <1>15, <2>1 DEF WriteBack, At, NotWritten
  <2>2. ASSUME NEW n \in 1..ret_bytes, PlainWritten(n), UNCHANGED batchVars
        PROVE  PhasesAgree'
    BY <1>t, <1>15, <2>2 DEF WriteBack, At, PlainWritten, ReadyForNext
  <2> QED
    BY <1>15, <2>1, <2>2 DEF WriteBack
<1>16. CASE BatchGathers
  BY <1>t, <1>16 DEF BatchGathers, At, ReadyForNext
<1>17. CASE SendBatch
  <2>1. /\ ret_buf_offset' = ret_buf_offset /\ running /\ running' = running
        /\ work_state = "write_bcak"
    BY <1>17 DEF SendBatch, At, NotWritten
  <2>4. ~(ret_buf_offset > 0)
    BY <1>t, <1>17 DEF SendBatch
  <2>2. CASE NotWritten(BatchPending(Head(batch_ret_vector)))
    BY <1>t, <2>1, <2>2, <2>4 DEF NotWritten
  <2>3. ASSUME NEW n, BatchWritten(n)
        PROVE  PhasesAgree'
    <3>1. \/ conn_state' = "conn_waiting" /\ work_state' = work_state
          \/ conn_state' = "conn_new_cmd" /\ work_state' = "parse_head"
      BY <2>3 DEF BatchWritten, ReadyForNext
    <3> QED
      BY <2>1, <2>4, <3>1
  <2> QED
    BY <1>17, <2>2, <2>3 DEF SendBatch
<1>18. CASE UNCHANGED vars
  BY <1>t, <1>18 DEF vars
<1> QED
  BY <1>1, <1>2, <1>3, <1>4, <1>5, <1>6, <1>7, <1>8, <1>9, <1>10, <1>11, <1>12,
     <1>13, <1>14, <1>15, <1>16, <1>17, <1>18
  DEF Next, ProcessFunc, BatchOvercounted

\* Key, value and request stay those of the header parsed last.
LEMMA RequestStep == IInv /\ [Next]_vars => RequestInHand'
<1> SUFFICES ASSUME IInv, [Next]_vars PROVE RequestInHand'
  OBVIOUS
<1> USE DEF RequestInHand, Keyed, netVars, stateVars, parseVars, replyVars,
            batchVars, schedVars, dataVars
<1>t. PhasesAgree /\ RequestInHand /\ TypeOK
  BY DEF IInv
<1>1. CASE Environment
  BY <1>t, <1>1 DEF Environment, ClientSend, ClientRecv, ClientClose, OtherStore
<1>2. CASE EventFires
  BY <1>t, <1>2 DEF EventFires
<1>3. CASE ConnRead
  BY <1>t, <1>3 DEF ConnRead
<1>4. CASE NewCmd
  BY <1>t, <1>4 DEF NewCmd, PhasesAgree
<1>5. CASE Waiting \/ Closing
  BY <1>t, <1>5 DEF Waiting, Closing
<1>6. CASE NeedHead \/ NeedBody
  BY <1>t, <1>6 DEF NeedHead, NeedBody, At
<1>7. CASE BadMagic \/ BatchNumError
  BY <1>t, <1>7 DEF BadMagic, BatchNumError, HeadArrived, At, Exit
<1>8. CASE ParseKeyed
  <2>1. /\ cur' = cur + 1 /\ reqs' = reqs
        /\ reqs[cur + 1].op \in {"SET", "GET"}
        /\ work_state' = "read_key_value"
    BY <1>8 DEF ParseKeyed, TakeHead
  <2>2. cur + 1 >= 1
    BY <1>t DEF TypeOK
  <2> QED
    BY <2>1, <2>2
<1>9. CASE ParseBatchHead
  BY <1>9 DEF ParseBatchHead
<1>10. CASE ParseShort \/ ParseRejected
  BY <1>t, <1>10 DEF ParseShort, ParseRejected, TakeHead, HeadArrived, At
<1>11. CASE TakeBody
  <2>1. /\ running /\ running' = running
        /\ conn_state = "conn_deal_with" /\ conn_state' = conn_state
        /\ work_state = "read_key_value"
        /\ cur' = cur /\ reqs' = reqs
        /\ key' = reqs[cur].key
        /\ value' = IF reqs[cur].op = "SET" THEN reqs[cur].val ELSE value
        /\ work_state' = IF reqs[cur].op = "SET" THEN "store_kvobj"
                         ELSE "query_key"
    BY <1>11 DEF TakeBody, At, BodyRead
  <2>2. cur >= 1 /\ reqs[cur].op \in {"SET", "GET"}
    BY <1>t, <2>1
  <2>3. CASE reqs[cur].op = "SET"
    BY <2>1, <2>2, <2>3
  <2>4. CASE reqs[cur].op = "GET"
    BY <2>1, <2>2, <2>4
  <2> QED
    BY <2>2, <2>3, <2>4
<1>12. CASE StoreKvobj
  BY <1>12 DEF StoreKvobj
<1>13. CASE QueryKey
  BY <1>13 DEF QueryKey
<1>14. CASE WriteBack
  BY <1>14 DEF WriteBack, At, NotWritten, PlainWritten, ReadyForNext
<1>15. CASE BatchGathers
  BY <1>15 DEF BatchGathers, ReadyForNext
<1>16. CASE SendBatch
  BY <1>16 DEF SendBatch, At, NotWritten, BatchWritten, ReadyForNext
<1>17. CASE UNCHANGED vars
  BY <1>t, <1>17 DEF vars
<1> QED
  BY <1>1, <1>2, <1>3, <1>4, <1>5, <1>6, <1>7, <1>8, <1>9, <1>10, <1>11, <1>12,
     <1>13, <1>14, <1>15, <1>16, <1>17
  DEF Next, ProcessFunc, BatchOvercounted

-----------------------------------------------------------------------------
(* The table, and the work done for one event.                             *)

\* Only SETs this client or another sent reach the table.
LEMMA StoredStep == IInv /\ [Next]_vars => StoredValues'
<1> SUFFICES ASSUME IInv, [Next]_vars PROVE StoredValues'
  OBVIOUS
<1>t. TypeOK /\ RequestInHand /\ StoredValues
  BY DEF IInv
<1>1. CASE StoreKvobj
  <2>1. cur \in 1..Len(reqs) /\ reqs[cur].op = "SET" /\ value = reqs[cur].val
    BY <1>t, <1>1, RequestsOf DEF TypeOK, RequestInHand, Keyed, StoreKvobj, At
  <2>2. value \in Vals
    BY <1>t, <2>1, RequestsOf DEF TypeOK, Request
  <2>3. \A k \in Keys : store'[k] = value \/ store'[k] = store[k]
    BY <1>t, <1>1 DEF TypeOK, StoreKvobj
  <2> QED
    BY <1>t, <2>2, <2>3 DEF StoredValues
<1>2. CASE OtherStore
  <2>1. PICK v \in OtherVals :
          \A k \in Keys : store'[k] = v \/ store'[k] = store[k]
    BY <1>t, <1>2 DEF TypeOK, OtherStore
  <2> QED
    BY <1>t, <2>1 DEF StoredValues
<1>3. CASE UNCHANGED store
  BY <1>t, <1>3 DEF StoredValues
<1>4. \/ StoreKvobj \/ OtherStore \/ UNCHANGED store
  BY DEF Next, ProcessFunc, BatchOvercounted, Environment, ClientSend, ClientRecv, ClientClose,
         EventFires, ConnRead, NewCmd, Waiting, Closing, NeedHead, BadMagic,
         BatchNumError, Exit, ParseKeyed, ParseBatchHead, ParseShort,
         ParseRejected, TakeHead, NeedBody, TakeBody, QueryKey, WriteBack,
         BatchGathers, SendBatch, dataVars, vars
<1> QED
  BY <1>1, <1>2, <1>3, <1>4

\* conn_new_cmd is passed once for every request executed.
LEMMA BurstStep == IInv /\ [Next]_vars => BurstCounted' /\ RoundBounded'
<1> SUFFICES ASSUME IInv, [Next]_vars PROVE BurstCounted' /\ RoundBounded'
  OBVIOUS
<1> USE SizesAssumption DEF BurstCounted, RoundBounded, netVars, stateVars,
        parseVars, replyVars, batchVars, schedVars, dataVars
<1>t. /\ PhasesAgree /\ RequestInHand /\ BurstCounted /\ RoundBounded
      /\ inst_count \in Nat /\ burst \in Nat
  BY DEF IInv, TypeOK
<1>1. CASE Environment
  BY <1>t, <1>1 DEF Environment, ClientSend, ClientRecv, ClientClose, OtherStore
<1>2. CASE EventFires
  BY <1>t, <1>2 DEF EventFires
<1>3. CASE ConnRead
  BY <1>t, <1>3 DEF ConnRead
<1>4. CASE NewCmd
  <2>1. /\ conn_state = "conn_new_cmd" /\ inst_count' = inst_count + 1
        /\ burst' = burst
        /\ inst_count + 1 < RoundNum \/ ~running'
    BY <1>4 DEF NewCmd, GoesOn
  <2> QED
    BY <1>t, <2>1
<1>5. CASE Waiting \/ Closing
  BY <1>t, <1>5 DEF Waiting, Closing
<1>6. CASE NeedHead \/ NeedBody
  BY <1>t, <1>6 DEF NeedHead, NeedBody, At
<1>7. CASE BadMagic \/ BatchNumError
  BY <1>t, <1>7 DEF BadMagic, BatchNumError, HeadArrived, At, Exit
<1>8. CASE ParseKeyed \/ ParseBatchHead
  BY <1>t, <1>8 DEF ParseKeyed, ParseBatchHead, TakeHead, HeadArrived, At
<1>9. CASE ParseShort \/ ParseRejected
  BY <1>t, <1>9 DEF ParseShort, ParseRejected, TakeHead, HeadArrived, At
<1>10. CASE TakeBody
  BY <1>t, <1>10 DEF TakeBody, At
<1>11. CASE StoreKvobj
  BY <1>t, <1>11 DEF StoreKvobj, At
<1>12. CASE QueryKey
  <2>1. /\ running /\ running' = running /\ inst_count' = inst_count
        /\ burst' = burst + 1
        /\ conn_state = "conn_deal_with" /\ work_state = "query_key"
        /\ work_state' = "write_bcak"
    BY <1>12 DEF QueryKey, At
  <2> QED
    BY <1>t, <2>1
<1>13. CASE WriteBack \/ SendBatch
  <2>1. /\ running' = running /\ inst_count' = inst_count /\ burst' = burst
        /\ work_state = "write_bcak"
    BY <1>13 DEF WriteBack, SendBatch, At
  <2>2. work_state' = "write_bcak" \/ conn_state' = "conn_new_cmd"
    BY <1>13, <2>1 DEF WriteBack, SendBatch, NotWritten, PlainWritten,
                       BatchWritten, ReadyForNext
  <2> QED
    BY <1>t, <2>1, <2>2
<1>14. CASE BatchGathers
  BY <1>t, <1>14 DEF BatchGathers, At, ReadyForNext
<1>15. CASE UNCHANGED vars
  BY <1>t, <1>15 DEF vars
<1> QED
  BY <1>1, <1>2, <1>3, <1>4, <1>5, <1>6, <1>7, <1>8, <1>9, <1>10, <1>11, <1>12,
     <1>13, <1>14, <1>15
  DEF Next, ProcessFunc, BatchOvercounted

-----------------------------------------------------------------------------
(* Batches.                                                                *)

\* The buffers of a batch once con_ret_buf has seen to room for a reply.
WithRoom(len) ==
  IF NeedsNewBuf(Last(batch_ret_vector), len)
  THEN Append(batch_ret_vector, EmptyBuf) ELSE batch_ret_vector

\* What con_ret_buf does to the buffers of a batch: the last one, or a new
\* one, grows by the reply.
LEMMA IntoBatchGrows ==
  ASSUME NEW a \in Answer, NEW len, batch_ret_vector \in Seq(BatchBuf),
         batch_ret_vector # <<>>
  PROVE  LET vec == WithRoom(len) IN
         /\ vec \in Seq(BatchBuf) /\ vec # <<>>
         /\ IntoBatch(a, len) \in Seq(BatchBuf)
         /\ Len(IntoBatch(a, len)) = Len(vec)
         /\ \A j \in 1..Len(vec) :
              /\ IntoBatch(a, len)[j].offset = vec[j].offset
              /\ Len(IntoBatch(a, len)[j].buf) =
                   IF j = Len(vec)
                   THEN Len(vec[j].buf) + HeadLen + KeyLen + a.body
                   ELSE Len(vec[j].buf)
<1> DEFINE vec == WithRoom(len)
<1>1. EmptyBuf \in BatchBuf
  BY DEF EmptyBuf, BatchBuf
<1>2. vec \in Seq(BatchBuf) /\ vec # <<>>
  BY <1>1 DEF WithRoom
<1>3. Len(vec) \in 1..Len(vec) /\ vec[Len(vec)] \in BatchBuf
  BY <1>2
<1>4. Reply(a) \in Seq(Byte) /\ Len(Reply(a)) = HeadLen + KeyLen + a.body
  BY ReplyType
<1> DEFINE old  == vec[Len(vec)]
           last == [old EXCEPT !.buf = @ \o Reply(a)]
<1>5. /\ old.buf \in Seq(Byte)
      /\ old.buf \o Reply(a) \in Seq(Byte)
      /\ Len(old.buf \o Reply(a)) = Len(old.buf) + Len(Reply(a))
  <2>1. old.buf \in Seq(Byte)
    BY <1>3 DEF BatchBuf
  <2> HIDE DEF old
  <2> QED
    BY <2>1, <1>4, ConcatProperties
<1>6. /\ last \in BatchBuf /\ last.offset = old.offset
      /\ last.buf = old.buf \o Reply(a)
  BY <1>3, <1>5 DEF BatchBuf
<1>7. IntoBatch(a, len) = [vec EXCEPT ![Len(vec)] = last]
  BY DEF IntoBatch, WithRoom
<1> HIDE DEF last, vec
<1>8. /\ IntoBatch(a, len) \in Seq(BatchBuf)
      /\ Len(IntoBatch(a, len)) = Len(vec)
      /\ \A j \in 1..Len(vec) :
           IntoBatch(a, len)[j] = IF j = Len(vec) THEN last ELSE vec[j]
  <2> DEFINE new == [vec EXCEPT ![Len(vec)] = last]
  <2>1. Len(vec) \in 1..Len(vec) /\ last \in BatchBuf
    BY <1>3, <1>6
  <2>2. /\ new \in Seq(BatchBuf) /\ Len(new) = Len(vec)
        /\ \A j \in 1..Len(vec) : new[j] = IF j = Len(vec) THEN last ELSE vec[j]
    BY <1>2, <2>1, ExceptSeq
  <2> QED
    BY <1>7, <2>2
<1>9. Len(last.buf) = Len(old.buf) + HeadLen + KeyLen + a.body
  <2>1. Len(old.buf) \in Nat /\ a.body \in Nat
    BY <1>5 DEF Answer
  <2> QED
    BY <1>4, <1>5, <1>6, <2>1, SizesAssumption
<1> QED
  BY <1>2, <1>6, <1>8, <1>9 DEF vec

\* A request in hand is answered with what its key holds.
LEMMA ComposedType ==
  ASSUME IInv, QueryKey
  PROVE  /\ Composed \in Answer
         /\ Composed.body \in Vals \cup OtherVals \cup {NotFoundLen}
         /\ Composed.hit \/ Composed.body = NotFoundLen
<1>1. TypeOK /\ RequestInHand /\ StoredValues
  BY DEF IInv
<1>2. cur \in 1..Len(reqs) /\ key = reqs[cur].key
  BY <1>1, RequestsOf DEF TypeOK, RequestInHand, Keyed, QueryKey, At
<1>3. key \in Keys
  BY <1>1, <1>2, RequestsOf DEF TypeOK, Request
<1>4. store[key] \in Nat /\ store[key] \in Vals \cup OtherVals \cup {0}
  BY <1>1, <1>3 DEF TypeOK, StoredValues
<1>5. CASE store[key] = 0
  <2>1. Composed = [req |-> cur, hit |-> FALSE, body |-> NotFoundLen]
    BY <1>5 DEF Composed, AnswerLen
  <2> QED
    BY <1>1, <2>1, SizesAssumption DEF Answer, TypeOK
<1>6. CASE store[key] # 0
  <2>1. Composed = [req |-> cur, hit |-> TRUE, body |-> store[key]]
    BY <1>6 DEF Composed, AnswerLen
  <2> QED
    BY <1>1, <1>4, <1>6, <2>1 DEF Answer, TypeOK
<1> QED
  BY <1>5, <1>6

\* The batch variables stay in agreement.
LEMMA BatchStep == IInv /\ [Next]_vars => BatchConsistent'
<1> SUFFICES ASSUME IInv, [Next]_vars PROVE BatchConsistent'
  OBVIOUS
<1> USE DEF BatchConsistent, BatchComplete, EmptyBatchAnswered, netVars,
            stateVars, parseVars, replyVars, batchVars, schedVars, dataVars
<1>t. /\ TypeOK /\ BatchConsistent /\ PhasesAgree
      /\ batch_ret_vector \in Seq(BatchBuf)
      /\ batch_num \in Nat /\ batch_count \in Nat
  BY DEF IInv, TypeOK
<1>1. CASE UNCHANGED <<batchVars, work_state>>
  BY <1>t, <1>1
<1>2. CASE ParseKeyed \/ TakeBody \/ StoreKvobj
  <2>1. /\ UNCHANGED batchVars
        /\ work_state # "write_bcak" /\ work_state' # "write_bcak"
    BY <1>2 DEF ParseKeyed, TakeHead, HeadArrived, At, TakeBody, BodyRead,
                StoreKvobj
  <2> QED
    BY <1>t, <2>1
<1>3. CASE ParseBatchHead
  <2>1. /\ batch_num' = reqs[cur + 1].num /\ batch_count' = 0 /\ in_batch_get'
        /\ batch_ret_vector' = Append(batch_ret_vector, EmptyBuf)
        /\ work_state = "parse_head" /\ work_state' = "parse_head"
    BY <1>3 DEF ParseBatchHead, TakeHead, HeadArrived, At
  <2>2. reqs[cur + 1].num \in Nat
    <3>1. reqs[cur + 1].op = "BATCH" /\ cur < Len(reqs)
      BY <1>3 DEF ParseBatchHead, TakeHead, HeadArrived
    <3>2. cur + 1 \in 1..Len(reqs)
      BY <1>t, <3>1, RequestsOf DEF TypeOK
    <3> QED
      BY <1>t, <3>1, <3>2, RequestsOf DEF TypeOK, Request
  <2>3. \A i \in DOMAIN batch_ret_vector : batch_ret_vector[i].offset = 0
    BY <1>t, <2>1
  <2>4. \A i \in DOMAIN batch_ret_vector' : batch_ret_vector'[i].offset = 0
    BY <1>t, <2>1, <2>3 DEF EmptyBuf
  <2>5. batch_ret_vector' # <<>>
    BY <1>t, <2>1
  <2> QED
    BY <2>1, <2>2, <2>4, <2>5
<1>4. CASE QueryKey
  <2>1. /\ work_state = "query_key" /\ work_state' = "write_bcak"
        /\ batch_num' = batch_num /\ in_batch_get' = in_batch_get
    BY <1>4 DEF QueryKey, At
  <2>2. CASE ~in_batch_get
    <3>1. batch_count' = batch_count /\ batch_ret_vector' = batch_ret_vector
      BY <1>4, <2>2 DEF QueryKey
    <3> QED
      BY <1>t, <2>1, <2>2, <3>1
  <2>3. CASE in_batch_get
    <3>1. /\ batch_count' = batch_count + 1
          /\ batch_ret_vector' = IntoBatch(Composed, value')
      BY <1>4, <2>3 DEF QueryKey
    <3>2. /\ batch_ret_vector # <<>> /\ ~BatchComplete
          /\ batch_count < batch_num \/ (batch_num = 0 /\ batch_count = 0)
      <4>1. batch_ret_vector # <<>>
        BY <1>t, <2>3
      <4>2. ~BatchComplete /\ ~EmptyBatchAnswered
        BY <1>t, <2>1
      <4>3. batch_count <= batch_num
        BY <1>t, <4>2
      <4>4. batch_num \in Nat /\ batch_count \in Nat
        BY <1>t
      <4> QED
        BY <4>1, <4>2, <4>3, <4>4
    <3> DEFINE vec == WithRoom(value')
    <3>3. /\ vec \in Seq(BatchBuf) /\ vec # <<>>
          /\ batch_ret_vector' \in Seq(BatchBuf)
          /\ Len(batch_ret_vector') = Len(vec)
          /\ \A j \in 1..Len(vec) : batch_ret_vector'[j].offset = vec[j].offset
      <4>1. Composed \in Answer
        BY <1>4, ComposedType
      <4> DEFINE new == IntoBatch(Composed, value')
      <4>2. /\ vec \in Seq(BatchBuf) /\ vec # <<>>
            /\ new \in Seq(BatchBuf) /\ Len(new) = Len(vec)
            /\ \A j \in 1..Len(vec) : new[j].offset = vec[j].offset
        BY <1>t, <3>2, <4>1, IntoBatchGrows
      <4> QED
        BY <3>1, <4>2
    <3>4. \A j \in 1..Len(vec) : vec[j].offset = 0
      BY <1>t, <3>2 DEF EmptyBuf, WithRoom
    <3> HIDE DEF vec
    <3>5. \A j \in DOMAIN batch_ret_vector' : batch_ret_vector'[j].offset = 0
      BY <3>3, <3>4
    <3>6. batch_ret_vector' # <<>>
      BY <3>3
    <3> QED
      BY <1>t, <2>1, <2>3, <3>1, <3>2, <3>5, <3>6
  <2> QED
    BY <2>2, <2>3
<1>5. CASE WriteBack
  <2>1. ~in_batch_get /\ UNCHANGED batchVars
    BY <1>5 DEF WriteBack, NotWritten
  <2> QED
    BY <1>t, <2>1
<1>6. CASE BatchGathers
  <2>1. /\ UNCHANGED batchVars /\ batch_count < batch_num
        /\ work_state' = "parse_head"
    BY <1>6 DEF BatchGathers, Gathering, ReadyForNext
  <2> QED
    BY <1>t, <2>1
<1>7. CASE SendBatch
  <2>1. /\ in_batch_get /\ batch_count = batch_num /\ work_state = "write_bcak"
        /\ batch_ret_vector # <<>> /\ batch_num > 0
    BY <1>t, <1>7 DEF SendBatch, At
  <2>2. CASE NotWritten(BatchPending(Head(batch_ret_vector)))
    BY <1>t, <2>2 DEF NotWritten
  <2>3. ASSUME NEW n, BatchWritten(n) PROVE BatchConsistent'
    <3>1. CASE /\ batch_ret_vector' = AdvanceBatch(n)
               /\ UNCHANGED <<work_state, in_batch_get, batch_num, batch_count>>
      <4>1. batch_ret_vector' # <<>>
        BY <1>t, <2>1, <3>1 DEF AdvanceBatch
      <4> QED
        BY <1>t, <2>1, <3>1, <4>1
    <3>2. CASE /\ batch_ret_vector' = Tail(batch_ret_vector)
               /\ Len(batch_ret_vector) = 1
               /\ in_batch_get' = FALSE /\ batch_num' = 0 /\ batch_count' = 0
      BY <1>t, <2>1, <3>2
    <3>3. CASE /\ batch_ret_vector' = Tail(batch_ret_vector)
               /\ Len(batch_ret_vector) # 1
               /\ UNCHANGED <<work_state, in_batch_get, batch_num, batch_count>>
      <4>1. batch_ret_vector' # <<>>
        <5> DEFINE len == Len(batch_ret_vector)
        <5>3. len \in Nat /\ len # 0
          BY <1>t, <2>1
        <5>4. len # 1
          BY <3>3
        <5>1. len > 1
          <6> HIDE DEF len
          <6> QED BY <5>3, <5>4
        <5>2. Len(Tail(batch_ret_vector)) > 0
          BY <1>t, <5>1
        <5> QED
          BY SMTT(30), <3>3, <5>2
      <4> QED
        BY <1>t, <2>1, <3>3, <4>1
    <3> QED
      BY <2>3, <3>1, <3>2, <3>3 DEF BatchWritten
  <2> QED
    BY <1>7, <2>2, <2>3 DEF SendBatch
<1>8. \/ UNCHANGED <<batchVars, work_state>>
      \/ ParseKeyed \/ TakeBody \/ StoreKvobj \/ ParseBatchHead \/ QueryKey
      \/ WriteBack \/ BatchGathers \/ SendBatch
  BY DEF Next, ProcessFunc, BatchOvercounted, Environment, ClientSend, ClientRecv, ClientClose,
         OtherStore, EventFires, ConnRead, NewCmd, Waiting, Closing, NeedHead,
         BadMagic, BatchNumError, Exit, ParseShort, ParseRejected, TakeHead,
         NeedBody, vars
<1> QED
  BY <1>1, <1>2, <1>3, <1>4, <1>5, <1>6, <1>7, <1>8

\* The check with the stale length lets a miss pass that a hit would not, and
\* a miss adds no more than the length of "NOTFOUND" to what was checked.
LEMMA OverrunStep == IInv /\ [Next]_vars => BatchOverrunBounded'
<1> SUFFICES ASSUME IInv, [Next]_vars PROVE BatchOverrunBounded'
  OBVIOUS
<1> USE SizesAssumption DEF BatchOverrunBounded, batchVars
<1>t. /\ TypeOK /\ BatchConsistent /\ BatchOverrunBounded
      /\ batch_ret_vector \in Seq(BatchBuf)
  BY DEF IInv, TypeOK
<1>1. CASE batch_ret_vector' = batch_ret_vector
  BY <1>t, <1>1
<1>2. CASE ParseBatchHead
  <2>1. batch_ret_vector' = Append(batch_ret_vector, EmptyBuf)
    BY <1>2 DEF ParseBatchHead
  <2>2. \A i \in 1..Len(batch_ret_vector') :
          \/ i \in 1..Len(batch_ret_vector) /\ batch_ret_vector'[i] = batch_ret_vector[i]
          \/ batch_ret_vector'[i] = EmptyBuf
    BY <1>t, <2>1
  <2> QED
    BY <1>t, <2>1, <2>2 DEF EmptyBuf
<1>3. CASE QueryKey /\ in_batch_get
  <2> DEFINE vec == WithRoom(value')
             new == IntoBatch(Composed, value')
             L   == Len(vec)
             len == HeadLen + KeyLen + Composed.body
  <2>1. batch_ret_vector' = new
    BY <1>3 DEF QueryKey
  <2>2. /\ Composed \in Answer
        /\ Composed.body \in Vals \cup OtherVals \cup {NotFoundLen}
        /\ Composed.hit \/ Composed.body = NotFoundLen
    BY <1>3, ComposedType
  <2>3. /\ vec \in Seq(BatchBuf) /\ vec # <<>>
        /\ new \in Seq(BatchBuf) /\ Len(new) = L
        /\ \A j \in 1..L :
             Len(new[j].buf) = IF j = L THEN Len(vec[j].buf) + HeadLen + KeyLen + Composed.body
                               ELSE Len(vec[j].buf)
    BY <1>t, <1>3, <2>2, IntoBatchGrows DEF BatchConsistent
  <2>4. \A j \in 1..L : Len(vec[j].buf) <= BatchBufSize + NotFoundLen
    BY <1>t DEF WithRoom, EmptyBuf
  <2>5. /\ Composed.body \in Nat /\ Composed.hit \in BOOLEAN
        /\ len <= BatchBufSize
    BY <2>2, ValuesAssumption DEF Answer
  <2>6. /\ value' \in Nat
        /\ Composed.hit => value' = Composed.body
    <3>1. value' = IF Composed.hit THEN Composed.body ELSE value
      BY <1>3 DEF QueryKey
    <3> QED
      BY <1>t, <2>5, <3>1 DEF TypeOK
  <2>7. Len(vec[L].buf) + len <= BatchBufSize + NotFoundLen
    <3>1. CASE NeedsNewBuf(Last(batch_ret_vector), value')
      <4>1. vec[L] = EmptyBuf
        BY <1>t, <3>1 DEF WithRoom
      <4>2. Len(vec[L].buf) = 0
        BY <4>1 DEF EmptyBuf
      <4> HIDE DEF vec, L, len
      <4>3. len \in Nat
        BY <2>5 DEF len
      <4> QED
        BY <2>5, <4>2, <4>3
    <3>2. CASE ~NeedsNewBuf(Last(batch_ret_vector), value')
      <4>1. vec = batch_ret_vector /\ vec[L] = Last(batch_ret_vector)
        BY <3>2 DEF WithRoom, Last
      <4>2. vec[L] \in BatchBuf
        BY <2>3
      <4>3. Len(vec[L].buf) \in Nat
        BY <4>2 DEF BatchBuf
      <4>4. Len(vec[L].buf) + HeadLen + KeyLen + value' <= BatchBufSize
        BY <2>6, <3>2, <4>1, <4>3 DEF NeedsNewBuf
      <4> HIDE DEF vec, L
      <4>5. Composed.body <= value' + NotFoundLen
        <5>1. CASE Composed.hit
          <6>1. value' = Composed.body
            BY <2>6, <5>1
          <6> QED
            BY <2>5, <6>1
        <5>2. CASE ~Composed.hit
          <6>1. Composed.body = NotFoundLen
            BY <2>2, <5>2
          <6>2. value' \in Nat /\ NotFoundLen \in Nat
            BY <2>6, SizesAssumption
          <6>3. \A v \in Nat : NotFoundLen <= v + NotFoundLen
            BY <6>2
          <6>4. NotFoundLen <= value' + NotFoundLen
            BY <6>2, <6>3
          <6> QED
            BY <6>1, <6>4
        <5> QED
          BY <5>1, <5>2
      <4>6. /\ Composed.body \in Nat /\ value' \in Nat /\ BatchBufSize \in Nat
            /\ HeadLen \in Nat /\ KeyLen \in Nat /\ NotFoundLen \in Nat
        BY <2>5, <2>6, SizesAssumption
      <4> QED
        BY SMTT(30), <4>3, <4>4, <4>5, <4>6
    <3> QED
      BY <3>1, <3>2
  <2> HIDE DEF vec, new, L, len
  <2>8. \A j \in DOMAIN new : Len(new[j].buf) <= BatchBufSize + NotFoundLen
    <3>1. TAKE j \in DOMAIN new
    <3>2. j \in 1..L
      BY <2>3
    <3>3. CASE j = L
      <4>1. Len(vec[L].buf) + HeadLen + KeyLen + Composed.body
              <= BatchBufSize + NotFoundLen
        <5>1. Len(vec[L].buf) \in Nat
          <6>1. vec[L] \in BatchBuf
            BY <2>3, <3>2, <3>3 DEF L
          <6> QED
            BY <6>1 DEF BatchBuf
        <5> QED
          BY <2>5, <2>7, <5>1 DEF len
      <4> QED
        BY <2>3, <3>2, <3>3, <4>1
    <3>4. CASE j # L
      BY <2>3, <2>4, <3>2, <3>4
    <3> QED
      BY <3>3, <3>4
  <2> QED
    BY <2>1, <2>8
<1>4. CASE SendBatch
  <2>1. batch_ret_vector # <<>>
    BY <1>t, <1>4 DEF SendBatch, BatchConsistent
  <2>2. \/ batch_ret_vector' = batch_ret_vector
        \/ batch_ret_vector' = Tail(batch_ret_vector)
        \/ \E n : batch_ret_vector' = AdvanceBatch(n)
    BY <1>4 DEF SendBatch, NotWritten, BatchWritten
  <2>3. CASE batch_ret_vector' = Tail(batch_ret_vector)
    BY <1>t, <2>1, <2>3, HeadTailProperties
  <2>4. CASE \E n : batch_ret_vector' = AdvanceBatch(n)
    <3>1. PICK n : batch_ret_vector' = AdvanceBatch(n)
      BY <2>4
    <3> DEFINE v == batch_ret_vector
               w == AdvanceBatch(n)
    <3>2. DOMAIN w = DOMAIN v
      BY DEF AdvanceBatch
    <3>3. ASSUME NEW i \in DOMAIN v PROVE w[i].buf = v[i].buf
      <4>1. CASE i # 1
        BY <4>1 DEF AdvanceBatch
      <4>2. CASE i = 1
        <5>1. w[i] = [v[i] EXCEPT !.offset = @ + n]
          BY <4>2 DEF AdvanceBatch
        <5>2. v[i] \in BatchBuf
          BY <1>t
        <5> QED BY <5>1, <5>2 DEF BatchBuf
      <4> QED BY <4>1, <4>2
    <3> HIDE DEF v, w
    <3>5. \A i \in DOMAIN w : w[i].buf = v[i].buf /\ i \in DOMAIN v
      BY <3>2, <3>3
    <3> QED
      BY <1>t, <3>1, <3>5 DEF v, w
  <2> QED
    BY <1>1, <2>2, <2>3, <2>4
<1>5. \/ batch_ret_vector' = batch_ret_vector
      \/ ParseBatchHead \/ (QueryKey /\ in_batch_get) \/ SendBatch
  BY DEF Next, ProcessFunc, BatchOvercounted, Environment, ClientSend, ClientRecv, ClientClose,
         OtherStore, EventFires, ConnRead, NewCmd, Waiting, Closing, NeedHead,
         BadMagic, BatchNumError, Exit, ParseKeyed, ParseShort, ParseRejected,
         TakeHead, NeedBody, TakeBody, StoreKvobj, QueryKey, WriteBack,
         NotWritten, BatchGathers, vars
<1> QED
  BY <1>1, <1>2, <1>3, <1>4, <1>5

-----------------------------------------------------------------------------
(* The theorems.                                                           *)

LEMMA InvInit == Init => IInv
<1> SUFFICES ASSUME Init PROVE IInv
  OBVIOUS
<1>1. TypeOK
  BY TypeInit
<1>2. PhasesAgree /\ RequestInHand /\ BatchConsistent /\ BatchOverrunBounded
  BY DEF Init, ServerInit, PhasesAgree, RequestInHand, Keyed, BatchConsistent,
         BatchComplete, EmptyBatchAnswered, BatchOverrunBounded
<1>3. StoredValues
  BY DEF Init, StoredValues
<1>4. BurstCounted /\ RoundBounded
  BY SizesAssumption DEF Init, ServerInit, BurstCounted, RoundBounded
<1> QED
  BY <1>1, <1>2, <1>3, <1>4 DEF IInv

LEMMA InvStep == IInv /\ [Next]_vars => IInv'
BY TypeStep, PhasesStep, RequestStep, StoredStep, BatchStep, OverrunStep,
   BurstStep DEF IInv

\* The inductive invariant holds in every reachable state.
THEOREM Invariance == Spec => []IInv
BY InvInit, InvStep, PTL DEF Spec

\* Every variable keeps its type; read_buf is never overrun.
THEOREM TypeCorrect == Spec => []TypeOK
<1>1. IInv => TypeOK
  BY DEF IInv
<1> QED
  BY <1>1, Invariance, PTL

\* The "work state error" branch of conn_waiting is dead code.
THEOREM PhasesCorrect == Spec => []PhasesAgree
<1>1. IInv => PhasesAgree
  BY DEF IInv
<1> QED
  BY <1>1, Invariance, PTL

\* A batch is complete before any of it is written, and forgotten after.
THEOREM BatchCorrect == Spec => []BatchConsistent
<1>1. IInv => BatchConsistent
  BY DEF IInv
<1> QED
  BY <1>1, Invariance, PTL

\* A batch buffer is never exceeded by more than the length of "NOTFOUND".
THEOREM OverrunCorrect == Spec => []BatchOverrunBounded
<1>1. IInv => BatchOverrunBounded
  BY DEF IInv
<1> QED
  BY <1>1, Invariance, PTL

\* One event executes at most ROUND_NUM requests.
THEOREM RoundCorrect == Spec => []RoundBounded
<1>1. IInv => RoundBounded
  BY DEF IInv
<1> QED
  BY <1>1, Invariance, PTL

-----------------------------------------------------------------------------
(* Connection implements RequestStream.                                    *)

LEMMA PromiseInit == Init => Promise!Init
BY DEF Init, ServerInit, Promise!Init, Served

\* Each turn of the handler executes the next request, or nothing.
LEMMA PromiseStep ==
  IInv /\ [Next]_vars => [Promise!Next]_(Promise!vars)
<1> SUFFICES ASSUME IInv, [Next]_vars PROVE [Promise!Next]_(Promise!vars)
  OBVIOUS
<1> USE DEF Promise!vars, netVars, stateVars, parseVars, replyVars, batchVars,
            schedVars, dataVars
<1>t. /\ TypeOK /\ RequestInHand
      /\ cur \in Nat /\ cur <= Len(reqs) /\ Len(reqs) \in Nat
  BY RequestsOf DEF IInv, TypeOK
<1>1. CASE UNCHANGED <<reqs, cur, work_state, store, answers>>
  BY <1>1 DEF Served
<1>2. CASE OtherStore
  <2>1. UNCHANGED <<reqs, Served, answers>>
    BY <1>2 DEF OtherStore, Served
  <2>2. \E k \in Keys, v \in OtherVals : store' = [store EXCEPT ![k] = v]
    BY <1>2 DEF OtherStore
  <2>3. Promise!OtherConnection
    BY <2>1, <2>2 DEF Promise!OtherConnection
  <2> QED
    BY <2>3 DEF Promise!Next
<1>3. CASE ParseKeyed
  <2>1. /\ work_state = "parse_head" /\ work_state' = "read_key_value"
        /\ cur' = cur + 1 /\ UNCHANGED <<reqs, store, answers>>
    BY <1>3 DEF ParseKeyed, TakeHead, HeadArrived, At
  <2> QED
    BY <1>t, <2>1 DEF Served
<1>4. CASE ParseBatchHead \/ ParseShort \/ ParseRejected
  <2>1. /\ work_state = "parse_head" /\ work_state' = "parse_head"
        /\ cur' = cur + 1 /\ cur < Len(reqs)
        /\ reqs[cur + 1].op \in {"BATCH", "SHORT", "REJECT"}
        /\ UNCHANGED <<reqs, store, answers>>
    BY <1>4 DEF ParseBatchHead, ParseShort, ParseRejected, TakeHead,
                HeadArrived, At
  <2>2. Served = cur /\ Served' = cur + 1
    BY <2>1 DEF Served
  <2>3. Promise!Skip
    BY <2>1, <2>2 DEF Promise!Skip, Promise!Upcoming
  <2> QED
    BY <2>3 DEF Promise!Next
<1>5. CASE TakeBody
  <2>1. /\ work_state = "read_key_value"
        /\ work_state' \in {"store_kvobj", "query_key"}
        /\ UNCHANGED <<reqs, cur, store, answers>>
    BY <1>5 DEF TakeBody, At, BodyRead
  <2> QED
    BY <2>1 DEF Served
<1>6. CASE StoreKvobj
  <2>1. /\ work_state = "store_kvobj" /\ work_state' = "parse_head"
        /\ store' = [store EXCEPT ![key] = value]
        /\ UNCHANGED <<reqs, cur, answers>>
    BY <1>6 DEF StoreKvobj, At
  <2>2. /\ cur >= 1 /\ reqs[cur].op = "SET"
        /\ key = reqs[cur].key /\ value = reqs[cur].val
    BY <1>t, <2>1 DEF RequestInHand, Keyed
  <2>3. Served = cur - 1 /\ Served' = cur
    BY <2>1 DEF Served
  <2>4. Served < Len(reqs) /\ Served + 1 = cur
    BY <1>t, <2>2, <2>3
  <2>5. Promise!Set
    BY <2>1, <2>2, <2>3, <2>4 DEF Promise!Set, Promise!Upcoming
  <2> QED
    BY <2>5 DEF Promise!Next
<1>7. CASE QueryKey
  <2>1. /\ work_state = "query_key" /\ work_state' = "write_bcak"
        /\ answers' = Append(answers, Composed)
        /\ UNCHANGED <<reqs, cur, store>>
    BY <1>7 DEF QueryKey, At
  <2>2. cur >= 1 /\ reqs[cur].op = "GET" /\ key = reqs[cur].key
    BY <1>t, <2>1 DEF RequestInHand, Keyed
  <2>3. Served = cur - 1 /\ Served' = cur
    BY <2>1 DEF Served
  <2>4. Served < Len(reqs) /\ Served + 1 = cur
    BY <1>t, <2>2, <2>3
  <2>5. Composed = Promise!Answer(cur, reqs[cur].key, store)
    BY <2>2 DEF Composed, AnswerLen, Promise!Answer
  <2>6. Promise!Get
    BY <2>1, <2>2, <2>3, <2>4, <2>5 DEF Promise!Get, Promise!Upcoming
  <2> QED
    BY <2>6 DEF Promise!Next
<1>8. CASE WriteBack \/ BatchGathers \/ SendBatch
  <2>1. /\ work_state = "write_bcak" /\ work_state' \in {"write_bcak", "parse_head"}
        /\ UNCHANGED <<reqs, cur, store, answers>>
    BY <1>8 DEF WriteBack, BatchGathers, SendBatch, At, NotWritten,
                PlainWritten, BatchWritten, ReadyForNext
  <2> QED
    BY <2>1 DEF Served
<1>9. \/ UNCHANGED <<reqs, cur, work_state, store, answers>>
      \/ OtherStore \/ ParseKeyed
      \/ ParseBatchHead \/ ParseShort \/ ParseRejected
      \/ TakeBody \/ StoreKvobj \/ QueryKey
      \/ WriteBack \/ BatchGathers \/ SendBatch
  BY DEF Next, ProcessFunc, BatchOvercounted, Environment, ClientSend, ClientRecv, ClientClose,
         EventFires, ConnRead, NewCmd, Waiting, Closing, NeedHead, BadMagic,
         BatchNumError, Exit, NeedBody, vars
<1> QED
  BY <1>1, <1>2, <1>3, <1>4, <1>5, <1>6, <1>7, <1>8, <1>9

\* However the stream is cut into reads, whatever the client and the other
\* connections do: each request takes effect once, in order, and each answer
\* is what the table held when its request took effect.
THEOREM Refinement == Spec => PromiseKept
<1>1. IInv /\ [Next]_vars => [Promise!Next]_(Promise!vars)
  BY PromiseStep
<1> QED
  BY <1>1, PromiseInit, Invariance, PTL DEF Spec, PromiseKept, Promise!Spec

-----------------------------------------------------------------------------
(* Part two: the bytes of a connection.                                    *)

-----------------------------------------------------------------------------
(* The lengths of the stream.                                              *)

\* StreamLen is the sum it is written as.
LEMMA StreamLenDef ==
  /\ StreamLen[0] = 0
  /\ \A n \in Nat \ {0} : StreamLen[n] = StreamLen[n - 1] + WireLen(reqs[n])
<1> DEFINE w == [n \in Nat |-> WireLen(reqs[n])]
<1>1. PICK f : f = [n \in Nat |-> IF n = 0 THEN 0 ELSE f[n - 1] + w[n]]
  <2> HIDE DEF w
  <2> QED BY SumDefined
<1>2. f = [n \in Nat |-> IF n = 0 THEN 0 ELSE f[n - 1] + WireLen(reqs[n])]
  BY <1>1
<1>3. StreamLen = CHOOSE g : g = [n \in Nat |->
                    IF n = 0 THEN 0 ELSE g[n - 1] + WireLen(reqs[n])]
  BY DEF StreamLen
<1>4. StreamLen = [n \in Nat |->
                    IF n = 0 THEN 0 ELSE StreamLen[n - 1] + WireLen(reqs[n])]
  BY <1>2, <1>3, Zenon
<1> QED
  BY <1>4

\* What the server parses of a request.
ParsedOf(r) == IF r.op \in {"SET", "GET"} THEN WireLen(r) ELSE HeadLen

\* ParsedLen is the sum it is written as.
LEMMA ParsedLenDef ==
  /\ ParsedLen[0] = 0
  /\ \A n \in Nat \ {0} : ParsedLen[n] = ParsedLen[n - 1] + ParsedOf(reqs[n])
<1> DEFINE w == [n \in Nat |-> ParsedOf(reqs[n])]
<1>1. PICK f : f = [n \in Nat |-> IF n = 0 THEN 0 ELSE f[n - 1] + w[n]]
  <2> HIDE DEF w
  <2> QED BY SumDefined
<1>2. f = [n \in Nat |-> IF n = 0 THEN 0 ELSE f[n - 1] + ParsedOf(reqs[n])]
  BY <1>1
<1>3. ParsedLen = CHOOSE g : g = [n \in Nat |->
                    IF n = 0 THEN 0 ELSE g[n - 1] + ParsedOf(reqs[n])]
  BY Zenon DEF ParsedLen, ParsedOf
<1>4. ParsedLen = [n \in Nat |->
                    IF n = 0 THEN 0 ELSE ParsedLen[n - 1] + ParsedOf(reqs[n])]
  BY <1>2, <1>3, Zenon
<1> QED
  BY <1>4

\* The program of a client does not change, nor do the lengths in it.
LEMMA LensFixed ==
  ASSUME UNCHANGED reqs
  PROVE  StreamLen' = StreamLen /\ ParsedLen' = ParsedLen
BY Zenon DEF StreamLen, ParsedLen

\* Both are natural numbers up to the end of the program.
LEMMA LensType ==
  ASSUME reqs \in Programs
  PROVE  \A n \in 0..Len(reqs) : StreamLen[n] \in Nat /\ ParsedLen[n] \in Nat
<1>1. Len(reqs) \in Nat /\ \A i \in 1..Len(reqs) : reqs[i] \in Request
  BY RequestsOf
<1>2. \A i \in 1..Len(reqs) : WireLen(reqs[i]) \in Nat /\ ParsedOf(reqs[i]) \in Nat
  BY <1>1, BodyLenNat, SizesAssumption DEF ParsedOf
<1> DEFINE S == {n \in Nat : n <= Len(reqs) =>
                              StreamLen[n] \in Nat /\ ParsedLen[n] \in Nat}
<1>3. 0 \in S
  BY StreamLenDef, ParsedLenDef
<1>4. ASSUME NEW n \in Nat, n \in S PROVE n + 1 \in S
  <2> SUFFICES ASSUME n + 1 <= Len(reqs)
               PROVE  StreamLen[n + 1] \in Nat /\ ParsedLen[n + 1] \in Nat
    OBVIOUS
  <2>1. StreamLen[n] \in Nat /\ ParsedLen[n] \in Nat
    BY <1>1, <1>4
  <2>2. n + 1 \in 1..Len(reqs) /\ n + 1 \in Nat \ {0} /\ (n + 1) - 1 = n
    BY <1>1
  <2>3. /\ StreamLen[n + 1] = StreamLen[n] + WireLen(reqs[n + 1])
        /\ ParsedLen[n + 1] = ParsedLen[n] + ParsedOf(reqs[n + 1])
    BY <2>2, StreamLenDef, ParsedLenDef
  <2> QED BY <1>2, <2>1, <2>2, <2>3
<1> HIDE DEF S
<1>5. \A n \in Nat : n \in S
  BY <1>3, <1>4, NatSetInduction
<1> QED
  BY <1>1, <1>5 DEF S

\* A longer part of the stream has no fewer bytes.
LEMMA StreamLenMonotonic ==
  ASSUME reqs \in Programs, NEW m \in 0..Len(reqs), NEW k \in m..Len(reqs)
  PROVE  StreamLen[m] <= StreamLen[k]
<1>1. Len(reqs) \in Nat /\ \A i \in 1..Len(reqs) : reqs[i] \in Request
  BY RequestsOf
<1>2. \A i \in 1..Len(reqs) : WireLen(reqs[i]) \in Nat
  BY <1>1, BodyLenNat
<1>3. \A n \in 0..Len(reqs) : StreamLen[n] \in Nat
  BY LensType
<1> DEFINE S == {d \in Nat : m + d <= Len(reqs) => StreamLen[m] <= StreamLen[m + d]}
<1>4. 0 \in S
  BY <1>1, <1>3
<1>5. ASSUME NEW d \in Nat, d \in S PROVE d + 1 \in S
  <2> SUFFICES ASSUME m + (d + 1) <= Len(reqs)
               PROVE  StreamLen[m] <= StreamLen[m + (d + 1)]
    OBVIOUS
  <2> DEFINE n == m + (d + 1)
  <2>1. n \in 1..Len(reqs) /\ n \in Nat \ {0} /\ n - 1 = m + d
        /\ m + d \in 0..Len(reqs) /\ n \in 0..Len(reqs)
    BY <1>1
  <2>2. StreamLen[m] <= StreamLen[m + d]
    BY <1>5, <2>1
  <2> HIDE DEF n
  <2>3. StreamLen[n] = StreamLen[m + d] + WireLen(reqs[n])
    BY <2>1, StreamLenDef
  <2>4. StreamLen[m] <= StreamLen[n]
    BY <1>2, <1>3, <2>1, <2>2, <2>3
  <2> QED BY <2>4 DEF n
<1> HIDE DEF S
<1>6. \A d \in Nat : d \in S
  BY <1>4, <1>5, NatSetInduction
<1>7. k - m \in Nat /\ m + (k - m) = k /\ k <= Len(reqs)
  BY <1>1
<1>8. k - m \in S
  BY <1>6, <1>7
<1>9. m + (k - m) <= Len(reqs) => StreamLen[m] <= StreamLen[m + (k - m)]
  BY <1>8 DEF S
<1> QED
  BY <1>7, <1>9

\* Of a program with no body that is not to be read everything is parsed.
LEMMA AllParsed ==
  ASSUME reqs \in Programs,
         \A i \in 1..Len(reqs) :
            \/ reqs[i].op \in {"SET", "GET"}
            \/ reqs[i].op \in Ops /\ BodyLen(reqs[i]) = 0
  PROVE  \A n \in 0..Len(reqs) : ParsedLen[n] = StreamLen[n]
<1>1. Len(reqs) \in Nat
  BY RequestsOf
<1>2. \A i \in 1..Len(reqs) : ParsedOf(reqs[i]) = WireLen(reqs[i])
  BY SizesAssumption DEF ParsedOf, WireLen
<1> DEFINE S == {n \in Nat : n <= Len(reqs) => ParsedLen[n] = StreamLen[n]}
<1>3. 0 \in S
  BY StreamLenDef, ParsedLenDef
<1>4. ASSUME NEW n \in Nat, n \in S PROVE n + 1 \in S
  <2> SUFFICES ASSUME n + 1 <= Len(reqs)
               PROVE  ParsedLen[n + 1] = StreamLen[n + 1]
    OBVIOUS
  <2>1. ParsedLen[n] = StreamLen[n]
    BY <1>1, <1>4
  <2>2. n + 1 \in 1..Len(reqs) /\ n + 1 \in Nat \ {0} /\ (n + 1) - 1 = n
    BY <1>1
  <2>3. /\ StreamLen[n + 1] = StreamLen[n] + WireLen(reqs[n + 1])
        /\ ParsedLen[n + 1] = ParsedLen[n] + ParsedOf(reqs[n + 1])
    BY <2>2, StreamLenDef, ParsedLenDef
  <2> QED BY <1>2, <2>1, <2>2, <2>3
<1> HIDE DEF S
<1>5. \A n \in Nat : n \in S
  BY <1>3, <1>4, NatSetInduction
<1> QED
  BY <1>1, <1>5 DEF S

-----------------------------------------------------------------------------
(* StreamAligned.                                                          *)

\* Every step keeps the account of the bytes sent.
LEMMA StreamStep ==
  IInv /\ StreamAligned /\ [Next]_vars => StreamAligned'
<1> SUFFICES ASSUME IInv, StreamAligned, [Next]_vars, peer' \in {"open", "fin"}
             PROVE  sockIn' + remaining_bytes' + Parsed' = Sent'
  BY DEF StreamAligned
<1> USE DEF netVars, stateVars, parseVars, replyVars, batchVars, schedVars,
            dataVars
<1>t. TypeOK /\ RequestInHand
  BY DEF IInv
<1>r. Len(reqs) \in Nat /\ \A i \in 1..Len(reqs) : reqs[i] \in Request
  BY <1>t, RequestsOf DEF TypeOK
<1>l. \A n \in 0..Len(reqs) : StreamLen[n] \in Nat /\ ParsedLen[n] \in Nat
  BY <1>t, LensType DEF TypeOK
<1>s. /\ sockIn \in Nat /\ remaining_bytes \in Nat /\ outLeft \in Nat
      /\ out \in 1..Len(reqs) /\ cur \in 0..Len(reqs)
      /\ StreamLen[out] \in Nat /\ ParsedLen[cur] \in Nat
  BY <1>t, <1>r, <1>l, SizesAssumption DEF TypeOK
<1>b. work_state = "read_key_value" => BodyLen(reqs[cur]) \in Nat
  BY <1>t, <1>r, <1>s, BodyLenNat DEF RequestInHand, Keyed
<1>p. peer \in {"open", "fin"} => sockIn + remaining_bytes + Parsed = Sent
  BY DEF StreamAligned
<1>1. CASE UNCHANGED <<reqs, out, outLeft, sockIn, cur, remaining_bytes,
                       work_state>>
           /\ peer \in {"open", "fin"}
  <2>1. Parsed' = Parsed /\ Sent' = Sent
    BY <1>1, LensFixed DEF Parsed, Sent, BodyLen
  <2> QED BY <1>1, <1>p, <2>1
<1>2. CASE ClientSend
  <2>1. PICK n \in 1..outLeft :
          /\ sockIn' = sockIn + n
          /\ IF n = outLeft /\ out < Len(reqs)
             THEN out' = out + 1 /\ outLeft' = WireLen(reqs[out + 1])
             ELSE out' = out /\ outLeft' = outLeft - n
    BY <1>2 DEF ClientSend
  <2>2. UNCHANGED <<reqs, peer, cur, remaining_bytes, work_state>>
    BY <1>2 DEF ClientSend
  <2>3. Parsed' = Parsed /\ StreamLen' = StreamLen
    BY <2>2, LensFixed DEF Parsed, BodyLen
  <2>4. Parsed \in Int
    BY <1>s, <1>b DEF Parsed
  <2>5. Sent' = Sent + n
    <3>1. CASE n = outLeft /\ out < Len(reqs)
      <4>1. out + 1 \in Nat \ {0} /\ (out + 1) - 1 = out
            /\ out + 1 \in 1..Len(reqs)
        BY <1>r, <1>s, <3>1
      <4>2. StreamLen[out + 1] = StreamLen[out] + WireLen(reqs[out + 1])
        BY <4>1, StreamLenDef
      <4>3. WireLen(reqs[out + 1]) \in Nat
        BY <4>1, <1>r, BodyLenNat
      <4>4. Sent' = StreamLen[out + 1] - WireLen(reqs[out + 1])
        BY <2>1, <2>3, <3>1 DEF Sent
      <4> QED BY <1>s, <3>1, <4>2, <4>3, <4>4 DEF Sent
    <3>2. CASE ~(n = outLeft /\ out < Len(reqs))
      BY <1>s, <2>1, <2>3, <3>2 DEF Sent
    <3> QED BY <3>1, <3>2
  <2>6. Sent \in Int
    BY <1>s DEF Sent
  <2> QED BY <1>p, <1>s, <2>1, <2>2, <2>3, <2>4, <2>5, <2>6
<1>3. CASE ConnRead
  <2>1. /\ peer \in {"open", "fin"}
        /\ sockIn' + remaining_bytes' = sockIn + remaining_bytes
        /\ sockIn' \in Int /\ remaining_bytes' \in Int
        /\ UNCHANGED <<reqs, out, outLeft, cur, work_state>>
    BY <1>s, <1>3, SizesAssumption DEF ConnRead, Avail, Least
  <2>2. Parsed' = Parsed /\ Sent' = Sent
    BY <2>1, LensFixed DEF Parsed, Sent, BodyLen
  <2> QED BY <1>p, <2>1, <2>2
<1>4. CASE ParseKeyed \/ ParseBatchHead \/ ParseShort \/ ParseRejected
  <2>1. /\ cur' = cur + 1 /\ cur + 1 \in 1..Len(reqs)
        /\ remaining_bytes' = remaining_bytes - HeadLen
        /\ work_state = "parse_head"
        /\ UNCHANGED <<reqs, out, outLeft, peer, sockIn>>
    BY <1>4, <1>r, <1>s DEF ParseKeyed, ParseBatchHead, ParseShort,
       ParseRejected, TakeHead, HeadArrived, At, AfterHead
  <2>2. cur + 1 \in Nat \ {0} /\ (cur + 1) - 1 = cur
    BY <1>s, <1>r
  <2>3. /\ ParsedLen[cur + 1] = ParsedLen[cur] + ParsedOf(reqs[cur + 1])
        /\ ParsedLen' = ParsedLen /\ Sent' = Sent
    BY <2>1, <2>2, ParsedLenDef, LensFixed DEF Sent
  <2>4. BodyLen(reqs[cur + 1]) \in Nat
    BY <2>1, <1>r, BodyLenNat
  <2>5. Parsed' = ParsedLen[cur] + HeadLen
    <3>1. CASE ParseKeyed
      <4>1. /\ reqs[cur + 1].op \in {"SET", "GET"}
            /\ work_state' = "read_key_value"
        BY <3>1 DEF ParseKeyed, TakeHead
      <4>2. Parsed' = ParsedLen[cur + 1] - BodyLen(reqs[cur + 1])
        BY <4>1, <2>1, <2>3 DEF Parsed, BodyLen
      <4>3. ParsedOf(reqs[cur + 1]) = HeadLen + BodyLen(reqs[cur + 1])
        BY <4>1 DEF ParsedOf, WireLen
      <4> QED BY <4>2, <4>3, <2>3, <2>4, <1>s, SizesAssumption
    <3>2. CASE ParseBatchHead \/ ParseShort \/ ParseRejected
      <4>1. /\ reqs[cur + 1].op \in {"BATCH", "SHORT", "REJECT"}
            /\ work_state' = "parse_head"
        BY <3>2, <2>1 DEF ParseBatchHead, ParseShort, ParseRejected, TakeHead
      <4>0. ParsedLen[cur + 1] \in Nat
        BY <1>l, <1>r, <2>1
      <4>2. Parsed' = ParsedLen[cur + 1]
        BY <4>0, <4>1, <2>1, <2>3 DEF Parsed
      <4>3. ParsedOf(reqs[cur + 1]) = HeadLen
        BY <4>1 DEF ParsedOf
      <4> QED BY <4>2, <4>3, <2>3
    <3> QED BY <1>4, <3>1, <3>2
  <2>6. Parsed = ParsedLen[cur]
    BY <1>s, <2>1 DEF Parsed
  <2> QED BY <1>p, <1>s, <2>1, <2>3, <2>5, <2>6, SizesAssumption
<1>5. CASE TakeBody
  <2>1. /\ work_state = "read_key_value" /\ work_state' # "read_key_value"
        /\ remaining_bytes' = remaining_bytes - BodyLen(reqs[cur])
        /\ UNCHANGED <<reqs, out, outLeft, peer, sockIn, cur>>
    BY <1>5 DEF TakeBody, At, BodyRead
  <2>2. /\ Parsed = ParsedLen[cur] - BodyLen(reqs[cur])
        /\ Parsed' = ParsedLen[cur] /\ Sent' = Sent
    BY <1>s, <2>1, LensFixed DEF Parsed, Sent
  <2> QED BY <1>p, <1>s, <1>b, <2>1, <2>2
<1>6. CASE \/ StoreKvobj \/ QueryKey \/ WriteBack \/ BatchGathers \/ SendBatch
  <2>1. /\ work_state # "read_key_value" /\ work_state' # "read_key_value"
        /\ UNCHANGED <<reqs, out, outLeft, cur, remaining_bytes>>
    BY <1>6 DEF StoreKvobj, QueryKey, WriteBack, BatchGathers, SendBatch, At,
       NotWritten, PlainWritten, BatchWritten, ReadyForNext
  <2>2. UNCHANGED sockIn /\ peer \in {"open", "fin"}
    BY <1>6 DEF StoreKvobj, QueryKey, WriteBack, BatchGathers, SendBatch,
       NotWritten, Accepts
  <2>3. Parsed' = Parsed /\ Sent' = Sent
    BY <2>1, LensFixed DEF Parsed, Sent
  <2> QED BY <1>p, <2>1, <2>2, <2>3
<1>7. \/ UNCHANGED <<reqs, out, outLeft, sockIn, cur, remaining_bytes,
                     work_state>>
         /\ peer \in {"open", "fin"}
      \/ ClientSend \/ ConnRead
      \/ ParseKeyed \/ ParseBatchHead \/ ParseShort \/ ParseRejected
      \/ TakeBody \/ StoreKvobj \/ QueryKey
      \/ WriteBack \/ BatchGathers \/ SendBatch
  BY DEF Next, ProcessFunc, BatchOvercounted, Environment, ClientRecv, ClientClose, OtherStore,
         EventFires, NewCmd, Waiting, Closing, NeedHead, BadMagic,
         BatchNumError, Exit, NeedBody, vars
<1> QED
  BY <1>1, <1>2, <1>3, <1>4, <1>5, <1>6, <1>7

\* At the start no byte is sent.
LEMMA StreamInit == Init => StreamAligned
<1> SUFFICES ASSUME Init PROVE sockIn + remaining_bytes + Parsed = Sent
  BY DEF StreamAligned
<1>1. reqs[1] \in Request
  BY RequestsOf DEF Init
<1>2. StreamLen[1] = StreamLen[1 - 1] + WireLen(reqs[1])
  BY StreamLenDef
<1>3. Sent = 0
  BY <1>1, <1>2, StreamLenDef, BodyLenNat DEF Init, Sent
<1>4. Parsed = 0
  BY ParsedLenDef DEF Init, ServerInit, Parsed
<1> QED
  BY <1>3, <1>4 DEF Init, ServerInit

\* No byte of the stream is lost, parsed twice or taken for another
\* request's, for every stream and every way to cut it into reads.
THEOREM StreamCorrect == Spec => []StreamAligned
BY StreamInit, StreamStep, Invariance, PTL DEF Spec

-----------------------------------------------------------------------------
(* NothingLostAtClose.                                                     *)

\* What has arrived does not complete the request the handler waits for.
Starved ==
  \/ work_state = "parse_head" /\ remaining_bytes < HeadLen
  \/ work_state = "read_key_value" /\ remaining_bytes < BodyLen(reqs[cur])

\* While a client only stores: the handler reads, waits and closes only when
\* starved, and closes only at the end of the file.
StoresOnly ==
  OnlySets =>
    /\ peer \in {"open", "fin"} /\ wire = <<>>
    /\ work_state \in {"parse_head", "read_key_value", "store_kvobj"}
    /\ ~misaligned
    /\ outLeft <= WireLen(reqs[out])
    /\ conn_state \in {"conn_read", "conn_waiting", "conn_closing"} => Starved
    /\ conn_state = "conn_closing" => peer = "fin" /\ sockIn = 0
    /\ closed => conn_state = "conn_closing"

\* It holds before anything is sent.
LEMMA StoresOnlyInit == Init => StoresOnly
<1> SUFFICES ASSUME Init PROVE StoresOnly
  OBVIOUS
<1>1. reqs[1] \in Request
  BY RequestsOf DEF Init
<1>2. outLeft <= WireLen(reqs[out])
  BY <1>1, BodyLenNat DEF Init
<1> QED
  BY <1>2, SizesAssumption DEF Init, ServerInit, StoresOnly, Starved

\* The handler of a client that only stores never waits or closes while it
\* holds a complete request.
LEMMA StoresOnlyStep == IInv /\ StoresOnly /\ [Next]_vars => StoresOnly'
<1> SUFFICES ASSUME IInv, StoresOnly, [Next]_vars, OnlySets' PROVE StoresOnly'
  BY DEF StoresOnly
<1> USE SizesAssumption DEF netVars, stateVars, parseVars, replyVars,
        batchVars, schedVars, dataVars
<1>q. reqs' = reqs
  BY DEF Next, ProcessFunc, BatchOvercounted, Environment, ClientSend, ClientRecv, ClientClose,
         OtherStore, EventFires, ConnRead, NewCmd, Waiting, Closing, NeedHead,
         BadMagic, BatchNumError, Exit, ParseKeyed, ParseBatchHead, ParseShort,
         ParseRejected, TakeHead, NeedBody, TakeBody, StoreKvobj, QueryKey,
         WriteBack, BatchGathers, SendBatch, vars
<1>o. OnlySets
  BY <1>q DEF OnlySets, BodyLen
<1>t. TypeOK /\ RequestInHand /\ PhasesAgree
  BY DEF IInv
<1>r. Len(reqs) \in Nat /\ \A i \in 1..Len(reqs) : reqs[i] \in Request
  BY <1>t, RequestsOf DEF TypeOK
<1>b. \A i \in 1..Len(reqs) : /\ reqs[i].op = "SET"
                              /\ BodyLen(reqs[i]) \in Nat
                              /\ BodyLen(reqs[i]) <= ReadBufSize
  <2>1. DOMAIN reqs = 1..Len(reqs)
    BY <1>t, RequestsOf DEF TypeOK
  <2>2. \A i \in 1..Len(reqs) : BodyLen(reqs[i]) \in Nat
    BY <1>r, BodyLenNat
  <2> QED BY <1>o, <2>1, <2>2 DEF OnlySets
<1>s. /\ sockIn \in Nat /\ remaining_bytes \in Nat /\ outLeft \in Nat
      /\ out \in 1..Len(reqs) /\ cur \in 0..Len(reqs)
      /\ taken \in 0..Len(wire)
  BY <1>t DEF TypeOK
<1>i. /\ peer \in {"open", "fin"} /\ wire = <<>>
      /\ work_state \in {"parse_head", "read_key_value", "store_kvobj"}
      /\ ~misaligned
      /\ outLeft <= WireLen(reqs[out])
      /\ conn_state \in {"conn_read", "conn_waiting", "conn_closing"} => Starved
      /\ conn_state = "conn_closing" => peer = "fin" /\ sockIn = 0
      /\ closed => conn_state = "conn_closing"
  BY <1>o DEF StoresOnly
<1>1. CASE ClientSend
  <2>1. PICK n \in 1..outLeft :
          IF n = outLeft /\ out < Len(reqs)
          THEN out' = out + 1 /\ outLeft' = WireLen(reqs[out + 1])
          ELSE out' = out /\ outLeft' = outLeft - n
    BY <1>1 DEF ClientSend
  <2>2. outLeft' <= WireLen(reqs[out'])
    <3>1. CASE n = outLeft /\ out < Len(reqs)
      <4>1. out + 1 \in 1..Len(reqs)
        BY <1>r, <1>s, <3>1
      <4>2. WireLen(reqs[out + 1]) \in Nat
        BY <1>r, <4>1, BodyLenNat
      <4> QED BY <2>1, <3>1, <4>2
    <3>2. CASE ~(n = outLeft /\ out < Len(reqs))
      <4>1. WireLen(reqs[out]) \in Nat
        BY <1>r, <1>s, BodyLenNat
      <4> QED BY <1>i, <1>s, <2>1, <3>2, <4>1
    <3> QED BY <3>1, <3>2
  <2>3. /\ peer = "open" /\ ~closed
        /\ UNCHANGED <<reqs, peer, wire, taken, stateVars, parseVars, closed>>
    BY <1>1 DEF ClientSend
  <2> QED
    BY <1>i, <2>2, <2>3 DEF StoresOnly, Starved, BodyLen
<1>2. CASE ClientClose
  <2>1. peer' = "fin" /\ sockIn' = sockIn /\ peer = "open"
    BY <1>2, <1>i, <1>s DEF ClientClose
  <2> QED
    BY <1>2, <1>i, <2>1 DEF ClientClose, StoresOnly, Starved, BodyLen
<1>3. CASE UNCHANGED <<reqs, out, outLeft, sockIn, peer, wire, stateVars,
                       parseVars, closed>>
  BY <1>3, <1>i DEF StoresOnly, Starved, BodyLen
<1>4. CASE ConnRead
  <2>1. Starved
    BY <1>4, <1>i DEF ConnRead
  <2>2. Avail # 0
    BY <1>b, <1>s, <1>t, <2>1 DEF Starved, Avail, RequestInHand, Keyed
  <2>3. /\ peer' = peer
        /\ UNCHANGED <<reqs, out, outLeft, wire, work_state, misaligned, closed>>
        /\ ~closed
    BY <1>4, <1>i DEF ConnRead
  <2>4. \/ conn_state' = "conn_deal_with"
        \/ /\ conn_state' \in {"conn_waiting", "conn_closing"}
           /\ UNCHANGED <<remaining_bytes, sockIn, cur>>
           /\ conn_state' = "conn_closing" => peer = "fin" /\ sockIn = 0
    BY <1>4, <1>i, <1>s, <2>2 DEF ConnRead, TryRead
  <2> QED
    BY <1>i, <2>1, <2>3, <2>4 DEF StoresOnly, Starved, BodyLen
<1>5. CASE NewCmd
  <2>1. /\ UNCHANGED <<reqs, netVars, work_state, parseVars, closed>>
        /\ work_state = "parse_head" /\ ~closed
        /\ conn_state' \in {"conn_deal_with", "conn_new_cmd", "conn_waiting"}
        /\ conn_state' = "conn_waiting" => remaining_bytes = 0
    <3>1. /\ UNCHANGED <<reqs, netVars, work_state, parseVars, closed>>
          /\ conn_state = "conn_new_cmd"
          /\ conn_state' = ResetTo \/ conn_state' = conn_state
      BY <1>5 DEF NewCmd
    <3>2. work_state = "parse_head" /\ ~closed
      BY <3>1, <1>i, <1>t DEF PhasesAgree
    <3> QED BY <3>1, <3>2, <1>s DEF ResetTo
  <2> QED
    BY <1>i, <2>1 DEF StoresOnly, Starved
<1>6. CASE Waiting
  <2>1. /\ UNCHANGED <<reqs, netVars, work_state, parseVars, closed>>
        /\ conn_state' = "conn_read" /\ Starved /\ ~closed
    BY <1>6, <1>i, <1>t DEF Waiting, PhasesAgree, AfterWaiting
  <2> QED
    BY <1>i, <2>1 DEF StoresOnly, Starved, BodyLen
<1>7. CASE Closing
  BY <1>7, <1>i DEF Closing, StoresOnly, Starved, BodyLen
<1>8. CASE NeedHead \/ NeedBody
  <2>1. /\ UNCHANGED <<reqs, netVars, work_state, parseVars, closed>>
        /\ conn_state = "conn_deal_with" /\ conn_state' = "conn_waiting"
        /\ Starved
    BY <1>8, <1>s DEF NeedHead, NeedBody, At, Starved, Incomplete
  <2> QED
    BY <1>i, <2>1 DEF StoresOnly, Starved, BodyLen
<1>9. CASE ParseKeyed
  BY <1>9, <1>i DEF ParseKeyed, TakeHead, HeadArrived, At, StoresOnly, Starved
<1>10. ~(ParseBatchHead \/ ParseShort \/ ParseRejected)
  <2>1. HeadArrived => reqs[cur + 1].op = "SET"
    BY <1>b, <1>r, <1>s DEF HeadArrived
  <2> QED
    BY <2>1 DEF ParseBatchHead, ParseShort, ParseRejected, TakeHead
<1>11. CASE TakeBody
  <2>1. cur \in 1..Len(reqs)
    BY <1>11, <1>s, <1>r, <1>t DEF TakeBody, At, RequestInHand, Keyed
  <2>2. work_state' = "store_kvobj" /\ conn_state = "conn_deal_with" /\ ~closed
    BY <1>11, <1>b, <1>i, <2>1 DEF TakeBody, At, BodyRead
  <2> QED
    BY <1>11, <1>i, <2>2 DEF TakeBody, StoresOnly, Starved
<1>12. CASE StoreKvobj
  BY <1>12, <1>i DEF StoreKvobj, At, StoresOnly, Starved
<1>13. ~(QueryKey \/ WriteBack \/ BatchGathers \/ SendBatch)
  BY <1>i DEF QueryKey, WriteBack, BatchGathers, SendBatch, At
<1>14. \/ ClientSend \/ ClientClose
       \/ UNCHANGED <<reqs, out, outLeft, sockIn, peer, wire, stateVars,
                      parseVars, closed>>
       \/ ConnRead \/ NewCmd \/ Waiting \/ Closing \/ NeedHead \/ NeedBody
       \/ ParseKeyed \/ ParseBatchHead \/ ParseShort \/ ParseRejected
       \/ TakeBody \/ StoreKvobj
       \/ QueryKey \/ WriteBack \/ BatchGathers \/ SendBatch
  BY DEF Next, ProcessFunc, BatchOvercounted, Environment, ClientRecv, OtherStore, EventFires,
         BadMagic, BatchNumError, Exit, vars
<1> QED
  BY <1>1, <1>2, <1>3, <1>4, <1>5, <1>6, <1>7, <1>8, <1>9, <1>10, <1>11,
     <1>12, <1>13, <1>14

\* Two places of a growing function between whose values S lies are one.
LEMMA SamePlace ==
  ASSUME NEW N \in Nat, NEW f, \A n \in 0..N : f[n] \in Nat,
         \A m \in 0..N : \A n \in m..N : f[m] <= f[n],
         NEW S \in Int, NEW a \in 0..N, NEW b \in 0..N,
         f[a] <= S, a < N => S < f[a + 1],
         f[b] <= S, b < N => S < f[b + 1]
  PROVE  a = b
<1>1. ASSUME NEW c \in 0..N, NEW d \in 0..N, c < d,
             c < N => S < f[c + 1], f[d] <= S
      PROVE  FALSE
  <2>1. c + 1 \in 0..N /\ d \in (c + 1)..N /\ c < N
    BY <1>1
  <2>2. f[c + 1] <= f[d] /\ f[c + 1] \in Nat /\ f[d] \in Nat
    BY <2>1
  <2> QED BY <1>1, <2>1, <2>2
<1> QED BY <1>1

\* When a client that only stores, with values that fit read_buf, has closed
\* and the server too, the requests executed are those it had sent whole,
\* wherever in its stream it stopped.
THEOREM CloseCorrect == Spec => []NothingLostAtClose
<1>1. IInv /\ StreamAligned /\ StoresOnly => NothingLostAtClose
  <2> SUFFICES ASSUME IInv, StreamAligned, StoresOnly, OnlySets, closed
               PROVE  Served = WholeSent
    BY DEF NothingLostAtClose
  <2>t. TypeOK /\ RequestInHand
    BY DEF IInv
  <2>r. Len(reqs) \in Nat /\ \A i \in 1..Len(reqs) : reqs[i] \in Request
    BY <2>t, RequestsOf DEF TypeOK
  <2>s. /\ cur \in 0..Len(reqs) /\ remaining_bytes \in Nat
        /\ out \in 1..Len(reqs) /\ outLeft \in Nat /\ reqs \in Programs
    BY <2>t DEF TypeOK
  <2>l. /\ \A n \in 0..Len(reqs) : /\ ParsedLen[n] = StreamLen[n]
                                   /\ StreamLen[n] \in Nat
        /\ \A m \in 0..Len(reqs) : \A n \in m..Len(reqs) :
              StreamLen[m] <= StreamLen[n]
    <3>1. \A i \in 1..Len(reqs) : reqs[i].op \in {"SET", "GET"}
      BY <2>r DEF OnlySets, Request
    <3>2. \A n \in 0..Len(reqs) : ParsedLen[n] = StreamLen[n]
      BY <2>s, <3>1, AllParsed
    <3> QED BY <2>s, <3>2, LensType, StreamLenMonotonic
  <2>1. /\ Starved /\ peer = "fin" /\ sockIn = 0
        /\ outLeft <= WireLen(reqs[out])
    BY DEF StoresOnly
  <2>w. \A n \in 1..Len(reqs) :
          /\ WireLen(reqs[n]) \in Nat /\ WireLen(reqs[n]) > 0
          /\ StreamLen[n] = StreamLen[n - 1] + WireLen(reqs[n])
          /\ n - 1 \in 0..Len(reqs)
    BY <2>r, StreamLenDef, BodyLenNat, SizesAssumption DEF WireLen
  <2> DEFINE whole == WholeSent
  <2>2. /\ whole \in 0..Len(reqs)
        /\ StreamLen[whole] <= Sent
        /\ whole < Len(reqs) => Sent < StreamLen[whole + 1]
    <3>1. Sent = StreamLen[out] - outLeft /\ StreamLen[out] \in Nat
      BY <2>s, <2>l, <2>r DEF Sent
    <3>2. CASE outLeft = 0
      <4>1. whole = out
        BY <3>2 DEF WholeSent
      <4>2. ASSUME out < Len(reqs) PROVE StreamLen[out] < StreamLen[out + 1]
        <5>1. out + 1 \in 1..Len(reqs) /\ (out + 1) - 1 = out
          BY <2>s, <2>r, <4>2
        <5>2. StreamLen[out + 1] = StreamLen[out] + WireLen(reqs[out + 1])
          BY <2>w, <5>1
        <5>3. WireLen(reqs[out + 1]) \in Nat /\ WireLen(reqs[out + 1]) > 0
          BY <2>w, <5>1
        <5> QED BY <3>1, <5>2, <5>3
      <4> HIDE DEF whole
      <4> QED BY <2>s, <3>1, <3>2, <4>1, <4>2
    <3>3. CASE outLeft # 0
      <4>1. whole = out - 1 /\ (out - 1) + 1 = out
        BY <2>s, <3>3 DEF WholeSent
      <4>2. /\ StreamLen[out] = StreamLen[out - 1] + WireLen(reqs[out])
            /\ WireLen(reqs[out]) \in Nat /\ out - 1 \in 0..Len(reqs)
            /\ StreamLen[out - 1] \in Nat
        BY <2>s, <2>w, <2>l
      <4>4. outLeft \in Nat \ {0} /\ outLeft <= WireLen(reqs[out])
        BY <2>s, <2>1, <3>3
      <4> DEFINE a == StreamLen[out - 1]
                 b == StreamLen[out]
                 w == WireLen(reqs[out])
                 sent == Sent
      <4>5. /\ a \in Nat /\ w \in Nat /\ b = a + w
            /\ outLeft \in Nat \ {0} /\ outLeft <= w /\ sent = b - outLeft
        BY <3>1, <4>2, <4>4
      <4>3. a <= sent /\ sent < b
        <5> HIDE DEF a, b, w, sent
        <5> QED BY <4>5
      <4> HIDE DEF whole
      <4> QED BY <4>1, <4>2, <4>3
    <3> QED BY <3>2, <3>3
  <2>3. remaining_bytes + Parsed = Sent
    <3>1. 0 + remaining_bytes + Parsed = Sent
      BY <2>1 DEF StreamAligned
    <3>2. Parsed \in Int
      BY <2>l, <2>r, <2>s, <2>t, BodyLenNat DEF Parsed, RequestInHand, Keyed
    <3> QED BY <3>1, <3>2, <2>s
  <2>4. /\ Served \in 0..Len(reqs)
        /\ StreamLen[Served] <= Sent
        /\ Served < Len(reqs) => Sent < StreamLen[Served + 1]
    <3>1. CASE work_state = "parse_head"
      <4>1. Served = cur /\ remaining_bytes + StreamLen[cur] = Sent
            /\ remaining_bytes < HeadLen /\ StreamLen[cur] \in Nat
        BY <2>1, <2>3, <2>l, <2>s, <3>1 DEF Parsed, Served, Starved
      <4>2. ASSUME cur < Len(reqs) PROVE Sent < StreamLen[cur + 1]
        <5>1. cur + 1 \in 1..Len(reqs) /\ (cur + 1) - 1 = cur
          BY <2>s, <2>r, <4>2
        <5>2. StreamLen[cur + 1] = StreamLen[cur] + WireLen(reqs[cur + 1])
          BY <2>w, <5>1
        <5>3. WireLen(reqs[cur + 1]) >= HeadLen /\ WireLen(reqs[cur + 1]) \in Nat
          BY <2>r, <5>1, BodyLenNat, SizesAssumption DEF WireLen
        <5> QED BY <2>s, <4>1, <5>2, <5>3, SizesAssumption
      <4> QED BY <2>s, <4>1, <4>2
    <3>2. CASE work_state = "read_key_value"
      <4>1. /\ Served = cur - 1 /\ cur \in 1..Len(reqs)
            /\ BodyLen(reqs[cur]) \in Nat
            /\ remaining_bytes < BodyLen(reqs[cur])
        BY <2>1, <2>r, <2>s, <2>t, <3>2, BodyLenNat
        DEF Served, Starved, RequestInHand, Keyed
      <4>2. remaining_bytes + (StreamLen[cur] - BodyLen(reqs[cur])) = Sent
        BY <2>3, <2>l, <2>s, <3>2 DEF Parsed
      <4>3. /\ StreamLen[cur] = StreamLen[cur - 1] + WireLen(reqs[cur])
            /\ WireLen(reqs[cur]) = HeadLen + BodyLen(reqs[cur])
            /\ StreamLen[cur - 1] \in Nat /\ cur - 1 \in 0..Len(reqs)
            /\ StreamLen[cur] \in Nat /\ (cur - 1) + 1 = cur
        BY <2>w, <2>l, <2>s, <4>1 DEF WireLen
      <4> DEFINE a == StreamLen[cur - 1]
                 b == StreamLen[cur]
                 w == BodyLen(reqs[cur])
                 sent == Sent
      <4>5. /\ a \in Nat /\ w \in Nat /\ b = a + (HeadLen + w)
            /\ remaining_bytes \in Nat /\ HeadLen \in Nat
            /\ remaining_bytes < w /\ remaining_bytes + (b - w) = sent
        BY <2>s, <4>1, <4>2, <4>3, SizesAssumption
      <4>4. a <= sent /\ sent < b
        <5> HIDE DEF a, b, w, sent
        <5> QED BY <4>5
      <4> QED BY <4>1, <4>3, <4>4
    <3> QED BY <2>1, <3>1, <3>2 DEF Starved
  <2> DEFINE done == Served
  <2>5. /\ done \in 0..Len(reqs) /\ StreamLen[done] <= Sent
        /\ done < Len(reqs) => Sent < StreamLen[done + 1]
    BY <2>4
  <2>6. Sent \in Int
    BY <2>l, <2>r, <2>s DEF Sent
  <2>7. \A n \in 0..Len(reqs) : StreamLen[n] \in Nat
    BY <2>l
  <2>8. whole = done
    <3> HIDE DEF whole, done
    <3>1. Len(reqs) \in Nat
      BY <2>r
    <3> QED BY <2>2, <2>5, <2>6, <2>7, <2>l, <3>1, SamePlace
  <2> QED BY <2>8
<1>2. IInv /\ StoresOnly /\ [Next]_vars => StoresOnly'
  BY StoresOnlyStep
<1> QED
  BY <1>1, <1>2, StoresOnlyInit, StreamCorrect, Invariance, PTL DEF Spec

-----------------------------------------------------------------------------
(* WireInOrder and JunkOnlyAfterMiss.                                      *)

\* The bytes of answers.
Real == Byte \ {Junk}

\* What the buffers v of a batch still have to send.
BatchBytes(v) == FlattenSeq([i \in 1..Len(v) |-> BatchPending(v[i])])

\* What is composed and not written.
Pending ==
  IF in_batch_get THEN BatchBytes(batch_ret_vector)
  ELSE IF work_state = "write_bcak" THEN PlainPending ELSE <<>>

AllHit == \A i \in 1..Len(answers) : answers[i].hit

\* Only bytes of answers are put into a buffer, and none is passed over.
BuffersReal ==
  /\ ret_buf \in Seq(Real)
  /\ \A i \in 1..Len(batch_ret_vector) :
       /\ batch_ret_vector[i].buf \in Seq(Real)
       /\ batch_ret_vector[i].offset <= Len(batch_ret_vector[i].buf)

\* The bytes written and those composed and not written are together those of
\* the answers; once the client is gone nothing more is written.
WireAccount ==
  /\ peer = "open" =>
       Substance(wire) \o Substance(Pending) = AnswerBytes
  /\ WireInOrder

\* As long as every GET hits, ret_bytes counts what is in ret_buf, or nothing.
Clean ==
  AllHit =>
    /\ wire \in Seq(Real)
    /\ IF work_state = "write_bcak" /\ ~in_batch_get
       THEN ret_buf_offset + ret_bytes <= Len(ret_buf)
       ELSE ret_bytes = 0

\* Each byte as a sequence: empty for junk.
Kept(bs) == [i \in 1..Len(bs) |-> IF bs[i] = Junk THEN <<>> ELSE <<bs[i]>>]

\* The substance of bytes is a sequence of bytes, of two parts that of the
\* one and then that of the other.
LEMMA SubstanceConcat ==
  ASSUME NEW a \in Seq(Byte), NEW b \in Seq(Byte)
  PROVE  /\ Substance(a) \in Seq(Byte)
         /\ Substance(a \o b) = Substance(a) \o Substance(b)
<1>1. \A bs \in Seq(Byte) : Kept(bs) \in Seq(Seq(Byte)) /\ Len(Kept(bs)) = Len(bs)
  <2> SUFFICES ASSUME NEW bs \in Seq(Byte)
               PROVE  Kept(bs) \in Seq(Seq(Byte)) /\ Len(Kept(bs)) = Len(bs)
    OBVIOUS
  <2>1. \A i \in 1..Len(bs) : Kept(bs)[i] \in Seq(Byte)
    BY DEF Kept
  <2>2. DOMAIN Kept(bs) = 1..Len(bs) /\ Len(bs) \in Nat
    BY DEF Kept
  <2>3. Kept(bs) = [i \in 1..Len(bs) |-> Kept(bs)[i]]
    BY DEF Kept
  <2> QED BY <2>1, <2>2, <2>3
<1>2. \A bs : Substance(bs) = FlattenSeq(Kept(bs))
  BY DEF Substance, Kept
<1>3. Kept(a \o b) = Kept(a) \o Kept(b)
  <2>1. /\ Len(a \o b) = Len(a) + Len(b) /\ a \o b \in Seq(Byte)
        /\ Len(a) \in Nat /\ Len(b) \in Nat
    OBVIOUS
  <2>2. Len(Kept(a \o b)) = Len(Kept(a) \o Kept(b))
    <3>1. /\ Kept(a) \in Seq(Seq(Byte)) /\ Len(Kept(a)) = Len(a)
          /\ Kept(b) \in Seq(Seq(Byte)) /\ Len(Kept(b)) = Len(b)
          /\ Len(Kept(a \o b)) = Len(a) + Len(b)
      BY <1>1, <2>1
    <3>2. Len(Kept(a) \o Kept(b)) = Len(Kept(a)) + Len(Kept(b))
      BY <3>1, ConcatProperties
    <3> QED BY <3>1, <3>2
  <2>3. Kept(a \o b) \in Seq(Seq(Byte)) /\ Kept(a) \o Kept(b) \in Seq(Seq(Byte))
    BY <1>1, <2>1, ConcatProperties
  <2>4. ASSUME NEW i \in 1..Len(a) + Len(b)
        PROVE  Kept(a \o b)[i] = (Kept(a) \o Kept(b))[i]
    <3>1. (a \o b)[i] = IF i <= Len(a) THEN a[i] ELSE b[i - Len(a)]
      BY ConcatProperties
    <3>2. (Kept(a) \o Kept(b))[i] =
             IF i <= Len(a) THEN Kept(a)[i] ELSE Kept(b)[i - Len(a)]
      <4>1. Kept(a) \in Seq(Seq(Byte)) /\ Kept(b) \in Seq(Seq(Byte))
            /\ Len(Kept(a)) = Len(a) /\ Len(Kept(b)) = Len(b)
        BY <1>1
      <4> QED BY <4>1, ConcatProperties
    <3>3. CASE i <= Len(a)
      BY <2>1, <3>1, <3>2, <3>3 DEF Kept
    <3>4. CASE ~(i <= Len(a))
      BY <2>1, <3>1, <3>2, <3>4 DEF Kept
    <3> QED BY <3>3, <3>4
  <2>5. Len(Kept(a \o b)) = Len(a) + Len(b)
    BY <1>1, <2>1
  <2> QED BY <2>2, <2>3, <2>4, <2>5, SeqEqual
<1>4. FlattenSeq(Kept(a) \o Kept(b)) = FlattenSeq(Kept(a)) \o FlattenSeq(Kept(b))
  BY <1>1, FlattenConcat
<1>5. FlattenSeq(Kept(a)) \in Seq(Byte)
  BY <1>1, FlattenType
<1> QED
  BY <1>2, <1>3, <1>4, <1>5

\* The substance of one byte.
LEMMA SubstanceOne ==
  /\ Substance(<<>>) = <<>>
  /\ \A x : Substance(<<x>>) = IF x = Junk THEN <<>> ELSE <<x>>
<1>1. Substance(<<>>) = FlattenSeq(<<>>)
  <2>1. [i \in 1..0 |-> IF <<>>[i] = Junk THEN <<>> ELSE <<<<>>[i]>>] = <<>>
    OBVIOUS
  <2>2. Len(<<>>) = 0
    OBVIOUS
  <2> QED BY <2>1, <2>2 DEF Substance
<1>2. ASSUME NEW x PROVE Substance(<<x>>) = IF x = Junk THEN <<>> ELSE <<x>>
  <2>1. Substance(<<x>>) = FlattenSeq(Kept(<<x>>))
    BY DEF Substance, Kept
  <2>2. Len(Kept(<<x>>)) = 1 /\ Kept(<<x>>)[1] = IF x = Junk THEN <<>> ELSE <<x>>
    BY DEF Kept
  <2> QED BY <2>1, <2>2, FlattenOne
<1> QED
  BY <1>1, <1>2, FlattenEmpty

\* Bytes of answers are all substance, junk is none.
LEMMA SubstanceOf ==
  /\ \A bs \in Seq(Real) : Substance(bs) = bs
  /\ \A bs \in Seq({Junk}) : Substance(bs) = <<>>
<1>1. Junk \in Byte
  BY DEF Junk, Byte
<1>2. \A bs \in Seq(Real) : bs \in Seq(Byte)
  BY SeqMonotonic DEF Real
<1>3. \A bs \in Seq({Junk}) : bs \in Seq(Byte)
  BY <1>1, SeqMonotonic
<1>4. \A bs \in Seq(Real) : Substance(bs) = bs
  <2> DEFINE S == {bs \in Seq(Real) : Substance(bs) = bs}
  <2>1. <<>> \in S
    BY SubstanceOne
  <2>2. ASSUME NEW bs \in Seq(Real), NEW x \in Real, bs \in S
        PROVE  Append(bs, x) \in S
    <3>1. Append(bs, x) = bs \o <<x>> /\ Append(bs, x) \in Seq(Real)
          /\ <<x>> \in Seq(Real)
      OBVIOUS
    <3>2. Substance(bs \o <<x>>) = Substance(bs) \o Substance(<<x>>)
      BY <1>2, <3>1, SubstanceConcat
    <3>3. Substance(<<x>>) = <<x>> /\ Substance(bs) = bs
      BY <2>2, SubstanceOne DEF Real
    <3> QED BY <3>1, <3>2, <3>3
  <2> HIDE DEF S
  <2>3. \A bs \in Seq(Real) : bs \in S
    BY <2>1, <2>2, SeqSetInduction
  <2> QED BY <2>3 DEF S
<1>5. \A bs \in Seq({Junk}) : Substance(bs) = <<>>
  <2> DEFINE S == {bs \in Seq({Junk}) : Substance(bs) = <<>>}
  <2>1. <<>> \in S
    BY SubstanceOne
  <2>2. ASSUME NEW bs \in Seq({Junk}), NEW x \in {Junk}, bs \in S
        PROVE  Append(bs, x) \in S
    <3>1. Append(bs, x) = bs \o <<x>> /\ Append(bs, x) \in Seq({Junk})
          /\ <<x>> \in Seq({Junk})
      OBVIOUS
    <3>2. Substance(bs \o <<x>>) = Substance(bs) \o Substance(<<x>>)
      BY <1>3, <3>1, SubstanceConcat
    <3>3. Substance(<<x>>) = <<>> /\ Substance(bs) = <<>>
      BY <2>2, SubstanceOne
    <3>4. Substance(bs \o <<x>>) = <<>>
      BY <3>2, <3>3
    <3> QED BY <3>1, <3>4
  <2> HIDE DEF S
  <2>3. \A bs \in Seq({Junk}) : bs \in S
    BY <2>1, <2>2, SeqSetInduction
  <2> QED BY <2>3 DEF S
<1> QED
  BY <1>4, <1>5

\* What the buffers of a batch hold is bytes; a new one adds to its end, and
\* the first comes first.
LEMMA BatchBytesParts ==
  ASSUME NEW v \in Seq(BatchBuf), NEW b \in BatchBuf
  PROVE  /\ BatchBytes(v) \in Seq(Byte) /\ BatchBytes(<<>>) = <<>>
         /\ BatchBytes(Append(v, b)) = BatchBytes(v) \o BatchPending(b)
         /\ BatchBytes(<<b>> \o v) = BatchPending(b) \o BatchBytes(v)
<1> DEFINE Parts(u) == [i \in 1..Len(u) |-> BatchPending(u[i])]
<1>1. \A c \in BatchBuf : BatchPending(c) \in Seq(Byte)
  BY DEF BatchPending, BatchBuf
<1>2. ASSUME NEW u \in Seq(BatchBuf)
      PROVE  Parts(u) \in Seq(Seq(Byte)) /\ Len(Parts(u)) = Len(u)
  BY <1>1
<1>3. Parts(Append(v, b)) = Append(Parts(v), BatchPending(b))
  <2> HIDE DEF BatchBuf
  <2>1. Len(Append(v, b)) = Len(v) + 1 /\ Append(v, b) \in Seq(BatchBuf)
        /\ Len(v) \in Nat
    OBVIOUS
  <2>2. /\ Append(Parts(v), BatchPending(b)) \in Seq(Seq(Byte))
        /\ Len(Append(Parts(v), BatchPending(b))) = Len(v) + 1
    BY <1>1, <1>2, AppendProperties
  <2>3. ASSUME NEW i \in 1..Len(v) + 1
        PROVE  Parts(Append(v, b))[i] = Append(Parts(v), BatchPending(b))[i]
    <3>1. Append(v, b)[i] = IF i <= Len(v) THEN v[i] ELSE b
      BY <2>1
    <3>2. Append(Parts(v), BatchPending(b))[i] =
            IF i <= Len(v) THEN Parts(v)[i] ELSE BatchPending(b)
      BY <1>1, <1>2, <2>1, AppendProperties
    <3> QED BY <2>1, <3>1, <3>2
  <2>4. Parts(Append(v, b)) \in Seq(Seq(Byte)) /\ Len(Parts(Append(v, b))) = Len(v) + 1
    BY <1>2, <2>1
  <2> HIDE DEF Parts
  <2> QED BY <2>2, <2>3, <2>4, SeqEqual
<1>4. Parts(<<b>> \o v) = <<BatchPending(b)>> \o Parts(v)
  <2>1. Len(<<b>> \o v) = Len(v) + 1 /\ <<b>> \o v \in Seq(BatchBuf)
        /\ Len(v) \in Nat /\ <<b>> \in Seq(BatchBuf)
    OBVIOUS
  <2>2. <<BatchPending(b)>> \in Seq(Seq(Byte))
    BY <1>1
  <2>3. /\ <<BatchPending(b)>> \o Parts(v) \in Seq(Seq(Byte))
        /\ Len(<<BatchPending(b)>> \o Parts(v)) = Len(v) + 1
    BY <1>2, <2>2, ConcatProperties
  <2>4. ASSUME NEW i \in 1..Len(v) + 1
        PROVE  Parts(<<b>> \o v)[i] = (<<BatchPending(b)>> \o Parts(v))[i]
    <3>1. (<<b>> \o v)[i] = IF i <= 1 THEN b ELSE v[i - 1]
      BY <2>1, ConcatProperties
    <3>2. (<<BatchPending(b)>> \o Parts(v))[i] =
            IF i <= 1 THEN BatchPending(b) ELSE Parts(v)[i - 1]
      BY <1>2, <2>1, <2>2, ConcatProperties
    <3> QED BY <2>1, <3>1, <3>2
  <2>5. Parts(<<b>> \o v) \in Seq(Seq(Byte)) /\ Len(Parts(<<b>> \o v)) = Len(v) + 1
    BY <1>2, <2>1
  <2> HIDE DEF Parts
  <2> QED BY <2>3, <2>4, <2>5, SeqEqual
<1>5. Parts(<<>>) = <<>>
  OBVIOUS
<1>6. \A u : BatchBytes(u) = FlattenSeq(Parts(u))
  BY DEF BatchBytes
<1> HIDE DEF Parts
<1>7. BatchBytes(v) \in Seq(Byte) /\ BatchBytes(<<>>) = <<>>
  BY <1>2, <1>5, <1>6, FlattenType, FlattenEmpty
<1>8. BatchBytes(Append(v, b)) = BatchBytes(v) \o BatchPending(b)
  BY <1>1, <1>2, <1>3, <1>6, FlattenAppend
<1>9. BatchBytes(<<b>> \o v) = BatchPending(b) \o BatchBytes(v)
  BY <1>1, <1>2, <1>4, <1>6, FlattenCons
<1> QED
  BY <1>7, <1>8, <1>9

\* Concatenation of bytes is associative.
LEMMA BytesRegroup ==
  \A p, q, r \in Seq(Byte) : (p \o q) \o r = p \o (q \o r)
OBVIOUS

\* A reply is bytes of answers.
LEMMA ReplyReal ==
  ASSUME NEW a \in Answer, a.req # 0 PROVE Reply(a) \in Seq(Real)
<1> DEFINE n == HeadLen + KeyLen + a.body
<1>1. n \in Nat /\ a.req \in Nat
  BY SizesAssumption DEF Answer
<1>2. \A p \in 1..n : <<a.req, p>> \in Real
  BY <1>1 DEF Real, Byte, Junk
<1>3. Reply(a) = [p \in 1..n |-> <<a.req, p>>]
  BY DEF Reply
<1> HIDE DEF n
<1> QED
  BY <1>1, <1>2, <1>3

\* One more answer adds its bytes.
LEMMA AnswerBytesGrow ==
  ASSUME answers \in Seq(Answer), NEW a \in Answer, answers' = Append(answers, a)
  PROVE  AnswerBytes' = AnswerBytes \o Reply(a)
<1> DEFINE old == [i \in 1..Len(answers) |-> Reply(answers[i])]
           new == [i \in 1..Len(answers') |-> Reply(answers'[i])]
<1>1. \A c \in Answer : Reply(c) \in Seq(Byte)
  BY ReplyType
<1>2. /\ Len(answers') = Len(answers) + 1 /\ Len(answers) \in Nat
      /\ answers' \in Seq(Answer)
      /\ \A i \in 1..Len(answers') :
           answers'[i] = IF i <= Len(answers) THEN answers[i] ELSE a
  OBVIOUS
<1>3. old \in Seq(Seq(Byte)) /\ Len(old) = Len(answers)
  BY <1>1, <1>2
<1>4. new \in Seq(Seq(Byte)) /\ Len(new) = Len(answers) + 1
  BY <1>1, <1>2
<1>5. /\ Append(old, Reply(a)) \in Seq(Seq(Byte))
      /\ Len(Append(old, Reply(a))) = Len(answers) + 1
      /\ \A i \in 1..Len(answers) : Append(old, Reply(a))[i] = old[i]
      /\ Append(old, Reply(a))[Len(answers) + 1] = Reply(a)
  BY <1>1, <1>3, AppendProperties
<1>6. \A i \in 1..Len(answers) + 1 : new[i] = Append(old, Reply(a))[i]
  BY <1>2, <1>5
<1>7. AnswerBytes = FlattenSeq(old) /\ AnswerBytes' = FlattenSeq(new)
  BY DEF AnswerBytes
<1> HIDE DEF old, new
<1>8. new = Append(old, Reply(a))
  BY <1>4, <1>5, <1>6, SeqEqual
<1> QED
  BY <1>1, <1>3, <1>7, <1>8, FlattenAppend

\* The answers are bytes.
LEMMA AnswerBytesType ==
  ASSUME answers \in Seq(Answer) PROVE AnswerBytes \in Seq(Byte)
<1> DEFINE parts == [i \in 1..Len(answers) |-> Reply(answers[i])]
<1>1. parts \in Seq(Seq(Byte))
  <2>1. \A i \in 1..Len(answers) : Reply(answers[i]) \in Seq(Byte)
    BY ReplyType
  <2> QED BY <2>1
<1>2. AnswerBytes = FlattenSeq(parts)
  BY DEF AnswerBytes
<1> QED
  BY <1>1, <1>2, FlattenType

\* The first n bytes of first are moved to the end of w.
Moves(w, first, rest, n) ==
  Substance(w \o SubSeq(first, 1, n))
    \o Substance(SubSeq(first, n + 1, Len(first)) \o rest)
  = Substance(w) \o Substance(first \o rest)

\* Writing the first n of the bytes that come first moves them to the wire.
LEMMA WritingMoves ==
  \A w, first, rest \in Seq(Byte) : \A n \in 0..Len(first) :
    Moves(w, first, rest, n)
<1>0. SUFFICES ASSUME NEW w, NEW first, NEW rest, NEW n,
                      w \in Seq(Byte), first \in Seq(Byte),
                      rest \in Seq(Byte), n \in 0..Len(first)
               PROVE  Moves(w, first, rest, n)
  OBVIOUS
<1> DEFINE a == SubSeq(first, 1, n)
           b == SubSeq(first, n + 1, Len(first))
<1>1. a \in Seq(Byte) /\ b \in Seq(Byte) /\ a \o b = first
  BY <1>0, CutInTwo
<1> HIDE DEF a, b
<1> DEFINE sw == Substance(w)
           sa == Substance(a)
           sb == Substance(b)
           sr == Substance(rest)
           e  == sb \o sr
<1>2. /\ sw \in Seq(Byte) /\ sa \in Seq(Byte)
      /\ sb \in Seq(Byte) /\ sr \in Seq(Byte)
  BY <1>0, <1>1, SubstanceConcat
<1>3. /\ Substance(w \o a) = sw \o sa /\ Substance(b \o rest) = e
      /\ Substance(first \o rest) = Substance(first) \o sr
      /\ Substance(first) = sa \o sb
  BY <1>0, <1>1, SubstanceConcat
<1> HIDE DEF sw, sa, sb, sr
<1>4. e \in Seq(Byte)
  BY <1>2, ConcatProperties
<1>5. (sa \o sb) \o sr = sa \o e
  BY <1>2, BytesRegroup
<1> HIDE DEF e
<1>6. (sw \o sa) \o e = sw \o (sa \o e)
  <2>1. sw \in Seq(Byte) /\ sa \in Seq(Byte)
    BY <1>2
  <2> QED BY ONLY <1>4, <2>1, BytesRegroup
<1>7. Substance(w \o a) \o Substance(b \o rest) = sw \o Substance(first \o rest)
  BY <1>3, <1>5, <1>6
<1> QED
  BY <1>7 DEF a, b, sw, Moves

\* con_ret_buf adds the reply to the end of what the batch has to send.
LEMMA IntoBatchBytes ==
  ASSUME NEW a \in Answer, a.req # 0, NEW len,
         batch_ret_vector \in Seq(BatchBuf), batch_ret_vector # <<>>,
         \A i \in 1..Len(batch_ret_vector) :
           /\ batch_ret_vector[i].buf \in Seq(Real)
           /\ batch_ret_vector[i].offset <= Len(batch_ret_vector[i].buf)
  PROVE  /\ BatchBytes(IntoBatch(a, len)) = BatchBytes(batch_ret_vector) \o Reply(a)
         /\ \A i \in 1..Len(IntoBatch(a, len)) :
              /\ IntoBatch(a, len)[i].buf \in Seq(Real)
              /\ IntoBatch(a, len)[i].offset <= Len(IntoBatch(a, len)[i].buf)
<1> DEFINE vec == WithRoom(len)
           L   == Len(vec)
           Good(b) == b.buf \in Seq(Real) /\ b.offset <= Len(b.buf)
<1>0. EmptyBuf \in BatchBuf /\ BatchPending(EmptyBuf) = <<>> /\ Good(EmptyBuf)
  BY DEF EmptyBuf, BatchBuf, BatchPending
<1>1. /\ vec \in Seq(BatchBuf) /\ vec # <<>>
      /\ \A i \in 1..Len(vec) : Good(vec[i])
  BY <1>0 DEF WithRoom
<1>2. BatchBytes(vec) = BatchBytes(batch_ret_vector)
  <2>1. BatchBytes(batch_ret_vector) \in Seq(Byte)
    BY <1>0, BatchBytesParts
  <2>2. BatchBytes(Append(batch_ret_vector, EmptyBuf))
          = BatchBytes(batch_ret_vector) \o <<>>
    BY <1>0, BatchBytesParts
  <2>3. BatchBytes(batch_ret_vector) \o <<>> = BatchBytes(batch_ret_vector)
    BY <2>1, ConcatEmptySeq
  <2> QED BY <2>2, <2>3 DEF WithRoom
<1> HIDE DEF vec
<1>3. PICK u \in Seq(BatchBuf), e \in BatchBuf : vec = Append(u, e)
  BY <1>1, SequenceEmptyOrAppend
<1>4. L \in 1..L /\ L = Len(u) + 1 /\ vec[L] = e /\ Good(e) /\ Len(u) \in Nat
  BY <1>1, <1>3
<1> DEFINE last == [e EXCEPT !.buf = @ \o Reply(a)]
<1>5. Reply(a) \in Seq(Real) /\ Reply(a) \in Seq(Byte)
  BY ReplyReal, ReplyType
<1>6. /\ last \in BatchBuf /\ last.offset = e.offset
      /\ last.buf = e.buf \o Reply(a)
  <2>1. e.buf \in Seq(Byte) /\ e.offset \in Nat
    BY DEF BatchBuf
  <2>2. e.buf \o Reply(a) \in Seq(Byte)
    BY <1>5, <2>1, ConcatProperties
  <2> QED BY <2>2 DEF BatchBuf
<1>7. Good(last)
  <2>1. e.buf \in Seq(Real) /\ e.offset <= Len(e.buf) /\ e.offset \in Nat
    BY <1>4 DEF BatchBuf
  <2>2. /\ e.buf \o Reply(a) \in Seq(Real)
        /\ Len(e.buf \o Reply(a)) = Len(e.buf) + Len(Reply(a))
    BY <1>5, <2>1, ConcatProperties
  <2>3. Len(e.buf) \in Nat /\ Len(Reply(a)) \in Nat
    BY <1>5, <2>1
  <2> QED BY <1>6, <2>1, <2>2, <2>3
<1>8. BatchPending(last) = BatchPending(e) \o Reply(a)
  <2> DEFINE s == e.buf
             o == e.offset
             x == SubSeq(s, 1, o)
             y == SubSeq(s, o + 1, Len(s))
  <2>1. s \in Seq(Byte) /\ o \in 0..Len(s)
    BY <1>4 DEF BatchBuf
  <2> HIDE DEF s, o
  <2>2. x \in Seq(Byte) /\ y \in Seq(Byte) /\ Len(x) = o /\ x \o y = s
    BY <2>1, CutInTwo
  <2> HIDE DEF x, y
  <2>3. (x \o y) \o Reply(a) = x \o (y \o Reply(a)) /\ y \o Reply(a) \in Seq(Byte)
    BY <1>5, <2>2, BytesRegroup, ConcatProperties
  <2>4. SubSeq(s \o Reply(a), o + 1, Len(s \o Reply(a))) = y \o Reply(a)
    BY <2>2, <2>3, DropFirst
  <2>5. BatchPending(last) = SubSeq(s \o Reply(a), o + 1, Len(s \o Reply(a)))
    BY <1>6 DEF s, o, BatchPending
  <2> QED BY <2>4, <2>5 DEF s, o, y, BatchPending
<1>9. IntoBatch(a, len) = [vec EXCEPT ![L] = last]
  BY <1>4 DEF IntoBatch, WithRoom, vec
<1> HIDE DEF last, L
<1> DEFINE new == [vec EXCEPT ![L] = last]
<1>10. /\ new \in Seq(BatchBuf) /\ Len(new) = Len(vec)
       /\ \A j \in 1..Len(vec) : new[j] = IF j = L THEN last ELSE vec[j]
  <2>1. L \in 1..Len(vec)
    BY <1>4 DEF L
  <2> QED BY <1>1, <1>6, <2>1, ExceptSeq
<1> HIDE DEF new
<1>11. new = Append(u, last)
  <2>1. /\ Append(u, last) \in Seq(BatchBuf) /\ Len(Append(u, last)) = Len(u) + 1
        /\ \A j \in 1..Len(u) : Append(u, last)[j] = u[j]
        /\ Append(u, last)[Len(u) + 1] = last
    BY <1>6, AppendProperties
  <2>2. \A j \in 1..Len(u) : vec[j] = u[j]
    BY <1>3, AppendProperties
  <2>3. Len(new) = Len(u) + 1 /\ L = Len(u) + 1
    BY <1>4, <1>10 DEF L
  <2>4. \A j \in 1..Len(u) + 1 : new[j] = Append(u, last)[j]
    <3> DEFINE app == Append(u, last)
    <3>1. Len(u) \in Nat /\ Len(vec) = Len(u) + 1
      BY <1>4, <2>3 DEF L
    <3>2. /\ \A j \in 1..Len(u) : app[j] = u[j]
          /\ app[Len(u) + 1] = last
      BY <2>1
    <3> HIDE DEF app
    <3>3. \A j \in 1..Len(u) + 1 : new[j] = app[j]
      BY ONLY <1>10, <2>2, <2>3, <3>1, <3>2
    <3> QED BY <3>3 DEF app
  <2> QED BY <1>10, <2>1, <2>3, <2>4, SeqEqual
<1>12. BatchBytes(new) = BatchBytes(vec) \o Reply(a)
  <2>1. /\ BatchBytes(new) = BatchBytes(u) \o (BatchPending(e) \o Reply(a))
        /\ BatchBytes(vec) = BatchBytes(u) \o BatchPending(e)
        /\ BatchBytes(u) \in Seq(Byte)
    BY <1>3, <1>6, <1>8, <1>11, BatchBytesParts
  <2>2. BatchPending(e) \in Seq(Byte)
    BY DEF BatchPending, BatchBuf
  <2>3. BatchBytes(u) \o (BatchPending(e) \o Reply(a))
          = (BatchBytes(u) \o BatchPending(e)) \o Reply(a)
    BY <1>5, <2>1, <2>2, BytesRegroup
  <2> QED BY <2>1, <2>3
<1>13. \A j \in 1..Len(new) : Good(new[j])
  BY <1>1, <1>7, <1>10
<1> QED
  BY <1>2, <1>9, <1>12, <1>13 DEF new
\* What write() is given for a plain reply: cnt bytes of buf from off on.
PlainBytes(buf, off, cnt) ==
  [p \in 1..cnt |-> IF off + p <= Len(buf) THEN buf[off + p] ELSE Junk]

\* They are bytes, and bytes of answers within buf.
LEMMA PlainBytesType ==
  ASSUME NEW buf \in Seq(Byte), NEW off \in Nat, NEW cnt \in Nat
  PROVE  /\ PlainBytes(buf, off, cnt) \in Seq(Byte)
         /\ Len(PlainBytes(buf, off, cnt)) = cnt
         /\ (buf \in Seq(Real) /\ off + cnt <= Len(buf)) =>
              PlainBytes(buf, off, cnt) \in Seq(Real)
<1>1. Junk \in Byte /\ Len(buf) \in Nat
  BY DEF Junk, Byte
<1>2. PlainBytes(buf, off, cnt) \in [1..cnt -> Byte]
  BY <1>1 DEF PlainBytes
<1>3. (buf \in Seq(Real) /\ off + cnt <= Len(buf)) =>
         PlainBytes(buf, off, cnt) \in [1..cnt -> Real]
  <2> SUFFICES ASSUME buf \in Seq(Real), off + cnt <= Len(buf)
               PROVE  PlainBytes(buf, off, cnt) \in [1..cnt -> Real]
    OBVIOUS
  <2>1. \A i \in 1..Len(buf) : buf[i] \in Real
    OBVIOUS
  <2>2. ASSUME NEW p \in 1..cnt
        PROVE  /\ off + p <= Len(buf)
               /\ buf[off + p] \in Real
    BY <1>1, <2>1
  <2> QED BY <2>2 DEF PlainBytes
<1> QED
  BY <1>2, <1>3

\* Junk aside, a reply is the whole of its buffer.
LEMMA PlainSubstance ==
  ASSUME NEW buf \in Seq(Real), NEW cnt \in Nat, Len(buf) <= cnt
  PROVE  Substance(PlainBytes(buf, 0, cnt)) = buf
<1> DEFINE junk == [p \in 1..cnt - Len(buf) |-> Junk]
<1>1. Len(buf) \in Nat /\ buf \in Seq(Byte) /\ Junk \in Byte
  BY SeqMonotonic DEF Real, Junk, Byte
<1>2. junk \in Seq({Junk}) /\ junk \in Seq(Byte) /\ Len(junk) = cnt - Len(buf)
  BY <1>1
<1>3. PlainBytes(buf, 0, cnt) = buf \o junk
  <2>1. /\ PlainBytes(buf, 0, cnt) \in Seq(Byte)
        /\ Len(PlainBytes(buf, 0, cnt)) = cnt
    BY <1>1, PlainBytesType
  <2>2. /\ buf \o junk \in Seq(Byte) /\ Len(buf \o junk) = cnt
        /\ \A i \in 1..cnt : (buf \o junk)[i] =
             IF i <= Len(buf) THEN buf[i] ELSE junk[i - Len(buf)]
    <3> HIDE DEF junk
    <3>1. /\ buf \o junk \in Seq(Byte) /\ Len(buf \o junk) = Len(buf) + Len(junk)
          /\ \A i \in 1..Len(buf) + Len(junk) : (buf \o junk)[i] =
               IF i <= Len(buf) THEN buf[i] ELSE junk[i - Len(buf)]
      BY <1>1, <1>2, ConcatProperties
    <3>2. Len(buf) + Len(junk) = cnt
      BY <1>1, <1>2
    <3> QED BY <3>1, <3>2
  <2>3. \A i \in 1..cnt : PlainBytes(buf, 0, cnt)[i] = (buf \o junk)[i]
    BY <1>1, <2>2 DEF PlainBytes
  <2> HIDE DEF junk
  <2> QED BY <2>1, <2>2, <2>3, SeqEqual
<1> HIDE DEF junk
<1>4. Substance(buf \o junk) = Substance(buf) \o Substance(junk)
  BY <1>1, <1>2, SubstanceConcat
<1>5. Substance(buf) = buf /\ Substance(junk) = <<>>
  BY <1>2, SubstanceOf
<1> QED
  BY <1>3, <1>4, <1>5, ConcatEmptySeq

\* After n bytes were written, the others are left to write.
LEMMA PlainAdvance ==
  ASSUME NEW buf \in Seq(Byte), NEW off \in Nat, NEW cnt \in Nat, NEW n \in 0..cnt
  PROVE  SubSeq(PlainBytes(buf, off, cnt), n + 1, cnt)
           = PlainBytes(buf, off + n, cnt - n)
<1> DEFINE s == PlainBytes(buf, off, cnt)
           d == SubSeq(s, n + 1, cnt)
           e == PlainBytes(buf, off + n, cnt - n)
<1>1. s \in Seq(Byte) /\ Len(s) = cnt
  BY PlainBytesType
<1>2. e \in Seq(Byte) /\ Len(e) = cnt - n
  <2>1. off + n \in Nat /\ cnt - n \in Nat
    OBVIOUS
  <2> QED BY <2>1, PlainBytesType
<1> HIDE DEF s, e
<1>3. /\ d \in Seq(Byte) /\ Len(d) = cnt - n
      /\ \A i \in 1..cnt - n : d[i] = s[n + 1 + i - 1]
  <2>1. \A i \in n + 1..cnt : s[i] \in Byte
    BY <1>1, ElementOfSeq
  <2>2. /\ d \in Seq(Byte)
        /\ Len(d) = IF n + 1 <= cnt THEN cnt - (n + 1) + 1 ELSE 0
        /\ \A i \in 1..cnt - (n + 1) + 1 : d[i] = s[n + 1 + i - 1]
    BY <2>1, SubSeqProperties
  <2> HIDE DEF d
  <2> QED BY <2>2
<1> HIDE DEF d
<1>4. \A i \in 1..cnt - n : d[i] = e[i]
  <2> SUFFICES ASSUME NEW i \in 1..cnt - n PROVE d[i] = e[i]
    OBVIOUS
  <2>1. n + 1 + i - 1 = n + i /\ n + i \in 1..cnt /\ off + (n + i) = off + n + i
    OBVIOUS
  <2>2. s[n + i] = IF off + (n + i) <= Len(buf) THEN buf[off + (n + i)] ELSE Junk
    BY <2>1 DEF s, PlainBytes
  <2>3. e[i] = IF off + n + i <= Len(buf) THEN buf[off + n + i] ELSE Junk
    BY DEF e, PlainBytes
  <2> QED BY <1>3, <2>1, <2>2, <2>3
<1>5. d = e
  BY <1>2, <1>3, <1>4, SeqEqual
<1> QED
  BY <1>5 DEF d, e, s

\* The reply that query_key composes.
LEMMA ComposedReal ==
  ASSUME IInv, QueryKey
  PROVE  /\ Composed \in Answer /\ Composed.req # 0
         /\ Reply(Composed) \in Seq(Real) /\ Reply(Composed) \in Seq(Byte)
         /\ Len(Reply(Composed)) = HeadLen + KeyLen + Composed.body
<1>1. Composed \in Answer
  BY ComposedType
<1>2. Composed.req # 0
  <2>1. cur >= 1 /\ cur \in Nat
    BY DEF IInv, TypeOK, RequestInHand, Keyed, QueryKey, At
  <2> QED BY <2>1 DEF Composed
<1> QED
  BY <1>1, <1>2, ReplyReal, ReplyType

\* What query_key does outside a batch: the reply is all there is in ret_buf.
LEMMA QueryPlain ==
  ASSUME IInv, QueryKey, ~in_batch_get
  PROVE  /\ ret_buf' = Reply(Composed) /\ ret_buf_offset' = 0
         /\ batch_ret_vector' = batch_ret_vector /\ ~in_batch_get'
         /\ ret_bytes' \in Nat /\ Len(ret_buf') <= ret_bytes'
         /\ (Composed.hit /\ ret_bytes = 0) => ret_bytes' = Len(ret_buf')
<1>1. /\ ret_buf_offset = 0 /\ ret_bytes \in Nat /\ ret_buf \in Seq(Byte)
      /\ ret_buf_offset' = ret_buf_offset /\ in_batch_get' = in_batch_get
  BY DEF IInv, TypeOK, PhasesAgree, QueryKey, At
<1> DEFINE len == HeadLen + KeyLen + Composed.body
<1>2. /\ ret_buf' = SubSeq(ret_buf, 1, ret_buf_offset) \o Reply(Composed)
      /\ ret_bytes' = ret_bytes + RetBytesAdded(Composed, len)
      /\ batch_ret_vector' = batch_ret_vector
  BY DEF QueryKey
<1>3. /\ Reply(Composed) \in Seq(Byte) /\ Len(Reply(Composed)) = len
      /\ Composed \in Answer
  BY ComposedReal
<1>4. ret_buf' = Reply(Composed)
  <2>1. SubSeq(ret_buf, 1, ret_buf_offset) = <<>>
    BY <1>1, SubSeqEmpty
  <2> QED BY <1>2, <1>3, <2>1, ConcatEmptySeq
<1>5. len \in Nat /\ Composed.hit \in BOOLEAN
  BY <1>3, SizesAssumption DEF Answer
<1> HIDE DEF len
<1>6. RetBytesAdded(Composed, len) = (IF Composed.hit THEN 0 ELSE len) + len
  BY DEF RetBytesAdded
<1>7. ret_bytes' \in Nat /\ len <= ret_bytes'
  BY <1>1, <1>2, <1>5, <1>6
<1>8. (Composed.hit /\ ret_bytes = 0) => ret_bytes' = len
  BY <1>2, <1>5, <1>6
<1> QED
  BY <1>1, <1>2, <1>3, <1>4, <1>7, <1>8

\* The first buffer of a batch comes first.
LEMMA BatchFirst ==
  ASSUME NEW v \in Seq(BatchBuf), v # <<>>
  PROVE  /\ Head(v) \in BatchBuf /\ Tail(v) \in Seq(BatchBuf) /\ Head(v) = v[1]
         /\ BatchBytes(v) = BatchPending(Head(v)) \o BatchBytes(Tail(v))
<1>1. Head(v) \in BatchBuf /\ Tail(v) \in Seq(BatchBuf) /\ Head(v) = v[1]
  BY HeadTailProperties
<1>2. v = <<Head(v)>> \o Tail(v)
  OBVIOUS
<1>3. BatchBytes(<<Head(v)>> \o Tail(v))
        = BatchPending(Head(v)) \o BatchBytes(Tail(v))
  BY <1>1, BatchBytesParts
<1> QED
  BY <1>1, <1>2, <1>3

\* Once n bytes of a batch's first buffer were written, the others are left.
LEMMA AdvancedBytes ==
  ASSUME batch_ret_vector \in Seq(BatchBuf), batch_ret_vector # <<>>,
         Head(batch_ret_vector).offset <= Len(Head(batch_ret_vector).buf),
         NEW n \in 0..Len(BatchPending(Head(batch_ret_vector)))
  PROVE  LET b == Head(batch_ret_vector) IN
         /\ Len(BatchPending(b)) = Len(b.buf) - b.offset
         /\ AdvanceBatch(n) \in Seq(BatchBuf)
         /\ Len(AdvanceBatch(n)) = Len(batch_ret_vector)
         /\ \A i \in 1..Len(batch_ret_vector) :
              /\ AdvanceBatch(n)[i].buf = batch_ret_vector[i].buf
              /\ AdvanceBatch(n)[i].offset =
                   IF i = 1 THEN b.offset + n ELSE batch_ret_vector[i].offset
         /\ BatchBytes(AdvanceBatch(n)) =
              SubSeq(BatchPending(b), n + 1, Len(BatchPending(b)))
                \o BatchBytes(Tail(batch_ret_vector))
<1> DEFINE v == batch_ret_vector
           b == Head(v)
           c == [b EXCEPT !.offset = @ + n]
           t == Tail(v)
<1>1. /\ b \in BatchBuf /\ t \in Seq(BatchBuf) /\ v \in Seq(BatchBuf)
      /\ b = v[1] /\ 1 \in 1..Len(v)
  <2>1. 1 \in 1..Len(v)
    OBVIOUS
  <2> QED BY <2>1, BatchFirst
<1>2. b.buf \in Seq(Byte) /\ b.offset \in 0..Len(b.buf) /\ Len(b.buf) \in Nat
  BY <1>1 DEF BatchBuf
<1>3. AdvanceBatch(n) = [v EXCEPT ![1] = c]
  BY <1>1 DEF AdvanceBatch
<1>l. Len(BatchPending(b)) = Len(b.buf) - b.offset
  BY <1>2, CutInTwo DEF BatchPending
<1>m. n \in 0..Len(b.buf) - b.offset
  BY <1>l
<1>4. c \in BatchBuf /\ c.buf = b.buf /\ c.offset = b.offset + n
  <2>1. b.offset + n \in Nat
    BY <1>2, <1>m
  <2> HIDE DEF b
  <2> QED BY <1>1, <2>1 DEF BatchBuf
<1>5. BatchPending(c) = SubSeq(BatchPending(b), n + 1, Len(BatchPending(b)))
  <2>1. SubSeq(b.buf, b.offset + n + 1, Len(b.buf)) =
           SubSeq(SubSeq(b.buf, b.offset + 1, Len(b.buf)), n + 1,
                  Len(b.buf) - b.offset)
    BY <1>2, <1>m, DropTwice
  <2> QED BY <1>4, <1>l, <2>1 DEF BatchPending
<1> HIDE DEF b, c, v
<1>6. /\ AdvanceBatch(n) \in Seq(BatchBuf) /\ Len(AdvanceBatch(n)) = Len(v)
      /\ \A i \in 1..Len(v) : AdvanceBatch(n)[i] = IF i = 1 THEN c ELSE v[i]
  <2> DEFINE u == [v EXCEPT ![1] = c]
  <2>1. /\ u \in Seq(BatchBuf) /\ Len(u) = Len(v)
        /\ \A i \in 1..Len(v) : u[i] = IF i = 1 THEN c ELSE v[i]
    BY <1>1, <1>4, ExceptSeq
  <2> QED BY <1>3, <2>1
<1>7. AdvanceBatch(n) = <<c>> \o t
  <2>1. /\ <<c>> \o t \in Seq(BatchBuf) /\ Len(<<c>> \o t) = 1 + Len(t)
        /\ \A i \in 1..1 + Len(t) :
             (<<c>> \o t)[i] = IF i <= 1 THEN c ELSE t[i - 1]
    <3>1. <<c>> \in Seq(BatchBuf) /\ Len(<<c>>) = 1 /\ <<c>>[1] = c
      BY <1>4
    <3>2. /\ <<c>> \o t \in Seq(BatchBuf)
          /\ Len(<<c>> \o t) = Len(<<c>>) + Len(t)
          /\ \A i \in 1..Len(<<c>>) + Len(t) : (<<c>> \o t)[i] =
               IF i <= Len(<<c>>) THEN <<c>>[i] ELSE t[i - Len(<<c>>)]
      BY <1>1, <3>1, ConcatProperties
    <3> HIDE DEF t
    <3>3. \A i \in 1..1 + Len(t) : i <= 1 => i = 1
      BY <1>1
    <3> QED BY <3>1, <3>2, <3>3
  <2>2. /\ Len(v) = 1 + Len(t) /\ Len(t) \in Nat
        /\ \A i \in 1..Len(t) : t[i] = v[i + 1]
    <3>1. v # <<>>
      BY DEF v
    <3>2. Len(t) = Len(v) - 1 /\ \A i \in 1..Len(t) : t[i] = v[i + 1]
      BY <1>1, <3>1, HeadTailProperties
    <3> QED BY <1>1, <3>2
  <2> HIDE DEF t
  <2>3. ASSUME NEW i \in 1..Len(v)
        PROVE  AdvanceBatch(n)[i] = (<<c>> \o t)[i]
    <3> DEFINE w == <<c>> \o t
               a == AdvanceBatch(n)
    <3>1. /\ i \in 1..1 + Len(t) /\ i \in Nat
          /\ i # 1 => i - 1 \in 1..Len(t) /\ (i - 1) + 1 = i
      BY <2>2
    <3>2. w[i] = IF i <= 1 THEN c ELSE t[i - 1]
      BY <2>1, <3>1
    <3>3. a[i] = IF i = 1 THEN c ELSE v[i]
      BY <1>6
    <3>4. i # 1 => t[i - 1] = v[i]
      BY <2>2, <3>1
    <3> HIDE DEF w, a
    <3>5. a[i] = w[i]
      BY <3>1, <3>2, <3>3, <3>4
    <3> QED BY <3>5 DEF a, w
  <2>4. Len(AdvanceBatch(n)) = Len(<<c>> \o t)
    BY <1>6, <2>1, <2>2
  <2> QED BY <1>6, <2>1, <2>3, <2>4, SeqEqual
<1>8. BatchBytes(AdvanceBatch(n)) = BatchPending(c) \o BatchBytes(t)
  BY <1>1, <1>4, <1>7, BatchBytesParts
<1>9. \A i \in 1..Len(v) : /\ AdvanceBatch(n)[i].buf = v[i].buf
                           /\ AdvanceBatch(n)[i].offset =
                                IF i = 1 THEN b.offset + n ELSE v[i].offset
  BY <1>1, <1>4, <1>6
<1> QED
  BY <1>5, <1>6, <1>8, <1>9, <1>l DEF b, v

\* No step puts anything but answers into a buffer, nor moves beyond its end.
LEMMA BuffersStep == IInv /\ BuffersReal /\ [Next]_vars => BuffersReal'
<1> SUFFICES ASSUME IInv, BuffersReal, [Next]_vars PROVE BuffersReal'
  OBVIOUS
<1> USE DEF netVars, stateVars, parseVars, replyVars, batchVars, schedVars,
            dataVars
<1>t. /\ TypeOK /\ BatchConsistent
      /\ batch_ret_vector \in Seq(BatchBuf)
  BY DEF IInv, TypeOK
<1>b. /\ ret_buf \in Seq(Real)
      /\ \A i \in 1..Len(batch_ret_vector) :
           /\ batch_ret_vector[i].buf \in Seq(Real)
           /\ batch_ret_vector[i].offset <= Len(batch_ret_vector[i].buf)
  BY DEF BuffersReal
<1>1. CASE UNCHANGED <<ret_buf, batch_ret_vector>>
  BY <1>1, <1>b DEF BuffersReal
<1>2. CASE ParseBatchHead
  <2>1. ret_buf' = ret_buf /\ batch_ret_vector' = Append(batch_ret_vector, EmptyBuf)
    BY <1>2 DEF ParseBatchHead, TakeHead
  <2>2. EmptyBuf.buf \in Seq(Real) /\ EmptyBuf.offset <= Len(EmptyBuf.buf)
    BY DEF EmptyBuf
  <2> QED BY <1>t, <1>b, <2>1, <2>2 DEF BuffersReal
<1>3. CASE QueryKey /\ ~in_batch_get
  <2>1. ret_buf' \in Seq(Real) /\ batch_ret_vector' = batch_ret_vector
    BY <1>3, QueryPlain, ComposedReal
  <2> QED BY <1>b, <2>1 DEF BuffersReal
<1>4. CASE QueryKey /\ in_batch_get
  <2>1. ret_buf' = ret_buf /\ batch_ret_vector' = IntoBatch(Composed, value')
    BY <1>4 DEF QueryKey
  <2>2. Composed \in Answer /\ Composed.req # 0
    BY <1>4, ComposedReal
  <2>3. batch_ret_vector # <<>>
    BY <1>4, <1>t DEF BatchConsistent
  <2> DEFINE new == IntoBatch(Composed, value')
  <2>4. \A i \in 1..Len(new) : new[i].buf \in Seq(Real)
                               /\ new[i].offset <= Len(new[i].buf)
    BY <1>t, <1>b, <2>2, <2>3, IntoBatchBytes
  <2> HIDE DEF new
  <2> QED BY <1>b, <2>1, <2>4 DEF BuffersReal, new
<1>5. CASE SendBatch
  <2>1. batch_ret_vector # <<>>
    BY <1>t, <1>5 DEF SendBatch, BatchConsistent
  <2> DEFINE b == Head(batch_ret_vector)
  <2>2. /\ b = batch_ret_vector[1] /\ b \in BatchBuf
        /\ b.buf \in Seq(Real) /\ b.offset <= Len(b.buf)
    <3>1. 1 \in 1..Len(batch_ret_vector)
      BY <1>t, <2>1
    <3> QED BY <1>t, <1>b, <2>1, <3>1, BatchFirst
  <2>3. CASE NotWritten(BatchPending(b))
    <3>1. UNCHANGED <<ret_buf, batch_ret_vector>>
      BY <2>3 DEF NotWritten
    <3> QED BY <1>1, <3>1
  <2>4. CASE \E n \in 1..Len(BatchPending(b)) :
               BatchWritten(n) /\ UNCHANGED replyVars
    <3>1. PICK n \in 1..Len(BatchPending(b)) :
            BatchWritten(n) /\ UNCHANGED replyVars
      BY <2>4
    <3>2. BatchPending(b) \in Seq(Byte)
      BY <1>t, <2>2, PendingType
    <3>3. n \in 0..Len(BatchPending(b))
      BY <3>2
    <3>4. CASE batch_ret_vector' = AdvanceBatch(n) /\ n < Len(b.buf) - b.offset
      <4>1. /\ Len(AdvanceBatch(n)) = Len(batch_ret_vector)
            /\ \A i \in 1..Len(batch_ret_vector) :
                 /\ AdvanceBatch(n)[i].buf = batch_ret_vector[i].buf
                 /\ AdvanceBatch(n)[i].offset =
                      IF i = 1 THEN b.offset + n ELSE batch_ret_vector[i].offset
        BY <1>t, <2>1, <2>2, <3>3, AdvancedBytes
      <4>2. b.offset + n <= Len(b.buf)
        BY <2>2, <3>2, <3>4 DEF BatchBuf
      <4> QED BY <1>b, <2>2, <3>1, <3>4, <4>1, <4>2 DEF BuffersReal
    <3>5. CASE batch_ret_vector' = Tail(batch_ret_vector)
      <4>1. /\ Len(Tail(batch_ret_vector)) = Len(batch_ret_vector) - 1
            /\ \A i \in 1..Len(Tail(batch_ret_vector)) :
                 Tail(batch_ret_vector)[i] = batch_ret_vector[i + 1]
        BY <1>t, <2>1, HeadTailProperties
      <4>2. Len(batch_ret_vector) \in Nat
        BY <1>t
      <4> QED BY <1>b, <3>1, <3>5, <4>1, <4>2 DEF BuffersReal
    <3> QED BY <3>1, <3>4, <3>5 DEF BatchWritten
  <2> QED BY <1>5, <2>3, <2>4 DEF SendBatch
<1>6. \/ UNCHANGED <<ret_buf, batch_ret_vector>>
      \/ ParseBatchHead \/ QueryKey \/ SendBatch
  BY DEF Next, ProcessFunc, BatchOvercounted, Environment, ClientSend, ClientRecv, ClientClose,
         OtherStore, EventFires, ConnRead, NewCmd, Waiting, Closing, NeedHead,
         BadMagic, BatchNumError, Exit, ParseKeyed, ParseShort, ParseRejected,
         TakeHead, NeedBody, TakeBody, StoreKvobj, WriteBack, NotWritten,
         BatchGathers, vars
<1> QED
  BY <1>1, <1>2, <1>3, <1>4, <1>5, <1>6

\* What is pending is bytes.
LEMMA PendingBytes == TypeOK => Pending \in Seq(Byte)
<1> SUFFICES ASSUME TypeOK PROVE Pending \in Seq(Byte)
  OBVIOUS
<1>1. batch_ret_vector \in Seq(BatchBuf) /\ PlainPending \in Seq(Byte)
  BY PendingType DEF TypeOK
<1>2. EmptyBuf \in BatchBuf
  BY DEF EmptyBuf, BatchBuf
<1>3. BatchBytes(batch_ret_vector) \in Seq(Byte)
  BY <1>1, <1>2, BatchBytesParts
<1>4. <<>> \in Seq(Byte)
  OBVIOUS
<1> QED
  BY <1>1, <1>3, <1>4 DEF Pending

\* So it is in the next state.
LEMMA PendingBytesNext == TypeOK' => (Pending \in Seq(Byte))'
BY PendingBytes, PTL

\* What query_key composes is pending after what was.
LEMMA QueryPends ==
  ASSUME IInv, BuffersReal, QueryKey
  PROVE  /\ Pending \in Seq(Byte) /\ Reply(Composed) \in Seq(Byte)
         /\ Substance(Pending') = Substance(Pending) \o Reply(Composed)
<1>t. /\ TypeOK /\ BatchConsistent /\ batch_ret_vector \in Seq(BatchBuf)
  BY DEF IInv, TypeOK
<1>1. Pending \in Seq(Byte)
  BY <1>t, PendingBytes
<1>2. /\ Composed \in Answer /\ Composed.req # 0
      /\ Reply(Composed) \in Seq(Real) /\ Reply(Composed) \in Seq(Byte)
      /\ Substance(Reply(Composed)) = Reply(Composed)
  BY ComposedReal, SubstanceOf
<1>3. work_state = "query_key" /\ work_state' = "write_bcak"
      /\ in_batch_get' = in_batch_get
  BY DEF QueryKey, At
<1>4. CASE in_batch_get
  <2>1. /\ Pending = BatchBytes(batch_ret_vector)
        /\ Pending' = BatchBytes(IntoBatch(Composed, value'))
    BY <1>3, <1>4 DEF QueryKey, Pending, BatchBytes, BatchPending
  <2>2. batch_ret_vector # <<>>
    BY <1>4, <1>t DEF BatchConsistent
  <2>3. BatchBytes(IntoBatch(Composed, value'))
          = BatchBytes(batch_ret_vector) \o Reply(Composed)
    BY <1>t, <1>2, <2>2, IntoBatchBytes DEF BuffersReal
  <2>4. Pending' = Pending \o Reply(Composed)
    BY <2>1, <2>3
  <2>5. Substance(Pending \o Reply(Composed))
          = Substance(Pending) \o Substance(Reply(Composed))
    BY <1>1, <1>2, SubstanceConcat
  <2> QED BY <1>1, <1>2, <2>4, <2>5
<1>5. CASE ~in_batch_get
  <2>1. Pending = <<>> /\ Pending' = PlainPending'
    BY <1>3, <1>5 DEF Pending
  <2>2. /\ ret_buf' = Reply(Composed) /\ ret_buf_offset' = 0
        /\ ret_bytes' \in Nat /\ Len(ret_buf') <= ret_bytes'
    BY <1>5, QueryPlain
  <2>3. PlainPending' = PlainBytes(Reply(Composed), 0, ret_bytes')
    BY <2>2 DEF PlainPending, PlainBytes
  <2>4. Substance(PlainBytes(Reply(Composed), 0, ret_bytes')) = Reply(Composed)
    BY <1>2, <2>2, PlainSubstance
  <2>5. Substance(Pending) = <<>>
    BY <2>1, SubstanceOne
  <2>6. <<>> \o Reply(Composed) = Reply(Composed)
    BY <1>2, ConcatEmptySeq
  <2> QED BY <1>1, <1>2, <2>1, <2>3, <2>4, <2>5, <2>6
<1> QED
  BY <1>4, <1>5

\* While the client is there, what write_bcak takes off what is pending is
\* what it adds to the wire.
LEMMA WritesPending ==
  ASSUME IInv, BuffersReal, peer = "open", WriteBack \/ SendBatch
  PROVE  Substance(wire') \o Substance(Pending')
           = Substance(wire) \o Substance(Pending)
<1> USE DEF netVars, stateVars, replyVars, batchVars
<1>t. /\ TypeOK /\ BatchConsistent /\ batch_ret_vector \in Seq(BatchBuf)
      /\ wire \in Seq(Byte) /\ ret_buf \in Seq(Byte)
      /\ ret_bytes \in Nat /\ ret_buf_offset \in Nat
  BY DEF IInv, TypeOK
<1>e. <<>> \in Seq(Byte)
  OBVIOUS
<1>1. ASSUME NEW pending, NotWritten(pending), UNCHANGED <<reqs>>
      PROVE  Substance(wire') \o Substance(Pending')
               = Substance(wire) \o Substance(Pending)
  <2>1. Pending' = Pending /\ wire' = wire
    BY <1>1 DEF NotWritten, Pending, PlainPending
  <2> QED BY <2>1
<1>2. ASSUME NEW pending \in Seq(Byte), NEW n \in 1..Len(pending),
             Accepts(pending, n)
      PROVE  wire' = wire \o SubSeq(pending, 1, n)
  BY <1>2 DEF Accepts
<1>3. CASE WriteBack
  <2>p. /\ PlainPending = PlainBytes(ret_buf, ret_buf_offset, ret_bytes)
        /\ PlainPending \in Seq(Byte) /\ Len(PlainPending) = ret_bytes
    BY <1>t, PlainBytesType DEF PlainPending, PlainBytes
  <2>1. Pending = PlainPending
    BY <1>3 DEF WriteBack, At, Pending
  <2>2. CASE NotWritten(PlainPending)
    BY <1>1, <1>3, <2>2 DEF WriteBack
  <2>3. CASE \E n \in 1..ret_bytes :
               /\ Accepts(PlainPending, n) /\ PlainWritten(n)
               /\ UNCHANGED <<out, outLeft, taken, ret_buf, batchVars>>
    <3>1. PICK n \in 1..ret_bytes :
             /\ Accepts(PlainPending, n) /\ PlainWritten(n)
             /\ UNCHANGED <<out, outLeft, taken, ret_buf, batchVars>>
      BY <2>3
    <3>2. wire' = wire \o SubSeq(PlainPending, 1, n)
      BY <1>2, <2>p, <3>1
    <3>3. ~in_batch_get' /\ work_state = "write_bcak"
      BY <1>3, <3>1 DEF WriteBack, At
    <3>4. Pending' = SubSeq(PlainPending, n + 1, ret_bytes)
      <4>1. CASE n = ret_bytes /\ ReadyForNext
        <5>1. Pending' = <<>>
          BY <3>3, <4>1 DEF Pending, ReadyForNext
        <5>2. SubSeq(PlainPending, n + 1, ret_bytes) = <<>>
          BY <1>t, <4>1, SubSeqEmpty
        <5> QED BY <5>1, <5>2
      <4>2. CASE /\ ret_buf_offset' = ret_buf_offset + n
                 /\ ret_bytes' = ret_bytes - n /\ UNCHANGED work_state
        <5>1. Pending' = PlainPending'
          BY <3>3, <4>2 DEF Pending
        <5>2. PlainPending' = PlainBytes(ret_buf, ret_buf_offset + n, ret_bytes - n)
          BY <3>1, <4>2 DEF PlainPending, PlainBytes
        <5>3. n \in 0..ret_bytes
          BY <1>t
        <5>4. SubSeq(PlainBytes(ret_buf, ret_buf_offset, ret_bytes), n + 1, ret_bytes)
                = PlainBytes(ret_buf, ret_buf_offset + n, ret_bytes - n)
          BY <1>t, <5>3, PlainAdvance
        <5> QED BY <2>p, <5>1, <5>2, <5>4
      <4> QED BY <3>1, <4>1, <4>2 DEF PlainWritten
    <3>5. Moves(wire, PlainPending, <<>>, n)
      <4>1. n \in 0..Len(PlainPending)
        BY <1>t, <2>p
      <4> QED BY <1>t, <1>e, <2>p, <4>1, WritingMoves
    <3>6. PlainPending \o <<>> = PlainPending
      BY <2>p, ConcatEmptySeq
    <3>7. SubSeq(PlainPending, n + 1, ret_bytes) \o <<>>
            = SubSeq(PlainPending, n + 1, ret_bytes)
      <4>1. n \in 0..Len(PlainPending)
        BY <1>t, <2>p
      <4>2. SubSeq(PlainPending, n + 1, Len(PlainPending)) \in Seq(Byte)
        BY <2>p, <4>1, CutInTwo
      <4> QED BY <2>p, <4>2, ConcatEmptySeq
    <3> QED BY <2>p, <2>1, <3>2, <3>4, <3>5, <3>6, <3>7 DEF Moves
  <2> QED BY <1>3, <2>2, <2>3 DEF WriteBack
<1>4. CASE SendBatch
  <2> DEFINE v == batch_ret_vector
             b == Head(v)
             first == BatchPending(b)
             rest  == BatchBytes(Tail(v))
  <2>1. v # <<>> /\ in_batch_get
    BY <1>t, <1>4 DEF SendBatch, BatchConsistent
  <2>2. /\ b \in BatchBuf /\ Tail(v) \in Seq(BatchBuf) /\ b = v[1]
        /\ BatchBytes(v) = first \o rest
    BY <1>t, <2>1, BatchFirst
  <2>3. b.offset <= Len(b.buf)
    <3>1. 1 \in 1..Len(v)
      BY <1>t, <2>1
    <3> QED BY <2>2, <3>1 DEF BuffersReal
  <2>4. first \in Seq(Byte) /\ rest \in Seq(Byte)
    BY <1>t, <2>2, PendingType, BatchBytesParts
  <2>5. Pending = first \o rest
    BY <2>1, <2>2 DEF Pending
  <2>6. CASE NotWritten(first)
    BY <1>1, <1>4, <2>6 DEF SendBatch
  <2>7. CASE \E n \in 1..Len(first) :
               /\ Accepts(first, n) /\ BatchWritten(n)
               /\ UNCHANGED <<out, outLeft, taken, replyVars>>
    <3>1. PICK n \in 1..Len(first) : Accepts(first, n) /\ BatchWritten(n)
      BY <2>7
    <3> HIDE DEF first, rest
    <3>2. wire' = wire \o SubSeq(first, 1, n)
      BY <1>2, <2>4, <3>1
    <3>n. n \in 0..Len(first) /\ Len(first) \in Nat
      BY <2>4
    <3>a. /\ Len(first) = Len(b.buf) - b.offset
          /\ BatchBytes(AdvanceBatch(n)) = SubSeq(first, n + 1, Len(first)) \o rest
      BY <1>t, <2>1, <2>3, <3>n, AdvancedBytes DEF first, rest
    <3>3. Pending' = SubSeq(first, n + 1, Len(first)) \o rest
      <4>1. CASE /\ batch_ret_vector' = AdvanceBatch(n)
                 /\ UNCHANGED in_batch_get
        <5>1. Pending' = BatchBytes(AdvanceBatch(n))
          BY <2>1, <4>1 DEF Pending, BatchBytes, BatchPending
        <5> QED BY <3>a, <5>1
      <4>2. CASE /\ n = Len(b.buf) - b.offset
                 /\ batch_ret_vector' = Tail(batch_ret_vector)
                 /\ IF Len(batch_ret_vector) = 1
                    THEN in_batch_get' = FALSE /\ ReadyForNext
                    ELSE UNCHANGED in_batch_get
        <5>1. SubSeq(first, n + 1, Len(first)) = <<>>
          <6>1. n = Len(first)
            BY <3>a, <4>2
          <6>2. n + 1 > Len(first) /\ n + 1 \in Nat /\ Len(first) \in Nat
            BY ONLY <3>n, <6>1
          <6>3. first \in Seq(Byte)
            BY <2>4
          <6> QED BY ONLY <6>2, <6>3, SubSeqEmpty
        <5>2. <<>> \o rest = rest
          BY <2>4, ConcatEmptySeq
        <5>3. CASE Len(v) = 1
          <6>1. Tail(v) = <<>>
            <7>1. Tail(v) \in Seq(BatchBuf) /\ Len(Tail(v)) = 0
              BY <1>t, <2>1, <5>3, HeadTailProperties
            <7> QED BY <7>1, EmptySeq
          <6>2. rest = <<>>
            BY <1>t, <2>2, <6>1, BatchBytesParts DEF rest
          <6>3. Pending' = <<>>
            BY <4>2, <5>3 DEF Pending, ReadyForNext
          <6> QED BY <5>1, <5>2, <6>2, <6>3
        <5>4. CASE Len(v) # 1
          <6>1. Pending' = rest
            BY <2>1, <4>2, <5>4 DEF Pending, rest, BatchBytes, BatchPending
          <6> QED BY <5>1, <5>2, <6>1
        <5> QED BY <5>3, <5>4
      <4> QED BY <3>1, <4>1, <4>2 DEF BatchWritten
    <3>4. Moves(wire, first, rest, n)
      BY <1>t, <2>4, <3>n, WritingMoves
    <3> QED BY <2>5, <3>2, <3>3, <3>4 DEF Moves
  <2> QED BY <1>4, <2>6, <2>7 DEF SendBatch
<1> QED
  BY <1>3, <1>4

\* The account of the bytes of answers is kept by every step.
LEMMA WireStep ==
  IInv /\ BuffersReal /\ WireAccount /\ [Next]_vars => WireAccount'
<1> SUFFICES ASSUME IInv, BuffersReal, WireAccount, [Next]_vars
             PROVE  WireAccount'
  OBVIOUS
<1> USE DEF netVars, stateVars, parseVars, replyVars, batchVars, schedVars,
            dataVars
<1>t. /\ TypeOK /\ BatchConsistent /\ batch_ret_vector \in Seq(BatchBuf)
      /\ wire \in Seq(Byte) /\ answers \in Seq(Answer)
  BY DEF IInv, TypeOK
<1>s. Substance(wire) \in Seq(Byte) /\ AnswerBytes \in Seq(Byte)
      /\ Pending \in Seq(Byte) /\ Substance(Pending) \in Seq(Byte)
  BY <1>t, SubstanceConcat, AnswerBytesType, PendingBytes
<1>w. peer = "open" => Substance(wire) \o Substance(Pending) = AnswerBytes
  BY DEF WireAccount
<1>p. (peer' = "open" => peer = "open") /\ (peer' # "open" => wire' = wire)
  BY DEF Next, ProcessFunc, BatchOvercounted, Environment, ClientSend, ClientRecv, ClientClose,
         OtherStore, EventFires, ConnRead, NewCmd, Waiting, Closing, NeedHead,
         BadMagic, BatchNumError, Exit, ParseKeyed, ParseBatchHead, ParseShort,
         ParseRejected, TakeHead, NeedBody, TakeBody, StoreKvobj, QueryKey,
         WriteBack, NotWritten, BatchGathers, SendBatch, Accepts, vars
<1>a. CASE UNCHANGED <<wire, answers>> /\ Pending' = Pending
  <2>1. AnswerBytes' = AnswerBytes /\ Substance(wire') = Substance(wire)
    BY <1>a DEF AnswerBytes
  <2> QED BY <1>a, <1>p, <1>w, <2>1 DEF WireAccount, WireInOrder
<1>1. CASE UNCHANGED <<wire, answers, replyVars, in_batch_get,
                       batch_ret_vector, work_state>>
  BY <1>a, <1>1 DEF Pending, PlainPending
<1>2. CASE ParseKeyed \/ TakeBody \/ StoreKvobj \/ BatchGathers
  <2>1. /\ UNCHANGED <<wire, answers, replyVars, in_batch_get, batch_ret_vector>>
        /\ in_batch_get \/ (work_state # "write_bcak" /\ work_state' # "write_bcak")
    BY <1>2 DEF ParseKeyed, TakeHead, HeadArrived, At, TakeBody, BodyRead,
                StoreKvobj, BatchGathers
  <2>2. Pending' = Pending
    BY <2>1 DEF Pending
  <2> QED BY <1>a, <2>1, <2>2
<1>3. CASE ParseBatchHead
  <2>1. /\ UNCHANGED <<wire, answers>> /\ in_batch_get' = TRUE
        /\ work_state = "parse_head"
        /\ batch_ret_vector' = Append(batch_ret_vector, EmptyBuf)
    BY <1>3 DEF ParseBatchHead, TakeHead, HeadArrived, At
  <2>2. EmptyBuf \in BatchBuf /\ BatchPending(EmptyBuf) = <<>>
    BY DEF EmptyBuf, BatchBuf, BatchPending
  <2>3. Pending' = BatchBytes(batch_ret_vector)
    <3>1. Pending' = BatchBytes(Append(batch_ret_vector, EmptyBuf))
      BY <2>1 DEF Pending
    <3>2. /\ BatchBytes(Append(batch_ret_vector, EmptyBuf))
               = BatchBytes(batch_ret_vector) \o <<>>
          /\ BatchBytes(batch_ret_vector) \in Seq(Byte)
      BY <1>t, <2>2, BatchBytesParts
    <3> QED BY <3>1, <3>2, ConcatEmptySeq
  <2>4. Pending = BatchBytes(batch_ret_vector)
    <3>1. BatchBytes(<<>>) = <<>>
      BY <1>t, <2>2, BatchBytesParts
    <3> QED BY <1>t, <2>1, <3>1 DEF Pending, BatchConsistent
  <2> QED BY <1>a, <2>1, <2>3, <2>4
<1>4. CASE QueryKey
  <2> DEFINE r == Reply(Composed)
  <2>1. /\ UNCHANGED <<wire, peer>> /\ answers' = Append(answers, Composed)
    BY <1>4 DEF QueryKey
  <2>2. Composed \in Answer
    BY <1>4, ComposedReal
  <2>3. AnswerBytes' = AnswerBytes \o r
    BY <1>t, <2>1, <2>2, AnswerBytesGrow
  <2>4. r \in Seq(Byte) /\ Substance(Pending') = Substance(Pending) \o r
    BY <1>4, QueryPends
  <2> HIDE DEF r
  <2>5. IsPrefix(Substance(wire'), AnswerBytes')
    <3>1. IsPrefix(Substance(wire), AnswerBytes)
      BY DEF WireAccount, WireInOrder
    <3>2. IsPrefix(Substance(wire), AnswerBytes \o r)
      BY <1>s, <2>4, <3>1, PrefixConcat
    <3> QED BY <2>1, <2>3, <3>2
  <2>6. ASSUME peer' = "open"
        PROVE  Substance(wire') \o Substance(Pending') = AnswerBytes'
    <3>1. Substance(wire) \o Substance(Pending) = AnswerBytes
      BY <1>w, <2>1, <2>6
    <3>2. (Substance(wire) \o Substance(Pending)) \o r
             = Substance(wire) \o (Substance(Pending) \o r)
      BY <1>s, <2>4, BytesRegroup
    <3> QED BY <2>1, <2>3, <2>4, <3>1, <3>2
  <2> QED BY <2>5, <2>6 DEF WireAccount, WireInOrder
<1>5. CASE WriteBack \/ SendBatch
  <2>1. answers' = answers
    BY <1>5 DEF WriteBack, SendBatch
  <2>2. AnswerBytes' = AnswerBytes
    BY <2>1 DEF AnswerBytes
  <2>3. CASE peer' = "open"
    <3>1. Substance(wire') \o Substance(Pending')
            = Substance(wire) \o Substance(Pending)
      BY <1>5, <1>p, <2>3, WritesPending
    <3>2. Substance(wire') \o Substance(Pending') = AnswerBytes'
      BY <1>p, <1>w, <2>2, <2>3, <3>1
    <3>3. Substance(wire') \in Seq(Byte) /\ Substance(Pending') \in Seq(Byte)
      <4>1. TypeOK'
        BY TypeStep
      <4>2. Pending' \in Seq(Byte)
        BY <4>1, PendingBytesNext
      <4>3. wire' \in Seq(Byte)
        BY <4>1 DEF TypeOK
      <4> QED BY <4>2, <4>3, SubstanceConcat
    <3>4. IsPrefix(Substance(wire'), AnswerBytes')
      BY <3>2, <3>3, PrefixOfConcat
    <3> QED BY <3>2, <3>4 DEF WireAccount, WireInOrder
  <2>4. CASE peer' # "open"
    BY <1>p, <2>2, <2>4 DEF WireAccount, WireInOrder
  <2> QED BY <2>3, <2>4
<1>6. \/ UNCHANGED <<wire, answers, replyVars, in_batch_get, batch_ret_vector,
                     work_state>>
      \/ ParseKeyed \/ TakeBody \/ StoreKvobj \/ BatchGathers
      \/ ParseBatchHead \/ QueryKey \/ WriteBack \/ SendBatch
  BY DEF Next, ProcessFunc, BatchOvercounted, Environment, ClientSend, ClientRecv, ClientClose,
         OtherStore, EventFires, ConnRead, NewCmd, Waiting, Closing, NeedHead,
         BadMagic, BatchNumError, Exit, ParseShort, ParseRejected, TakeHead,
         NeedBody, vars
<1> QED
  BY <1>1, <1>2, <1>3, <1>4, <1>5, <1>6

\* Nothing is written or composed at the start.
LEMMA WireInit == Init => BuffersReal /\ WireAccount /\ Clean
<1> SUFFICES ASSUME Init PROVE BuffersReal /\ WireAccount /\ Clean
  OBVIOUS
<1>1. /\ wire = <<>> /\ answers = <<>> /\ ret_buf = <<>> /\ ret_bytes = 0
      /\ batch_ret_vector = <<>> /\ in_batch_get = FALSE
      /\ work_state = "parse_head"
  BY DEF Init, ServerInit
<1>2. <<>> \in Seq(Real) /\ <<>> \in Seq(Byte) /\ <<>> \o <<>> = <<>>
      /\ <<>> \in Seq(Seq(Byte))
  OBVIOUS
<1>3. AnswerBytes = <<>>
  <2>1. [i \in 1..0 |-> Reply(answers[i])] = <<>> /\ Len(answers) = 0
    BY <1>1
  <2> QED BY <2>1, FlattenEmpty DEF AnswerBytes
<1>4. Pending = <<>>
  BY <1>1 DEF Pending
<1>5. Substance(wire) = <<>> /\ Substance(Pending) = <<>>
  BY <1>1, <1>4, SubstanceOne
<1>6. IsPrefix(<<>>, <<>>)
  BY <1>2, PrefixOfConcat
<1>7. WireAccount
  BY <1>2, <1>3, <1>5, <1>6 DEF WireAccount, WireInOrder
<1>8. BuffersReal
  BY <1>1, <1>2 DEF BuffersReal
<1>9. Clean
  BY <1>1, <1>2 DEF Clean
<1> QED
  BY <1>7, <1>8, <1>9

\* Whatever is written in one or many writes: without the junk after a missed
\* GET it is a prefix of the answers in the order they were composed.
THEOREM WireCorrect == Spec => []WireInOrder
<1>1. IInv /\ BuffersReal /\ WireAccount /\ [Next]_vars
        => BuffersReal' /\ WireAccount'
  BY BuffersStep, WireStep
<1>2. WireAccount => WireInOrder
  BY DEF WireAccount
<1> QED
  BY <1>1, <1>2, WireInit, Invariance, PTL DEF Spec

\* What write() takes of bytes of answers are bytes of answers.
LEMMA WritesReal ==
  ASSUME wire \in Seq(Real), NEW pending \in Seq(Real),
         NEW n \in 1..Len(pending), Accepts(pending, n)
  PROVE  wire' \in Seq(Real)
<1>1. wire' = wire \/ wire' = wire \o SubSeq(pending, 1, n)
  BY DEF Accepts
<1>2. n \in 0..Len(pending)
  OBVIOUS
<1>3. SubSeq(pending, 1, n) \in Seq(Real)
  BY <1>2, CutInTwo
<1>4. wire \o SubSeq(pending, 1, n) \in Seq(Real)
  BY <1>3, ConcatProperties
<1> QED
  BY <1>1, <1>4

\* Unless a GET misses no step puts junk on the wire, or lets ret_bytes count
\* more than there is in ret_buf.
LEMMA CleanStep == IInv /\ BuffersReal /\ Clean /\ [Next]_vars => Clean'
<1> SUFFICES ASSUME IInv, BuffersReal, Clean, [Next]_vars, AllHit' PROVE Clean'
  BY DEF Clean
<1> USE DEF netVars, stateVars, parseVars, replyVars, batchVars, schedVars,
            dataVars
<1>t. /\ TypeOK /\ BatchConsistent /\ PhasesAgree
      /\ batch_ret_vector \in Seq(BatchBuf) /\ answers \in Seq(Answer)
      /\ ret_buf \in Seq(Byte) /\ ret_bytes \in Nat /\ ret_buf_offset \in Nat
  BY DEF IInv, TypeOK
<1>a. answers' = answers \/ (QueryKey /\ answers' = Append(answers, Composed))
  BY DEF Next, ProcessFunc, BatchOvercounted, Environment, ClientSend, ClientRecv, ClientClose,
         OtherStore, EventFires, ConnRead, NewCmd, Waiting, Closing, NeedHead,
         BadMagic, BatchNumError, Exit, ParseKeyed, ParseBatchHead, ParseShort,
         ParseRejected, TakeHead, NeedBody, TakeBody, StoreKvobj, QueryKey,
         WriteBack, BatchGathers, SendBatch, vars
<1>h. AllHit /\ (QueryKey => Composed.hit)
  <2>1. CASE answers' = answers
    <3>1. ~QueryKey
      <4>1. QueryKey => answers' = Append(answers, Composed)
        BY DEF QueryKey
      <4>2. Append(answers, Composed) # answers
        <5>1. Len(Append(answers, Composed)) = Len(answers) + 1
              /\ Len(answers) \in Nat
          BY <1>t
        <5> QED BY <5>1
      <4> QED BY <2>1, <4>1, <4>2
    <3> QED BY <2>1, <3>1 DEF AllHit
  <2>2. CASE QueryKey /\ answers' = Append(answers, Composed)
    <3>1. /\ Len(answers') = Len(answers) + 1 /\ Len(answers) \in Nat
          /\ answers'[Len(answers) + 1] = Composed
          /\ \A i \in 1..Len(answers) : answers'[i] = answers[i]
      BY <1>t, <2>2
    <3> QED BY <3>1 DEF AllHit
  <2> QED BY <1>a, <2>1, <2>2
<1>c. /\ wire \in Seq(Real)
      /\ (work_state = "write_bcak" /\ ~in_batch_get) =>
           ret_buf_offset + ret_bytes <= Len(ret_buf)
      /\ ~(work_state = "write_bcak" /\ ~in_batch_get) => ret_bytes = 0
  BY <1>h DEF Clean
<1>1. CASE UNCHANGED <<wire, work_state, in_batch_get, replyVars>>
  BY <1>c, <1>1 DEF Clean
<1>2. CASE ParseKeyed \/ TakeBody \/ StoreKvobj \/ BatchGathers \/ ParseBatchHead
  <2>1. /\ UNCHANGED <<wire, replyVars>>
        /\ work_state # "write_bcak" \/ in_batch_get
        /\ work_state' # "write_bcak"
    BY <1>2 DEF ParseKeyed, ParseBatchHead, TakeHead, HeadArrived, At, TakeBody,
                BodyRead, StoreKvobj, BatchGathers, ReadyForNext
  <2> QED BY <1>c, <2>1 DEF Clean
<1>3. CASE QueryKey
  <2>1. /\ wire' = wire /\ ret_bytes = 0 /\ work_state' = "write_bcak"
        /\ in_batch_get' = in_batch_get /\ Composed.hit
    BY <1>3, <1>c, <1>h DEF QueryKey, At
  <2>2. CASE ~in_batch_get
    <3>1. /\ ret_buf_offset' = 0 /\ ret_bytes' \in Nat
          /\ ret_bytes' = Len(ret_buf')
      BY <1>3, <2>1, <2>2, QueryPlain
    <3> QED BY <1>c, <2>1, <2>2, <3>1 DEF Clean
  <2>3. CASE in_batch_get
    <3>1. ret_bytes' = 0
      <4>1. ret_bytes' =
              ret_bytes + RetBytesAdded(Composed, HeadLen + KeyLen + Composed.body)
        BY <1>3 DEF QueryKey
      <4> QED BY <2>1, <2>3, <4>1 DEF RetBytesAdded
    <3> QED BY <1>c, <2>1, <2>3, <3>1 DEF Clean
  <2> QED BY <2>2, <2>3
<1>4. CASE WriteBack
  <2>1. /\ work_state = "write_bcak" /\ ~in_batch_get
        /\ ret_buf_offset + ret_bytes <= Len(ret_buf)
    BY <1>4, <1>c DEF WriteBack, At
  <2>2. /\ PlainPending \in Seq(Real) /\ Len(PlainPending) = ret_bytes
    <3>1. PlainPending = PlainBytes(ret_buf, ret_buf_offset, ret_bytes)
      BY DEF PlainPending, PlainBytes
    <3>2. ret_buf \in Seq(Real)
      BY DEF BuffersReal
    <3> QED BY <1>t, <2>1, <3>1, <3>2, PlainBytesType
  <2>3. CASE NotWritten(PlainPending)
    BY <1>1, <2>3 DEF NotWritten
  <2>4. ASSUME NEW n \in 1..ret_bytes, Accepts(PlainPending, n), PlainWritten(n),
               UNCHANGED <<ret_buf, batchVars>>
        PROVE  Clean'
    <3>1. wire' \in Seq(Real)
      BY <1>c, <2>2, <2>4, WritesReal
    <3>2. Len(ret_buf) \in Nat
      BY <1>t
    <3>3. IF work_state' = "write_bcak" THEN ret_buf_offset' + ret_bytes' <= Len(ret_buf')
          ELSE ret_bytes' = 0
      BY <1>t, <2>1, <2>4, <3>2 DEF PlainWritten, ReadyForNext
    <3> QED BY <2>1, <2>4, <3>1, <3>3 DEF Clean
  <2> QED BY <1>4, <2>3, <2>4 DEF WriteBack
<1>5. CASE SendBatch
  <2>1. batch_ret_vector # <<>> /\ in_batch_get /\ ret_bytes = 0
    BY <1>t, <1>c, <1>5 DEF SendBatch, BatchConsistent
  <2> DEFINE b == Head(batch_ret_vector)
  <2>2. BatchPending(b) \in Seq(Real)
    <3>1. b = batch_ret_vector[1] /\ b \in BatchBuf
          /\ 1 \in 1..Len(batch_ret_vector)
      BY <1>t, <2>1, BatchFirst
    <3>2. b.buf \in Seq(Real) /\ b.offset \in 0..Len(b.buf)
      BY <3>1 DEF BuffersReal, BatchBuf
    <3> QED BY <3>2, CutInTwo DEF BatchPending
  <2>3. CASE NotWritten(BatchPending(b))
    BY <1>1, <2>3 DEF NotWritten
  <2>4. ASSUME NEW n \in 1..Len(BatchPending(b)), Accepts(BatchPending(b), n),
               BatchWritten(n), UNCHANGED replyVars
        PROVE  Clean'
    <3>1. wire' \in Seq(Real)
      BY <1>c, <2>2, <2>4, WritesReal
    <3>2. in_batch_get' \/ work_state' = "parse_head"
      BY <2>1, <2>4 DEF BatchWritten, ReadyForNext
    <3> QED BY <2>1, <2>4, <3>1, <3>2 DEF Clean
  <2> QED BY <1>5, <2>3, <2>4 DEF SendBatch
<1>6. \/ UNCHANGED <<wire, work_state, in_batch_get, replyVars>>
      \/ ParseKeyed \/ TakeBody \/ StoreKvobj \/ BatchGathers \/ ParseBatchHead
      \/ QueryKey \/ WriteBack \/ SendBatch
  BY DEF Next, ProcessFunc, BatchOvercounted, Environment, ClientSend, ClientRecv, ClientClose,
         OtherStore, EventFires, ConnRead, NewCmd, Waiting, Closing, NeedHead,
         BadMagic, BatchNumError, Exit, ParseShort, ParseRejected, TakeHead,
         NeedBody, vars
<1> QED
  BY <1>1, <1>2, <1>3, <1>4, <1>5, <1>6

\* Until a GET misses, every byte written is of an answer.
THEOREM JunkCorrect == Spec => []JunkOnlyAfterMiss
<1>1. Clean => JunkOnlyAfterMiss
  <2> SUFFICES ASSUME Clean, AllHit PROVE Junk \notin ToSet(wire)
    BY DEF JunkOnlyAfterMiss, AllHit
  <2>1. wire \in Seq(Real)
    BY DEF Clean
  <2>2. \A i \in DOMAIN wire : wire[i] # Junk
    BY <2>1 DEF Real
  <2> QED BY <2>2 DEF ToSet
<1>2. IInv /\ BuffersReal /\ Clean /\ [Next]_vars => BuffersReal' /\ Clean'
  BY BuffersStep, CleanStep
<1> QED
  BY <1>1, <1>2, WireInit, Invariance, PTL DEF Spec
=============================================================================
