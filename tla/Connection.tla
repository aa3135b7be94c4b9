----------------------------- MODULE Connection -----------------------------
(***************************************************************************)
(* One client connection of the server (src/server.cpp): the state machine *)
(* process_func runs each time libevent reports the socket readable, from  *)
(* conn_new to conn_close, with the client and the kernel's two socket     *)
(* buffers as its environment.  Each action is one turn of the             *)
(* while(!stop) loop, or one step of the environment.                      *)
(*                                                                         *)
(* Bytes are counted, not stored: what a header, key or value says is in   *)
(* the request record, a value is its length (0: absent), and a byte of a  *)
(* reply is the pair <<request, position in the reply>>.                   *)
(***************************************************************************)
EXTENDS Integers, Sequences, SequencesExt

CONSTANTS
  HeadLen,      \* sizeof(protocol_binary_request_header)
  KeyLen,       \* length of a key; the clients' keys all have the same
  NotFoundLen,  \* length of the text "NOTFOUND"
  ReadBufSize,  \* INIT_READ_BUF_SIZE
  BatchBufSize, \* BATCH_BUF_SIZE
  RoundNum,     \* ROUND_NUM
  SndCap,       \* bytes the kernel takes from the server ahead of the client
  RcvCap,       \* bytes the kernel takes from the client ahead of the server
  Keys,
  Vals,         \* lengths of the values this client stores
  OtherVals,    \* lengths of the values other connections store
  Programs,     \* the request sequences a client may send
  MayClose      \* whether the client may close, which it then does any time

Ops == {"SET", "GET", "BATCH", "SHORT", "REJECT"}

\* op "SHORT": keylen > totalbodylen.  "REJECT": an unknown opcode or lengths
\* the opcode does not allow.  num is the header's batchnum; val the length of
\* the value of a SET, of the whole body of a BATCH, SHORT or REJECT.
Request ==
  {r \in [op : Ops, key : Keys, val : Nat, num : Nat] :
     r.op = "SET" => r.val \in Vals}

ASSUME SizesAssumption ==
  /\ HeadLen \in Nat \ {0} /\ KeyLen \in Nat \ {0} /\ NotFoundLen \in Nat \ {0}
  /\ ReadBufSize \in Nat /\ HeadLen <= ReadBufSize /\ BatchBufSize \in Nat
  /\ MayClose \in BOOLEAN
  /\ RoundNum \in Nat \ {0} /\ SndCap \in Nat \ {0} /\ RcvCap \in Nat \ {0}

\* A SET is accepted only with a value of at least 8 = NotFoundLen bytes, and
\* a reply fits an empty batch buffer.
ASSUME ValuesAssumption ==
  /\ Vals \subseteq Nat /\ OtherVals \subseteq Nat
  /\ \A v \in Vals \cup OtherVals : v >= NotFoundLen
  /\ \A v \in Vals \cup OtherVals \cup {NotFoundLen} :
        HeadLen + KeyLen + v <= BatchBufSize

ASSUME ProgramsAssumption ==
  Programs \subseteq Seq(Request) /\ \A p \in Programs : p # <<>>

VARIABLES
  \* The client and the kernel.
  reqs,        \* what the client sends, fixed at the start
  out,         \* the request it is sending
  outLeft,     \* the bytes of it not sent yet
  sockIn,      \* bytes in the server's receive buffer
  peer,        \* "open", "fin" (closed), "reset" (error not read yet), "dead"
  wire,        \* every byte the kernel took from the server
  taken,       \* how many of them the client has read
  \* struct CONNECTION.
  conn_state, work_state,
  remaining_bytes,
  cur,         \* headers parsed so far: binary_header is that of reqs[cur]
  misaligned,  \* working_buf points into a body that is not to be read
  key, value,
  ret_buf, ret_buf_offset, ret_bytes,
  in_batch_get, batch_num, batch_count, batch_ret_vector,
  \* process_func and the process.
  running,     \* the handler is running
  inst_count,
  closed,      \* conn_close has been called
  up,          \* the server has not called exit
  \* The shared table, and history.
  store,
  answers,     \* the replies composed, oldest first
  burst        \* requests executed by this run of the handler

netVars   == <<out, outLeft, sockIn, peer, wire, taken>>
stateVars == <<conn_state, work_state>>
parseVars == <<cur, remaining_bytes, misaligned, key, value>>
replyVars == <<ret_buf, ret_buf_offset, ret_bytes>>
batchVars == <<in_batch_get, batch_num, batch_count, batch_ret_vector>>
schedVars == <<running, inst_count, closed, up>>
dataVars  == <<store, answers, burst>>

vars == <<reqs, netVars, stateVars, parseVars, replyVars, batchVars,
          schedVars, dataVars>>

-----------------------------------------------------------------------------
(* Requests, replies and the socket.                                       *)

\* The bytes try_read_key_value consumes; for the others, the bytes the client
\* sends after the header, of which a batch head should have none.
BodyLen(r) ==
  CASE r.op = "SET" -> KeyLen + r.val
    [] r.op = "GET" -> KeyLen
    [] OTHER        -> r.val

WireLen(r) == HeadLen + BodyLen(r)

Junk == <<0, 0>>

\* The bytes of a reply: head, key, and the value or "NOTFOUND".
Reply(a) == [p \in 1..(HeadLen + KeyLen + a.body) |-> <<a.req, p>>]

\* What write() is given for a plain reply: bytes past the reply are whatever
\* ret_buf holds there.
PlainPending ==
  [p \in 1..ret_bytes |-> IF ret_buf_offset + p <= Len(ret_buf)
                          THEN ret_buf[ret_buf_offset + p] ELSE Junk]

BatchPending(b) == SubSeq(b.buf, b.offset + 1, Len(b.buf))

Room == SndCap - (Len(wire) - taken)

Least(a, b) == IF a <= b THEN a ELSE b

\* write() takes the first n > 0 bytes of what it is given: what fits while
\* the client is there; everything, to be discarded and answered by a reset,
\* once it has closed.
Accepts(pending, n) ==
  \/ /\ peer = "open" /\ Room > 0 /\ pending # <<>>
     /\ n = Least(Len(pending), Room)
     /\ wire' = wire \o SubSeq(pending, 1, n)
     /\ UNCHANGED <<peer, sockIn>>
  \/ /\ peer = "fin" /\ pending # <<>>
     /\ n = Len(pending)
     /\ peer' \in {"fin", "reset"}
     /\ sockIn' \in (IF peer' = "reset" THEN {sockIn, 0} ELSE {sockIn})
     /\ wire' = wire

\* EAGAIN; a write of no bytes also returns 0 and leaves errno as it was.
Blocks(pending) == pending = <<>> \/ (peer = "open" /\ Room <= 0)

Fails(pending) == pending = <<>> \/ peer \in {"reset", "dead"}

-----------------------------------------------------------------------------
(* conn_new.                                                               *)

\* std::string's initial value.
NoKey == <<>>

ServerInit ==
  /\ conn_state = "conn_read" /\ work_state = "parse_head"
  /\ remaining_bytes = 0 /\ cur = 0 /\ misaligned = FALSE
  /\ key = NoKey /\ value = 0
  /\ ret_buf = <<>> /\ ret_buf_offset = 0 /\ ret_bytes = 0
  /\ in_batch_get = FALSE /\ batch_num = 0 /\ batch_count = 0
  /\ batch_ret_vector = <<>>
  /\ running = FALSE /\ inst_count = 0 /\ closed = FALSE /\ up = TRUE

Init ==
  /\ reqs \in Programs
  /\ out = 1 /\ outLeft = WireLen(reqs[1])
  /\ sockIn = 0 /\ peer = "open" /\ wire = <<>> /\ taken = 0
  /\ ServerInit
  /\ store = [k \in Keys |-> 0] /\ answers = <<>> /\ burst = 0

-----------------------------------------------------------------------------
(* The client, the other connections and libevent.                         *)

ClientSend ==
  /\ up /\ ~closed /\ peer = "open"
  /\ \E n \in 1..outLeft :
       /\ sockIn + n <= RcvCap
       /\ sockIn' = sockIn + n
       /\ IF n = outLeft /\ out < Len(reqs)
          THEN out' = out + 1 /\ outLeft' = WireLen(reqs[out + 1])
          ELSE out' = out /\ outLeft' = outLeft - n
  /\ UNCHANGED <<reqs, peer, wire, taken, stateVars, parseVars, replyVars,
                 batchVars, schedVars, dataVars>>

ClientRecv ==
  /\ peer = "open"
  /\ \E n \in taken + 1 .. Len(wire) : taken' = n
  /\ UNCHANGED <<reqs, out, outLeft, sockIn, peer, wire, stateVars, parseVars,
                 replyVars, batchVars, schedVars, dataVars>>

\* A close with answers unread resets the connection, which may discard what
\* the server has not read.
ClientClose ==
  /\ MayClose
  /\ up /\ ~closed /\ peer = "open"
  /\ peer' = IF taken < Len(wire) THEN "reset" ELSE "fin"
  /\ sockIn' \in (IF peer' = "reset" THEN {sockIn, 0} ELSE {sockIn})
  /\ UNCHANGED <<reqs, out, outLeft, wire, taken, stateVars, parseVars,
                 replyVars, batchVars, schedVars, dataVars>>

OtherStore ==
  /\ up
  /\ \E k \in Keys, v \in OtherVals : store' = [store EXCEPT ![k] = v]
  /\ UNCHANGED <<reqs, netVars, stateVars, parseVars, replyVars, batchVars,
                 schedVars, answers, burst>>

\* The event is EV_READ | EV_PERSIST and level triggered: it fires while there
\* are bytes, an end of file or an error to read, and for nothing else.
Readable == sockIn > 0 \/ peer # "open"

EventFires ==
  /\ up /\ ~closed /\ ~running
  /\ Readable
  /\ running' = TRUE /\ inst_count' = 0 /\ burst' = 0
  /\ UNCHANGED <<reqs, netVars, stateVars, parseVars, replyVars, batchVars,
                 closed, up, store, answers>>

-----------------------------------------------------------------------------
(* conn_read.                                                              *)

\* Mutant of Avail: the unparsed bytes are not counted.
AvailWithUnparsed == ReadBufSize

\* The room left in read_buf once the unparsed bytes are moved to its front.
Avail == ReadBufSize - remaining_bytes

\* Mutants of TryRead: the end of file overtakes the bytes before it; the end
\* of file is not told from there being no data.
TryReadEndFirst ==
  IF Avail = 0 \/ peer = "fin" THEN "READ_ERROR"
  ELSE IF sockIn > 0 THEN "READ_DATA_RECEIVED"
  ELSE IF peer \in {"open", "reset"} THEN "READ_NO_DATA_RECEIVED"
  ELSE "READ_ERROR"

TryReadNoEnd ==
  IF sockIn > 0 /\ Avail > 0 THEN "READ_DATA_RECEIVED"
  ELSE "READ_NO_DATA_RECEIVED"

\* How try_read_network ends; a reset is an error other than EAGAIN, reported
\* once, and is not told from there being no data.
TryRead ==
  IF Avail = 0 THEN "READ_ERROR"
  ELSE IF sockIn > 0 THEN "READ_DATA_RECEIVED"
  ELSE IF peer \in {"open", "reset"} THEN "READ_NO_DATA_RECEIVED"
  ELSE "READ_ERROR"

ConnRead ==
  /\ running /\ conn_state = "conn_read"
  /\ \/ /\ TryRead = "READ_DATA_RECEIVED"
        /\ LET res == Least(Avail, sockIn) IN
             /\ remaining_bytes' = remaining_bytes + res
             /\ sockIn' = sockIn - res
        /\ conn_state' = "conn_deal_with"
        /\ UNCHANGED peer
     \/ /\ TryRead = "READ_NO_DATA_RECEIVED"
        /\ peer' = IF peer = "reset" THEN "dead" ELSE peer
        /\ conn_state' = "conn_waiting"
        /\ UNCHANGED <<remaining_bytes, sockIn>>
     \/ /\ TryRead = "READ_ERROR"
        /\ conn_state' = "conn_closing"
        /\ UNCHANGED <<peer, remaining_bytes, sockIn>>
  /\ UNCHANGED <<reqs, out, outLeft, wire, taken, work_state, cur, misaligned,
                 key, value, replyVars, batchVars, schedVars, dataVars>>

-----------------------------------------------------------------------------
(* conn_new_cmd, conn_waiting, conn_closing.                               *)

\* Mutant of GoesOn: one request too many.
GoesOnOnce(count) == count <= RoundNum

GoesOn(count) == count < RoundNum

\* Mutant of ResetTo: the bytes already read are left for the next event.
ResetToWaiting == "conn_waiting"

\* reset_cmd_handler.
ResetTo == IF remaining_bytes > 0 THEN "conn_deal_with" ELSE "conn_waiting"

NewCmd ==
  /\ running /\ conn_state = "conn_new_cmd"
  /\ inst_count' = inst_count + 1
  /\ IF GoesOn(inst_count + 1)
     THEN conn_state' = ResetTo /\ UNCHANGED running
     ELSE running' = FALSE /\ UNCHANGED conn_state
  /\ UNCHANGED <<reqs, netVars, work_state, parseVars, replyVars, batchVars,
                 closed, up, dataVars>>

\* Mutant of AfterWaiting: the socket is read whatever was waited for.
AfterWaitingRead(ws) == "conn_read"

\* Where the next event finds the handler.
AfterWaiting(ws) ==
  CASE ws = "write_bcak" -> "conn_deal_with"
    [] ws \in {"parse_head", "read_key_value"} -> "conn_read"
    [] OTHER -> "conn_closing"

Waiting ==
  /\ running /\ conn_state = "conn_waiting"
  /\ conn_state' = AfterWaiting(work_state)
  /\ running' = FALSE
  /\ UNCHANGED <<reqs, netVars, work_state, parseVars, replyVars, batchVars,
                 inst_count, closed, up, dataVars>>

Closing ==
  /\ running /\ conn_state = "conn_closing"
  /\ closed' = TRUE /\ running' = FALSE
  /\ UNCHANGED <<reqs, netVars, stateVars, parseVars, replyVars, batchVars,
                 inst_count, up, dataVars>>

-----------------------------------------------------------------------------
(* conn_deal_with: parse_head.                                             *)

At(ws) == running /\ conn_state = "conn_deal_with" /\ work_state = ws

Exit ==
  /\ up' = FALSE /\ running' = FALSE
  /\ UNCHANGED <<reqs, netVars, stateVars, parseVars, replyVars, batchVars,
                 inst_count, closed, dataVars>>

\* Mutant of Incomplete: the handler keeps looking at the bytes it has.
IncompleteRetry == "conn_deal_with"

\* Where a request of which only a part has arrived leaves the handler.
Incomplete == "conn_waiting"

NeedHead ==
  /\ At("parse_head")
  /\ remaining_bytes < 1 \/ (~misaligned /\ remaining_bytes < HeadLen)
  /\ conn_state' = Incomplete
  /\ UNCHANGED <<reqs, netVars, work_state, parseVars, replyVars, batchVars,
                 schedVars, dataVars>>

\* "error magic": no body starts with the byte that starts a header.
BadMagic ==
  /\ At("parse_head") /\ misaligned /\ remaining_bytes >= 1
  /\ Exit

HeadArrived ==
  /\ At("parse_head") /\ ~misaligned
  /\ remaining_bytes >= HeadLen /\ cur < Len(reqs)

WrongBatchNum(r) == in_batch_get /\ batch_count # r.num

BatchNumError ==
  /\ HeadArrived /\ WrongBatchNum(reqs[cur + 1])
  /\ Exit

\* Mutant of AfterHead: the header is not taken off the unparsed bytes.
AfterHeadKept == remaining_bytes

AfterHead == remaining_bytes - HeadLen

TakeHead(op) ==
  /\ HeadArrived
  /\ reqs[cur + 1].op = op /\ ~WrongBatchNum(reqs[cur + 1])
  /\ cur' = cur + 1
  /\ remaining_bytes' = AfterHead
  /\ UNCHANGED <<reqs, netVars, key, value, replyVars, schedVars, dataVars>>

ParseKeyed ==
  /\ TakeHead("SET") \/ TakeHead("GET")
  /\ work_state' = "read_key_value"
  /\ UNCHANGED <<conn_state, misaligned, batchVars>>

EmptyBuf == [buf |-> <<>>, offset |-> 0]

\* A body is not looked for, and is taken for the next header.
ParseBatchHead ==
  /\ TakeHead("BATCH")
  /\ batch_num' = reqs[cur + 1].num /\ batch_count' = 0
  /\ in_batch_get' = TRUE
  /\ batch_ret_vector' = Append(batch_ret_vector, EmptyBuf)
  /\ work_state' = "parse_head"
  /\ misaligned' = (BodyLen(reqs[cur + 1]) > 0)
  /\ UNCHANGED conn_state

ParseShort ==
  /\ TakeHead("SHORT")
  /\ conn_state' = "conn_closing"
  /\ UNCHANGED <<work_state, misaligned, batchVars>>

\* Only the header is dropped; work_state stays parse_head.
ParseRejected ==
  /\ TakeHead("REJECT")
  /\ misaligned' = (BodyLen(reqs[cur + 1]) > 0)
  /\ UNCHANGED <<stateVars, batchVars>>

-----------------------------------------------------------------------------
(* conn_deal_with: read_key_value, store_kvobj, query_key.                 *)

\* The work state try_read_key_value moves to.
BodyRead(op) == IF op = "SET" THEN "store_kvobj" ELSE "query_key"

NeedBody ==
  /\ At("read_key_value")
  /\ remaining_bytes < BodyLen(reqs[cur])
  /\ conn_state' = Incomplete
  /\ UNCHANGED <<reqs, netVars, work_state, parseVars, replyVars, batchVars,
                 schedVars, dataVars>>

TakeBody ==
  /\ At("read_key_value")
  /\ LET r == reqs[cur] IN
       /\ remaining_bytes >= BodyLen(r)
       /\ remaining_bytes' = remaining_bytes - BodyLen(r)
       /\ key' = r.key
       /\ value' = IF r.op = "SET" THEN r.val ELSE value
       /\ work_state' = BodyRead(r.op)
  /\ UNCHANGED <<reqs, netVars, conn_state, cur, misaligned, replyVars,
                 batchVars, schedVars, dataVars>>

StoreKvobj ==
  /\ At("store_kvobj")
  /\ store' = [store EXCEPT ![key] = value]
  /\ burst' = burst + 1
  /\ work_state' = "parse_head" /\ conn_state' = "conn_new_cmd"
  /\ UNCHANGED <<reqs, netVars, parseVars, replyVars, batchVars, schedVars,
                 answers>>

\* Mutant of NeedsNewBuf: the header is not counted.
NeedsNewBufNoHead(b, len) == Len(b.buf) + KeyLen + len > BatchBufSize

\* con_ret_buf's check, made with the length of c->value: on a miss that is
\* what the connection stored or found last, not the 8 bytes to be written.
NeedsNewBuf(b, len) == Len(b.buf) + HeadLen + KeyLen + len > BatchBufSize

\* Mutant of AnswerLen: a miss answers what c->value held before.
AnswerLenStale(k) == IF store[k] # 0 THEN store[k] ELSE value

AnswerLen(k) == IF store[k] # 0 THEN store[k] ELSE NotFoundLen

Composed == [req |-> cur, hit |-> store[key] # 0, body |-> AnswerLen(key)]

IntoBatch(a, len) ==
  LET vec == IF NeedsNewBuf(Last(batch_ret_vector), len)
             THEN Append(batch_ret_vector, EmptyBuf) ELSE batch_ret_vector
  IN [vec EXCEPT ![Len(vec)].buf = @ \o Reply(a)]

\* Mutant of RetBytesAdded: a hit is added twice as a miss is.
RetBytesAddedTwice(a, len) == len + (IF in_batch_get THEN 0 ELSE len)

\* A miss adds the reply to ret_bytes even in a batch, and outside one adds
\* it twice.
RetBytesAdded(a, len) ==
  (IF a.hit THEN 0 ELSE len) + (IF in_batch_get THEN 0 ELSE len)

\* hashTable.find and con_ret_buf.
QueryKey ==
  /\ At("query_key")
  /\ LET a   == Composed
         len == HeadLen + KeyLen + a.body
     IN /\ answers' = Append(answers, a)
        /\ value' = IF a.hit THEN a.body ELSE value
        /\ ret_bytes' = ret_bytes + RetBytesAdded(a, len)
        /\ IF in_batch_get
           THEN /\ batch_ret_vector' = IntoBatch(a, value')
                /\ batch_count' = batch_count + 1
                /\ UNCHANGED ret_buf
           ELSE /\ ret_buf' = SubSeq(ret_buf, 1, ret_buf_offset) \o Reply(a)
                /\ UNCHANGED <<batch_ret_vector, batch_count>>
  /\ burst' = burst + 1
  /\ work_state' = "write_bcak"
  /\ UNCHANGED <<reqs, netVars, conn_state, cur, remaining_bytes, misaligned,
                 key, ret_buf_offset, in_batch_get, batch_num, schedVars,
                 store>>

-----------------------------------------------------------------------------
(* conn_deal_with: write_bcak.                                             *)

ReadyForNext == work_state' = "parse_head" /\ conn_state' = "conn_new_cmd"

\* write() returned an error, or nothing.
NotWritten(pending) ==
  /\ \/ Blocks(pending) /\ conn_state' = "conn_waiting"
     \/ Fails(pending) /\ conn_state' = "conn_closing"
  /\ UNCHANGED <<netVars, work_state, replyVars, batchVars>>

PlainWritten(n) ==
  \/ /\ n = ret_bytes
     /\ ret_buf_offset' = 0 /\ ret_bytes' = 0
     /\ ReadyForNext
  \/ /\ n < ret_bytes
     /\ ret_buf_offset' = ret_buf_offset + n /\ ret_bytes' = ret_bytes - n
     /\ conn_state' = "conn_waiting" /\ UNCHANGED work_state

WriteBack ==
  /\ At("write_bcak") /\ ~in_batch_get
  /\ \/ \E n \in 1..ret_bytes :
          /\ Accepts(PlainPending, n) /\ PlainWritten(n)
          /\ UNCHANGED <<out, outLeft, taken, ret_buf, batchVars>>
     \/ NotWritten(PlainPending)
  /\ UNCHANGED <<reqs, parseVars, schedVars, dataVars>>

\* Mutant of Gathering: the reply that completes the batch is only stored.
GatheringAll == batch_count <= batch_num

Gathering == batch_count < batch_num

\* send_batch before the batch is complete: the reply stays in its buffer.
BatchGathers ==
  /\ At("write_bcak") /\ in_batch_get /\ Gathering
  /\ ReadyForNext
  /\ UNCHANGED <<reqs, netVars, parseVars, replyVars, batchVars, schedVars,
                 dataVars>>

\* Mutant of AdvanceBatch: a partial write is written again from its start.
AdvanceBatchNot(n) == batch_ret_vector

AdvanceBatch(n) ==
  [batch_ret_vector EXCEPT ![1].offset = @ + n]

BatchWritten(n) ==
  LET it == Head(batch_ret_vector) IN
  \/ /\ n < Len(it.buf) - it.offset
     /\ batch_ret_vector' = AdvanceBatch(n)
     /\ conn_state' = "conn_waiting"
     /\ UNCHANGED <<work_state, in_batch_get, batch_num, batch_count>>
  \/ /\ n = Len(it.buf) - it.offset
     /\ batch_ret_vector' = Tail(batch_ret_vector)
     /\ IF Len(batch_ret_vector) = 1
        THEN /\ in_batch_get' = FALSE /\ batch_num' = 0 /\ batch_count' = 0
             /\ ReadyForNext
        ELSE /\ conn_state' = "conn_waiting"
             /\ UNCHANGED <<work_state, in_batch_get, batch_num, batch_count>>

SendBatch ==
  /\ At("write_bcak") /\ in_batch_get /\ batch_count = batch_num
  /\ LET pending == BatchPending(Head(batch_ret_vector)) IN
       \/ \E n \in 1..Len(pending) :
            /\ Accepts(pending, n) /\ BatchWritten(n)
            /\ UNCHANGED <<out, outLeft, taken, replyVars>>
       \/ NotWritten(pending)
  /\ UNCHANGED <<reqs, parseVars, schedVars, dataVars>>

\* send_batch with more replies than were announced, which a head that
\* announces none brings about: no state changes, and the loop goes on.
BatchOvercounted ==
  /\ At("write_bcak") /\ in_batch_get /\ batch_count > batch_num
  /\ UNCHANGED vars

-----------------------------------------------------------------------------
ProcessFunc ==
  \/ ConnRead \/ NewCmd \/ Waiting \/ Closing
  \/ NeedHead \/ BadMagic \/ BatchNumError
  \/ ParseKeyed \/ ParseBatchHead \/ ParseShort \/ ParseRejected
  \/ NeedBody \/ TakeBody \/ StoreKvobj \/ QueryKey
  \/ WriteBack \/ BatchGathers \/ SendBatch \/ BatchOvercounted

Environment == ClientSend \/ ClientRecv \/ ClientClose \/ OtherStore

Next == ProcessFunc \/ EventFires \/ Environment

Spec == Init /\ [][Next]_vars

\* The worker's event loop is never blocked by anything but a handler, which
\* the operating system runs; the client sends what it has and reads answers.
Fairness ==
  /\ WF_vars(ProcessFunc) /\ WF_vars(EventFires)
  /\ WF_vars(ClientSend) /\ WF_vars(ClientRecv)

FairSpec == Spec /\ Fairness

-----------------------------------------------------------------------------
(* Type correctness.                                                       *)

ConnStates == {"conn_read", "conn_new_cmd", "conn_deal_with", "conn_waiting",
               "conn_closing"}

WorkStates == {"parse_head", "read_key_value", "store_kvobj", "query_key",
               "write_bcak"}

Byte == Nat \X Nat

BatchBuf == [buf : Seq(Byte), offset : Nat]

Answer == [req : Nat, hit : BOOLEAN, body : Nat]

\* Every variable has its type; in particular the bytes not parsed never
\* exceed read_buf (server.cpp:320) and cur stays within the stream.
TypeOK ==
  /\ reqs \in Programs
  /\ out \in 1..Len(reqs) /\ outLeft \in Nat /\ sockIn \in Nat
  /\ peer \in {"open", "fin", "reset", "dead"}
  /\ wire \in Seq(Byte) /\ taken \in 0..Len(wire)
  /\ conn_state \in ConnStates /\ work_state \in WorkStates
  /\ cur \in 0..Len(reqs) /\ remaining_bytes \in 0..ReadBufSize
  /\ misaligned \in BOOLEAN
  /\ key \in Keys \cup {NoKey} /\ value \in Nat
  /\ ret_buf \in Seq(Byte) /\ ret_buf_offset \in Nat /\ ret_bytes \in Nat
  /\ in_batch_get \in BOOLEAN
  /\ batch_num \in Nat /\ batch_count \in Nat
  /\ batch_ret_vector \in Seq(BatchBuf)
  /\ running \in BOOLEAN /\ inst_count \in Nat
  /\ closed \in BOOLEAN /\ up \in BOOLEAN
  /\ store \in [Keys -> Nat] /\ answers \in Seq(Answer) /\ burst \in Nat

-----------------------------------------------------------------------------
(* Safety.                                                                 *)

\* The two state machines agree at every turn: the "work state error" branch
\* of conn_waiting (server.cpp:497) is never taken, the socket is read only
\* for a request that is incomplete, and a handler that returned left the
\* connection where the next event can take it up.
PhasesAgree ==
  /\ conn_state = "conn_waiting" =>
       work_state \in {"parse_head", "read_key_value", "write_bcak"}
  /\ conn_state = "conn_read" => work_state \in {"parse_head", "read_key_value"}
  /\ conn_state = "conn_new_cmd" => work_state = "parse_head"
  /\ (~running /\ ~closed /\ up) =>
       \/ conn_state \in {"conn_read", "conn_new_cmd"}
       \/ conn_state = "conn_deal_with" /\ work_state = "write_bcak"
  /\ ret_buf_offset > 0 => work_state = "write_bcak" /\ ~in_batch_get

\* The bytes of the first n requests, those of them the server parses (only
\* SET and GET lose more than the header), and those the client has sent.
StreamLen[n \in Nat] ==
  IF n = 0 THEN 0 ELSE StreamLen[n - 1] + WireLen(reqs[n])

ParsedLen[n \in Nat] ==
  IF n = 0 THEN 0
  ELSE ParsedLen[n - 1] + (IF reqs[n].op \in {"SET", "GET"}
                           THEN WireLen(reqs[n]) ELSE HeadLen)

Sent == StreamLen[out] - outLeft

Parsed ==
  ParsedLen[cur]
    - (IF work_state = "read_key_value" THEN BodyLen(reqs[cur]) ELSE 0)

\* No byte of the stream is lost, parsed twice or taken for another request's
\* (server.cpp:147, 161, 256, 312-330), however the stream was cut into
\* reads: unless a reset discarded some, the bytes in the socket, in read_buf
\* and parsed are together the bytes sent.
StreamAligned ==
  peer \in {"open", "fin"} => sockIn + remaining_bytes + Parsed = Sent

\* The bytes of bs that are not junk, and the bytes of the answers so far.
Substance(bs) ==
  FlattenSeq([i \in 1..Len(bs) |-> IF bs[i] = Junk THEN <<>> ELSE <<bs[i]>>])

AnswerBytes == FlattenSeq([i \in 1..Len(answers) |-> Reply(answers[i])])

\* Partial writes, retries and several batch buffers never reorder, repeat or
\* drop a byte of an answer (server.cpp:109-128, 469-479): without the junk
\* that follows a missed GET, the bytes written are a prefix of the answers
\* in the order they were composed.
WireInOrder == IsPrefix(Substance(wire), AnswerBytes)

\* A client whose GETs all hit is never sent a byte that is not of an answer.
JunkOnlyAfterMiss ==
  (\A i \in 1..Len(answers) : answers[i].hit) => Junk \notin ToSet(wire)

\* A GET was answered in a batch that was announced with no requests.
EmptyBatchAnswered == in_batch_get /\ batch_num = 0 /\ batch_count = 1

BatchComplete == batch_num > 0 /\ batch_count = batch_num

\* The batch variables of the connection agree (server.cpp:93-120, 200-207):
\* a batch has buffers exactly while it is open, never holds more replies
\* than announced unless that were none, is written only once a GET was
\* answered in it, and not before it is complete, which it is only while it
\* is being written.
BatchConsistent ==
  /\ in_batch_get <=> batch_ret_vector # <<>>
  /\ ~in_batch_get => batch_num = 0 /\ batch_count = 0
  /\ batch_count <= batch_num \/ EmptyBatchAnswered
  /\ BatchComplete \/ EmptyBatchAnswered => work_state = "write_bcak"
  /\ in_batch_get /\ work_state = "write_bcak" => batch_count > 0
  /\ ~BatchComplete =>
       \A i \in DOMAIN batch_ret_vector : batch_ret_vector[i].offset = 0

\* The room check of con_ret_buf with a stale value length (server.cpp:39-40)
\* lets a buffer exceed BATCH_BUF_SIZE by at most the length of "NOTFOUND".
BatchOverrunBounded ==
  \A i \in DOMAIN batch_ret_vector :
    Len(batch_ret_vector[i].buf) <= BatchBufSize + NotFoundLen

\* One event executes at most ROUND_NUM requests of a connection, so that the
\* others of the worker get their turn (server.cpp:388, README.md:39).
RoundBounded == burst <= RoundNum

\* Requests that have taken effect.
Served ==
  IF work_state \in {"read_key_value", "store_kvobj", "query_key"}
  THEN cur - 1 ELSE cur

OnlySets ==
  \A i \in DOMAIN reqs : reqs[i].op = "SET" /\ BodyLen(reqs[i]) <= ReadBufSize

\* The requests the client has sent whole.
WholeSent == IF outLeft = 0 THEN out ELSE out - 1

\* When a client that only stores, values that fit read_buf, closes, at any
\* point of its stream, the end of file is seen only once every request it
\* had sent whole was executed, also when ROUND_NUM stopped the handler
\* before (server.cpp:333, 388-393); the request cut off is not.
NothingLostAtClose ==
  OnlySets /\ closed => Served = WholeSent

\* The connection implements the request stream it promises.
Promise == INSTANCE RequestStream WITH pos <- Served

PromiseKept == Promise!Spec

-----------------------------------------------------------------------------
(* Liveness.                                                               *)

\* The handler returns to the event loop (server.cpp:361): the one turn that
\* can repeat for ever, and hold the worker with all of its connections, is
\* send_batch after an answer in a batch announced with no requests.
HandlerReturns == running ~> (~running \/ EmptyBatchAnswered)

\* A connection whose client is gone is closed, or the server has exited, or
\* its handler is in that turn.
ClosedEventually == (peer # "open") ~> (closed \/ ~up \/ EmptyBatchAnswered)

\* Every request is executed, and its answer written out.
EveryRequestServed ==
  <>(Served = Len(reqs) /\ work_state = "parse_head")

-----------------------------------------------------------------------------
(* What comments of the code say, and the code does not do.                *)

\* server.cpp:69 "if query hit , return key-value else return key-NOTFOUND":
\* the client is sent bytes of answers and nothing else.
NoJunk == Junk \notin ToSet(wire)

\* server.cpp:476 "only part of data was wrote back, continue to write".
PartialWriteContinues ==
  (ret_buf_offset > 0) ~> (ret_buf_offset = 0 \/ conn_state = "conn_closing")
=============================================================================
