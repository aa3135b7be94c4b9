----------------------------- MODULE MicroTest -----------------------------
(***************************************************************************)
(* The load generator src/micro_test: threads share a database of packages *)
(* and claim chunks of it under g_mutex (data_dispatch); a package goes to *)
(* the connection its hash names, whose buffer is written when it holds    *)
(* SEND_BATCH packages, and in the end by clean (Connection.h).            *)
(*                                                                         *)
(* g_offset is g_count * PACKAGE_LEN throughout: both are g_count here.    *)
(* The sockets are blocking ones: a write takes the whole buffer, or fails *)
(* or is cut short, and then the process exits with all of its threads.    *)
(***************************************************************************)
EXTENDS Integers, Sequences, FiniteSets, FiniteSetsExt, SequencesExt

CONSTANTS
  Threads,   \* those that have connected to every port; the others return
  Ports,
  KvNum,     \* KV_NUM, the packages of the database
  SendBatch, \* SEND_BATCH
  RoundSet,  \* ROUND_SET, how often the database is sent
  PreHash    \* the port of each package

Packages == 0..KvNum - 1

NoThread == "no thread"

ASSUME MicroAssumption ==
  /\ KvNum \in Nat \ {0} /\ SendBatch \in Nat \ {0} /\ RoundSet \in Nat \ {0}
  /\ IsFiniteSet(Ports) /\ Ports # {} /\ IsFiniteSet(Threads) /\ Threads # {}
  /\ NoThread \notin Threads
  /\ PreHash \in [Packages -> Ports]

\* WORK_OP_NUM: the packages of a chunk.
WorkOpNum == SendBatch * Cardinality(Ports)

VARIABLES
  g_count, myround, stop,  \* the globals
  g_mutex,                 \* who holds it
  pc,
  end, from, to,  \* per thread: the claim; what is left of it is from..to - 1
  round,          \* history: in which round it was claimed
  send_buf,       \* per thread and port, the packages not written yet
  sent,           \* how often each package was written
  exited          \* a write has failed, and the process has ended

globals == <<g_count, myround, stop>>
claims  == <<end, from, to, round>>
vars    == <<globals, g_mutex, pc, claims, send_buf, sent, exited>>

Init ==
  /\ g_count = 0 /\ myround = RoundSet /\ stop = FALSE
  /\ g_mutex = NoThread
  /\ pc = [t \in Threads |-> "while"]
  /\ end = [t \in Threads |-> FALSE]
  /\ from = [t \in Threads |-> 0] /\ to = [t \in Threads |-> 0]
  /\ round = [t \in Threads |-> RoundSet]
  /\ send_buf = [t \in Threads |-> [p \in Ports |-> <<>>]]
  /\ sent = [k \in Packages |-> 0]
  /\ exited = FALSE

Goto(t, label) == pc' = [pc EXCEPT ![t] = label]

-----------------------------------------------------------------------------
\* while(!stop) reads stop without the mutex: a thread may see the old value.
While(t) ==
  /\ pc[t] = "while"
  /\ Goto(t, "lock") \/ (stop /\ Goto(t, "clean"))
  /\ UNCHANGED <<globals, g_mutex, claims, send_buf, sent>>

\* Mutant of MayLock: the mutex does not exclude.
MayLockAnyway == TRUE

MayLock == g_mutex = NoThread

Lock(t) ==
  /\ pc[t] = "lock" /\ MayLock
  /\ g_mutex' = t
  /\ Goto(t, "fetch")
  /\ UNCHANGED <<globals, claims, send_buf, sent>>

\* Another thread may have stopped since.
SeesStop(t) ==
  /\ pc[t] = "fetch" /\ stop
  /\ g_mutex' = NoThread
  /\ Goto(t, "clean")
  /\ UNCHANGED <<globals, claims, send_buf, sent>>

IsTail(count) == WorkOpNum >= KvNum - count

\* work_buf, and whether it is the tail.
Fetch(t) ==
  /\ pc[t] = "fetch" /\ ~stop
  /\ from' = [from EXCEPT ![t] = g_count]
  /\ to' = [to EXCEPT ![t] = IF IsTail(g_count) THEN KvNum ELSE g_count + WorkOpNum]
  /\ end' = [end EXCEPT ![t] = IsTail(g_count)]
  /\ round' = [round EXCEPT ![t] = myround]
  /\ Goto(t, "advance")
  /\ UNCHANGED <<globals, g_mutex, send_buf, sent>>

\* Mutant of Stops: one round more.
StopsLate(rounds) == rounds < 0

Stops(rounds) == rounds <= 0

Advance(t) ==
  /\ pc[t] = "advance"
  /\ IF end[t]
     THEN /\ myround' = myround - 1
          /\ stop' = Stops(myround - 1)
          /\ g_count' = IF Stops(myround - 1) THEN g_count ELSE 0
     ELSE /\ g_count' = g_count + WorkOpNum
          /\ UNCHANGED <<myround, stop>>
  /\ Goto(t, "unlock")
  /\ UNCHANGED <<g_mutex, claims, send_buf, sent>>

Unlock(t) ==
  /\ pc[t] = "unlock"
  /\ g_mutex' = NoThread
  /\ Goto(t, "send")
  /\ UNCHANGED <<globals, claims, send_buf, sent>>

-----------------------------------------------------------------------------
\* Where package k stands in a buffer.
Copies(buf, k) == {i \in DOMAIN buf : buf[i] = k}

\* How often the packages of a buffer were written, once it is.
Written(buf) == [k \in Packages |-> sent[k] + Cardinality(Copies(buf, k))]

\* Mutant of AfterWrite: offset and op_count are not reset.
AfterWriteKept(buf) == buf

AfterWrite(buf) == <<>>

IsFull(buf) == Len(buf) >= SendBatch

\* fetch_and_send of the next package of the claim.
FetchAndSend(t) ==
  /\ pc[t] = "send" /\ from[t] < to[t]
  /\ LET p   == PreHash[from[t]]
         buf == Append(send_buf[t][p], from[t])
     IN IF IsFull(buf)
        THEN /\ sent' = Written(buf)
             /\ send_buf' = [send_buf EXCEPT ![t][p] = AfterWrite(buf)]
        ELSE /\ send_buf' = [send_buf EXCEPT ![t][p] = buf]
             /\ UNCHANGED sent
  /\ from' = [from EXCEPT ![t] = @ + 1]
  /\ UNCHANGED <<globals, g_mutex, pc, end, to, round>>

ChunkSent(t) ==
  /\ pc[t] = "send" /\ from[t] = to[t]
  /\ Goto(t, "while")
  /\ UNCHANGED <<globals, g_mutex, claims, send_buf, sent>>

\* Mutant of ToClean: buffers are left as they are.
ToCleanNone(t) == {}

\* The connections with something left to write.
ToClean(t) == {p \in Ports : send_buf[t][p] # <<>>}

Clean(t) ==
  /\ pc[t] = "clean"
  /\ IF ToClean(t) = {}
     THEN Goto(t, "done") /\ UNCHANGED <<send_buf, sent>>
     ELSE \E p \in ToClean(t) :
            /\ sent' = Written(send_buf[t][p])
            /\ send_buf' = [send_buf EXCEPT ![t][p] = AfterWrite(@)]
            /\ UNCHANGED pc
  /\ UNCHANGED <<globals, g_mutex, claims>>

\* The thread is about to write to a connection; clean does so even when
\* nothing is left in the buffer.
AboutToWrite(t) ==
  \/ pc[t] = "clean"
  \/ /\ pc[t] = "send" /\ from[t] < to[t]
     /\ IsFull(Append(send_buf[t][PreHash[from[t]]], from[t]))

\* "write error": a write that took less than the buffer, or nothing because
\* the server has closed the connection, ends the process.
WriteFails(t) ==
  /\ AboutToWrite(t)
  /\ exited' = TRUE
  /\ UNCHANGED <<globals, g_mutex, pc, claims, send_buf, sent>>

-----------------------------------------------------------------------------
DataDispatch(t) ==
  /\ ~exited
  /\ \/ /\ \/ While(t) \/ Lock(t) \/ SeesStop(t) \/ Fetch(t) \/ Advance(t)
           \/ Unlock(t) \/ FetchAndSend(t) \/ ChunkSent(t) \/ Clean(t)
        /\ UNCHANGED exited
     \/ WriteFails(t)

\* main joins every thread.
AllDone == \A t \in Threads : pc[t] = "done"

Joined == (AllDone \/ exited) /\ UNCHANGED vars

Next == Joined \/ \E t \in Threads : DataDispatch(t)

Spec == Init /\ [][Next]_vars

\* Threads run; nobody waits for the mutex while the others make all progress.
FairSpec == Spec /\ \A t \in Threads : WF_vars(DataDispatch(t))

-----------------------------------------------------------------------------
(* Properties.                                                             *)

Labels ==
  {"while", "lock", "fetch", "advance", "unlock", "send", "clean", "done"}

\* Every variable has its type; the claim lies within the database.
TypeOK ==
  /\ g_count \in 0..KvNum /\ myround \in 0..RoundSet /\ stop \in BOOLEAN
  /\ g_mutex \in Threads \cup {NoThread}
  /\ pc \in [Threads -> Labels]
  /\ end \in [Threads -> BOOLEAN]
  /\ from \in [Threads -> 0..KvNum] /\ to \in [Threads -> 0..KvNum]
  /\ round \in [Threads -> 1..RoundSet]
  /\ send_buf \in [Threads -> [Ports -> Seq(Packages)]]
  /\ sent \in [Packages -> Nat]
  /\ exited \in BOOLEAN

\* Two threads never hold the same package in the same round: chunks are
\* claimed under g_mutex (micro_test.cpp:266-289).
ClaimsDisjoint ==
  \A t, u \in Threads :
    (t # u /\ round[t] = round[u]) =>
      \A k \in from[t]..to[t] - 1 : k \notin from[u]..to[u] - 1

\* The threads that have package k in what is left of their claim, and those
\* of them that have not advanced g_count yet.
Holders(k)   == {t \in Threads : from[t] <= k /\ k < to[t]}
Advancing(k) == {t \in Holders(k) : pc[t] = "advance"}

\* The places of package k in the buffers of the threads.
Places == Threads \X Ports \X (1..SendBatch)

Buffered(k) == {w \in Places : w[3] \in Copies(send_buf[w[1]][w[2]], k)}

\* How often package k is on its way.
Waiting(k) == Cardinality(Holders(k)) + Cardinality(Buffered(k))

\* How often it was claimed: in the rounds that ended, in this one, and by a
\* thread that has not advanced g_count yet.
Claimed(k) ==
  RoundSet - myround
    + (IF ~stop /\ k < g_count THEN 1 ELSE 0)
    + Cardinality(Advancing(k))

\* No package is lost or sent twice on its way from the database through a
\* claim and a connection's buffer to the socket (micro_test.cpp:271-305,
\* Connection.h:72-105), in any interleaving of the threads and across rounds.
Accounted == \A k \in Packages : sent[k] + Waiting(k) = Claimed(k)

\* When main has joined the threads every package was written once per round,
\* the tail and the half-filled buffers included (micro_test.cpp:298-312).
DoneSent == AllDone => \A k \in Packages : sent[k] = RoundSet

\* Unless a write fails, which ends the process with whatever was not sent
\* (Connection.h:77-83, 94-100), every thread ends, with every package written
\* (micro_test.cpp:264-312).
AllSent == <>(exited \/ (AllDone /\ \A k \in Packages : sent[k] = RoundSet))
=============================================================================
