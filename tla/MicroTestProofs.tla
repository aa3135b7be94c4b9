-------------------------- MODULE MicroTestProofs --------------------------
(***************************************************************************)
(* For every number of threads, ports, packages and rounds: the types of   *)
(* MicroTest, that no two threads hold the same package in a round, that   *)
(* no package is lost or doubled on its way from the database to a socket  *)
(* (Accounted), and that each was sent RoundSet times when the threads     *)
(* have ended (DoneSent).                                                  *)
(*                                                                         *)
(* ClaimsDisjoint is not inductive: that a new claim, which begins at      *)
(* g_count, meets no other needs that the claims of this round end there   *)
(* (ClaimsBelow), except the one of the thread about to advance g_count,   *)
(* which is alone under the mutex (Exclusive).  Accounted counts who holds *)
(* a package and its places in the buffers: each step changes one of these *)
(* sets by one element, or empties one buffer.                             *)
(***************************************************************************)
EXTENDS MicroTest, TLAPS, FiniteSetTheorems

Critical == {"fetch", "advance", "unlock"}

\* Whoever is between lock and unlock holds the mutex.
Exclusive == \A t \in Threads : pc[t] \in Critical => g_mutex = t

\* The globals while the rounds go on.
RoundsGoOn == ~stop => myround >= 1

\* A claim not yet taken off the database is the next one.
AboutToAdvance ==
  \A t \in Threads : pc[t] = "advance" =>
    /\ ~stop /\ round[t] = myround /\ from[t] = g_count
    /\ ~end[t] => to[t] = g_count + WorkOpNum

\* Claims are of this round or of one before; those of this round end where
\* the rest of the database begins.
ClaimsBelow ==
  \A t \in Threads :
    /\ from[t] <= to[t]
    /\ round[t] >= myround
    /\ round[t] = myround /\ pc[t] # "advance" => to[t] <= g_count

Apart ==
  \A t, u \in Threads :
    (t # u /\ round[t] = round[u]) => to[t] <= from[u] \/ to[u] <= from[t]

IInv ==
  TypeOK /\ Exclusive /\ RoundsGoOn /\ AboutToAdvance /\ ClaimsBelow /\ Apart

-----------------------------------------------------------------------------
\* A chunk holds at least one package.
LEMMA ChunkSize == WorkOpNum \in Nat \ {0}
<1>1. Cardinality(Ports) \in Nat
  BY MicroAssumption, FS_CardinalityType
<1>2. Cardinality(Ports) # 0
  BY MicroAssumption, FS_EmptySet
<1> QED
  BY <1>1, <1>2, MicroAssumption DEF WorkOpNum

\* Writing a buffer keeps the counts natural numbers.
LEMMA WrittenType ==
  ASSUME sent \in [Packages -> Nat], NEW buf \in Seq(Packages)
  PROVE  Written(buf) \in [Packages -> Nat]
<1> SUFFICES ASSUME NEW k \in Packages
             PROVE  Cardinality(Copies(buf, k)) \in Nat
  BY DEF Written
<1>1. IsFiniteSet(1..Len(buf))
  BY FS_Interval
<1>2. Copies(buf, k) \subseteq 1..Len(buf)
  BY DEF Copies
<1> QED
  BY <1>1, <1>2, FS_Subset, FS_CardinalityType

LEMMA InitInv == Init => IInv
<1> SUFFICES ASSUME Init PROVE IInv
  OBVIOUS
<1> USE MicroAssumption DEF Init
<1>1. TypeOK
  <2>1. <<>> \in Seq(Packages)
    OBVIOUS
  <2>2. send_buf \in [Threads -> [Ports -> Seq(Packages)]]
    BY <2>1
  <2>3. myround \in 0..RoundSet /\ round \in [Threads -> 1..RoundSet]
    OBVIOUS
  <2>4. sent \in [Packages -> Nat]
    OBVIOUS
  <2>5. /\ g_count \in 0..KvNum
        /\ from \in [Threads -> 0..KvNum] /\ to \in [Threads -> 0..KvNum]
    OBVIOUS
  <2>6. /\ stop \in BOOLEAN /\ exited \in BOOLEAN /\ end \in [Threads -> BOOLEAN]
        /\ g_mutex \in Threads \cup {NoThread} /\ pc \in [Threads -> Labels]
    BY DEF Labels
  <2> QED
    BY <2>2, <2>3, <2>4, <2>5, <2>6, Zenon DEF TypeOK
<1>2. Exclusive /\ RoundsGoOn /\ AboutToAdvance /\ ClaimsBelow /\ Apart
  BY DEF Exclusive, RoundsGoOn, AboutToAdvance, ClaimsBelow, Apart, Critical
<1> QED
  BY <1>1, <1>2 DEF IInv

-----------------------------------------------------------------------------
\* Every step keeps the inductive invariant.
LEMMA StepInv == IInv /\ [Next]_vars => IInv'
<1> SUFFICES ASSUME IInv, [Next]_vars PROVE IInv'
  OBVIOUS
<1> USE DEF IInv
<1> DEFINE Rest == Exclusive /\ RoundsGoOn /\ AboutToAdvance /\ ClaimsBelow /\ Apart
<1>e. exited' \in BOOLEAN
  BY DEF Next, DataDispatch, Joined, WriteFails, vars, TypeOK
<1> USE <1>e
<1>0. CASE UNCHANGED <<globals, g_mutex, pc, claims, send_buf, sent>>
  BY <1>0 DEF globals, claims, TypeOK, Exclusive, RoundsGoOn,
     AboutToAdvance, ClaimsBelow, Apart
<1>J. CASE Joined \/ UNCHANGED vars \/ \E t \in Threads : WriteFails(t)
  BY <1>J, <1>0 DEF Joined, WriteFails, vars
<1>1. ASSUME NEW t \in Threads, While(t) PROVE IInv'
  <2>1. TypeOK'
    BY <1>1 DEF While, TypeOK, Labels, Goto, globals, claims
  <2>2. Rest'
    BY <1>1 DEF While, TypeOK, Goto, globals, claims, Exclusive, RoundsGoOn,
       AboutToAdvance, ClaimsBelow, Apart, Critical
  <2> QED BY <2>1, <2>2
<1>2. ASSUME NEW t \in Threads, Lock(t) PROVE IInv'
  <2>1. TypeOK'
    BY <1>2 DEF Lock, TypeOK, Labels, Goto, globals, claims
  <2>2. Exclusive'
    <3> SUFFICES ASSUME NEW u \in Threads, pc'[u] \in Critical
                 PROVE  g_mutex' = u
      BY DEF Exclusive
    <3>1. CASE u = t
      BY <3>1, <1>2 DEF Lock
    <3>2. CASE u # t
      <4>1. pc[u] \in Critical
        BY <3>2, <1>2 DEF Lock, Goto, TypeOK
      <4>2. g_mutex = u
        BY <4>1 DEF Exclusive
      <4>3. g_mutex = NoThread
        BY <1>2 DEF Lock, MayLock
      <4> QED BY <4>2, <4>3, MicroAssumption
    <3> QED BY <3>1, <3>2
  <2>3. (RoundsGoOn /\ AboutToAdvance /\ ClaimsBelow /\ Apart)'
    BY <1>2 DEF Lock, TypeOK, Goto, globals, claims, RoundsGoOn,
       AboutToAdvance, ClaimsBelow, Apart
  <2> QED BY <2>1, <2>2, <2>3
<1>3. ASSUME NEW t \in Threads, SeesStop(t) PROVE IInv'
  <2>1. TypeOK'
    BY <1>3 DEF SeesStop, TypeOK, Labels, Goto, globals, claims
  <2>2. Exclusive'
    BY <1>3 DEF SeesStop, TypeOK, Goto, Exclusive, Critical
  <2>3. (RoundsGoOn /\ AboutToAdvance /\ ClaimsBelow /\ Apart)'
    BY <1>3 DEF SeesStop, TypeOK, Goto, globals, claims, RoundsGoOn,
       AboutToAdvance, ClaimsBelow, Apart
  <2> QED BY <2>1, <2>2, <2>3
<1>4. ASSUME NEW t \in Threads, Fetch(t) PROVE IInv'
  <2> USE ChunkSize, MicroAssumption
  <2>1. TypeOK'
    <3>1. /\ g_count \in 0..KvNum
          /\ (IF IsTail(g_count) THEN KvNum ELSE g_count + WorkOpNum) \in 0..KvNum
      BY DEF TypeOK, IsTail
    <3>2. myround \in 1..RoundSet /\ IsTail(g_count) \in BOOLEAN
      BY <1>4 DEF Fetch, TypeOK, RoundsGoOn, IsTail
    <3>3. from' \in [Threads -> 0..KvNum] /\ to' \in [Threads -> 0..KvNum]
      BY <1>4, <3>1 DEF Fetch, TypeOK
    <3>4. end' \in [Threads -> BOOLEAN] /\ round' \in [Threads -> 1..RoundSet]
      BY <1>4, <3>2 DEF Fetch, TypeOK
    <3>5. pc' \in [Threads -> Labels]
      BY <1>4 DEF Fetch, Goto, TypeOK, Labels
    <3>6. UNCHANGED <<globals, g_mutex, send_buf, sent>>
      BY <1>4 DEF Fetch
    <3> QED
      BY <3>3, <3>4, <3>5, <3>6 DEF TypeOK, globals
  <2>2. Exclusive'
    BY <1>4 DEF Fetch, TypeOK, Goto, Exclusive, Critical
  <2>3. \A u \in Threads : pc[u] = "advance" => u = t
    BY <1>4 DEF Fetch, Exclusive, Critical
  <2>4. \A u \in Threads : u # t => pc[u] # "advance" /\ pc'[u] # "advance"
    BY <2>3, <1>4 DEF Fetch, Goto, TypeOK
  <2>5. AboutToAdvance'
    BY <2>4, <1>4 DEF Fetch, TypeOK, Goto, globals, IsTail, AboutToAdvance
  <2>6. RoundsGoOn'
    BY <1>4 DEF Fetch, globals, RoundsGoOn
  <2>7. ClaimsBelow'
    BY <2>4, <1>4 DEF Fetch, TypeOK, Goto, globals, IsTail, ClaimsBelow
  <2>8. Apart'
    BY <2>4, <1>4 DEF Fetch, TypeOK, Goto, globals, ClaimsBelow, Apart
  <2> QED BY <2>1, <2>2, <2>5, <2>6, <2>7, <2>8
<1>5. ASSUME NEW t \in Threads, Advance(t) PROVE IInv'
  <2> USE ChunkSize, MicroAssumption
  <2>1. ~stop /\ myround >= 1 /\ round[t] = myround /\ from[t] = g_count
        /\ (~end[t] => to[t] = g_count + WorkOpNum)
    BY <1>5 DEF Advance, AboutToAdvance, RoundsGoOn
  <2>2. \A u \in Threads : u # t => pc[u] # "advance" /\ pc'[u] # "advance"
    BY <1>5 DEF Advance, Exclusive, Critical, Goto, TypeOK
  <2>3. pc'[t] = "unlock"
    BY <1>5 DEF Advance, Goto, TypeOK
  <2>4. TypeOK'
    <3>1. /\ g_count \in 0..KvNum /\ myround \in 0..RoundSet /\ stop \in BOOLEAN
          /\ from[t] \in 0..KvNum /\ to[t] \in 0..KvNum /\ end[t] \in BOOLEAN
      BY DEF TypeOK
    <3>2. g_count' \in 0..KvNum
      BY <1>5, <2>1, <3>1 DEF Advance
    <3>3. myround' \in 0..RoundSet /\ stop' \in BOOLEAN
      BY <1>5, <2>1, <3>1 DEF Advance, Stops
    <3>4. pc' \in [Threads -> Labels]
      BY <1>5 DEF Advance, Goto, TypeOK, Labels
    <3>5. UNCHANGED <<g_mutex, claims, send_buf, sent>>
      BY <1>5 DEF Advance
    <3> QED
      BY <3>2, <3>3, <3>4, <3>5 DEF TypeOK, claims
  <2>5. Exclusive'
    BY <1>5 DEF Advance, TypeOK, Goto, Exclusive, Critical
  <2>6. RoundsGoOn'
    BY <2>1, <1>5 DEF Advance, TypeOK, Stops, RoundsGoOn
  <2>7. AboutToAdvance'
    BY <2>2, <2>3 DEF AboutToAdvance
  <2>8. ClaimsBelow'
    BY SMTT(30), <2>1, <2>2, <2>3, <1>5 DEF Advance, TypeOK, claims, ClaimsBelow
  <2>9. Apart'
    BY <1>5 DEF Advance, claims, Apart
  <2> QED BY <2>4, <2>5, <2>6, <2>7, <2>8, <2>9
<1>6. ASSUME NEW t \in Threads, Unlock(t) PROVE IInv'
  <2>1. TypeOK'
    BY <1>6 DEF Unlock, TypeOK, Labels, Goto, globals, claims
  <2>2. Exclusive'
    BY <1>6 DEF Unlock, TypeOK, Goto, Exclusive, Critical
  <2>3. (RoundsGoOn /\ AboutToAdvance /\ ClaimsBelow /\ Apart)'
    BY <1>6 DEF Unlock, TypeOK, Goto, globals, claims, RoundsGoOn,
       AboutToAdvance, ClaimsBelow, Apart
  <2> QED BY <2>1, <2>2, <2>3
<1>7. ASSUME NEW t \in Threads, FetchAndSend(t) PROVE IInv'
  <2> DEFINE p   == PreHash[from[t]]
             buf == Append(send_buf[t][p], from[t])
  <2>1. from[t] \in Packages /\ p \in Ports /\ buf \in Seq(Packages)
    <3>1. from[t] < to[t]
      BY <1>7 DEF FetchAndSend
    <3>2. from[t] \in Packages
      BY <3>1, MicroAssumption DEF TypeOK, Packages
    <3>3. p \in Ports
      BY <3>2, MicroAssumption
    <3> HIDE DEF p
    <3>4. send_buf[t][p] \in Seq(Packages)
      BY <3>3 DEF TypeOK
    <3> QED BY <3>2, <3>3, <3>4
  <2>2. Written(buf) \in [Packages -> Nat]
    BY <2>1, WrittenType DEF TypeOK
  <2>3. sent' \in [Packages -> Nat]
        /\ send_buf' \in [Threads -> [Ports -> Seq(Packages)]]
    <3>1. CASE IsFull(buf)
      <4>1. sent' = Written(buf) /\ send_buf' = [send_buf EXCEPT ![t][p] = <<>>]
        BY <3>1, <1>7 DEF FetchAndSend, AfterWrite
      <4> HIDE DEF p, buf
      <4> QED BY <4>1, <2>1, <2>2 DEF TypeOK
    <3>2. CASE ~IsFull(buf)
      <4>1. sent' = sent /\ send_buf' = [send_buf EXCEPT ![t][p] = buf]
        BY <3>2, <1>7 DEF FetchAndSend
      <4> HIDE DEF p, buf
      <4> QED BY <4>1, <2>1 DEF TypeOK
    <3> QED BY <3>1, <3>2
  <2>4. from' = [from EXCEPT ![t] = @ + 1] /\ from[t] < to[t]
        /\ UNCHANGED <<globals, g_mutex, pc, end, to, round>>
    BY <1>7 DEF FetchAndSend
  <2> HIDE DEF p, buf
  <2>5. TypeOK'
    <3>1. from[t] + 1 \in 0..KvNum
      BY <2>4, MicroAssumption DEF TypeOK
    <3>2. from' \in [Threads -> 0..KvNum]
      BY <3>1, <2>4 DEF TypeOK
    <3> QED BY <3>2, <2>3, <2>4 DEF TypeOK, globals
  <2>6. AboutToAdvance'
    <3>1. pc[t] # "advance"
      BY <1>7 DEF FetchAndSend
    <3> QED BY <3>1, <2>4 DEF AboutToAdvance, TypeOK, globals
  <2>7. (Exclusive /\ RoundsGoOn)'
    BY <2>4 DEF Exclusive, RoundsGoOn, globals
  <2>8. ClaimsBelow'
    BY <2>4, MicroAssumption DEF ClaimsBelow, TypeOK, globals
  <2>9. Apart'
    <3>1. /\ to' = to /\ round' = round
          /\ \A u \in Threads : /\ from[u] \in Nat /\ from'[u] \in Nat /\ to[u] \in Nat
                                /\ from[u] <= from'[u]
      <4>1. to' = to /\ round' = round
        BY <2>4
      <4>2. ASSUME NEW u \in Threads
            PROVE  /\ from[u] \in Nat /\ from'[u] \in Nat /\ to[u] \in Nat
                   /\ from[u] <= from'[u]
        <5>1. from[u] \in Nat /\ to[u] \in Nat
          BY MicroAssumption DEF TypeOK
        <5>2. from'[u] = IF u = t THEN from[u] + 1 ELSE from[u]
          BY <2>4 DEF TypeOK
        <5> QED BY ONLY <5>1, <5>2
      <4> QED BY <4>1, <4>2
    <3>2. Apart
      BY DEF IInv
    <3> QED BY <3>1, <3>2 DEF Apart
  <2> QED BY <2>5, <2>6, <2>7, <2>8, <2>9
<1>8. ASSUME NEW t \in Threads, ChunkSent(t) PROVE IInv'
  <2>1. TypeOK'
    BY <1>8 DEF ChunkSent, TypeOK, Labels, Goto, globals, claims
  <2>2. Rest'
    BY <1>8 DEF ChunkSent, TypeOK, Goto, globals, claims, Exclusive, RoundsGoOn,
       AboutToAdvance, ClaimsBelow, Apart, Critical
  <2> QED BY <2>1, <2>2
<1>9. ASSUME NEW t \in Threads, Clean(t) PROVE IInv'
  <2>1. sent' \in [Packages -> Nat]
        /\ send_buf' \in [Threads -> [Ports -> Seq(Packages)]]
    <3>1. CASE ToClean(t) = {}
      BY <3>1, <1>9 DEF Clean, TypeOK
    <3>2. CASE ToClean(t) # {}
      <4>1. PICK p \in Ports :
               /\ sent' = Written(send_buf[t][p])
               /\ send_buf' = [send_buf EXCEPT ![t][p] = AfterWrite(@)]
        BY <3>2, <1>9 DEF Clean, ToClean
      <4>2. send_buf[t][p] \in Seq(Packages)
        BY DEF TypeOK
      <4>3. Written(send_buf[t][p]) \in [Packages -> Nat]
        BY <4>2, WrittenType DEF TypeOK
      <4> QED BY <4>1, <4>3 DEF TypeOK, AfterWrite
    <3> QED BY <3>1, <3>2
  <2>2. TypeOK'
    BY <2>1, <1>9 DEF Clean, TypeOK, Labels, Goto, globals, claims
  <2>3. Rest'
    BY <1>9 DEF Clean, TypeOK, Goto, globals, claims, Exclusive, RoundsGoOn,
       AboutToAdvance, ClaimsBelow, Apart, Critical
  <2> QED BY <2>2, <2>3
<1> QED
  BY <1>0, <1>J, <1>1, <1>2, <1>3, <1>4, <1>5, <1>6, <1>7, <1>8, <1>9
     DEF Next, DataDispatch

-----------------------------------------------------------------------------
\* The inductive invariant holds in every reachable state.
THEOREM Invariance == Spec => []IInv
  BY InitInv, StepInv, PTL DEF Spec

\* Every variable has its type in every reachable state; a claim lies within
\* the database (micro_test.cpp:271-287).
THEOREM TypeCorrect == Spec => []TypeOK
<1>1. IInv => TypeOK
  BY DEF IInv
<1> QED
  BY <1>1, Invariance, PTL

\* No two threads ever hold the same package in the same round
\* (micro_test.cpp:266-289), whatever their number.
THEOREM ClaimsCorrect == Spec => []ClaimsDisjoint
<1>1. IInv => ClaimsDisjoint
  <2> SUFFICES ASSUME IInv, NEW t \in Threads, NEW u \in Threads,
                      t # u, round[t] = round[u],
                      NEW k \in from[t]..to[t] - 1
               PROVE  k \notin from[u]..to[u] - 1
    BY DEF ClaimsDisjoint
  <2>1. to[t] <= from[u] \/ to[u] <= from[t]
    BY DEF IInv, Apart
  <2>2. /\ from[t] \in Nat /\ to[t] \in Nat
        /\ from[u] \in Nat /\ to[u] \in Nat
    BY MicroAssumption DEF IInv, TypeOK
  <2> QED
    BY <2>1, <2>2
<1> QED
  BY <1>1, Invariance, PTL
-----------------------------------------------------------------------------
(***************************************************************************)
(* No package is lost or sent twice. Accounted compares cardinalities; a   *)
(* step moves package k by adding or removing one element of one of the    *)
(* sets counted. That the element was not there before needs that a thread *)
(* claims with empty hands (Idle), that a tail ends where the database     *)
(* does (TailClaimed), and that a buffer always has a place left           *)
(* (BuffersOpen: otherwise Buffered would not count all of it).            *)
(***************************************************************************)
Idling == {"while", "lock", "fetch", "clean", "done"}

\* A thread that is not sending has nothing left of its claim.
Idle == \A t \in Threads : pc[t] \in Idling => from[t] = to[t]

\* A claim taken as the tail reaches the end of the database.
TailClaimed ==
  \A t \in Threads : pc[t] = "advance" /\ end[t] => to[t] = KvNum

\* A full buffer was written before the next package comes.
BuffersOpen ==
  \A t \in Threads, p \in Ports : Len(send_buf[t][p]) < SendBatch

\* A thread leaves when the last round has ended, and with empty buffers.
Leaving ==
  \A t \in Threads :
    /\ pc[t] \in {"clean", "done"} => stop
    /\ pc[t] = "done" => \A p \in Ports : send_buf[t][p] = <<>>

\* Threads stop after the last round only.
Over == stop => myround = 0

CountInv ==
  Idle /\ TailClaimed /\ BuffersOpen /\ Leaving /\ Over /\ Accounted

-----------------------------------------------------------------------------
\* The places of package k in buffers bufs, and those of one buffer.
InBuffers(bufs, k) == {w \in Places : w[3] \in Copies(bufs[w[1]][w[2]], k)}
InOne(t, p, buf, k) == {<<t, p, i>> : i \in Copies(buf, k)}

\* Buffers have finitely many places.
LEMMA PlacesFinite == IsFiniteSet(Places)
<1> DEFINE N == 1..SendBatch
           f == [x \in (Threads \X Ports) \X N |-> <<x[1][1], x[1][2], x[2]>>]
<1>1. IsFiniteSet(N)
  BY FS_Interval, MicroAssumption
<1>2. IsFiniteSet(Threads \X Ports)
  BY FS_Product, MicroAssumption
<1>3. IsFiniteSet((Threads \X Ports) \X N)
  <2> HIDE DEF N
  <2> QED BY <1>1, <1>2, FS_Product
<1>4. f \in Surjection((Threads \X Ports) \X N, Places)
  <2>1. \A x \in (Threads \X Ports) \X N : f[x] \in Places
    BY DEF Places
  <2>2. \A w \in Places : \E x \in (Threads \X Ports) \X N : f[x] = w
    <3> SUFFICES ASSUME NEW w \in Places
                 PROVE  \E x \in (Threads \X Ports) \X N : f[x] = w
      OBVIOUS
    <3>1. w = <<w[1], w[2], w[3]>> /\ w[1] \in Threads /\ w[2] \in Ports
          /\ w[3] \in N
      BY DEF Places
    <3>2. f[<<<<w[1], w[2]>>, w[3]>>] = <<w[1], w[2], w[3]>>
      BY <3>1
    <3> QED BY <3>1, <3>2
  <2>3. f \in [(Threads \X Ports) \X N -> Places]
    BY <2>1
  <2> HIDE DEF f
  <2> QED BY <2>2, <2>3 DEF Surjection
<1> QED
  BY <1>3, <1>4, FS_Surjection

\* A buffer holds a package finitely often.
LEMMA CopiesFinite ==
  ASSUME NEW buf \in Seq(Packages), NEW k
  PROVE  /\ IsFiniteSet(Copies(buf, k)) /\ Cardinality(Copies(buf, k)) \in Nat
         /\ Copies(buf, k) \subseteq 1..Len(buf)
<1>1. IsFiniteSet(1..Len(buf))
  BY FS_Interval
<1>2. Copies(buf, k) \subseteq 1..Len(buf)
  BY DEF Copies
<1> QED
  BY <1>1, <1>2, FS_Subset, FS_CardinalityType

\* An empty buffer holds nothing.
LEMMA CopiesEmpty == \A k : Cardinality(Copies(<<>>, k)) = 0
<1>1. \A k : Copies(<<>>, k) = {}
  BY DEF Copies
<1> QED
  BY <1>1, FS_EmptySet

\* Appending a package adds one copy of it, and none of another.
LEMMA CopiesAppend ==
  ASSUME NEW buf \in Seq(Packages), NEW x \in Packages, NEW k
  PROVE  Cardinality(Copies(Append(buf, x), k))
           = Cardinality(Copies(buf, k)) + IF x = k THEN 1 ELSE 0
<1>1. CASE x = k
  <2>1. Copies(Append(buf, x), k) = Copies(buf, k) \cup {Len(buf) + 1}
    BY <1>1 DEF Copies
  <2>2. Len(buf) + 1 \notin Copies(buf, k)
    BY DEF Copies
  <2> QED BY <1>1, <2>1, <2>2, CopiesFinite, FS_AddElement
<1>2. CASE x # k
  <2>1. Copies(Append(buf, x), k) = Copies(buf, k)
    BY <1>2 DEF Copies
  <2> QED BY <1>2, <2>1, CopiesFinite
<1> QED BY <1>1, <1>2

\* As many places of a buffer hold a package as it has copies of it.
LEMMA InOneCount ==
  ASSUME NEW t \in Threads, NEW p \in Ports, NEW buf \in Seq(Packages), NEW k
  PROVE  /\ IsFiniteSet(InOne(t, p, buf, k))
         /\ Cardinality(InOne(t, p, buf, k)) = Cardinality(Copies(buf, k))
<1> DEFINE f == [i \in Copies(buf, k) |-> <<t, p, i>>]
<1>1. f \in Bijection(Copies(buf, k), InOne(t, p, buf, k))
  <2>1. f \in [Copies(buf, k) -> InOne(t, p, buf, k)]
    BY DEF InOne
  <2>2. \A w \in InOne(t, p, buf, k) : \E i \in Copies(buf, k) : f[i] = w
    BY DEF InOne
  <2>3. \A i, j \in Copies(buf, k) : f[i] = f[j] => i = j
    OBVIOUS
  <2> HIDE DEF f
  <2> QED BY <2>1, <2>2, <2>3 DEF Bijection, Injection, Surjection, IsInjective
<1>2. ExistsBijection(Copies(buf, k), InOne(t, p, buf, k))
  BY <1>1 DEF ExistsBijection
<1> QED
  BY <1>2, CopiesFinite, FS_Bijection

\* The places of a package are those in one buffer and those in the others.
LEMMA PlacesSplit ==
  ASSUME NEW bufs \in [Threads -> [Ports -> Seq(Packages)]],
         NEW t \in Threads, NEW p \in Ports, NEW k,
         Len(bufs[t][p]) <= SendBatch
  PROVE  LET Others == {w \in InBuffers(bufs, k) : ~(w[1] = t /\ w[2] = p)}
         IN  /\ IsFiniteSet(Others)
             /\ Cardinality(InBuffers(bufs, k))
                  = Cardinality(Others) + Cardinality(Copies(bufs[t][p], k))
<1> DEFINE Others == {w \in InBuffers(bufs, k) : ~(w[1] = t /\ w[2] = p)}
           One == InOne(t, p, bufs[t][p], k)
<1>1. bufs[t][p] \in Seq(Packages)
  OBVIOUS
<1>2. IsFiniteSet(Others)
  <2>1. Others \subseteq Places
    BY DEF InBuffers
  <2> QED BY <2>1, PlacesFinite, FS_Subset
<1>3. InBuffers(bufs, k) = Others \cup One
  <2>1. \A w \in One : w \in InBuffers(bufs, k)
    <3> SUFFICES ASSUME NEW i \in Copies(bufs[t][p], k)
                 PROVE  <<t, p, i>> \in InBuffers(bufs, k)
      BY DEF InOne
    <3>1. i \in 1..SendBatch
      BY <1>1, CopiesFinite, MicroAssumption
    <3> QED BY <3>1 DEF InBuffers, Places
  <2>2. \A w \in InBuffers(bufs, k) : w[1] = t /\ w[2] = p => w \in One
    <3> SUFFICES ASSUME NEW w \in InBuffers(bufs, k), w[1] = t, w[2] = p
                 PROVE  w \in One
      OBVIOUS
    <3>1. w = <<t, p, w[3]>> /\ w[3] \in Copies(bufs[t][p], k)
      BY DEF InBuffers, Places
    <3> QED BY <3>1 DEF InOne
  <2> QED BY <2>1, <2>2
<1>4. Others \cap One = {}
  BY DEF InOne
<1>5. IsFiniteSet(One) /\ Cardinality(One) = Cardinality(Copies(bufs[t][p], k))
  BY <1>1, InOneCount
<1> HIDE DEF Others, One
<1>6. Cardinality(Others) \in Nat /\ Cardinality(One) \in Nat
  BY <1>2, <1>5, FS_CardinalityType
<1>7. Cardinality(Others \cap One) = 0
  BY <1>4, FS_EmptySet
<1>8. Cardinality(Others \cup One)
        = Cardinality(Others) + Cardinality(One) - Cardinality(Others \cap One)
  BY <1>2, <1>5, FS_Union
<1>9. Cardinality(InBuffers(bufs, k)) = Cardinality(Others) + Cardinality(One)
  BY <1>3, <1>6, <1>7, <1>8
<1> QED
  BY <1>2, <1>5, <1>9 DEF Others

\* A change of one buffer changes the count by what that buffer held and holds.
LEMMA OneBufferChanges ==
  ASSUME NEW bufs \in [Threads -> [Ports -> Seq(Packages)]],
         NEW t \in Threads, NEW p \in Ports, NEW k,
         Len(bufs[t][p]) <= SendBatch,
         NEW buf \in Seq(Packages), Len(buf) <= SendBatch
  PROVE  Cardinality(InBuffers([bufs EXCEPT ![t][p] = buf], k))
           = Cardinality(InBuffers(bufs, k))
               - Cardinality(Copies(bufs[t][p], k)) + Cardinality(Copies(buf, k))
<1> DEFINE new == [bufs EXCEPT ![t][p] = buf]
           Others(b) == {w \in InBuffers(b, k) : ~(w[1] = t /\ w[2] = p)}
<1>1. new \in [Threads -> [Ports -> Seq(Packages)]] /\ new[t][p] = buf
  OBVIOUS
<1>2. Others(new) = Others(bufs)
  <2>1. \A w \in Places : ~(w[1] = t /\ w[2] = p)
          => new[w[1]][w[2]] = bufs[w[1]][w[2]]
    BY DEF Places
  <2> HIDE DEF new
  <2> QED BY <2>1 DEF InBuffers
<1> HIDE DEF new
<1>3. Cardinality(InBuffers(new, k))
        = Cardinality(Others(new)) + Cardinality(Copies(buf, k))
  BY <1>1, PlacesSplit
<1>4. /\ IsFiniteSet(Others(bufs))
      /\ Cardinality(InBuffers(bufs, k))
           = Cardinality(Others(bufs)) + Cardinality(Copies(bufs[t][p], k))
  BY PlacesSplit
<1>5. bufs[t][p] \in Seq(Packages)
  OBVIOUS
<1>6. /\ Cardinality(Others(bufs)) \in Nat
      /\ Cardinality(Copies(bufs[t][p], k)) \in Nat
      /\ Cardinality(Copies(buf, k)) \in Nat
  BY <1>4, <1>5, FS_CardinalityType, CopiesFinite
<1> HIDE DEF Others
<1>7. Cardinality(InBuffers(new, k))
        = Cardinality(InBuffers(bufs, k))
            - Cardinality(Copies(bufs[t][p], k)) + Cardinality(Copies(buf, k))
  BY <1>2, <1>3, <1>4, <1>6
<1> QED BY <1>7 DEF new

-----------------------------------------------------------------------------
\* The sets that are counted are finite.
LEMMA CountedFinite ==
  ASSUME NEW k
  PROVE  /\ IsFiniteSet(Holders(k)) /\ Cardinality(Holders(k)) \in Nat
         /\ IsFiniteSet(Advancing(k)) /\ Cardinality(Advancing(k)) \in Nat
         /\ Cardinality(Buffered(k)) \in Nat
<1>1. Holders(k) \subseteq Threads /\ Advancing(k) \subseteq Threads
  BY DEF Holders, Advancing
<1>2. Buffered(k) \subseteq Places
  BY DEF Buffered
<1> QED
  BY <1>1, <1>2, PlacesFinite, MicroAssumption, FS_Subset, FS_CardinalityType

\* The books balance before the first claim.
LEMMA CountInit == Init => CountInv
<1> SUFFICES ASSUME Init PROVE CountInv
  OBVIOUS
<1>1. Idle /\ TailClaimed /\ Leaving /\ Over
  BY DEF Init, Idle, TailClaimed, Leaving, Over
<1>2. BuffersOpen
  BY MicroAssumption DEF Init, BuffersOpen
<1>3. ASSUME NEW k \in Packages PROVE sent[k] + Waiting(k) = Claimed(k)
  <2>1. Holders(k) = {} /\ Advancing(k) = {}
    BY <1>3 DEF Init, Holders, Advancing, Packages
  <2>2. Buffered(k) = {}
    BY DEF Init, Buffered, Places, Copies
  <2>3. Waiting(k) = 0
    BY <2>1, <2>2, FS_EmptySet DEF Waiting
  <2>4. Claimed(k) = 0
    <3>1. myround = RoundSet /\ ~(k < g_count)
      BY <1>3, MicroAssumption DEF Init, Packages
    <3> QED BY <3>1, <2>1, MicroAssumption, FS_EmptySet DEF Claimed
  <2> QED BY <2>3, <2>4 DEF Init
<1> QED
  BY <1>1, <1>2, <1>3 DEF CountInv, Accounted

\* A step that moves no package, and after which the same threads are about to
\* advance, keeps the books.
LEMMA QuietStep ==
  ASSUME Accounted, UNCHANGED <<globals, claims, send_buf, sent>>,
         \A u \in Threads : pc'[u] = "advance" <=> pc[u] = "advance"
  PROVE  Accounted'
<1> SUFFICES ASSUME NEW k \in Packages
             PROVE  (sent[k] + Waiting(k))' = Claimed(k)'
  BY DEF Accounted
<1>1. Holders(k)' = Holders(k) /\ Buffered(k)' = Buffered(k)
  BY DEF Holders, Buffered, claims
<1>2. Advancing(k)' = Advancing(k)
  BY <1>1 DEF Advancing, Holders
<1> QED
  BY <1>1, <1>2 DEF Accounted, Waiting, Claimed, globals

\* A claim adds its packages to the threads' hands and to what was claimed.
LEMMA FetchCounts ==
  ASSUME IInv, CountInv, NEW t \in Threads, Fetch(t)
  PROVE  Accounted'
<1> SUFFICES ASSUME NEW k \in Packages
             PROVE  (sent[k] + Waiting(k))' = Claimed(k)'
  BY DEF Accounted
<1> USE DEF IInv, CountInv
<1> DEFINE New == from'[t] <= k /\ k < to'[t]
<1>1. Buffered(k)' = Buffered(k)
  BY DEF Fetch, Buffered
<1>2. t \notin Holders(k) /\ pc[t] # "advance" /\ pc'[t] = "advance"
  <2>1. from[t] = to[t] /\ pc[t] = "fetch"
    BY DEF Fetch, Idle, Idling
  <2> QED BY <2>1, MicroAssumption DEF Holders, Fetch, Goto, TypeOK, Packages
<1>3. \A u \in Threads : u # t =>
         from'[u] = from[u] /\ to'[u] = to[u] /\ pc'[u] = pc[u]
  BY DEF Fetch, Goto, TypeOK
<1>4. CASE New
  <2>1. Holders(k)' = Holders(k) \cup {t}
    BY <1>3, <1>4 DEF Holders
  <2>2. Advancing(k)' = Advancing(k) \cup {t}
    BY <1>2, <1>3, <2>1 DEF Advancing, Holders
  <2>3. t \notin Advancing(k)
    BY <1>2 DEF Advancing
  <2>4. /\ Cardinality(Holders(k))' = Cardinality(Holders(k)) + 1
        /\ Cardinality(Advancing(k))' = Cardinality(Advancing(k)) + 1
    BY <1>2, <2>1, <2>2, <2>3, CountedFinite, FS_AddElement
  <2>5. Waiting(k)' = Waiting(k) + 1
    BY <1>1, <2>4, CountedFinite DEF Waiting
  <2>6. UNCHANGED <<g_count, myround, stop, sent>>
    BY DEF Fetch, globals
  <2>7. Claimed(k)' = Claimed(k) + 1
    <3>1. RoundSet \in Int /\ myround \in Int
      BY MicroAssumption DEF TypeOK
    <3> QED BY <2>4, <2>6, <3>1, CountedFinite DEF Claimed
  <2>8. sent[k] \in Nat /\ Waiting(k) \in Nat /\ sent[k] + Waiting(k) = Claimed(k)
    BY CountedFinite DEF TypeOK, Accounted, Waiting
  <2> QED BY <2>5, <2>6, <2>7, <2>8
<1>5. CASE ~New
  <2>1. Holders(k)' = Holders(k)
    BY <1>2, <1>3, <1>5 DEF Holders
  <2>2. Advancing(k)' = Advancing(k)
    BY <1>2, <1>3, <2>1 DEF Advancing, Holders
  <2> QED
    BY <1>1, <2>1, <2>2 DEF Fetch, globals, Accounted, Waiting, Claimed
<1> QED BY <1>4, <1>5

\* Taking a claim off the database: what was claimed stays the same, by g_count
\* or, at the tail, by the round that ends.
LEMMA AdvanceCounts ==
  ASSUME IInv, CountInv, NEW t \in Threads, Advance(t)
  PROVE  Accounted'
<1> SUFFICES ASSUME NEW k \in Packages
             PROVE  (sent[k] + Waiting(k))' = Claimed(k)'
  BY DEF Accounted
<1> USE DEF IInv, CountInv
<1>1. /\ Buffered(k)' = Buffered(k) /\ Holders(k)' = Holders(k)
      /\ from' = from /\ to' = to /\ sent' = sent
  BY DEF Advance, Buffered, Holders, claims
<1>2. /\ ~stop /\ from[t] = g_count
      /\ ~end[t] => to[t] = g_count + WorkOpNum
      /\ end[t] => to[t] = KvNum
  BY DEF Advance, AboutToAdvance, TailClaimed
<1>3. \A u \in Threads : u # t => pc[u] # "advance" /\ pc'[u] # "advance"
  BY DEF Advance, Exclusive, Critical, Goto, TypeOK
<1>4. pc'[t] = "unlock" /\ pc[t] = "advance"
  BY DEF Advance, Goto, TypeOK
<1>5. Advancing(k)' = {}
  BY <1>1, <1>3, <1>4 DEF Advancing, Holders
<1>6. Advancing(k) = IF g_count <= k /\ k < to[t] THEN {t} ELSE {}
  BY <1>2, <1>3, <1>4 DEF Advancing, Holders
<1>7. /\ Cardinality(Advancing(k))' = 0
      /\ Cardinality(Advancing(k))
           = IF g_count <= k /\ k < to[t] THEN 1 ELSE 0
  BY <1>5, <1>6, FS_EmptySet, FS_Singleton
<1>8. Claimed(k)' = Claimed(k)
  <2>1. /\ k \in Nat /\ k < KvNum /\ g_count \in Nat /\ myround \in Int
        /\ RoundSet \in Int /\ WorkOpNum \in Nat
    BY ChunkSize, MicroAssumption DEF Packages, TypeOK
  <2>2. Claimed(k) = RoundSet - myround + (IF k < g_count THEN 1 ELSE 0)
          + (IF g_count <= k /\ k < to[t] THEN 1 ELSE 0)
    BY <1>2, <1>7 DEF Claimed
  <2>3. Claimed(k)' = RoundSet - myround' + (IF ~stop' /\ k < g_count' THEN 1 ELSE 0)
    <3>1. Claimed(k)' = RoundSet - myround'
            + (IF ~stop' /\ k < g_count' THEN 1 ELSE 0) + 0
      BY <1>7 DEF Claimed
    <3>2. myround' \in Int
      BY <2>1 DEF Advance
    <3> QED BY <3>1, <3>2, <2>1
  <2>4. CASE end[t]
    <3>1. myround' = myround - 1 /\ (stop' \/ g_count' = 0)
      BY <2>4 DEF Advance, Stops
    <3> QED BY <1>2, <2>1, <2>2, <2>3, <2>4, <3>1
  <2>5. CASE ~end[t]
    <3>1. myround' = myround /\ stop' = stop /\ g_count' = g_count + WorkOpNum
      BY <2>5 DEF Advance
    <3> QED BY <1>2, <2>1, <2>2, <2>3, <2>5, <3>1
  <2> QED BY <2>4, <2>5
<1> QED
  BY <1>1, <1>8 DEF Accounted, Waiting

\* A package goes from a hand to a buffer, and from a full buffer all of it
\* goes to the socket.
LEMMA SendCounts ==
  ASSUME IInv, CountInv, NEW t \in Threads, FetchAndSend(t)
  PROVE  BuffersOpen' /\ Accounted'
<1> USE DEF IInv, CountInv
<1> DEFINE x   == from[t]
           p   == PreHash[x]
           old == send_buf[t][p]
           buf == Append(old, x)
<1>1. /\ pc[t] = "send" /\ from[t] < to[t]
      /\ from' = [from EXCEPT ![t] = @ + 1]
      /\ UNCHANGED <<globals, g_mutex, pc, end, to, round>>
  BY DEF FetchAndSend
<1>2. x \in Packages /\ p \in Ports
  <2>1. x \in Packages
    BY <1>1, MicroAssumption DEF TypeOK, Packages
  <2> QED BY <2>1, MicroAssumption
<1>3. \/ IsFull(buf) /\ sent' = Written(buf)
         /\ send_buf' = [send_buf EXCEPT ![t][p] = <<>>]
      \/ ~IsFull(buf) /\ sent' = sent /\ send_buf' = [send_buf EXCEPT ![t][p] = buf]
  BY DEF FetchAndSend, AfterWrite
<1> HIDE DEF p
<1>4. old \in Seq(Packages) /\ Len(old) < SendBatch
  BY <1>2 DEF TypeOK, BuffersOpen
<1> HIDE DEF x, old
<1>5. buf \in Seq(Packages) /\ Len(buf) = Len(old) + 1
      /\ Len(buf) <= SendBatch /\ (~IsFull(buf) => Len(buf) < SendBatch)
  <2>1. Len(old) \in Nat /\ buf \in Seq(Packages) /\ Len(buf) = Len(old) + 1
    BY <1>2, <1>4
  <2> QED BY <1>4, <2>1, MicroAssumption DEF IsFull
<1> HIDE DEF buf
<1>6. BuffersOpen'
  <2> SUFFICES ASSUME NEW u \in Threads, NEW q \in Ports
               PROVE  Len(send_buf'[u][q]) < SendBatch
    BY DEF BuffersOpen
  <2>1. CASE u = t /\ q = p
    <3>1. \A b : [send_buf EXCEPT ![t][p] = b][t][p] = b
      BY <1>2 DEF TypeOK
    <3>2. \/ send_buf'[t][p] = <<>>
          \/ send_buf'[t][p] = buf /\ ~IsFull(buf)
      BY <1>3, <3>1
    <3> QED BY <2>1, <3>2, <1>5, MicroAssumption
  <2>2. CASE ~(u = t /\ q = p)
    <3>1. send_buf'[u][q] = send_buf[u][q]
      BY <1>3, <2>2 DEF TypeOK
    <3> QED BY <3>1 DEF BuffersOpen
  <2> QED BY <2>1, <2>2
<1>7. ASSUME NEW k \in Packages
      PROVE  (sent[k] + Waiting(k))' = Claimed(k)'
  <2> DEFINE one == IF x = k THEN 1 ELSE 0
  <2>1. Cardinality(Copies(buf, k)) = Cardinality(Copies(old, k)) + one
    BY <1>2, <1>4, CopiesAppend DEF buf
  <2>2. \A b : b \in Seq(Packages) /\ Len(b) <= SendBatch =>
          Cardinality(InBuffers([send_buf EXCEPT ![t][p] = b], k))
            = Cardinality(InBuffers(send_buf, k))
                - Cardinality(Copies(old, k)) + Cardinality(Copies(b, k))
    <3>1. send_buf \in [Threads -> [Ports -> Seq(Packages)]]
      BY DEF TypeOK
    <3>2. old = send_buf[t][p] /\ Len(old) <= SendBatch
      <4>1. Len(old) \in Nat
        BY <1>4
      <4> QED BY <1>4, <4>1, MicroAssumption DEF old
    <3> QED BY <1>2, <3>1, <3>2, OneBufferChanges, Zenon
  <2>3. /\ Buffered(k) = InBuffers(send_buf, k)
        /\ Buffered(k)' = InBuffers(send_buf', k)
    BY DEF Buffered, InBuffers
  <2>4. Cardinality(Copies(old, k)) \in Nat /\ Cardinality(Copies(buf, k)) \in Nat
    BY <1>4, <1>5, CopiesFinite
  <2>5. sent[k] \in Nat
    BY DEF TypeOK
  <2>6. sent'[k] + Cardinality(Buffered(k)')
          = sent[k] + Cardinality(Buffered(k)) + one
    <3>1. CASE IsFull(buf)
      <4>1. <<>> \in Seq(Packages) /\ Len(<<>>) <= SendBatch
        BY MicroAssumption
      <4>2. Cardinality(Buffered(k)')
              = Cardinality(Buffered(k)) - Cardinality(Copies(old, k)) + 0
        BY <3>1, <1>3, <2>2, <2>3, <4>1, CopiesEmpty
      <4>3. sent'[k] = sent[k] + Cardinality(Copies(buf, k))
        BY <3>1, <1>3 DEF Written
      <4> QED BY <2>1, <2>4, <2>5, <4>2, <4>3, CountedFinite
    <3>2. CASE ~IsFull(buf)
      <4>1. Cardinality(Buffered(k)')
              = Cardinality(Buffered(k))
                  - Cardinality(Copies(old, k)) + Cardinality(Copies(buf, k))
        BY <3>2, <1>3, <1>5, <2>2, <2>3
      <4> QED BY <3>2, <1>3, <2>1, <2>4, <2>5, <4>1, CountedFinite
    <3> QED BY <3>1, <3>2
  <2>7. Cardinality(Holders(k)') = Cardinality(Holders(k)) - one
    <3>0. /\ from'[t] = x + 1 /\ to'[t] = to[t] /\ x < to[t] /\ x = from[t]
          /\ x \in Nat /\ to[t] \in Nat /\ k \in Nat
          /\ \A u \in Threads : u # t => from'[u] = from[u] /\ to'[u] = to[u]
      BY <1>1, MicroAssumption DEF TypeOK, Packages, x
    <3>1. CASE x = k
      <4>1. t \in Holders(k)
        <5>1. from[t] <= k /\ k < to[t]
          BY <3>0, <3>1
        <5> QED BY <5>1 DEF Holders
      <4>2. Holders(k)' = Holders(k) \ {t}
        BY <3>0, <3>1 DEF Holders
      <4> QED BY <3>1, <4>1, <4>2, CountedFinite, FS_RemoveElement
    <3>2. CASE x # k
      <4>1. Holders(k)' = Holders(k)
        BY <3>0, <3>2 DEF Holders
      <4> QED BY <3>2, <4>1, CountedFinite
    <3> QED BY <3>1, <3>2
  <2>8. Advancing(k)' = Advancing(k)
    <3>1. \A u \in Threads : u # t => from'[u] = from[u]
      BY <1>1 DEF TypeOK
    <3> QED BY <1>1, <3>1 DEF Advancing, Holders
  <2>9. sent[k] + Waiting(k) = Claimed(k)
    BY DEF Accounted
  <2>10. sent'[k] + Waiting(k)' = sent[k] + Waiting(k)
    <3>1. sent'[k] \in Nat /\ Cardinality(Buffered(k)') \in Int
      <4>1. Written(buf) \in [Packages -> Nat]
        BY <1>5, WrittenType DEF TypeOK
      <4>2. sent'[k] \in Nat
        BY <1>3, <2>5, <4>1
      <4>3. Cardinality(InBuffers(send_buf', k)) \in Nat
        <5>1. InBuffers(send_buf', k) \subseteq Places
          BY DEF InBuffers
        <5> QED BY <5>1, PlacesFinite, FS_Subset, FS_CardinalityType
      <4> QED BY <2>3, <4>2, <4>3
    <3>2. /\ Waiting(k)' = Cardinality(Holders(k)') + Cardinality(Buffered(k)')
          /\ Waiting(k) = Cardinality(Holders(k)) + Cardinality(Buffered(k))
      BY DEF Waiting
    <3> QED BY <2>5, <2>6, <2>7, <3>1, <3>2, CountedFinite
  <2>11. Claimed(k)' = Claimed(k)
    BY <1>1, <2>8 DEF Claimed, globals
  <2> QED BY <2>9, <2>10, <2>11
<1> QED
  BY <1>6, <1>7 DEF Accounted

\* What clean writes leaves the buffer.
LEMMA CleanCounts ==
  ASSUME IInv, CountInv, NEW t \in Threads, Clean(t), ToClean(t) # {}
  PROVE  BuffersOpen' /\ Accounted'
<1> USE DEF IInv, CountInv
<1>1. PICK p \in Ports :
         /\ sent' = Written(send_buf[t][p])
         /\ send_buf' = [send_buf EXCEPT ![t][p] = <<>>]
  BY DEF Clean, ToClean, AfterWrite
<1>2. UNCHANGED <<globals, claims, pc>>
  BY DEF Clean
<1>3. send_buf[t][p] \in Seq(Packages) /\ Len(send_buf[t][p]) < SendBatch
  BY DEF TypeOK, BuffersOpen
<1>4. BuffersOpen'
  <2> SUFFICES ASSUME NEW u \in Threads, NEW q \in Ports
               PROVE  Len(send_buf'[u][q]) < SendBatch
    BY DEF BuffersOpen
  <2>1. send_buf'[u][q] \in {<<>>, send_buf[u][q]}
    BY <1>1 DEF TypeOK
  <2> QED BY <2>1, MicroAssumption DEF BuffersOpen
<1>5. ASSUME NEW k \in Packages
      PROVE  (sent[k] + Waiting(k))' = Claimed(k)'
  <2> DEFINE held == Cardinality(Copies(send_buf[t][p], k))
  <2>1. /\ Buffered(k) = InBuffers(send_buf, k)
        /\ Buffered(k)' = InBuffers(send_buf', k)
    BY DEF Buffered, InBuffers
  <2>2. Len(send_buf[t][p]) <= SendBatch /\ <<>> \in Seq(Packages)
        /\ Len(<<>>) <= SendBatch
    BY <1>3, MicroAssumption
  <2>3. Cardinality(Buffered(k)') = Cardinality(Buffered(k)) - held + 0
    <3>1. send_buf \in [Threads -> [Ports -> Seq(Packages)]]
      BY DEF TypeOK
    <3>2. Cardinality(InBuffers([send_buf EXCEPT ![t][p] = <<>>], k))
            = Cardinality(InBuffers(send_buf, k))
                - held + Cardinality(Copies(<<>>, k))
      BY <2>2, <3>1, OneBufferChanges, Zenon
    <3> QED BY <1>1, <2>1, <3>2, CopiesEmpty
  <2>4. sent'[k] = sent[k] + held
    BY <1>1 DEF Written
  <2>5. held \in Nat /\ sent[k] \in Nat
    BY <1>3, CopiesFinite DEF TypeOK
  <2>6. Holders(k)' = Holders(k) /\ Advancing(k)' = Advancing(k)
    BY <1>2 DEF Holders, Advancing, claims
  <2>7. Claimed(k)' = Claimed(k)
    BY <1>2, <2>6 DEF Claimed, globals
  <2>8. sent'[k] + Waiting(k)' = sent[k] + Waiting(k)
    <3> HIDE DEF held
    <3> QED BY <2>3, <2>4, <2>5, <2>6, CountedFinite DEF Waiting
  <2> QED BY <2>7, <2>8 DEF Accounted
<1> QED
  BY <1>4, <1>5 DEF Accounted

\* Every step keeps the books.
LEMMA CountStep == IInv /\ CountInv /\ [Next]_vars => CountInv'
<1> SUFFICES ASSUME IInv, CountInv, [Next]_vars PROVE CountInv'
  OBVIOUS
<1> DEFINE Easy == Idle /\ TailClaimed /\ Leaving /\ Over
<1> USE DEF CountInv
<1>T. TypeOK
  BY DEF IInv
<1>0. CASE UNCHANGED <<globals, g_mutex, pc, claims, send_buf, sent>>
  <2>1. Accounted'
    BY <1>0, QuietStep DEF globals, claims
  <2> QED
    BY <2>1, <1>0 DEF globals, claims, Idle, TailClaimed, BuffersOpen,
       Leaving, Over
<1>J. CASE Joined \/ UNCHANGED vars \/ \E t \in Threads : WriteFails(t)
  BY <1>J, <1>0 DEF Joined, WriteFails, vars
<1>1. ASSUME NEW t \in Threads,
             While(t) \/ Lock(t) \/ SeesStop(t) \/ Unlock(t) \/ ChunkSent(t)
      PROVE  CountInv'
  <2>1. /\ UNCHANGED <<globals, claims, send_buf, sent>>
        /\ \E l \in Labels \ {"advance", "done"} : pc' = [pc EXCEPT ![t] = l]
        /\ pc[t] # "advance"
    BY <1>1 DEF While, Lock, SeesStop, Unlock, ChunkSent, Goto, Labels
  <2>2. \A u \in Threads : pc'[u] = "advance" <=> pc[u] = "advance"
    BY <2>1, <1>T DEF TypeOK
  <2>3. Accounted'
    BY <2>1, <2>2, QuietStep
  <2>4. BuffersOpen' /\ Over' /\ TailClaimed'
    BY <2>1, <2>2 DEF BuffersOpen, Over, TailClaimed, globals, claims
  <2>5. Idle'
    BY <1>1, <1>T DEF While, Lock, SeesStop, Unlock, ChunkSent, Goto, Idle,
       Idling, claims, TypeOK
  <2>6. Leaving'
    <3>1. \/ pc' = [pc EXCEPT ![t] = "clean"] /\ stop
          \/ \E l \in Labels \ {"clean", "done"} : pc' = [pc EXCEPT ![t] = l]
      BY <1>1 DEF While, Lock, SeesStop, Unlock, ChunkSent, Goto, Labels
    <3>2. UNCHANGED <<stop, send_buf>>
      BY <2>1 DEF globals
    <3>3. ASSUME NEW u \in Threads
          PROVE  /\ pc'[u] \in {"clean", "done"} => stop
                 /\ pc'[u] = "done" => pc[u] = "done"
      BY <3>1, <1>T DEF TypeOK, Leaving
    <3> QED
      BY <3>2, <3>3 DEF Leaving
  <2> QED BY <2>3, <2>4, <2>5, <2>6
<1>2. ASSUME NEW t \in Threads, Fetch(t) PROVE CountInv'
  <2>1. Accounted'
    BY <1>2, FetchCounts
  <2>2. BuffersOpen' /\ Over'
    BY <1>2 DEF Fetch, BuffersOpen, Over, globals
  <2>3. Idle' /\ Leaving'
    BY <1>2, <1>T DEF Fetch, Goto, Idle, Idling, Leaving, globals, TypeOK
  <2>4. TailClaimed'
    BY <1>2, <1>T DEF Fetch, Goto, TailClaimed, TypeOK
  <2> QED BY <2>1, <2>2, <2>3, <2>4
<1>3. ASSUME NEW t \in Threads, Advance(t) PROVE CountInv'
  <2>1. Accounted'
    BY <1>3, AdvanceCounts
  <2>2. ~stop /\ (stop' => myround' = 0)
    <3>1. ~stop /\ myround >= 1
      BY <1>3 DEF Advance, IInv, AboutToAdvance, RoundsGoOn
    <3> QED BY <3>1, <1>3, <1>T, MicroAssumption DEF Advance, Stops, TypeOK
  <2>3. BuffersOpen' /\ Over'
    BY <2>2, <1>3 DEF Advance, BuffersOpen, Over
  <2>4. Idle' /\ Leaving' /\ TailClaimed'
    BY <2>2, <1>3, <1>T DEF Advance, Goto, Idle, Idling, Leaving, TailClaimed,
       claims, TypeOK
  <2> QED BY <2>1, <2>3, <2>4
<1>4. ASSUME NEW t \in Threads, FetchAndSend(t) PROVE CountInv'
  <2>1. BuffersOpen' /\ Accounted'
    BY <1>4, SendCounts
  <2>2. /\ pc[t] = "send" /\ from' = [from EXCEPT ![t] = @ + 1]
        /\ UNCHANGED <<globals, pc, end, to>>
        /\ \A u \in Threads : u # t => send_buf'[u] = send_buf[u]
    BY <1>4, <1>T DEF FetchAndSend, TypeOK
  <2>3. Idle' /\ Leaving' /\ TailClaimed' /\ Over'
    BY <2>2, <1>T DEF Idle, Idling, Leaving, TailClaimed, Over, globals, TypeOK
  <2> QED BY <2>1, <2>3
<1>5. ASSUME NEW t \in Threads, Clean(t) PROVE CountInv'
  <2>1. CASE ToClean(t) = {}
    <3>1. /\ UNCHANGED <<globals, claims, send_buf, sent>>
          /\ pc' = [pc EXCEPT ![t] = "done"] /\ pc[t] = "clean"
      BY <1>5, <2>1 DEF Clean, Goto
    <3>2. \A u \in Threads : pc'[u] = "advance" <=> pc[u] = "advance"
      BY <3>1, <1>T DEF TypeOK
    <3>3. Accounted'
      BY <3>1, <3>2, QuietStep
    <3>4. BuffersOpen' /\ Over' /\ TailClaimed' /\ Idle'
      BY <3>1, <3>2, <1>T DEF BuffersOpen, Over, TailClaimed, Idle, Idling,
         globals, claims, TypeOK
    <3>5. Leaving'
      <4>1. \A p \in Ports : send_buf[t][p] = <<>>
        BY <2>1 DEF ToClean
      <4> QED BY <4>1, <3>1, <1>T DEF Leaving, globals, TypeOK
    <3> QED BY <3>3, <3>4, <3>5
  <2>2. CASE ToClean(t) # {}
    <3>1. BuffersOpen' /\ Accounted'
      BY <1>5, <2>2, CleanCounts
    <3>2. /\ UNCHANGED <<globals, claims, pc>> /\ pc[t] = "clean"
          /\ \A u \in Threads : u # t => send_buf'[u] = send_buf[u]
      BY <1>5, <2>2, <1>T DEF Clean, TypeOK
    <3>3. Idle' /\ Leaving' /\ TailClaimed' /\ Over'
      BY <3>2 DEF Idle, Idling, Leaving, TailClaimed, Over, globals, claims
    <3> QED BY <3>1, <3>3
  <2> QED BY <2>1, <2>2
<1> QED
  BY <1>0, <1>J, <1>1, <1>2, <1>3, <1>4, <1>5 DEF Next, DataDispatch

-----------------------------------------------------------------------------
\* No package is lost or sent twice on its way from the database through the
\* claims and the buffers to the sockets (micro_test.cpp:271-305,
\* Connection.h:72-105), whatever the number of threads, ports and rounds.
THEOREM CountCorrect == Spec => []Accounted
<1>1. CountInv => Accounted
  BY DEF CountInv
<1> QED
  BY <1>1, CountInit, CountStep, Invariance, PTL DEF Spec

\* When every thread has left, every package was written once per round
\* (micro_test.cpp:298-312).
THEOREM DoneCorrect == Spec => []DoneSent
<1>1. IInv /\ CountInv => DoneSent
  <2> SUFFICES ASSUME IInv, CountInv, AllDone, NEW k \in Packages
               PROVE  sent[k] = RoundSet
    BY DEF DoneSent
  <2> USE DEF IInv, CountInv
  <2>1. stop /\ myround = 0
    BY MicroAssumption DEF AllDone, Leaving, Over
  <2>2. Holders(k) = {}
    BY MicroAssumption DEF AllDone, Holders, Idle, Idling, TypeOK, Packages
  <2>3. Advancing(k) = {}
    BY <2>2 DEF Advancing
  <2>4. Buffered(k) = {}
    BY DEF AllDone, Leaving, Buffered, Places, Copies
  <2>5. Waiting(k) = 0 /\ Claimed(k) = RoundSet
    BY <2>1, <2>2, <2>3, <2>4, FS_EmptySet, MicroAssumption DEF Waiting, Claimed
  <2>6. sent[k] \in Nat /\ sent[k] + Waiting(k) = Claimed(k)
    BY DEF TypeOK, Accounted
  <2> QED BY <2>5, <2>6
<1> QED
  BY <1>1, CountInit, CountStep, Invariance, PTL DEF Spec
=============================================================================
