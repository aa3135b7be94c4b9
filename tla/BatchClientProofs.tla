-------------------------- MODULE BatchClientProofs --------------------------
(***************************************************************************)
(* Proofs about the two clients that send batches, for every batch length, *)
(* number of ports, threads, rounds and keys, and every size of the        *)
(* buffers.                                                                *)
(*                                                                         *)
(* Part one: the stream of such a client is cut into batches of one head   *)
(* and BatchNum GETs, and the server is always somewhere in one of them.   *)
(*                                                                         *)
(* Part two: when the receive thread of double_buf_get closes, only the    *)
(* last batch can be cut off (LastBatchOnly).  The client counts bytes, so *)
(* the proof goes from bytes to answers to requests: a client that only    *)
(* sends batches is sent no junk (the plain replies are what puts junk on  *)
(* the wire), the bytes on the wire are a prefix of those of the answers   *)
(* (WireInOrder of Connection), and all answers have the same length.      *)
(*                                                                         *)
(* Part three: get_batch, which counts nothing, has read the answers of    *)
(* all batches before the one it writes (Lockstep), if those of a batch    *)
(* fit the buffers on their way.  Nothing that DoubleBufGet assumes is     *)
(* used there.                                                             *)
(***************************************************************************)
EXTENDS DoubleBufGet, GetBatch, ConnectionProofs

-----------------------------------------------------------------------------
(* What con_database makes.                                                *)

\* The packages of the database.
Item == {BatchHead} \cup {Package(k, n) : k \in DOMAIN PreHash, n \in Int}

\* A head that announces BatchNum GETs comes first, GETs follow.
Headed(s) ==
  \A i \in 1..Len(s) : IF i = 1 THEN s[i].op = "BATCH" /\ s[i].num = BatchNum
                       ELSE s[i].op = "GET"

OpenBatch == {s \in Seq(Item) : Len(s) \in 1..BatchNum /\ Headed(s)}
FullBatch == {s \in Seq(Item) : Len(s) = BatchNum + 1 /\ Headed(s)}

Databases == [database : [Ports -> Seq(FullBatch)], open : [Ports -> OpenBatch]]

\* A package completes the batch it is added to, or leaves it open.
LEMMA AddPackageType ==
  ASSUME NEW db \in Databases, NEW k \in DOMAIN PreHash
  PROVE  AddPackage(db, k) \in Databases
<1> DEFINE port   == PreHash[k]
           open   == db.open[port]
           num    == Len(open) - 1
           filled == Append(open, Package(k, num))
<1>1. port \in Ports
  BY DatabaseAssumption DEF Ports
<1>2. open \in OpenBatch /\ db.database[port] \in Seq(FullBatch)
  BY <1>1 DEF Databases
<1>3. open \in Seq(Item) /\ Len(open) \in 1..BatchNum /\ Headed(open)
  BY <1>2 DEF OpenBatch
<1> HIDE DEF port, open
<1>4. Package(k, num) \in Item /\ Package(k, num).op = "GET"
  BY <1>3 DEF Item, Package
<1>5. filled \in Seq(Item) /\ Len(filled) = Len(open) + 1
      /\ \A i \in 1..Len(open) : filled[i] = open[i]
      /\ filled[Len(open) + 1] = Package(k, num)
  BY <1>3, <1>4
<1>6. Headed(filled)
  BY <1>3, <1>4, <1>5 DEF Headed
<1> HIDE DEF filled
<1>7. BatchNum \in Nat \ {0}
  BY DatabaseAssumption
<1>8. CASE IsFull(num)
  <2>1. filled \in FullBatch
    BY <1>3, <1>5, <1>6, <1>7, <1>8 DEF IsFull, FullBatch
  <2>2. Append(db.database[port], filled) \in Seq(FullBatch)
    BY <1>2, <2>1
  <2>3. <<BatchHead>> \in OpenBatch
    <3>1. BatchHead \in Item /\ BatchHead.op = "BATCH" /\ BatchHead.num = BatchNum
      BY DEF Item, BatchHead
    <3>2. <<BatchHead>> \in Seq(Item) /\ Len(<<BatchHead>>) = 1
          /\ <<BatchHead>>[1] = BatchHead
      BY <3>1
    <3> QED BY <1>7, <3>1, <3>2 DEF OpenBatch, Headed
  <2>4. AddPackage(db, k) =
          [db EXCEPT !.database[port] = Append(@, filled),
                     !.open[port] = <<BatchHead>>]
    BY <1>8 DEF AddPackage, port, open, filled
  <2> DEFINE d == Append(db.database[port], filled)
  <2> HIDE DEF d
  <2>5. AddPackage(db, k) =
          [database |-> [db.database EXCEPT ![port] = d],
           open     |-> [db.open EXCEPT ![port] = <<BatchHead>>]]
    BY <2>4 DEF Databases, d
  <2>6. /\ [db.database EXCEPT ![port] = d] \in [Ports -> Seq(FullBatch)]
        /\ [db.open EXCEPT ![port] = <<BatchHead>>] \in [Ports -> OpenBatch]
    BY <1>1, <2>2, <2>3 DEF Databases, d
  <2> QED BY <2>5, <2>6 DEF Databases
<1>9. CASE ~IsFull(num)
  <2>1. filled \in OpenBatch
    BY <1>3, <1>5, <1>6, <1>7, <1>9 DEF IsFull, OpenBatch
  <2>2. AddPackage(db, k) = [db EXCEPT !.open[port] = filled]
    BY <1>9 DEF AddPackage, port, open, filled
  <2> QED BY <1>1, <2>1, <2>2 DEF Databases
<1> QED BY <1>8, <1>9

\* The lists of a database hold whole batches.
LEMMA DatabaseType ==
  ASSUME NEW array \in Seq(DOMAIN PreHash)
  PROVE  con_database(array) \in [Ports -> Seq(FullBatch)]
<1> DEFINE n == Len(array)
           Is(f) == f = [i \in 0..n |-> IF i = 0 THEN NoPackages
                                        ELSE AddPackage(f[i - 1], array[i])]
           db == CHOOSE f : Is(f)
<1>1. n \in Nat /\ \A i \in 1..n : array[i] \in DOMAIN PreHash
  OBVIOUS
<1>2. NoPackages \in Databases
  <2>1. BatchHead \in Item /\ BatchHead.op = "BATCH" /\ BatchHead.num = BatchNum
    BY DEF Item, BatchHead
  <2>2. <<BatchHead>> \in Seq(Item) /\ Len(<<BatchHead>>) = 1
        /\ <<BatchHead>>[1] = BatchHead
    BY <2>1
  <2>3. <<BatchHead>> \in OpenBatch
    BY <2>1, <2>2, DatabaseAssumption DEF OpenBatch, Headed
  <2>4. <<>> \in Seq(FullBatch)
    OBVIOUS
  <2> QED BY <2>3, <2>4 DEF NoPackages, Databases
<1> DEFINE g == [x \in (1..n) \X Databases |-> AddPackage(x[2], array[x[1]])]
<1>3. g \in [(1..n) \X Databases -> Databases]
  BY <1>1, AddPackageType
<1>4. \A i \in 1..n, d \in Databases : g[<<i, d>>] = AddPackage(d, array[i])
  OBVIOUS
<1> HIDE DEF n, g
<1>5. PICK f : Recursion(f, Databases, NoPackages, n, g)
  BY <1>1, <1>2, <1>3, RecursionDefined
<1>6. \A i \in 0..n : f[i] = IF i = 0 THEN NoPackages
                             ELSE AddPackage(f[i - 1], array[i])
  <2> SUFFICES ASSUME NEW i \in 0..n
               PROVE f[i] = IF i = 0 THEN NoPackages
                            ELSE AddPackage(f[i - 1], array[i])
    OBVIOUS
  <2>1. CASE i = 0
    BY <1>5, <2>1 DEF Recursion
  <2>2. CASE i # 0
    <3>1. i \in 1..n /\ i - 1 \in 0..n
      BY <1>1, <2>2
    <3> QED BY <1>4, <1>5, <2>2, <3>1 DEF Recursion
  <2> QED BY <2>1, <2>2
<1>7. Is(f)
  BY <1>5, <1>6 DEF Recursion
<1>8. Is(db)
  BY <1>7, Zenon
<1> HIDE DEF db
<1> DEFINE S == {i \in Nat : i <= n => db[i] \in Databases}
<1>9. 0 \in S
  <2>1. 0 \in 0..n
    BY <1>1
  <2>2. db[0] = NoPackages
    BY <1>8, <2>1
  <2> QED BY <1>2, <2>2
<1>10. ASSUME NEW i \in Nat, i \in S PROVE i + 1 \in S
  <2> SUFFICES ASSUME i + 1 <= n PROVE db[i + 1] \in Databases
    OBVIOUS
  <2>1. i + 1 \in 0..n /\ i + 1 # 0 /\ (i + 1) - 1 = i /\ i + 1 \in 1..n
    BY <1>1
  <2>2. db[i + 1] = AddPackage(db[i], array[i + 1])
    BY <1>8, <2>1
  <2>3. db[i] \in Databases
    BY <1>1, <1>10
  <2> QED BY <1>1, <2>1, <2>2, <2>3, AddPackageType
<1> HIDE DEF S
<1>11. n \in S
  BY <1>1, <1>9, <1>10, NatSetInduction
<1>12. db[n] \in Databases
  BY <1>1, <1>11 DEF S
<1>13. con_database(array) = db[n].database
  BY DEF con_database, db, n
<1> QED
  BY <1>12, <1>13 DEF Databases

-----------------------------------------------------------------------------
(* What a thread sends.                                                    *)

Batched(r) == \E bs \in Seq(FullBatch) : r = FlattenSeq(bs)

\* Whole batches one after the other are whole batches.
LEMMA BatchedConcat ==
  ASSUME NEW r, NEW s, Batched(r), Batched(s) PROVE Batched(r \o s)
<1>1. PICK a \in Seq(FullBatch) : r = FlattenSeq(a)
  BY DEF Batched
<1>2. PICK b \in Seq(FullBatch) : s = FlattenSeq(b)
  BY DEF Batched
<1>3. FullBatch \subseteq Seq(Item)
  BY DEF FullBatch
<1>4. a \in Seq(Seq(Item)) /\ b \in Seq(Seq(Item))
  BY <1>3, SeqMonotonic
<1>5. FlattenSeq(a \o b) = r \o s
  BY <1>1, <1>2, <1>4, FlattenConcat
<1>6. a \o b \in Seq(FullBatch)
  BY ConcatProperties
<1> QED
  BY <1>5, <1>6 DEF Batched

\* The share of a thread, sent RoundSet times, is whole batches.
LEMMA StreamsBatched == \A r \in BatchStreams : Batched(r)
<1> SUFFICES ASSUME NEW array \in Arrays, NEW tid \in 0 .. ThreadNum - 1,
                    NEW port \in Ports
             PROVE  Batched(Stream(con_database(array), tid, port))
  BY DEF BatchStreams
<1> DEFINE database == con_database(array)
           len == thread_work_len(database, port)
           bs == SubSeq(database[port], tid * len + 1, (tid + 1) * len)
<1>1. database[port] \in Seq(FullBatch)
  BY DatabaseType, DatabaseAssumption
<1> HIDE DEF database
<1>2. len \in Nat
  <2>1. Len(database[port]) \in Nat /\ ThreadNum \in Nat \ {0}
    BY <1>1, DatabaseAssumption
  <2> QED BY <2>1, Quotient DEF thread_work_len
<1>3. bs \in Seq(FullBatch)
  <2>1. Len(database[port]) \in Nat /\ ThreadNum \in Nat \ {0}
    BY <1>1, DatabaseAssumption
  <2>2. len * ThreadNum <= Len(database[port])
    BY <2>1, Quotient DEF thread_work_len
  <2>3. tid \in Nat /\ tid + 1 <= ThreadNum
    BY <2>1
  <2> HIDE DEF len
  <2>4. tid * len \in Nat /\ (tid + 1) * len \in Nat
    BY <1>2, <2>3
  <2>5. (tid + 1) * len <= len * ThreadNum
    BY <1>2, <2>1, <2>3
  <2>6. (tid + 1) * len <= Len(database[port])
    BY <2>1, <2>2, <2>4, <2>5, <1>2
  <2> DEFINE x == tid * len
             y == (tid + 1) * len
  <2> HIDE DEF x, y
  <2>7. SubSeq(database[port], x + 1, y) \in Seq(FullBatch)
    BY <1>1, <2>4, <2>6 DEF x, y
  <2> QED BY <2>7 DEF x, y
<1>4. Share(database, tid, port) = FlattenSeq(bs)
  BY DEF Share
<1> HIDE DEF bs, len
<1> DEFINE share == Share(database, tid, port)
           rounds(k) == [i \in 1..k |-> share]
<1>5. Batched(share)
  BY <1>3, <1>4 DEF Batched
<1>6. FullBatch \subseteq Seq(Item)
  BY DEF FullBatch
<1>7. share \in Seq(Item)
  <2>1. bs \in Seq(Seq(Item))
    BY <1>3, <1>6, SeqMonotonic
  <2> QED BY <1>4, <2>1, FlattenType
<1> HIDE DEF share
<1> DEFINE S == {k \in Nat : Batched(FlattenSeq(rounds(k)))}
<1>8. 0 \in S
  <2>1. rounds(0) = <<>>
    OBVIOUS
  <2>2. Batched(<<>>)
    <3>1. <<>> \in Seq(FullBatch)
      OBVIOUS
    <3> QED BY <3>1, FlattenEmpty DEF Batched
  <2> QED BY <2>1, <2>2, FlattenEmpty
<1>9. ASSUME NEW k \in Nat, k \in S PROVE k + 1 \in S
  <2>1. rounds(k) \in Seq(Seq(Item)) /\ rounds(k + 1) = Append(rounds(k), share)
    BY <1>7
  <2>2. FlattenSeq(rounds(k + 1)) = FlattenSeq(rounds(k)) \o share
    BY <1>7, <2>1, FlattenAppend
  <2>3. Batched(FlattenSeq(rounds(k)))
    BY <1>9
  <2> HIDE DEF rounds
  <2>4. Batched(FlattenSeq(rounds(k)) \o share)
    BY <1>5, <2>3, BatchedConcat
  <2>5. Batched(FlattenSeq(rounds(k + 1)))
    BY <2>2, <2>4, Zenon
  <2> QED BY <2>5
<1> HIDE DEF S
<1>10. RoundSet \in S
  BY <1>8, <1>9, NatSetInduction, DatabaseAssumption
<1>11. Batched(FlattenSeq(rounds(RoundSet)))
  BY <1>10 DEF S
<1>12. Stream(database, tid, port) = FlattenSeq(rounds(RoundSet))
  BY DEF Stream, share
<1> QED
  BY <1>11, <1>12 DEF database

-----------------------------------------------------------------------------
(* The requests of a stream, by their place.                               *)

BatchLen == BatchNum + 1

\* Where the request i of batch b is, the head being number 0.
Place(b, i) == b * BatchLen + 1 + i

\* A head first in every batch, then GETs.
Cut(r) ==
  \A b \in Nat, i \in 0..BatchNum : Place(b, i) <= Len(r) =>
    IF i = 0 THEN r[Place(b, i)].op = "BATCH" /\ r[Place(b, i)].num = BatchNum
    ELSE r[Place(b, i)].op = "GET"

\* Of two batches the later begins where the earlier has ended.
LEMMA PlacesApart ==
  ASSUME NEW b \in Nat, NEW m \in Nat, NEW i \in 0..BatchNum
  PROVE  /\ BatchLen \in Nat \ {0} /\ Place(b, i) \in Nat /\ m * BatchLen \in Nat
         /\ b < m => Place(b, i) <= m * BatchLen
         /\ m < b => Place(b, i) > (m + 1) * BatchLen
         /\ (m + 1) * BatchLen = m * BatchLen + BatchLen
<1>1. BatchNum \in Nat \ {0} /\ BatchLen = BatchNum + 1
  BY DatabaseAssumption DEF BatchLen
<1>2. /\ BatchLen \in Nat \ {0} /\ i + 1 <= BatchLen /\ i \in Nat
      /\ b * BatchLen \in Nat /\ m * BatchLen \in Nat
  BY <1>1
<1>3. /\ (m + 1) * BatchLen = m * BatchLen + BatchLen
      /\ (b + 1) * BatchLen = b * BatchLen + BatchLen
  BY <1>2
<1>4. ASSUME b < m PROVE Place(b, i) <= m * BatchLen
  <2>1. (b + 1) * BatchLen <= m * BatchLen
    BY <1>2, <1>4, ProductMonotonic
  <2> QED BY <1>2, <1>3, <2>1 DEF Place
<1>5. ASSUME m < b PROVE Place(b, i) > (m + 1) * BatchLen
  <2>1. (m + 1) * BatchLen <= b * BatchLen
    BY <1>2, <1>5, ProductMonotonic
  <2> QED BY <1>2, <1>3, <2>1 DEF Place
<1> QED
  BY <1>2, <1>3, <1>4, <1>5 DEF Place

\* Whole batches one after the other are cut so.
LEMMA BatchedCut ==
  ASSUME NEW r, Batched(r)
  PROVE  /\ r \in Seq(Item) /\ Cut(r)
         /\ \E n \in Nat : Len(r) = n * BatchLen
<1> DEFINE Good(n, s) == s \in Seq(Item) /\ Len(s) = n * BatchLen /\ Cut(s)
           S == {bs \in Seq(FullBatch) : Good(Len(bs), FlattenSeq(bs))}
<1>0. FullBatch \subseteq Seq(Item)
  BY DEF FullBatch
<1>l. BatchLen \in Nat \ {0} /\ BatchNum \in Nat \ {0} /\ BatchLen = BatchNum + 1
  BY DatabaseAssumption DEF BatchLen
<1>1. <<>> \in S
  <2>1. FlattenSeq(<<>>) = <<>> /\ <<>> \in Seq(FullBatch) /\ <<>> \in Seq(Item)
        /\ Len(<<>>) = 0
    BY FlattenEmpty
  <2>2. 0 * BatchLen = 0
    BY <1>l
  <2>3. Cut(<<>>)
    <3>1. \A b \in Nat, i \in 0..BatchNum : ~(Place(b, i) <= 0)
      <4> SUFFICES ASSUME NEW b \in Nat, NEW i \in 0..BatchNum
                   PROVE  Place(b, i) > 0
        BY PlacesApart
      <4> QED BY <1>l DEF Place
    <3> QED BY <2>1, <3>1 DEF Cut
  <2> QED BY <2>1, <2>2, <2>3
<1>2. ASSUME NEW bs \in Seq(FullBatch), NEW e \in FullBatch, bs \in S
      PROVE  Append(bs, e) \in S
  <2> DEFINE m == Len(bs)
             old == FlattenSeq(bs)
  <2>1. bs \in Seq(Seq(Item)) /\ e \in Seq(Item)
    BY <1>0, SeqMonotonic
  <2>2. /\ Append(bs, e) \in Seq(FullBatch) /\ Len(Append(bs, e)) = m + 1
        /\ m \in Nat
    OBVIOUS
  <2>3. FlattenSeq(Append(bs, e)) = old \o e
    BY <2>1, FlattenAppend
  <2>4. old \in Seq(Item) /\ Len(old) = m * BatchLen /\ Cut(old)
    BY <1>2
  <2>5. Len(e) = BatchLen /\ Headed(e)
    BY DEF FullBatch, BatchLen
  <2> HIDE DEF m, old
  <2>6. /\ old \o e \in Seq(Item) /\ Len(old \o e) = (m + 1) * BatchLen
        /\ \A p \in 1..Len(old) : (old \o e)[p] = old[p]
        /\ \A p \in 1..BatchLen : (old \o e)[Len(old) + p] = e[p]
    <3>1. (m + 1) * BatchLen = m * BatchLen + BatchLen
      BY <1>l, <2>2
    <3>2. /\ old \o e \in Seq(Item) /\ Len(old \o e) = Len(old) + Len(e)
          /\ \A p \in 1..Len(old) + Len(e) :
               (old \o e)[p] = IF p <= Len(old) THEN old[p] ELSE e[p - Len(old)]
      BY <2>1, <2>4, ConcatProperties
    <3>3. Len(old) \in Nat /\ Len(e) \in Nat
      BY <2>1, <2>4
    <3>4. Len(old \o e) = (m + 1) * BatchLen
      BY <2>4, <2>5, <3>1, <3>2
    <3>5. \A p \in 1..Len(old) : (old \o e)[p] = old[p]
      BY <3>2, <3>3
    <3>6. ASSUME NEW p \in 1..BatchLen PROVE (old \o e)[Len(old) + p] = e[p]
      <4>1. /\ Len(old) + p \in 1..Len(old) + Len(e) /\ ~(Len(old) + p <= Len(old))
            /\ (Len(old) + p) - Len(old) = p
        BY <1>l, <2>5, <3>3
      <4> QED BY <3>2, <4>1
    <3> QED BY <3>2, <3>4, <3>5, <3>6
  <2> DEFINE s == old \o e
  <2> HIDE DEF s
  <2>7. ASSUME NEW b \in Nat, NEW i \in 0..BatchNum, Place(b, i) <= Len(s)
        PROVE  IF i = 0
               THEN s[Place(b, i)].op = "BATCH" /\ s[Place(b, i)].num = BatchNum
               ELSE s[Place(b, i)].op = "GET"
    <3>1. /\ Place(b, i) \in Nat /\ Place(b, i) >= 1 /\ m * BatchLen \in Nat
          /\ b < m => Place(b, i) <= Len(old)
          /\ m < b => Place(b, i) > (m + 1) * BatchLen
      <4>1. /\ Place(b, i) \in Nat /\ m * BatchLen \in Nat
            /\ b < m => Place(b, i) <= m * BatchLen
            /\ m < b => Place(b, i) > (m + 1) * BatchLen
        BY <2>2, PlacesApart
      <4>2. Place(b, i) >= 1
        BY <1>l DEF Place
      <4> QED BY <2>4, <4>1, <4>2
    <3>a. ~(m < b)
      <4>1. Len(s) = (m + 1) * BatchLen /\ (m + 1) * BatchLen \in Nat
        BY <1>l, <2>2, <2>6 DEF s
      <4> QED BY <2>7, <3>1, <4>1
    <3>2. CASE b < m
      <4>1. s[Place(b, i)] = old[Place(b, i)]
        BY <2>4, <2>6, <3>1, <3>2 DEF s
      <4> QED BY <2>4, <3>1, <3>2, <4>1 DEF Cut
    <3>3. CASE b = m
      <4>1. Place(b, i) = Len(old) + (i + 1) /\ i + 1 \in 1..BatchLen
        BY <1>l, <2>2, <2>4, <3>1, <3>3 DEF Place
      <4>2. s[Place(b, i)] = e[i + 1]
        BY <2>6, <4>1 DEF s
      <4>3. IF i + 1 = 1 THEN e[i + 1].op = "BATCH" /\ e[i + 1].num = BatchNum
            ELSE e[i + 1].op = "GET"
        BY <2>5, <4>1 DEF Headed
      <4>4. i + 1 = 1 <=> i = 0
        OBVIOUS
      <4> QED BY <4>2, <4>3, <4>4
    <3> QED BY <2>2, <3>a, <3>2, <3>3
  <2>8. Cut(s)
    BY <2>7 DEF Cut
  <2>9. Good(Len(Append(bs, e)), FlattenSeq(Append(bs, e)))
    BY <2>2, <2>3, <2>6, <2>8 DEF s
  <2> QED BY <2>2, <2>9
<1> HIDE DEF S
<1>3. \A bs \in Seq(FullBatch) : bs \in S
  BY <1>1, <1>2, SeqSetInduction
<1>4. PICK bs \in Seq(FullBatch) : r = FlattenSeq(bs)
  BY DEF Batched
<1>5. Good(Len(bs), r) /\ Len(bs) \in Nat
  BY <1>3, <1>4 DEF S
<1> QED
  BY <1>5

-----------------------------------------------------------------------------
(* How far the server is in a stream of batches.                           *)

\* Request i of batch b has been served; in the first case all of batch b - 1.
AtBatch(b, i) ==
  \/ /\ i = 0 /\ ~in_batch_get /\ work_state = "parse_head"
     /\ Served = b * BatchLen /\ Len(answers) = b * BatchNum
  \/ /\ in_batch_get /\ batch_num = BatchNum /\ batch_count = i
     /\ Served = Place(b, i) /\ Len(answers) = b * BatchNum + i

BatchPhase == \E b \in Nat, i \in 0..BatchNum : AtBatch(b, i)

\* At the start no request is served.
LEMMA PhaseInit == Init => BatchPhase
<1> SUFFICES ASSUME Init PROVE BatchPhase
  OBVIOUS
<1>1. /\ answers = <<>> /\ in_batch_get = FALSE /\ work_state = "parse_head"
      /\ cur = 0
  BY DEF Init, ServerInit
<1>2. 0 * BatchLen = 0 /\ 0 * BatchNum = 0 /\ BatchNum \in Nat
  BY DatabaseAssumption DEF BatchLen
<1>3. Served = 0 /\ Len(answers) = 0
  BY <1>1 DEF Served
<1>4. AtBatch(0, 0)
  BY <1>1, <1>2, <1>3 DEF AtBatch
<1> QED
  BY <1>2, <1>4 DEF BatchPhase

\* The request after the ones served, as long as there is one.
LEMMA NextInBatch ==
  ASSUME IInv, Cut(reqs), NEW b \in Nat, NEW i \in 0..BatchNum, AtBatch(b, i),
         Served < Len(reqs), work_state # "write_bcak"
  PROVE  IF in_batch_get
         THEN reqs[Served + 1].op = "GET" /\ i < BatchNum
         ELSE reqs[Served + 1].op = "BATCH" /\ reqs[Served + 1].num = BatchNum
<1>1. BatchNum \in Nat \ {0} /\ Served \in Nat /\ Len(reqs) \in Nat
      /\ b * BatchLen \in Nat
  <2>1. TypeOK /\ RequestInHand
    BY DEF IInv
  <2>2. Served \in Nat
    BY <2>1 DEF TypeOK, RequestInHand, Served, Keyed
  <2> QED BY <2>1, <2>2, DatabaseAssumption, RequestsOf, PlacesApart DEF TypeOK
<1>2. CASE in_batch_get
  <2>1. batch_count = i /\ batch_num = BatchNum /\ Served = Place(b, i)
    BY <1>2 DEF AtBatch
  <2>2. i < BatchNum
    <3>1. i # BatchNum
      BY <1>1, <1>2, <2>1 DEF IInv, BatchConsistent, BatchComplete
    <3> QED BY <1>1, <3>1
  <2>3. Place(b, i + 1) = Served + 1 /\ i + 1 \in 0..BatchNum /\ i + 1 # 0
    BY SMTT(30), <1>1, <2>1, <2>2 DEF Place
  <2>4. Place(b, i + 1) <= Len(reqs)
    BY <1>1, <2>3
  <2> QED BY <1>2, <2>2, <2>3, <2>4 DEF Cut
<1>3. CASE ~in_batch_get
  <2>1. Served = b * BatchLen
    BY <1>3 DEF AtBatch
  <2>2. Place(b, 0) = Served + 1 /\ 0 \in 0..BatchNum
    BY <1>1, <2>1 DEF Place
  <2>3. Place(b, 0) <= Len(reqs)
    BY <1>1, <2>2
  <2> QED BY <1>3, <2>2, <2>3 DEF Cut
<1> QED
  BY <1>2, <1>3

\* While it is served a stream of batches is parsed one batch after the other.
LEMMA PhaseStep == IInv /\ Cut(reqs) /\ BatchPhase /\ [Next]_vars => BatchPhase'
<1> SUFFICES ASSUME IInv, Cut(reqs), BatchPhase, [Next]_vars PROVE BatchPhase'
  OBVIOUS
<1>t. TypeOK /\ RequestInHand /\ BatchConsistent
  BY DEF IInv
<1>n. BatchNum \in Nat \ {0}
  BY DatabaseAssumption
<1>p. PICK b \in Nat, i \in 0..BatchNum : AtBatch(b, i)
  BY DEF BatchPhase
<1>s. /\ cur \in Nat /\ cur <= Len(reqs) /\ Len(reqs) \in Nat
      /\ Len(answers) \in Nat /\ answers \in Seq(Answer)
  BY <1>t, RequestsOf DEF TypeOK
<1>w. work_state # "parse_head" => in_batch_get
  BY <1>p DEF AtBatch
<1>k. work_state \in {"read_key_value", "store_kvobj", "query_key"} =>
        /\ cur >= 1 /\ Served = cur - 1 /\ reqs[cur].op = "GET" /\ i < BatchNum
  <2> SUFFICES ASSUME work_state \in {"read_key_value", "store_kvobj", "query_key"}
               PROVE  /\ cur >= 1 /\ Served = cur - 1
                      /\ reqs[cur].op = "GET" /\ i < BatchNum
    OBVIOUS
  <2>1. cur >= 1 /\ Served = cur - 1
    BY <1>t DEF RequestInHand, Keyed, Served
  <2>2. Served < Len(reqs) /\ Served + 1 = cur
    BY <1>s, <2>1
  <2>3. in_batch_get /\ work_state # "write_bcak"
    BY <1>w
  <2> QED BY <1>p, <2>1, <2>2, <2>3, NextInBatch
<1>h. (HeadArrived /\ work_state = "parse_head") =>
        /\ Served = cur /\ cur < Len(reqs)
        /\ IF in_batch_get
           THEN reqs[cur + 1].op = "GET" /\ i < BatchNum
           ELSE reqs[cur + 1].op = "BATCH" /\ reqs[cur + 1].num = BatchNum
  <2> SUFFICES ASSUME HeadArrived, work_state = "parse_head"
               PROVE  /\ Served = cur /\ cur < Len(reqs)
                      /\ IF in_batch_get
                         THEN reqs[cur + 1].op = "GET" /\ i < BatchNum
                         ELSE reqs[cur + 1].op = "BATCH"
                              /\ reqs[cur + 1].num = BatchNum
    OBVIOUS
  <2>1. Served = cur /\ cur < Len(reqs)
    BY DEF HeadArrived, Served
  <2> QED BY <1>p, <2>1, NextInBatch
<1> USE DEF netVars, stateVars, parseVars, replyVars, batchVars, schedVars,
            dataVars
<1> DEFINE same == UNCHANGED <<in_batch_get, batch_num, batch_count, answers>>
<1>1. CASE same /\ UNCHANGED <<work_state, cur>>
  <2>1. Served' = Served
    BY <1>1 DEF Served
  <2>2. AtBatch(b, i)'
    BY <1>p, <1>1, <2>1 DEF AtBatch
  <2> QED BY <2>2 DEF BatchPhase
<1>2. CASE ParseKeyed
  <2>1. /\ HeadArrived /\ work_state = "parse_head" /\ cur' = cur + 1
        /\ reqs[cur + 1].op \in {"SET", "GET"} /\ same
        /\ work_state' = "read_key_value"
    BY <1>2 DEF ParseKeyed, TakeHead, HeadArrived, At
  <2>2. Served' = Served /\ in_batch_get
    BY <1>h, <1>s, <2>1 DEF Served
  <2>3. AtBatch(b, i)'
    BY <1>p, <2>1, <2>2 DEF AtBatch
  <2> QED BY <2>3 DEF BatchPhase
<1>3. CASE ParseBatchHead
  <2>1. /\ HeadArrived /\ work_state = "parse_head" /\ cur' = cur + 1
        /\ reqs[cur + 1].op = "BATCH" /\ answers' = answers
        /\ work_state' = "parse_head" /\ in_batch_get' /\ batch_count' = 0
        /\ batch_num' = reqs[cur + 1].num
    BY <1>3 DEF ParseBatchHead, TakeHead, HeadArrived, At
  <2>2. /\ ~in_batch_get /\ batch_num' = BatchNum /\ Served' = Served + 1
    BY <1>h, <2>1 DEF Served
  <2>3. i = 0 /\ Served = b * BatchLen /\ Len(answers) = b * BatchNum
    BY <1>p, <2>2 DEF AtBatch
  <2>4. Place(b, 0) = b * BatchLen + 1 /\ b * BatchNum + 0 = b * BatchNum
    <3>1. b * BatchLen \in Nat /\ b * BatchNum \in Nat
      BY <1>n, PlacesApart
    <3> QED BY <3>1 DEF Place
  <2>5. AtBatch(b, 0)'
    BY <2>1, <2>2, <2>3, <2>4 DEF AtBatch
  <2> QED BY <1>n, <2>5 DEF BatchPhase
<1>4. CASE ParseShort \/ ParseRejected
  <2>1. /\ HeadArrived /\ work_state = "parse_head"
        /\ reqs[cur + 1].op \in {"SHORT", "REJECT"}
    BY <1>4 DEF ParseShort, ParseRejected, TakeHead, HeadArrived, At
  <2> QED BY <1>h, <2>1
<1>5. CASE TakeBody
  <2>1. /\ work_state = "read_key_value" /\ cur' = cur /\ same
        /\ work_state' \in {"store_kvobj", "query_key"}
    BY <1>5 DEF TakeBody, BodyRead, At
  <2>2. Served' = Served /\ in_batch_get
    BY <1>w, <2>1 DEF Served
  <2>3. AtBatch(b, i)'
    BY <1>p, <2>1, <2>2 DEF AtBatch
  <2> QED BY <2>3 DEF BatchPhase
<1>6. CASE StoreKvobj
  <2>1. work_state = "store_kvobj"
    BY <1>6 DEF StoreKvobj, At
  <2> QED BY <1>k, <1>t, <2>1 DEF RequestInHand
<1>7. CASE QueryKey
  <2>1. /\ work_state = "query_key" /\ cur' = cur /\ work_state' = "write_bcak"
        /\ answers' = Append(answers, Composed)
        /\ in_batch_get => batch_count' = batch_count + 1
        /\ UNCHANGED <<in_batch_get, batch_num>>
    BY <1>7 DEF QueryKey, At
  <2>2. in_batch_get /\ Served = cur - 1 /\ cur >= 1 /\ i < BatchNum
    BY <1>k, <1>w, <2>1
  <2>3. /\ batch_num = BatchNum /\ batch_count = i
        /\ Served = Place(b, i) /\ Len(answers) = b * BatchNum + i
    BY <1>p, <2>2 DEF AtBatch
  <2>4. Served' = Served + 1
    BY <1>s, <2>1, <2>2 DEF Served
  <2>5. Len(answers') = Len(answers) + 1
    BY <1>s, <2>1
  <2>6. /\ Place(b, i + 1) = Place(b, i) + 1
        /\ b * BatchNum + (i + 1) = (b * BatchNum + i) + 1
    <3>1. b * BatchLen \in Nat /\ b * BatchNum \in Nat
      BY <1>n, PlacesApart
    <3> QED BY <3>1 DEF Place
  <2>7. AtBatch(b, i + 1)'
    BY <2>1, <2>2, <2>3, <2>4, <2>5, <2>6 DEF AtBatch
  <2>8. i + 1 \in 0..BatchNum
    BY <1>n, <2>2
  <2> QED BY <2>7, <2>8 DEF BatchPhase
<1>8. CASE WriteBack
  BY <1>w, <1>8 DEF WriteBack, At
<1>9. CASE BatchGathers
  <2>1. /\ work_state = "write_bcak" /\ work_state' = "parse_head"
        /\ cur' = cur /\ same /\ in_batch_get
    BY <1>9 DEF BatchGathers, ReadyForNext, At
  <2>2. Served' = Served
    BY <2>1 DEF Served
  <2>3. AtBatch(b, i)'
    BY <1>p, <2>1, <2>2 DEF AtBatch
  <2> QED BY <2>3 DEF BatchPhase
<1>10. CASE SendBatch
  <2>1. /\ work_state = "write_bcak" /\ in_batch_get /\ batch_count = batch_num
        /\ cur' = cur /\ answers' = answers
    BY <1>10 DEF SendBatch, At
  <2>2. \/ same /\ work_state' = work_state
        \/ ~in_batch_get' /\ work_state' = "parse_head"
    BY <1>10, <2>1 DEF SendBatch, NotWritten, BatchWritten, ReadyForNext
  <2>3. CASE ~in_batch_get' /\ work_state' = "parse_head"
    <3>1. i = BatchNum /\ Served = Place(b, i) /\ Len(answers) = b * BatchNum + i
      BY <1>p, <2>1 DEF AtBatch
    <3>2. Served' = Served
      BY <2>1, <2>3 DEF Served
    <3>3. /\ Place(b, BatchNum) = (b + 1) * BatchLen
          /\ b * BatchNum + BatchNum = (b + 1) * BatchNum
      <4>1. /\ b * BatchLen \in Nat /\ BatchLen = BatchNum + 1
            /\ (b + 1) * BatchLen = b * BatchLen + BatchLen
        BY PlacesApart DEF BatchLen
      <4>2. b * BatchNum + BatchNum = (b + 1) * BatchNum
        BY <1>n
      <4> QED BY <1>n, <4>1, <4>2 DEF Place
    <3>4. AtBatch(b + 1, 0)'
      BY <2>1, <2>3, <3>1, <3>2, <3>3 DEF AtBatch
    <3> QED BY <1>n, <3>4 DEF BatchPhase
  <2> QED BY <1>1, <2>1, <2>2, <2>3
<1>11. \/ same /\ UNCHANGED <<work_state, cur>>
       \/ ParseKeyed \/ ParseBatchHead \/ ParseShort \/ ParseRejected
       \/ TakeBody \/ StoreKvobj \/ QueryKey
       \/ WriteBack \/ BatchGathers \/ SendBatch
  BY DEF Next, ProcessFunc, BatchOvercounted, Environment, ClientSend, ClientRecv, ClientClose,
         OtherStore, EventFires, ConnRead, NewCmd, Waiting, Closing, NeedHead,
         BadMagic, BatchNumError, Exit, NeedBody, vars
<1> QED
  BY <1>1, <1>2, <1>3, <1>4, <1>5, <1>6, <1>7, <1>8, <1>9, <1>10, <1>11

\* While it is served a stream of batches stores nothing and is sent nothing
\* but the buffers of a batch.
LEMMA NeverStores ==
  ASSUME IInv, Cut(reqs), BatchPhase
  PROVE  /\ work_state # "store_kvobj"
         /\ work_state = "write_bcak" => in_batch_get
<1>t. TypeOK /\ RequestInHand
  BY DEF IInv
<1>p. PICK b \in Nat, i \in 0..BatchNum : AtBatch(b, i)
  BY DEF BatchPhase
<1>1. work_state # "parse_head" => in_batch_get
  BY <1>p DEF AtBatch
<1>2. ASSUME work_state = "store_kvobj" PROVE FALSE
  <2>1. /\ cur >= 1 /\ Served = cur - 1 /\ reqs[cur].op = "SET"
        /\ cur \in Nat /\ cur <= Len(reqs) /\ Len(reqs) \in Nat
    BY <1>t, <1>2, RequestsOf DEF RequestInHand, Keyed, Served, TypeOK
  <2>2. Served < Len(reqs) /\ Served + 1 = cur
    BY <2>1
  <2>3. reqs[Served + 1].op = "GET"
    BY <1>p, <1>1, <1>2, <2>2, NextInBatch
  <2> QED BY <2>1, <2>2, <2>3
<1> QED
  BY <1>1, <1>2

-----------------------------------------------------------------------------
(* What a client that stores nothing is sent.                              *)

MissLen == HeadLen + KeyLen + NotFoundLen

\* Every answer is a miss, and no junk is put on the wire.
OnlyMisses ==
  /\ store = [k \in Keys |-> 0] /\ wire \in Seq(Real)
  /\ Len(AnswerBytes) = Len(answers) * MissLen

\* A stream of batches of which nothing is found stays one.
LEMMA MissesStep ==
  IInv /\ BuffersReal /\ Cut(reqs) /\ BatchPhase /\ OnlyMisses /\ [Next]_vars
    => OnlyMisses'
<1> SUFFICES ASSUME IInv, BuffersReal, Cut(reqs), BatchPhase, OnlyMisses,
                    [Next]_vars
             PROVE  OnlyMisses'
  OBVIOUS
<1>t. /\ TypeOK /\ BatchConsistent /\ answers \in Seq(Answer)
      /\ batch_ret_vector \in Seq(BatchBuf) /\ Len(answers) \in Nat
  BY DEF IInv, TypeOK
<1>l. MissLen \in Nat
  BY SizesAssumption DEF MissLen
<1>w. work_state # "store_kvobj" /\ (work_state = "write_bcak" => in_batch_get)
  BY NeverStores
<1> USE DEF netVars, stateVars, parseVars, replyVars, batchVars, schedVars,
            dataVars
<1>1. CASE UNCHANGED <<store, wire, answers>>
  <2>1. AnswerBytes' = AnswerBytes
    BY <1>1 DEF AnswerBytes
  <2> QED BY <1>1, <2>1 DEF OnlyMisses
<1>2. CASE OtherStore
  BY <1>2, DoubleBufAssumption DEF OtherStore
<1>3. CASE StoreKvobj
  BY <1>3, <1>w DEF StoreKvobj, At
<1>4. CASE QueryKey
  <2>1. answers' = Append(answers, Composed) /\ UNCHANGED <<store, wire>>
    BY <1>4 DEF QueryKey
  <2>2. Composed \in Answer
    BY <1>4, ComposedType
  <2>3. Composed.body = NotFoundLen
    <3>1. key \in Keys
      <4>1. /\ key = reqs[cur].key /\ cur \in 1..Len(reqs)
            /\ reqs \in Programs
        BY <1>4, <1>t DEF QueryKey, At, IInv, RequestInHand, Keyed, TypeOK
      <4> QED BY <4>1, RequestsOf DEF Request
    <3>2. store[key] = 0
      BY <3>1 DEF OnlyMisses
    <3> QED BY <3>2 DEF Composed, AnswerLen
  <2>4. AnswerBytes' = AnswerBytes \o Reply(Composed)
    BY <1>t, <2>1, <2>2, AnswerBytesGrow
  <2>5. Reply(Composed) \in Seq(Byte) /\ Len(Reply(Composed)) = MissLen
    BY <2>2, <2>3, ReplyType DEF MissLen
  <2>6. Len(AnswerBytes') = Len(AnswerBytes) + MissLen
    <3>1. AnswerBytes \in Seq(Byte)
      BY <1>t, AnswerBytesType
    <3> QED BY <2>4, <2>5, <3>1, ConcatProperties
  <2>7. Len(answers') = Len(answers) + 1
    BY <1>t, <2>1
  <2>8. Len(AnswerBytes') = Len(answers') * MissLen
    <3>1. Len(AnswerBytes) = Len(answers) * MissLen
      BY DEF OnlyMisses
    <3>2. (Len(answers) + 1) * MissLen = Len(answers) * MissLen + MissLen
      BY <1>l, <1>t
    <3> QED BY <2>6, <2>7, <3>1, <3>2
  <2> QED BY <2>1, <2>8 DEF OnlyMisses
<1>5. CASE WriteBack
  BY <1>5, <1>w DEF WriteBack, At
<1>6. CASE SendBatch
  <2> DEFINE first == Head(batch_ret_vector)
  <2>1. batch_ret_vector # <<>> /\ UNCHANGED <<store, answers>>
    BY <1>t, <1>6 DEF SendBatch, BatchConsistent
  <2>2. BatchPending(first) \in Seq(Real)
    <3>1. first = batch_ret_vector[1] /\ first \in BatchBuf
          /\ 1 \in 1..Len(batch_ret_vector)
      BY <1>t, <2>1, BatchFirst
    <3>2. first.buf \in Seq(Real) /\ first.offset \in 0..Len(first.buf)
      BY <3>1 DEF BuffersReal, BatchBuf
    <3> QED BY <3>2, CutInTwo DEF BatchPending
  <2>3. wire' \in Seq(Real)
    <3>1. CASE NotWritten(BatchPending(first))
      BY <3>1 DEF NotWritten, OnlyMisses
    <3>2. ASSUME NEW n \in 1..Len(BatchPending(first)),
                 Accepts(BatchPending(first), n)
          PROVE  wire' \in Seq(Real)
      BY <2>2, <3>2, WritesReal DEF OnlyMisses
    <3> QED BY <1>6, <3>1, <3>2 DEF SendBatch
  <2>4. AnswerBytes' = AnswerBytes
    BY <2>1 DEF AnswerBytes
  <2> QED BY <2>1, <2>3, <2>4 DEF OnlyMisses
<1>7. \/ UNCHANGED <<store, wire, answers>>
      \/ OtherStore \/ StoreKvobj \/ QueryKey \/ WriteBack \/ SendBatch
  BY DEF Next, ProcessFunc, BatchOvercounted, Environment, ClientSend, ClientRecv, ClientClose,
         EventFires, ConnRead, NewCmd, Waiting, Closing, NeedHead, BadMagic,
         BatchNumError, Exit, ParseKeyed, ParseBatchHead, ParseShort,
         ParseRejected, TakeHead, NeedBody, TakeBody, BatchGathers, vars
<1> QED
  BY <1>1, <1>2, <1>3, <1>4, <1>5, <1>6, <1>7

\* As many bytes of answers as the batches before b have are not read before
\* all of these batches are served.
LEMMA BytesTellBatches ==
  ASSUME IInv, BatchPhase, OnlyMisses, WireInOrder,
         NEW b \in Nat, taken >= b * (MissLen * BatchNum)
  PROVE  Served >= b * BatchLen
<1>t. /\ taken \in Nat /\ taken <= Len(wire) /\ wire \in Seq(Byte)
      /\ answers \in Seq(Answer) /\ Len(answers) \in Nat
  BY DEF IInv, TypeOK
<1>l. MissLen \in Nat \ {0} /\ BatchNum \in Nat \ {0}
  BY SizesAssumption, DatabaseAssumption DEF MissLen
<1>1. Len(wire) <= Len(answers) * MissLen
  <2>1. Substance(wire) = wire
    BY SubstanceOf DEF OnlyMisses
  <2>2. AnswerBytes \in Seq(Byte)
    BY <1>t, AnswerBytesType
  <2>3. Len(wire) <= Len(AnswerBytes)
    BY <2>1 DEF WireInOrder, IsPrefix
  <2> QED BY <2>3 DEF OnlyMisses
<1>2. b * BatchNum <= Len(answers)
  <2>1. b * BatchNum \in Nat /\ b * (MissLen * BatchNum) = (b * BatchNum) * MissLen
    BY <1>l
  <2> DEFINE k == b * BatchNum
  <2>2. k \in Nat /\ k * MissLen <= Len(answers) * MissLen
    BY <1>1, <1>l, <1>t, <2>1
  <2> HIDE DEF k
  <2>3. k <= Len(answers)
    <3> SUFFICES ASSUME Len(answers) + 1 <= k PROVE FALSE
      BY <1>t, <2>2
    <3>1. (Len(answers) + 1) * MissLen <= k * MissLen
      BY <1>l, <1>t, <2>2, ProductMonotonic
    <3>2. (Len(answers) + 1) * MissLen = Len(answers) * MissLen + MissLen
      BY <1>l, <1>t
    <3>3. Len(answers) * MissLen \in Nat /\ k * MissLen \in Nat
      BY <1>l, <1>t, <2>2
    <3> QED BY <1>l, <2>2, <3>1, <3>2, <3>3
  <2> QED BY <2>3 DEF k
<1>p. PICK d \in Nat, i \in 0..BatchNum : AtBatch(d, i)
  BY DEF BatchPhase
<1>3. \/ Served = d * BatchLen /\ Len(answers) = d * BatchNum
      \/ Served = Place(d, i) /\ Len(answers) = d * BatchNum + i
  BY <1>p DEF AtBatch
<1>4. /\ Len(answers) <= d * BatchNum + i
      /\ Served >= d * BatchLen
      /\ Len(answers) = d * BatchNum + BatchNum => Served >= (d + 1) * BatchLen
  <2>1. /\ d * BatchLen \in Nat /\ d * BatchNum \in Nat
        /\ BatchLen = BatchNum + 1
        /\ (d + 1) * BatchLen = d * BatchLen + BatchLen
    BY <1>l, PlacesApart DEF BatchLen
  <2> QED BY <1>3, <1>l, <2>1 DEF Place
<1>5. CASE b <= d
  <2>1. b * BatchLen <= d * BatchLen /\ b * BatchLen \in Nat /\ d * BatchLen \in Nat
    BY <1>5, PlacesApart, ProductMonotonic
  <2>2. Served \in Nat
    BY <2>1, <1>3, PlacesApart
  <2> QED BY <1>4, <2>1, <2>2
<1>6. CASE d < b
  <2>1. /\ (d + 1) * BatchNum <= b * BatchNum
        /\ (d + 1) * BatchNum = d * BatchNum + BatchNum
        /\ d * BatchNum \in Nat /\ b * BatchNum \in Nat
    BY <1>6, <1>l, ProductMonotonic
  <2>2. Len(answers) = d * BatchNum + BatchNum /\ b * BatchNum <= (d + 1) * BatchNum
    BY SMTT(30), <1>2, <1>4, <1>l, <1>t, <2>1
  <2>3. b = d + 1
    <3> SUFFICES ASSUME d + 1 + 1 <= b PROVE FALSE
      BY <1>6
    <3>1. (d + 1 + 1) * BatchNum <= b * BatchNum
      BY <1>l, ProductMonotonic
    <3>2. (d + 1 + 1) * BatchNum = (d + 1) * BatchNum + BatchNum
      BY <1>l
    <3>3. (d + 1) * BatchNum \in Nat
      BY <2>1, <1>l
    <3> QED BY <1>l, <2>1, <2>2, <3>1, <3>2, <3>3
  <2> QED BY <1>4, <2>2, <2>3
<1> QED
  BY <1>5, <1>6

-----------------------------------------------------------------------------
(* What the client has sent by then.                                       *)

\* While the client has bytes of its stream left it is sending a request.
SendsOn == outLeft \in Nat /\ (outLeft = 0 => out = Len(reqs))

\* A request of which bytes are left to send is not served.
LEMMA ServedBeforeOut ==
  ASSUME IInv, StreamAligned, peer = "open", reqs \in Seq(Item), outLeft > 0
  PROVE  Served < out /\ Served \in Nat
<1>t. TypeOK /\ RequestInHand
  BY DEF IInv
<1>r. /\ reqs \in Programs /\ Len(reqs) \in Nat
      /\ \A i \in 1..Len(reqs) : reqs[i] \in Request
      /\ \A i \in 1..Len(reqs) : \/ reqs[i].op \in {"SET", "GET"}
                                 \/ reqs[i].op \in Ops /\ BodyLen(reqs[i]) = 0
  <2>1. reqs \in Programs
    BY <1>t DEF TypeOK
  <2>2. \A i \in 1..Len(reqs) : reqs[i] \in Item
    OBVIOUS
  <2>3. \A r \in Item : \/ r.op \in {"SET", "GET"}
                        \/ r.op \in Ops /\ BodyLen(r) = 0
    BY DEF Item, BatchHead, Package, BodyLen, Ops
  <2> QED BY <2>1, <2>2, <2>3, RequestsOf
<1>s. /\ cur \in 0..Len(reqs) /\ out \in 1..Len(reqs)
      /\ sockIn \in Nat /\ remaining_bytes \in Nat
  BY <1>t DEF TypeOK
<1>l. \A n \in 0..Len(reqs) : ParsedLen[n] = StreamLen[n] /\ StreamLen[n] \in Nat
  BY <1>r, AllParsed, LensType
<1>1. /\ Served \in 0..Len(reqs) /\ Parsed \in Int
      /\ Parsed >= StreamLen[Served]
  <2>1. CASE work_state \in Keyed
    <3>1. cur >= 1 /\ Served = cur - 1
      BY <1>t, <2>1 DEF RequestInHand, Served, Keyed
    <3>2. /\ cur \in Nat \ {0} /\ cur \in 1..Len(reqs) /\ cur - 1 \in 0..Len(reqs)
      BY <1>r, <1>s, <3>1
    <3>3. StreamLen[cur] = StreamLen[cur - 1] + WireLen(reqs[cur])
      BY <3>2, StreamLenDef
    <3>4. BodyLen(reqs[cur]) \in Nat /\ WireLen(reqs[cur]) = HeadLen + BodyLen(reqs[cur])
      BY <1>r, <3>2, BodyLenNat DEF WireLen
    <3>5. Parsed = StreamLen[cur] \/ Parsed = StreamLen[cur] - BodyLen(reqs[cur])
      <4>1. ParsedLen[cur] = StreamLen[cur] /\ StreamLen[cur] \in Nat
        BY <1>l, <1>s
      <4> QED BY <3>4, <4>1 DEF Parsed
    <3> HIDE DEF Served, Parsed
    <3>6. StreamLen[cur] \in Nat /\ StreamLen[cur - 1] \in Nat
      BY <1>l, <3>2
    <3> QED BY SMTT(30), <3>1, <3>2, <3>3, <3>4, <3>5, <3>6, SizesAssumption
  <2>2. CASE work_state \notin Keyed
    <3>1. Served = cur /\ Parsed = ParsedLen[cur] - 0
      BY <2>2 DEF Served, Parsed, Keyed
    <3> QED BY <1>l, <1>s, <3>1
  <2> QED BY <2>1, <2>2
<1> SUFFICES ASSUME out <= Served PROVE FALSE
  BY <1>1, <1>r, <1>s
<1>2. outLeft > 0 /\ outLeft \in Nat
  BY <1>t DEF TypeOK
<1>3. StreamLen[out] <= StreamLen[Served] /\ StreamLen[out] \in Nat
      /\ StreamLen[Served] \in Nat
  <2>1. Served \in out..Len(reqs) /\ out \in 0..Len(reqs)
    BY <1>1, <1>r, <1>s
  <2> QED BY <1>1, <1>l, <1>r, <2>1, StreamLenMonotonic
<1>5. Sent < StreamLen[Served]
  BY SMTT(30), <1>2, <1>3 DEF Sent
<1>6. sockIn + remaining_bytes + Parsed = Sent
  BY DEF StreamAligned
<1> HIDE DEF Served, Parsed, Sent
<1>7. Sent \in Int
  BY <1>1, <1>6, <1>s
<1> QED
  BY SMTT(30), <1>1, <1>3, <1>5, <1>6, <1>7, <1>s

\* What was served was sent: the client is past it.
LEMMA ServedWasSent ==
  ASSUME IInv, StreamAligned, SendsOn, peer = "open", reqs \in Seq(Item),
         NEW t \in Nat, t < Len(reqs), t <= Served
  PROVE  t < out
<1>1. out \in Nat /\ Len(reqs) \in Nat
  BY RequestsOf DEF IInv, TypeOK
<1>2. CASE outLeft = 0
  BY <1>1, <1>2 DEF SendsOn
<1>3. CASE outLeft > 0
  BY <1>1, <1>3, ServedBeforeOut
<1> QED
  BY <1>2, <1>3 DEF SendsOn

\* The client sends the bytes of one request after the other.
LEMMA SendsStep == IInv /\ SendsOn /\ [Next]_vars => SendsOn'
<1> SUFFICES ASSUME IInv, SendsOn, [Next]_vars PROVE SendsOn'
  OBVIOUS
<1>1. CASE UNCHANGED <<reqs, out, outLeft>>
  BY <1>1 DEF SendsOn
<1>2. CASE ClientSend
  <2>t. /\ reqs \in Programs /\ out \in 1..Len(reqs) /\ outLeft \in Nat
        /\ Len(reqs) \in Nat /\ \A i \in 1..Len(reqs) : reqs[i] \in Request
    BY RequestsOf DEF IInv, TypeOK
  <2>1. PICK n \in 1..outLeft :
          IF n = outLeft /\ out < Len(reqs)
          THEN out' = out + 1 /\ outLeft' = WireLen(reqs[out + 1])
          ELSE out' = out /\ outLeft' = outLeft - n
    BY <1>2 DEF ClientSend
  <2>2. reqs' = reqs
    BY <1>2 DEF ClientSend
  <2>3. CASE n = outLeft /\ out < Len(reqs)
    <3>1. reqs[out + 1] \in Request
      BY <2>t, <2>3
    <3>2. WireLen(reqs[out + 1]) \in Nat \ {0}
      BY <3>1, BodyLenNat, SizesAssumption DEF WireLen
    <3> QED BY <2>1, <2>2, <2>3, <3>2 DEF SendsOn
  <2>4. CASE ~(n = outLeft /\ out < Len(reqs))
    BY <2>1, <2>2, <2>4, <2>t DEF SendsOn
  <2> QED BY <2>3, <2>4
<1>3. UNCHANGED <<reqs, out, outLeft>> \/ ClientSend
  BY DEF Next, ProcessFunc, BatchOvercounted, Environment, ClientRecv, ClientClose, OtherStore,
         EventFires, ConnRead, NewCmd, Waiting, Closing, NeedHead, BadMagic,
         BatchNumError, Exit, ParseKeyed, ParseBatchHead, ParseShort,
         ParseRejected, TakeHead, NeedBody, TakeBody, StoreKvobj, QueryKey,
         WriteBack, BatchGathers, SendBatch, NotWritten, vars, netVars,
         stateVars, parseVars, replyVars, batchVars, schedVars, dataVars
<1> QED
  BY <1>1, <1>2, <1>3

-----------------------------------------------------------------------------
(* LastBatchOnly.                                                          *)

DoubleInv ==
  /\ BuffersReal /\ Batched(reqs) /\ BatchPhase /\ OnlyMisses /\ SendsOn
  /\ LastBatchOnly

\* The client and the server together are a connection.
LEMMA DoubleIsConnection == DoubleSpec => Spec
<1>1. DoubleInit => Init
  BY DEF DoubleInit
<1>2. [DoubleNext]_clientVars => [Next]_vars
  BY DEF DoubleNext, clientVars, SendThread, SendAfterClose, RecvAndCount,
         RecvCloses, Server, Next, Environment
<1> QED
  BY <1>1, <1>2, PTL DEF DoubleSpec, Spec

\* At the start nothing is sent or served.
LEMMA DoubleInvInit == DoubleInit => DoubleInv
<1> SUFFICES ASSUME DoubleInit PROVE DoubleInv
  OBVIOUS
<1>1. Init /\ client = "running" /\ reqs \in BatchStreams
  BY DEF DoubleInit
<1>2. BuffersReal /\ Batched(reqs)
  BY <1>1, WireInit, StreamsBatched
<1>3. /\ store = [k \in Keys |-> 0] /\ wire = <<>> /\ answers = <<>>
      /\ in_batch_get = FALSE /\ work_state = "parse_head" /\ cur = 0
      /\ out = 1 /\ outLeft = WireLen(reqs[1])
  BY <1>1 DEF Init, ServerInit
<1>4. BatchPhase
  BY <1>1, PhaseInit
<1>5. OnlyMisses
  <2>1. AnswerBytes = <<>>
    <3>1. [i \in 1..Len(answers) |-> Reply(answers[i])] = <<>>
      BY <1>3
    <3> QED BY <3>1, FlattenEmpty DEF AnswerBytes
  <2>2. 0 * MissLen = 0 /\ <<>> \in Seq(Real) /\ Len(<<>>) = 0
    BY SizesAssumption DEF MissLen
  <2> QED BY <1>3, <2>1, <2>2 DEF OnlyMisses
<1>6. SendsOn
  <2>1. reqs[1] \in Request
    BY <1>1, RequestsOf DEF Init
  <2>2. WireLen(reqs[1]) \in Nat \ {0}
    BY <2>1, BodyLenNat, SizesAssumption DEF WireLen
  <2> QED BY <1>3, <2>2 DEF SendsOn
<1>7. LastBatchOnly
  BY <1>1 DEF LastBatchOnly
<1> QED
  BY <1>2, <1>4, <1>5, <1>6, <1>7 DEF DoubleInv

\* The client closes when all batches but the last are sent and served, and
\* what is sent and served stays so.
LEMMA LastBatchStep ==
  IInv /\ StreamAligned /\ WireInOrder /\ DoubleInv /\ [DoubleNext]_clientVars
    => LastBatchOnly'
<1> SUFFICES ASSUME IInv, StreamAligned, WireInOrder, DoubleInv,
                    [DoubleNext]_clientVars,
                    client' # "running", (Batches > 1)'
             PROVE  /\ out' > (Batches' - 1) * (BatchNum + 1)
                    /\ Served' >= (Batches' - 1) * (BatchNum + 1)
  BY DEF LastBatchOnly
<1>t. /\ reqs \in Programs /\ out \in 1..Len(reqs) /\ Len(reqs) \in Nat
      /\ taken \in Nat /\ outLeft \in Nat
  BY RequestsOf DEF IInv, TypeOK
<1>n. [Next]_vars
  BY DEF DoubleNext, clientVars, SendThread, SendAfterClose, RecvAndCount,
         RecvCloses, Server, Next, Environment
<1>r. reqs' = reqs
  BY <1>n DEF Next, ProcessFunc, BatchOvercounted, Environment, ClientSend, ClientRecv, ClientClose,
         OtherStore, EventFires, ConnRead, NewCmd, Waiting, Closing, NeedHead,
         BadMagic, BatchNumError, Exit, ParseKeyed, ParseBatchHead, ParseShort,
         ParseRejected, TakeHead, NeedBody, TakeBody, StoreKvobj, QueryKey,
         WriteBack, BatchGathers, SendBatch, vars
<1> DEFINE t == (Batches - 1) * BatchLen
<1>b. /\ Batches' = Batches /\ Batches \in Nat /\ Batches > 1
      /\ t \in Nat /\ t < Len(reqs)
  <2>1. Batches' = Batches
    BY <1>r DEF Batches
  <2>2. BatchLen \in Nat \ {0}
    BY DatabaseAssumption DEF BatchLen
  <2>3. Batches = Len(reqs) \div BatchLen
    BY DEF Batches, BatchLen
  <2>4. Batches \in Nat /\ Batches * BatchLen <= Len(reqs)
    BY <1>t, <2>2, <2>3, Quotient
  <2>5. Batches > 1
    BY <2>1
  <2> HIDE DEF Batches
  <2>6. t = Batches * BatchLen - BatchLen /\ t \in Nat
    BY <2>2, <2>4, <2>5
  <2>7. Batches * BatchLen \in Nat
    BY <2>2, <2>4
  <2> HIDE DEF t
  <2> QED BY <1>t, <2>1, <2>2, <2>4, <2>5, <2>6, <2>7
<1>o. out' >= out /\ out' \in Nat
  <2>1. UNCHANGED out \/ ClientSend
    BY <1>n DEF Next, ProcessFunc, BatchOvercounted, Environment, ClientRecv, ClientClose,
         OtherStore, EventFires, ConnRead, NewCmd, Waiting, Closing, NeedHead,
         BadMagic, BatchNumError, Exit, ParseKeyed, ParseBatchHead, ParseShort,
         ParseRejected, TakeHead, NeedBody, TakeBody, StoreKvobj, QueryKey,
         WriteBack, BatchGathers, SendBatch, NotWritten, vars, netVars
  <2>2. CASE ClientSend
    <3>1. out' = out \/ out' = out + 1
      BY <2>2 DEF ClientSend
    <3> QED BY <1>t, <3>1
  <2> QED BY <1>t, <2>1, <2>2
<1>s. Served' >= Served /\ Served' \in Nat
  <2>1. Served \in Nat
    <3>1. TypeOK /\ RequestInHand
      BY DEF IInv
    <3> QED BY <3>1 DEF TypeOK, RequestInHand, Served, Keyed
  <2>2. [Promise!Next]_(Promise!vars)
    BY <1>n, PromiseStep
  <2>3. Served' = Served \/ Served' = Served + 1
    BY <2>2 DEF Promise!Next, Promise!vars, Promise!Set, Promise!Get,
                Promise!Skip, Promise!OtherConnection
  <2> QED BY <2>1, <2>3
<1>1. t < out /\ t <= Served
  <2>1. CASE client # "running"
    BY <1>b, <2>1 DEF DoubleInv, LastBatchOnly, BatchLen
  <2>2. CASE client = "running"
    <3>1. RecvCloses
      BY <2>2 DEF DoubleNext, clientVars, SendThread, SendAfterClose,
                  RecvAndCount, Server
    <3>2. peer = "open" /\ taken >= Target
      BY <3>1 DEF RecvCloses, ClientClose
    <3>3. Target = (Batches - 1) * (MissLen * BatchNum)
      BY <1>b DEF Target, RecvPackageBytes, MissLen
    <3>4. Batches - 1 \in Nat
      BY <1>b
    <3>5. t <= Served
      BY <3>2, <3>3, <3>4, BytesTellBatches DEF DoubleInv
    <3>6. reqs \in Seq(Item)
      BY BatchedCut DEF DoubleInv
    <3> HIDE DEF t
    <3> QED BY <1>b, <3>2, <3>5, <3>6, ServedWasSent DEF DoubleInv
  <2> QED BY <2>1, <2>2
<1> HIDE DEF Served
<1>2. t = (Batches' - 1) * (BatchNum + 1)
  BY <1>b DEF BatchLen
<1>3. Served \in Nat
  BY <1>1, <1>s DEF Served, IInv, TypeOK, RequestInHand, Keyed
<1> HIDE DEF t
<1> QED
  BY <1>1, <1>2, <1>3, <1>b, <1>o, <1>s, <1>t

\* When the receive thread closes, all batches but the last are sent and
\* answered: whatever the sizes of batches and buffers, the reads and the
\* partial writes, counting bytes does not close too early.
THEOREM LastBatchCorrect == DoubleSpec => []LastBatchOnly
<1>1. IInv /\ StreamAligned /\ WireInOrder /\ DoubleInv /\ [DoubleNext]_clientVars
        => DoubleInv'
  <2> SUFFICES ASSUME IInv, StreamAligned, WireInOrder, DoubleInv,
                      [DoubleNext]_clientVars
               PROVE  DoubleInv'
    OBVIOUS
  <2>1. [Next]_vars
    BY DEF DoubleNext, clientVars, SendThread, SendAfterClose, RecvAndCount,
           RecvCloses, Server, Next, Environment
  <2>2. reqs' = reqs
    BY <2>1 DEF Next, ProcessFunc, BatchOvercounted, Environment, ClientSend, ClientRecv,
         ClientClose, OtherStore, EventFires, ConnRead, NewCmd, Waiting, Closing,
         NeedHead, BadMagic, BatchNumError, Exit, ParseKeyed, ParseBatchHead,
         ParseShort, ParseRejected, TakeHead, NeedBody, TakeBody, StoreKvobj,
         QueryKey, WriteBack, BatchGathers, SendBatch, vars
  <2>3. Cut(reqs)
    BY BatchedCut DEF DoubleInv
  <2>4. Batched(reqs)'
    BY <2>2 DEF DoubleInv, Batched
  <2> QED BY <2>1, <2>3, <2>4, BuffersStep, PhaseStep, MissesStep, SendsStep,
             LastBatchStep DEF DoubleInv
<1>2. DoubleInv => LastBatchOnly
  BY DEF DoubleInv
<1> QED
  BY <1>1, <1>2, DoubleInvInit, DoubleIsConnection, Invariance, StreamCorrect,
     WireCorrect, PTL DEF DoubleSpec

-----------------------------------------------------------------------------
(* get_batch: where its turns with the server leave both.                  *)

\* The length of the answers of a batch, none of whose keys is found.
AnswersLen == BatchNum * MissLen

\* They fit a batch buffer of the server, the send buffer of its socket and
\* rec_buf: 100 answers of 28 bytes, BATCH_BUF_SIZE of 1000000 and rec_buf of
\* 4000 bytes.
AnswersFit ==
  AnswersLen <= BatchBufSize /\ AnswersLen <= SndCap /\ AnswersLen <= RecBufSize

\* No key has a value, and c->value has stayed empty.
NothingFound == store = [k \in Keys |-> 0] /\ value = 0

\* An open batch has one buffer, with the answers counted and none written.
OneBuffer ==
  in_batch_get =>
    /\ Len(batch_ret_vector) = 1 /\ batch_ret_vector[1].offset = 0
    /\ Len(batch_ret_vector[1].buf) = batch_count * MissLen

\* All answers are written but those of an open batch.
AllWritten == Len(wire) = (Len(answers) - batch_count) * MissLen

\* The client is sending batch b, has sent all of batch b, is at the end.
Sending(b) == outLeft > 0 /\ \E i \in 0..BatchNum : out = Place(b, i)

AtEnd(b) == outLeft = 0 /\ out = Len(reqs) /\ out = (b + 1) * BatchLen

SentWhole(b) == AtEnd(b) \/ (outLeft = HeadLen /\ out = Place(b + 1, 0))

\* The client has read the answers of the batches before b; when it is about
\* to close, also those of batch b, its last.
TurnOf(b) ==
  \/ caller = "write" /\ taken = b * AnswersLen /\ Sending(b)
  \/ caller = "read" /\ taken = b * AnswersLen /\ SentWhole(b)
  \/ caller = "close" /\ taken = (b + 1) * AnswersLen /\ AtEnd(b)

TurnTaken == \E b \in Nat : TurnOf(b)

\* Until the client is gone.
InStep ==
  caller # "done" =>
    /\ peer = "open" /\ NothingFound /\ OneBuffer /\ AllWritten /\ TurnTaken

-----------------------------------------------------------------------------

LEMMA AnswersLenType ==
  /\ MissLen \in Nat \ {0} /\ AnswersLen \in Nat \ {0}
  /\ BatchNum \in Nat \ {0} /\ BatchLen = BatchNum + 1
<1>1. MissLen \in Nat \ {0} /\ BatchNum \in Nat \ {0}
  BY SizesAssumption, DatabaseAssumption DEF MissLen
<1> QED
  BY <1>1 DEF AnswersLen, BatchLen

\* The client and the server together are a connection.
LEMMA GetBatchIsConnection ==
  ASSUME TypeOK, InStep, [GetBatchNext]_callVars PROVE [Next]_vars
<1>1. CASE Read
  <2>1. taken \in Nat /\ Len(wire) \in Nat /\ RecBufSize \in Nat \ {0}
    BY GetBatchAssumption DEF TypeOK
  <2>2. /\ taken < Len(wire) /\ caller # "done"
        /\ taken' = taken + Least(RecBufSize, Len(wire) - taken)
    BY <1>1 DEF Read
  <2>3. taken' \in taken + 1 .. Len(wire)
    BY <2>1, <2>2 DEF Least
  <2>4. ClientRecv
    BY <1>1, <2>2, <2>3 DEF Read, ClientRecv, InStep
  <2> QED BY <2>4 DEF Next, Environment
<1> QED
  BY <1>1 DEF GetBatchNext, callVars, Write, Close, ServerTurn, Next, Environment

\* What a step of the client or the server may be.
LEMMA GetBatchSteps ==
  ASSUME [GetBatchNext]_callVars
  PROVE  /\ reqs' = reqs
         /\ \/ UNCHANGED callVars
            \/ Write \/ Read \/ Close
            \/ UNCHANGED caller /\ (ProcessFunc \/ EventFires)
<1>1. \/ UNCHANGED callVars
      \/ Write \/ Read \/ Close
      \/ UNCHANGED caller /\ (ProcessFunc \/ EventFires)
  BY DEF GetBatchNext, ServerTurn
<1>2. reqs' = reqs
  BY <1>1 DEF callVars, vars, Write, Read, Close, ClientSend, ClientClose,
     ProcessFunc, EventFires, ConnRead, NewCmd, Waiting, Closing, NeedHead,
     BadMagic, BatchNumError, Exit, ParseKeyed, ParseBatchHead, ParseShort,
     ParseRejected, TakeHead, NeedBody, TakeBody, StoreKvobj, QueryKey,
     WriteBack, BatchGathers, SendBatch, BatchOvercounted
<1> QED
  BY <1>1, <1>2

-----------------------------------------------------------------------------
(* How far the server may be.                                              *)

\* What is written tells the batches that are.
LEMMA WrittenBatches ==
  ASSUME IInv, AllWritten, NEW d \in Nat, NEW i \in 0..BatchNum, AtBatch(d, i)
  PROVE  Len(wire) = d * AnswersLen
<1>1. BatchNum \in Nat \ {0} /\ MissLen \in Nat \ {0}
  BY AnswersLenType
<1>2. Len(answers) - batch_count = d * BatchNum
  <2>1. d * BatchNum \in Nat
    BY <1>1
  <2>2. ~in_batch_get => batch_count = 0
    BY DEF IInv, BatchConsistent
  <2> QED BY <2>1, <2>2 DEF AtBatch
<1>3. (d * BatchNum) * MissLen = d * (BatchNum * MissLen)
  BY <1>1
<1> QED
  BY <1>2, <1>3 DEF AllWritten, AnswersLen

\* All that is served of batch d or the batches before it lies before a place
\* of batch b: then d is not a later batch than b.
LEMMA ServedBeforePlace ==
  ASSUME NEW d \in Nat, NEW b \in Nat, NEW j \in 0..BatchNum,
         NEW s \in Nat, s >= d * BatchLen, s < Place(b, j)
  PROVE  d <= b
<1>1. b < d => Place(b, j) <= d * BatchLen
  BY PlacesApart
<1>2. Place(b, j) \in Nat /\ d * BatchLen \in Nat
  BY PlacesApart
<1> QED
  BY <1>1, <1>2

\* What is served of a batch that is sent is no more than the batch.
LEMMA ServedUpTo ==
  ASSUME IInv, StreamAligned, reqs \in Seq(Item), peer = "open",
         NEW b \in Nat, SentWhole(b)
  PROVE  /\ Served \in Nat /\ Served < Place(b + 1, 0)
         /\ \A d \in Nat : Served >= d * BatchLen => d <= b + 1
<1>l. BatchNum \in Nat \ {0} /\ BatchLen = BatchNum + 1
  BY AnswersLenType
<1>s. Served \in Nat /\ Served <= Len(reqs)
  BY RequestsOf DEF Served, Keyed, IInv, TypeOK, RequestInHand
<1>1. Served < Place(b + 1, 0)
  <2>1. CASE AtEnd(b)
    <3>1. Len(reqs) = (b + 1) * BatchLen /\ (b + 1) * BatchLen \in Nat
      BY <1>l, <2>1 DEF AtEnd
    <3> QED BY <1>s, <3>1 DEF Place
  <2>2. CASE ~AtEnd(b)
    <3>1. outLeft > 0 /\ out = Place(b + 1, 0)
      BY <2>2, SizesAssumption DEF SentWhole
    <3> QED BY <3>1, ServedBeforeOut
  <2> QED BY <2>1, <2>2
<1>2. 0 \in 0..BatchNum
  BY <1>l
<1> QED
  BY <1>1, <1>2, <1>s, ServedBeforePlace

\* When a batch is complete the client has read all that was written before.
LEMMA NothingInFlight ==
  ASSUME IInv, StreamAligned, BatchPhase, reqs \in Seq(Item), InStep,
         caller # "done", in_batch_get, batch_count = batch_num
  PROVE  taken = Len(wire) /\ batch_num = BatchNum
<1>t. /\ taken \in Nat /\ Len(wire) \in Nat /\ taken <= Len(wire)
      /\ peer = "open" /\ AllWritten
  BY DEF IInv, TypeOK, InStep
<1>l. /\ AnswersLen \in Nat \ {0} /\ BatchNum \in Nat \ {0}
      /\ BatchLen = BatchNum + 1
  BY AnswersLenType
<1>p. PICK d \in Nat, i \in 0..BatchNum : AtBatch(d, i)
  BY DEF BatchPhase
<1>1. batch_num = BatchNum /\ Served = (d + 1) * BatchLen
  <2>1. i = BatchNum /\ Served = Place(d, BatchNum) /\ batch_num = BatchNum
    BY <1>p DEF AtBatch
  <2>2. d * BatchLen \in Nat /\ (d + 1) * BatchLen = d * BatchLen + BatchLen
    BY PlacesApart
  <2> QED BY <1>l, <2>1, <2>2 DEF Place
<1>2. PICK b \in Nat : TurnOf(b)
  BY DEF InStep, TurnTaken
<1>s. Served \in Nat
  BY <1>1, <1>l
<1>3. d + 1 <= b + 1
  <2>1. CASE Sending(b)
    <3>1. PICK j \in 0..BatchNum : out = Place(b, j)
      BY <2>1 DEF Sending
    <3>2. Served < out
      BY <1>t, <2>1, ServedBeforeOut DEF Sending
    <3>3. d + 1 <= b
      BY <1>1, <1>s, <3>1, <3>2, ServedBeforePlace
    <3> QED BY <3>3
  <2>2. CASE SentWhole(b)
    BY <1>1, <1>t, <2>2, ServedUpTo
  <2> QED BY <1>2, <2>1, <2>2 DEF TurnOf, SentWhole
<1>4. taken >= b * AnswersLen
  <2>1. (b + 1) * AnswersLen = b * AnswersLen + AnswersLen /\ b * AnswersLen \in Nat
    BY <1>l
  <2> QED BY <1>2, <1>l, <2>1 DEF TurnOf
<1>5. d * AnswersLen <= b * AnswersLen /\ d * AnswersLen \in Nat
      /\ b * AnswersLen \in Nat
  BY <1>3, <1>l, ProductMonotonic
<1>6. Len(wire) = d * AnswersLen
  BY <1>p, <1>t, WrittenBatches
<1> QED
  BY <1>1, <1>4, <1>5, <1>6, <1>t

-----------------------------------------------------------------------------
(* The server's side.                                                      *)

\* What is asked for in a stream of batches is a GET, and nothing is stored.
LEMMA OnlyGets ==
  ASSUME IInv, Cut(reqs), BatchPhase
  PROVE  /\ work_state # "store_kvobj"
         /\ work_state \in {"read_key_value", "query_key"} =>
              in_batch_get /\ cur \in 1..Len(reqs) /\ reqs[cur].op = "GET"
<1>t. TypeOK /\ RequestInHand
  BY DEF IInv
<1>p. PICK b \in Nat, i \in 0..BatchNum : AtBatch(b, i)
  BY DEF BatchPhase
<1> SUFFICES ASSUME work_state \in {"read_key_value", "query_key"}
             PROVE  in_batch_get /\ cur \in 1..Len(reqs) /\ reqs[cur].op = "GET"
  BY NeverStores
<1>1. in_batch_get /\ work_state # "write_bcak"
  BY <1>p DEF AtBatch
<1>2. /\ cur \in 1..Len(reqs) /\ Served = cur - 1 /\ Len(reqs) \in Nat
      /\ Served < Len(reqs) /\ Served + 1 = cur
  BY <1>t, RequestsOf DEF RequestInHand, Keyed, Served, TypeOK
<1> QED
  BY <1>1, <1>2, <1>p, NextInBatch

\* The reply to a GET of a batch is NOTFOUND.
LEMMA ComposedMiss ==
  ASSUME IInv, NothingFound, QueryKey
  PROVE  Composed \in Answer /\ ~Composed.hit /\ Composed.body = NotFoundLen
<1>1. key \in Keys
  <2>1. key = reqs[cur].key /\ cur \in 1..Len(reqs) /\ reqs \in Programs
    BY DEF QueryKey, At, IInv, RequestInHand, Keyed, TypeOK
  <2> QED BY <2>1, RequestsOf DEF Request
<1>2. store[key] = 0
  BY <1>1 DEF NothingFound
<1> QED
  BY <1>2, ComposedType DEF Composed, AnswerLen

\* The table stays empty: nobody stores.
LEMMA NothingFoundStep ==
  ASSUME IInv, Cut(reqs), BatchPhase, NothingFound, [GetBatchNext]_callVars
  PROVE  NothingFound'
<1> USE DEF netVars, stateVars, parseVars, replyVars, batchVars, schedVars,
            dataVars
<1>1. CASE UNCHANGED <<store, value>>
  BY <1>1 DEF NothingFound
<1>2. CASE TakeBody
  <2>1. work_state = "read_key_value"
    BY <1>2 DEF TakeBody, At
  <2>2. reqs[cur].op = "GET"
    BY <2>1, OnlyGets
  <2> QED BY <1>1, <1>2, <2>2 DEF TakeBody
<1>3. CASE StoreKvobj
  BY <1>3, OnlyGets DEF StoreKvobj, At
<1>4. CASE QueryKey
  BY <1>1, <1>4, ComposedMiss DEF QueryKey
<1>5. UNCHANGED <<store, value>> \/ TakeBody \/ StoreKvobj \/ QueryKey
  BY GetBatchSteps DEF callVars, vars, Write, Read, Close, ClientSend,
     ClientClose, ProcessFunc, EventFires, ConnRead, NewCmd, Waiting, Closing,
     NeedHead, BadMagic, BatchNumError, Exit, ParseKeyed, ParseBatchHead,
     ParseShort, ParseRejected, TakeHead, NeedBody, WriteBack, BatchGathers,
     SendBatch, BatchOvercounted
<1> QED
  BY <1>1, <1>2, <1>3, <1>4, <1>5

\* The server does not know whether the client is there before it is gone.
LEMMA StaysOpen ==
  ASSUME peer = "open", ProcessFunc \/ EventFires PROVE peer' = "open"
<1> USE DEF netVars
<1>1. CASE ConnRead
  BY <1>1 DEF ConnRead
<1>2. CASE WriteBack
  BY <1>2 DEF WriteBack, NotWritten, Accepts
<1>3. CASE SendBatch
  BY <1>3 DEF SendBatch, NotWritten, Accepts
<1> QED
  BY <1>1, <1>2, <1>3 DEF ProcessFunc, EventFires, NewCmd, Waiting, Closing,
     NeedHead, BadMagic, BatchNumError, Exit, ParseKeyed, ParseBatchHead,
     ParseShort, ParseRejected, TakeHead, NeedBody, TakeBody, StoreKvobj,
     QueryKey, BatchGathers, BatchOvercounted, vars

\* An answer goes into the one buffer of its batch, which has room for it.
LEMMA QueryFills ==
  ASSUME IInv, Cut(reqs), BatchPhase, NothingFound, OneBuffer, AllWritten,
         AnswersFit, QueryKey
  PROVE  OneBuffer' /\ AllWritten'
<1>i. TypeOK /\ BatchConsistent
  BY DEF IInv
<1>t. /\ Len(answers) \in Nat /\ batch_count \in Nat
      /\ batch_ret_vector \in Seq(BatchBuf) /\ answers \in Seq(Answer)
  BY <1>i DEF TypeOK
<1>l. MissLen \in Nat \ {0} /\ BatchNum \in Nat \ {0}
  BY AnswersLenType
<1>q. /\ in_batch_get /\ work_state = "query_key"
  BY OnlyGets DEF QueryKey, At
<1>v. /\ Len(batch_ret_vector) = 1 /\ batch_ret_vector[1].offset = 0
      /\ Len(batch_ret_vector[1].buf) = batch_count * MissLen
  BY <1>q DEF OneBuffer
<1>c. Composed \in Answer /\ ~Composed.hit /\ Composed.body = NotFoundLen
  BY ComposedMiss
<1>1. value' = 0 /\ wire' = wire /\ in_batch_get' = in_batch_get
      /\ batch_count' = batch_count + 1 /\ answers' = Append(answers, Composed)
      /\ batch_ret_vector' = IntoBatch(Composed, 0)
  BY <1>c, <1>q DEF QueryKey, NothingFound, netVars
<1>2. batch_count < BatchNum
  <2>1. PICK b \in Nat, i \in 0..BatchNum : AtBatch(b, i)
    BY DEF BatchPhase
  <2>2. batch_num = BatchNum
    BY <1>q, <2>1 DEF AtBatch
  <2>3. batch_count <= batch_num /\ batch_count # batch_num
    BY <1>l, <1>q, <1>i, <2>2
    DEF BatchConsistent, BatchComplete, EmptyBatchAnswered
  <2> QED BY <1>l, <1>t, <2>2, <2>3
<1>m. (batch_count + 1) * MissLen = batch_count * MissLen + MissLen
      /\ batch_count * MissLen \in Nat
  BY <1>l, <1>i, <1>t
<1>3. WithRoom(0) = batch_ret_vector
  <2>1. (batch_count + 1) * MissLen <= AnswersLen
    BY <1>2, <1>l, <1>i, <1>t, ProductMonotonic DEF AnswersLen
  <2>2. Last(batch_ret_vector) = batch_ret_vector[1]
    BY <1>v DEF Last
  <2>3. AnswersLen \in Nat
    BY AnswersLenType
  <2>4. ~NeedsNewBuf(Last(batch_ret_vector), 0)
    <3>1. MissLen = HeadLen + KeyLen + NotFoundLen
      BY DEF MissLen
    <3>2. batch_count * MissLen + HeadLen + KeyLen + 0 <= BatchBufSize
      BY <1>m, <2>1, <2>3, <3>1, SizesAssumption DEF AnswersFit
    <3>3. BatchBufSize \in Nat /\ HeadLen \in Nat /\ KeyLen \in Nat
      BY SizesAssumption
    <3> QED BY SMTT(30), <1>m, <1>v, <2>2, <3>2, <3>3 DEF NeedsNewBuf
  <2> QED BY <2>4 DEF WithRoom
<1>4. /\ Len(batch_ret_vector') = 1 /\ batch_ret_vector'[1].offset = 0
      /\ Len(batch_ret_vector'[1].buf) = batch_count * MissLen + MissLen
  <2>1. batch_ret_vector # <<>> /\ 1 \in 1..Len(batch_ret_vector)
    BY <1>q, <1>i, <1>t, <1>v DEF BatchConsistent
  <2>2. /\ Len(IntoBatch(Composed, 0)) = Len(batch_ret_vector)
        /\ IntoBatch(Composed, 0)[1].offset = batch_ret_vector[1].offset
        /\ Len(IntoBatch(Composed, 0)[1].buf) =
             Len(batch_ret_vector[1].buf) + HeadLen + KeyLen + Composed.body
    BY <1>3, <1>c, <1>i, <1>t, <1>v, <2>1, IntoBatchGrows
  <2>3. MissLen = HeadLen + KeyLen + NotFoundLen
    BY DEF MissLen
  <2> QED BY <1>1, <1>c, <1>m, <1>v, <2>2, <2>3, SizesAssumption
<1>5. OneBuffer'
  BY <1>1, <1>4, <1>m DEF OneBuffer
<1>6. Len(answers') - batch_count' = Len(answers) - batch_count
  BY <1>1, <1>i, <1>t
<1> QED
  BY <1>1, <1>5, <1>6 DEF AllWritten

\* A batch that is complete is written at once.
LEMMA SendEmpties ==
  ASSUME IInv, StreamAligned, BatchPhase, reqs \in Seq(Item), InStep,
         caller # "done", AnswersFit, SendBatch
  PROVE  OneBuffer' /\ AllWritten'
<1> DEFINE it == Head(batch_ret_vector)
           pending == BatchPending(it)
<1>i. TypeOK /\ BatchConsistent /\ peer = "open" /\ OneBuffer /\ AllWritten
  BY DEF IInv, InStep
<1>t. /\ Len(answers) \in Nat /\ batch_count \in Nat
      /\ batch_ret_vector \in Seq(BatchBuf) /\ answers \in Seq(Answer)
      /\ wire \in Seq(Byte) /\ Len(wire) \in Nat
  BY <1>i DEF TypeOK
<1>l. /\ MissLen \in Nat \ {0} /\ BatchNum \in Nat \ {0}
      /\ AnswersLen \in Nat \ {0} /\ SndCap \in Nat
  BY AnswersLenType, SizesAssumption
<1>q. in_batch_get /\ batch_count = batch_num /\ answers' = answers
  BY DEF SendBatch, dataVars
<1>w. taken = Len(wire) /\ batch_num = BatchNum
  BY <1>q, NothingInFlight
<1>v. /\ Len(batch_ret_vector) = 1 /\ batch_ret_vector[1].offset = 0
      /\ Len(batch_ret_vector[1].buf) = AnswersLen
  BY <1>q, <1>i, <1>t, <1>w DEF OneBuffer, AnswersLen
<1>b. it \in BatchBuf /\ it.offset = 0 /\ it.buf \in Seq(Byte)
      /\ Len(it.buf) = AnswersLen
  <2>1. batch_ret_vector # <<>>
    BY <1>q, <1>i, <1>t DEF BatchConsistent
  <2>2. it \in BatchBuf /\ it = batch_ret_vector[1]
    BY <1>i, <1>t, <2>1, BatchFirst
  <2> QED BY <1>v, <2>2 DEF BatchBuf
<1> HIDE DEF it
<1>p. pending \in Seq(Byte) /\ Len(pending) = AnswersLen
  <2>1. pending = SubSeq(it.buf, 1, Len(it.buf))
    BY <1>b DEF BatchPending
  <2> QED BY <1>b, <1>l, <2>1
<1> HIDE DEF pending
<1>1. CASE NotWritten(pending)
  BY <1>1, <1>q, <1>i, <1>t DEF NotWritten, netVars, batchVars, OneBuffer, AllWritten
<1>2. ASSUME NEW n \in 1..Len(pending), Accepts(pending, n), BatchWritten(n)
      PROVE  OneBuffer' /\ AllWritten'
  <2>1. n = AnswersLen /\ wire' = wire \o SubSeq(pending, 1, n)
    <3>1. Room = SndCap - 0
      BY <1>l, <1>i, <1>t, <1>w DEF Room
    <3>2. /\ n = Least(Len(pending), Room)
          /\ wire' = wire \o SubSeq(pending, 1, n)
      BY <1>2, <1>i, <1>t DEF Accepts
    <3> QED BY <1>l, <1>p, <3>1, <3>2 DEF Least, AnswersFit
  <2>2. Len(wire') = Len(wire) + AnswersLen
    <3>1. SubSeq(pending, 1, n) \in Seq(Byte) /\ Len(SubSeq(pending, 1, n)) = n
      BY <1>l, <1>p, <2>1
    <3> QED BY <1>i, <1>t, <2>1, <3>1, ConcatProperties
  <2>3. in_batch_get' = FALSE /\ batch_count' = 0
    BY <1>2, <1>b, <1>l, <1>v, <2>1 DEF BatchWritten, it
  <2>4. /\ (Len(answers) - batch_count) * MissLen + BatchNum * MissLen
             = (Len(answers) - 0) * MissLen
    BY <1>l, <1>q, <1>i, <1>t, <1>w
  <2> QED BY <1>q, <1>i, <1>t, <2>2, <2>3, <2>4 DEF OneBuffer, AllWritten, AnswersLen
<1> QED
  BY <1>1, <1>2 DEF SendBatch, pending, it

\* A batch has one buffer, and it is written whole before the next begins.
LEMMA BufferStep ==
  ASSUME IInv, StreamAligned, Cut(reqs), reqs \in Seq(Item), BatchPhase, InStep,
         AnswersFit, caller # "done", [GetBatchNext]_callVars
  PROVE  OneBuffer' /\ AllWritten'
<1>i. NothingFound /\ OneBuffer /\ AllWritten /\ BatchConsistent
  BY DEF InStep, IInv
<1> USE DEF netVars, stateVars, parseVars, replyVars, batchVars, schedVars,
            dataVars
<1>1. CASE UNCHANGED <<in_batch_get, batch_count, batch_ret_vector, wire, answers>>
  BY <1>1, <1>i DEF OneBuffer, AllWritten
<1>2. CASE ParseBatchHead
  <2>1. HeadArrived /\ work_state = "parse_head" /\ reqs[cur + 1].op = "BATCH"
    BY <1>2 DEF ParseBatchHead, TakeHead, HeadArrived, At
  <2>2. ~in_batch_get
    <3>1. PICK b \in Nat, i \in 0..BatchNum : AtBatch(b, i)
      BY DEF BatchPhase
    <3>2. Served = cur /\ cur < Len(reqs)
      BY <2>1 DEF HeadArrived, Served
    <3> QED BY <2>1, <3>1, <3>2, NextInBatch
  <2>3. batch_ret_vector = <<>> /\ batch_count = 0
    BY <1>i, <2>2 DEF BatchConsistent
  <2>4. /\ batch_count' = 0 /\ wire' = wire /\ answers' = answers
        /\ batch_ret_vector' = <<EmptyBuf>>
    BY <1>2, <2>3 DEF ParseBatchHead, TakeHead
  <2>5. 0 * MissLen = 0
    BY AnswersLenType
  <2>6. OneBuffer'
    BY <2>4, <2>5 DEF OneBuffer, EmptyBuf
  <2> QED BY <1>i, <2>3, <2>4, <2>6 DEF AllWritten
<1>3. CASE QueryKey
  BY <1>3, <1>i, QueryFills
<1>4. CASE WriteBack
  BY <1>4, NeverStores DEF WriteBack, At
<1>5. CASE SendBatch
  BY <1>5, SendEmpties
<1>6. \/ UNCHANGED <<in_batch_get, batch_count, batch_ret_vector, wire, answers>>
      \/ ParseBatchHead \/ QueryKey \/ WriteBack \/ SendBatch
  BY GetBatchSteps DEF callVars, vars, Write, Read, Close, ClientSend,
     ClientClose, ProcessFunc, EventFires, ConnRead, NewCmd, Waiting, Closing,
     NeedHead, BadMagic, BatchNumError, Exit, ParseKeyed, ParseShort,
     ParseRejected, TakeHead, NeedBody, TakeBody, StoreKvobj, BatchGathers,
     BatchOvercounted
<1> QED
  BY <1>1, <1>2, <1>3, <1>4, <1>5, <1>6

-----------------------------------------------------------------------------
(* The client's side.                                                      *)

\* The last place of a batch is where the next one has not begun, and the
\* stream ends only there.
LEMMA LastPlace ==
  ASSUME NEW b \in Nat, NEW i \in 0..BatchNum
  PROVE  /\ Place(b, i) \in Nat /\ (b + 1) * BatchLen \in Nat
         /\ i = BatchNum => /\ Place(b, i) = (b + 1) * BatchLen
                            /\ Place(b, i) + 1 = Place(b + 1, 0)
         /\ i < BatchNum => /\ Place(b, i) < (b + 1) * BatchLen
                            /\ Place(b, i) + 1 = Place(b, i + 1)
         /\ \A n \in Nat : Place(b, i) = n * BatchLen => i = BatchNum
<1>1. /\ b * BatchLen \in Nat /\ (b + 1) * BatchLen = b * BatchLen + BatchLen
      /\ BatchNum \in Nat \ {0} /\ BatchLen = BatchNum + 1
  BY AnswersLenType, PlacesApart
<1> DEFINE start == b * BatchLen
           end   == (b + 1) * BatchLen
<1>2. Place(b, i) = start + 1 + i /\ Place(b + 1, 0) = end + 1 + 0
  BY DEF Place
<1>3. i < BatchNum => Place(b, i + 1) = start + 1 + (i + 1)
  BY DEF Place
<1>4. ASSUME NEW n \in Nat, Place(b, i) = n * BatchLen PROVE i = BatchNum
  <2>1. n * BatchLen \in Nat /\ n > b
    <3>1. n * BatchLen \in Nat
      BY <1>1
    <3>2. n <= b => n * BatchLen <= start
      BY <1>1, ProductMonotonic
    <3> QED BY <1>1, <1>2, <1>4, <3>1, <3>2
  <2>2. end <= n * BatchLen
    BY <1>1, <2>1, ProductMonotonic
  <2> QED BY <1>1, <1>2, <1>4, <2>1, <2>2
<1> QED
  BY <1>1, <1>2, <1>3, <1>4

\* The client sends on in its batch, or has sent the whole of it.
LEMMA WriteStep ==
  ASSUME TypeOK, Batched(reqs), NEW b \in Nat, TurnOf(b), Write
  PROVE  TurnOf(b)'
<1>t. /\ reqs \in Programs /\ out \in 1..Len(reqs) /\ outLeft \in Nat
      /\ Len(reqs) \in Nat /\ \A i \in 1..Len(reqs) : reqs[i] \in Request
  BY RequestsOf DEF TypeOK
<1>c. /\ Cut(reqs) /\ \E n \in Nat : Len(reqs) = n * BatchLen
      /\ reqs \in Seq(Item)
  BY BatchedCut
<1>l. BatchNum \in Nat \ {0} /\ HeadLen \in Nat \ {0}
  BY AnswersLenType, SizesAssumption
<1>1. /\ caller = "write" /\ taken = b * AnswersLen /\ Sending(b)
      /\ taken' = taken /\ reqs' = reqs
      /\ caller' = IF BatchWhole THEN "read" ELSE "write"
  BY DEF Write, TurnOf, ClientSend, AfterBatch
<1>2. PICK i \in 0..BatchNum : out = Place(b, i)
  BY <1>1 DEF Sending
<1>3. PICK n \in 1..outLeft :
        IF n = outLeft /\ out < Len(reqs)
        THEN out' = out + 1 /\ outLeft' = WireLen(reqs[out + 1])
        ELSE out' = out /\ outLeft' = outLeft - n
  BY DEF Write, ClientSend
<1>4. CASE n = outLeft /\ out < Len(reqs)
  <2>1. out' = out + 1 /\ outLeft' = WireLen(reqs[out + 1])
        /\ reqs[out + 1] \in Request /\ out' \in 1..Len(reqs)
    BY <1>3, <1>4, <1>t
  <2>2. WireLen(reqs[out + 1]) \in Nat \ {0}
    BY <2>1, BodyLenNat, SizesAssumption DEF WireLen
  <2>3. CASE i < BatchNum
    <3>1. out' = Place(b, i + 1) /\ i + 1 \in 0..BatchNum /\ i + 1 # 0
      BY <1>2, <1>l, <2>1, <2>3, LastPlace
    <3>2. reqs[out'].op = "GET"
      <4>1. Place(b, i + 1) \in 1..Len(reqs)
        BY <2>1, <3>1
      <4>2. Place(b, i + 1) <= Len(reqs)
        BY <4>1, <1>t
      <4> QED BY <1>c, <3>1, <4>2 DEF Cut
    <3>3. ~BatchWhole
      BY <2>1, <2>2, <3>2 DEF BatchWhole
    <3>4. Sending(b)'
      BY <2>1, <2>2, <3>1 DEF Sending
    <3> QED BY <1>1, <3>3, <3>4 DEF TurnOf
  <2>4. CASE i = BatchNum
    <3>1. out' = Place(b + 1, 0) /\ 0 \in 0..BatchNum
      BY <1>2, <1>l, <2>1, <2>4, LastPlace
    <3>2. reqs[out'].op = "BATCH"
      <4>1. Place(b + 1, 0) \in 1..Len(reqs) /\ b + 1 \in Nat
        BY <2>1, <3>1
      <4>2. Place(b + 1, 0) <= Len(reqs)
        BY <4>1, <1>t
      <4> QED BY <1>c, <3>1, <4>1, <4>2 DEF Cut
    <3>3. BatchWhole
      BY <1>t, <2>1, <3>2 DEF BatchWhole
    <3>4. outLeft' = HeadLen
      <4>1. reqs[out + 1] \in Item
        BY <1>c, <2>1
      <4>2. \A r \in Item : r.op = "BATCH" => BodyLen(r) = 0
        BY DEF Item, BatchHead, Package, BodyLen
      <4>3. reqs[out + 1].op = "BATCH"
        BY <2>1, <3>2
      <4> QED BY <1>l, <2>1, <4>1, <4>2, <4>3 DEF WireLen
    <3>5. SentWhole(b)'
      BY <3>1, <3>4 DEF SentWhole
    <3> QED BY <1>1, <3>3, <3>5 DEF TurnOf
  <2> QED BY <1>l, <2>3, <2>4
<1>5. CASE ~(n = outLeft /\ out < Len(reqs))
  <2>1. out' = out /\ outLeft' = outLeft - n
    BY <1>3, <1>5
  <2>2. CASE n = outLeft
    <3>1. out = Len(reqs) /\ outLeft' = 0
      BY <1>5, <1>t, <2>1, <2>2
    <3>2. out = (b + 1) * BatchLen
      <4>1. PICK m \in Nat : Len(reqs) = m * BatchLen
        BY <1>c
      <4>2. Place(b, i) = m * BatchLen
        BY <1>2, <3>1, <4>1
      <4>3. i = BatchNum
        BY <4>2, LastPlace
      <4> QED BY <1>2, <4>3, LastPlace
    <3>3. AtEnd(b)'
      BY <1>1, <2>1, <3>1, <3>2 DEF AtEnd
    <3> QED BY <1>1, <3>1, <3>3 DEF BatchWhole, TurnOf, SentWhole
  <2>3. CASE n # outLeft
    <3>1. outLeft' > 0 /\ outLeft' # 0
      BY <1>t, <2>1, <2>3
    <3>2. ~BatchWhole
      BY <2>1, <3>1 DEF BatchWhole
    <3>3. Sending(b)'
      BY <1>2, <2>1, <3>1 DEF Sending
    <3> QED BY <1>1, <3>2, <3>3 DEF TurnOf
  <2> QED BY <2>2, <2>3
<1> QED
  BY <1>4, <1>5

\* One read takes the answers of a batch, and none of the next.
LEMMA ReadStep ==
  ASSUME IInv, StreamAligned, BatchPhase, reqs \in Seq(Item), AllWritten,
         peer = "open", AnswersFit, NEW b \in Nat, TurnOf(b), Read
  PROVE  TurnOf(b)' \/ TurnOf(b + 1)'
<1>t. /\ taken \in Nat /\ Len(wire) \in Nat /\ outLeft \in Nat
  BY DEF IInv, TypeOK
<1>l. /\ AnswersLen \in Nat \ {0} /\ HeadLen \in Nat \ {0}
      /\ BatchNum \in Nat \ {0} /\ RecBufSize \in Nat
  BY AnswersLenType, SizesAssumption, GetBatchAssumption
<1>1. /\ caller = "read" /\ taken = b * AnswersLen /\ SentWhole(b)
      /\ taken < Len(wire)
      /\ taken' = taken + Least(RecBufSize, Len(wire) - taken)
      /\ caller' = IF outLeft = 0 THEN "close" ELSE "write"
      /\ UNCHANGED <<reqs, out, outLeft>>
  BY DEF Read, TurnOf
<1>p. PICK d \in Nat, i \in 0..BatchNum : AtBatch(d, i)
  BY DEF BatchPhase
<1>2. Len(wire) = d * AnswersLen
  BY <1>p, WrittenBatches
<1>3. d > b
  <2>1. d <= b => d * AnswersLen <= b * AnswersLen
    BY <1>l, ProductMonotonic
  <2>2. d * AnswersLen \in Nat /\ b * AnswersLen \in Nat
    BY <1>l
  <2> QED BY <1>1, <1>2, <2>1, <2>2
<1>4. d <= b + 1
  <2>1. Served >= d * BatchLen
    <3>1. d * BatchLen \in Nat
      BY PlacesApart
    <3>2. Place(d, i) >= d * BatchLen
      BY <1>l, <3>1 DEF Place
    <3> QED BY <1>p, <3>1, <3>2 DEF AtBatch
  <2> QED BY <1>1, <2>1, ServedUpTo
<1>5. taken' = (b + 1) * AnswersLen
  <2>1. d = b + 1
    BY <1>3, <1>4
  <2>2. (b + 1) * AnswersLen = b * AnswersLen + AnswersLen /\ b * AnswersLen \in Nat
    BY <1>l
  <2>3. Len(wire) - taken = AnswersLen
    BY <1>1, <1>2, <1>l, <2>1, <2>2
  <2>4. Least(RecBufSize, AnswersLen) = AnswersLen
    BY <1>l DEF Least, AnswersFit
  <2> QED BY <1>1, <2>2, <2>3, <2>4
<1>6. CASE AtEnd(b)
  BY <1>1, <1>5, <1>6 DEF AtEnd, TurnOf
<1>7. CASE ~AtEnd(b)
  <2>1. outLeft = HeadLen /\ out = Place(b + 1, 0) /\ 0 \in 0..BatchNum
    BY <1>1, <1>7, <1>l DEF SentWhole
  <2>2. Sending(b + 1)'
    BY <1>1, <1>l, <2>1 DEF Sending
  <2> QED BY <1>1, <1>5, <1>l, <2>1, <2>2 DEF TurnOf
<1> QED
  BY <1>6, <1>7

\* A turn passes from the client to the server and back.
LEMMA TurnStep ==
  ASSUME IInv, StreamAligned, Batched(reqs), BatchPhase, InStep, AnswersFit,
         caller # "done", [GetBatchNext]_callVars
  PROVE  caller' = "done" \/ (peer' = "open" /\ TurnTaken')
<1>i. peer = "open" /\ AllWritten /\ TypeOK /\ reqs \in Seq(Item)
  BY BatchedCut DEF InStep, IInv
<1>b. PICK b \in Nat : TurnOf(b)
  BY DEF InStep, TurnTaken
<1>1. CASE UNCHANGED <<reqs, out, outLeft, taken, caller>>
  <2>1. TurnOf(b)'
    BY <1>1, <1>b DEF TurnOf, Sending, SentWhole, AtEnd
  <2>2. \/ UNCHANGED callVars \/ Write \/ Read
        \/ ProcessFunc \/ EventFires
    BY <1>1, GetBatchSteps DEF Close
  <2>3. UNCHANGED peer \/ ProcessFunc \/ EventFires
    BY <2>2 DEF callVars, vars, netVars, Write, ClientSend, Read
  <2>4. peer' = "open"
    BY <1>i, <2>3, StaysOpen
  <2> QED BY <2>1, <2>4 DEF TurnTaken
<1>2. CASE Write
  <2>1. TurnOf(b)'
    BY <1>2, <1>b, <1>i, WriteStep
  <2> QED BY <1>2, <1>i, <2>1 DEF Write, ClientSend, TurnTaken
<1>3. CASE Read
  <2>1. TurnOf(b)' \/ TurnOf(b + 1)'
    BY <1>3, <1>b, <1>i, ReadStep
  <2> QED BY <1>3, <1>i, <2>1 DEF Read, TurnTaken
<1>4. CASE Close
  BY <1>4 DEF Close
<1>5. UNCHANGED <<reqs, out, outLeft, taken, caller>> \/ Write \/ Read \/ Close
  BY GetBatchSteps DEF callVars, vars, netVars, ProcessFunc, EventFires, ConnRead,
     NewCmd, Waiting, Closing, NeedHead, BadMagic, BatchNumError, Exit,
     ParseKeyed, ParseBatchHead, ParseShort, ParseRejected, TakeHead, NeedBody,
     TakeBody, StoreKvobj, QueryKey, WriteBack, BatchGathers, SendBatch,
     BatchOvercounted, NotWritten
<1> QED
  BY <1>1, <1>2, <1>3, <1>4, <1>5

\* At the start it is the client's turn.
LEMMA InStepInit == GetBatchInit => InStep
<1> SUFFICES ASSUME GetBatchInit PROVE InStep
  OBVIOUS
<1>1. Init /\ caller = "write" /\ reqs \in Programs
  BY DEF GetBatchInit, Init
<1>2. /\ peer = "open" /\ store = [k \in Keys |-> 0] /\ value = 0
      /\ wire = <<>> /\ answers = <<>> /\ taken = 0 /\ in_batch_get = FALSE
      /\ batch_count = 0 /\ out = 1 /\ outLeft = WireLen(reqs[1])
  BY <1>1 DEF Init, ServerInit
<1>l. BatchNum \in Nat \ {0} /\ BatchLen \in Nat /\ AnswersLen \in Nat
      /\ MissLen \in Nat
  BY AnswersLenType
<1>3. AllWritten
  <2>1. (0 - 0) * MissLen = 0
    BY <1>l
  <2>2. Len(wire) = 0 /\ Len(answers) = 0
    BY <1>2
  <2> QED BY <1>2, <2>1, <2>2 DEF AllWritten
<1>4. TurnOf(0)
  <2>1. reqs[1] \in Request
    BY <1>1, RequestsOf
  <2>2. outLeft > 0
    BY <1>2, <2>1, BodyLenNat, SizesAssumption DEF WireLen
  <2>3. 0 * AnswersLen = 0 /\ 0 * BatchLen = 0
    BY <1>l
  <2>4. out = Place(0, 0) /\ 0 \in 0..BatchNum
    BY <1>2, <1>l, <2>3 DEF Place
  <2> QED BY <1>1, <1>2, <2>2, <2>3, <2>4 DEF TurnOf, Sending
<1> QED
  BY <1>2, <1>3, <1>4 DEF InStep, NothingFound, OneBuffer, TurnTaken

-----------------------------------------------------------------------------
(* Lockstep.                                                               *)

\* The GETs of the first n batches.
GetsOf(n) == {p \in 1..n * BatchLen : reqs[p].op = "GET"}

LEMMA GetsCount ==
  ASSUME Cut(reqs), NEW m \in Nat, m * BatchLen <= Len(reqs), Len(reqs) \in Nat
  PROVE  /\ IsFiniteSet(GetsOf(m)) /\ Cardinality(GetsOf(m)) = m * BatchNum
<1>l. BatchNum \in Nat \ {0} /\ BatchLen = BatchNum + 1 /\ BatchLen \in Nat
  BY AnswersLenType
<1> DEFINE Good(n) == IsFiniteSet(GetsOf(n)) /\ Cardinality(GetsOf(n)) = n * BatchNum
           S == {n \in Nat : n <= m => Good(n)}
<1>1. 0 \in S
  <2>1. 0 * BatchLen = 0 /\ 0 * BatchNum = 0
    BY <1>l
  <2>2. GetsOf(0) = {}
    BY <2>1 DEF GetsOf
  <2> QED BY <2>1, <2>2, FS_EmptySet
<1>2. ASSUME NEW n \in Nat, n \in S PROVE n + 1 \in S
  <2> SUFFICES ASSUME n + 1 <= m PROVE Good(n + 1)
    OBVIOUS
  <2> DEFINE more == n * BatchLen + 2 .. n * BatchLen + BatchLen
  <2>1. Good(n)
    BY <1>2
  <2>2. /\ n * BatchLen \in Nat /\ (n + 1) * BatchLen = n * BatchLen + BatchLen
        /\ n * BatchNum \in Nat /\ (n + 1) * BatchNum = n * BatchNum + BatchNum
    BY <1>l
  <2>3. (n + 1) * BatchLen <= Len(reqs)
    <3>1. (n + 1) * BatchLen <= m * BatchLen /\ m * BatchLen \in Nat
      BY <1>l, ProductMonotonic
    <3> QED BY <1>l, <2>2, <3>1
  <2>4. GetsOf(n + 1) = GetsOf(n) \cup more
    <3>1. ASSUME NEW p \in n * BatchLen + 1 .. n * BatchLen + BatchLen
          PROVE  reqs[p].op = "GET" <=> p \in more
      <4> DEFINE i == p - (n * BatchLen + 1)
      <4>1. i \in 0..BatchNum /\ p = Place(n, i) /\ p <= Len(reqs)
        BY <1>l, <2>2, <2>3 DEF Place
      <4>2. IF i = 0 THEN reqs[p].op = "BATCH" ELSE reqs[p].op = "GET"
        BY <4>1 DEF Cut
      <4>3. i = 0 <=> p \notin more
        BY <1>l, <2>2
      <4> QED BY <4>2, <4>3
    <3>2. \A p : p \in 1..(n + 1) * BatchLen <=>
                   \/ p \in 1..n * BatchLen
                   \/ p \in n * BatchLen + 1 .. n * BatchLen + BatchLen
      BY <1>l, <2>2
    <3>3. more \subseteq n * BatchLen + 1 .. n * BatchLen + BatchLen
      BY <2>2
    <3> QED BY <3>1, <3>2, <3>3 DEF GetsOf
  <2>5. GetsOf(n) \cap more = {}
    BY <2>2 DEF GetsOf
  <2>6. IsFiniteSet(more) /\ Cardinality(more) = BatchNum
    <3>1. n * BatchLen + 2 \in Int /\ n * BatchLen + BatchLen \in Int
      BY <1>l, <2>2
    <3>2. /\ IsFiniteSet(more)
          /\ Cardinality(more) =
               IF n * BatchLen + 2 > n * BatchLen + BatchLen THEN 0
               ELSE (n * BatchLen + BatchLen) - (n * BatchLen + 2) + 1
      BY <3>1, FS_Interval
    <3> QED BY <1>l, <2>2, <3>2
  <2> HIDE DEF more
  <2>7. IsFiniteSet(GetsOf(n + 1))
        /\ Cardinality(GetsOf(n + 1)) = n * BatchNum + BatchNum
    <3>1. /\ IsFiniteSet(GetsOf(n) \cup more)
          /\ Cardinality(GetsOf(n) \cup more) =
               Cardinality(GetsOf(n)) + Cardinality(more)
                 - Cardinality(GetsOf(n) \cap more)
      BY <2>1, <2>6, FS_Union
    <3>2. Cardinality(GetsOf(n) \cap more) = 0
      BY <2>5, FS_EmptySet
    <3>3. Cardinality(GetsOf(n) \cup more) = n * BatchNum + BatchNum - 0
      BY <2>1, <2>6, <3>1, <3>2
    <3>4. n * BatchNum + BatchNum - 0 = n * BatchNum + BatchNum
      BY <1>l, <2>2
    <3> QED BY <2>4, <3>1, <3>3, <3>4, Zenon
  <2> QED BY <2>2, <2>7
<1> HIDE DEF S
<1>3. m \in S
  BY <1>1, <1>2, NatSetInduction
<1> QED
  BY <1>3 DEF S

\* The batches before the one that is being sent are those of Lockstep.
LEMMA TurnIsLockstep ==
  ASSUME TypeOK, Batched(reqs), caller # "done", InStep PROVE Lockstep
<1> SUFFICES ASSUME caller = "write"
             PROVE  LET before == {i \in 1..(out - 1) : reqs[i].op = "GET" /\
                                     \E j \in i + 1 .. out : reqs[j].op = "BATCH"}
                    IN  taken = Cardinality(before)
                                  * (HeadLen + KeyLen + NotFoundLen)
  BY DEF Lockstep
<1> DEFINE before == {i \in 1..(out - 1) : reqs[i].op = "GET" /\
                        \E j \in i + 1 .. out : reqs[j].op = "BATCH"}
<1>t. out \in 1..Len(reqs) /\ Len(reqs) \in Nat
  BY RequestsOf DEF TypeOK
<1>c. Cut(reqs)
  BY BatchedCut
<1>l. BatchNum \in Nat \ {0} /\ BatchLen = BatchNum + 1 /\ BatchLen \in Nat
      /\ MissLen \in Nat
  BY AnswersLenType
<1>1. PICK b \in Nat, k \in 0..BatchNum :
        taken = b * AnswersLen /\ out = Place(b, k)
  BY DEF InStep, TurnTaken, TurnOf, Sending
<1>2. b * BatchLen \in Nat /\ out = b * BatchLen + 1 + k
  BY <1>1, <1>l DEF Place
<1>3. before = GetsOf(b)
  <2>1. ASSUME NEW p \in GetsOf(b) PROVE p \in before
    <3>1. p \in 1..b * BatchLen /\ reqs[p].op = "GET"
      BY DEF GetsOf
    <3>2. Place(b, 0) \in p + 1 .. out /\ Place(b, 0) <= Len(reqs)
          /\ p \in 1..(out - 1)
      BY <1>2, <1>l, <1>t, <3>1 DEF Place
    <3>3. reqs[Place(b, 0)].op = "BATCH"
      BY <1>c, <1>l, <3>2 DEF Cut
    <3> QED BY <3>1, <3>2, <3>3
  <2>2. ASSUME NEW p \in before PROVE p \in GetsOf(b)
    <3>1. PICK j \in p + 1 .. out : reqs[j].op = "BATCH"
      OBVIOUS
    <3>2. p \in 1..(out - 1) /\ reqs[p].op = "GET"
      OBVIOUS
    <3> SUFFICES ASSUME p > b * BatchLen PROVE FALSE
      BY <1>2, <3>2 DEF GetsOf
    <3> DEFINE i == j - (b * BatchLen + 1)
    <3>3. i \in 0..BatchNum /\ i # 0 /\ j = Place(b, i) /\ j <= Len(reqs)
      BY <1>2, <1>l, <1>t, <3>1, <3>2 DEF Place
    <3>4. reqs[j].op = "GET"
      BY <1>c, <3>3 DEF Cut
    <3> QED BY <3>1, <3>4
  <2>3. GetsOf(b) \subseteq 1..b * BatchLen /\ before \subseteq 1..(out - 1)
    BY DEF GetsOf
  <2> HIDE DEF before
  <2> QED BY <2>1, <2>2
<1>4. Cardinality(GetsOf(b)) = b * BatchNum
  BY <1>2, <1>c, <1>l, <1>t, GetsCount
<1>5. b * AnswersLen = (b * BatchNum) * MissLen
  BY <1>l DEF AnswersLen
<1> QED
  BY <1>1, <1>3, <1>4, <1>5 DEF MissLen

LockstepInv ==
  IInv /\ StreamAligned /\ Batched(reqs) /\ BatchPhase /\ InStep

\* At the start nothing is sent, and nothing is to be read.
LEMMA LockstepInvInit == GetBatchInit => LockstepInv
<1> SUFFICES ASSUME GetBatchInit PROVE LockstepInv
  OBVIOUS
<1>1. Init /\ reqs \in BatchStreams /\ caller = "write"
  BY DEF GetBatchInit
<1>2. IInv /\ Batched(reqs) /\ InStep
  BY <1>1, InvInit, InStepInit, StreamsBatched
<1>3. StreamAligned /\ BatchPhase
  BY <1>1, StreamInit, PhaseInit
<1> QED
  BY <1>2, <1>3 DEF LockstepInv

\* With answers that fit the buffers on their way, the client of get_batch,
\* which ignores how much it reads, has read the answers of all batches before
\* the one it writes: for every database, and however the kernel cuts what it
\* sends, whatever the size of read_buf and the server's rounds.
THEOREM LockstepCorrect == AnswersFit => (GetBatchSpec => []Lockstep)
<1> SUFFICES ASSUME AnswersFit PROVE GetBatchSpec => []Lockstep
  OBVIOUS
<1>1. LockstepInv /\ [GetBatchNext]_callVars => LockstepInv'
  <2> SUFFICES ASSUME LockstepInv, [GetBatchNext]_callVars
               PROVE  LockstepInv'
    OBVIOUS
  <2>1. /\ IInv /\ StreamAligned /\ Batched(reqs) /\ BatchPhase /\ InStep
        /\ TypeOK
    BY DEF LockstepInv, IInv
  <2>2. [Next]_vars /\ reqs' = reqs
    BY <2>1, GetBatchIsConnection, GetBatchSteps
  <2>3. Cut(reqs) /\ reqs \in Seq(Item)
    BY <2>1, BatchedCut
  <2>4. IInv' /\ StreamAligned' /\ BatchPhase' /\ Batched(reqs)'
    BY <2>1, <2>2, <2>3, InvStep, StreamStep, PhaseStep DEF Batched
  <2>5. InStep'
    <3>1. CASE caller = "done"
      BY <3>1, GetBatchSteps DEF InStep, Write, Read, Close, callVars
    <3>2. CASE caller # "done"
      BY <2>1, <2>3, <3>2, NothingFoundStep, BufferStep, TurnStep DEF InStep
    <3> QED BY <3>1, <3>2
  <2> QED BY <2>4, <2>5 DEF LockstepInv
<1>2. LockstepInv => Lockstep
  <2>1. caller = "done" => Lockstep
    BY DEF Lockstep
  <2> QED BY <2>1, TurnIsLockstep DEF LockstepInv, IInv
<1>3. GetBatchSpec => GetBatchInit /\ [][GetBatchNext]_callVars
  BY DEF GetBatchSpec
<1> QED
  BY <1>1, <1>2, <1>3, LockstepInvInit, PTL
=============================================================================
