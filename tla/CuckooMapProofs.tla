--------------------------- MODULE CuckooMapProofs ---------------------------
(***************************************************************************)
(* That the hash table implements the dictionary KVMap, for any number of  *)
(* threads, keys, hash values, buckets and slots: every call takes effect  *)
(* at one instant (Linearizable), and the counters of the locks add up to  *)
(* the number of elements (CountersAddUp).                                 *)
(*                                                                         *)
(* EInv adds to what CuckooProofs shows of the locks and the containers:   *)
(* where a call is in its work fits its operation and what it holds, the   *)
(* buckets of a new container are empty until their lock is rehashed, a    *)
(* slot freed by a cuckoo path is free when the new element lands in it,   *)
(* and the counters are right.  Then every step is one of three kinds:     *)
(* Hidden from the dictionary, a call that takes Effect, or a step of the  *)
(* thread that owns the table; and what another thread is about to read is *)
(* Near to nothing that a step writes.                                     *)
(*                                                                         *)
(* Both hold up to a resize that throws in the middle (RebuildThrows of    *)
(* LockedTable), with which the model ends.                                *)
(***************************************************************************)
EXTENDS CuckooProofs

-----------------------------------------------------------------------------
(* Sums of counters *)

(* The loop of size() has a partial sum before each of its rounds.          *)
LEMMA SumIs ==
  ASSUME NEW m \in Nat, NEW c \in [0 .. m - 1 -> Int]
  PROVE  \E s \in [0 .. m -> Int] :
           /\ s[0] = 0 /\ s[m] = Sum(c)
           /\ \A n \in 0 .. m - 1 : s[n + 1] = s[n] + c[n]
<1>1. Cardinality(DOMAIN c) = m
  <2>1. Cardinality(0 .. m - 1) = m
    <3>1. CASE m = 0
      BY <3>1, FS_EmptySet
    <3>2. CASE m # 0
      <4>. DEFINE b == m - 1
      <4>1. b \in Nat /\ m = b + 1
        BY <3>2
      <4>. HIDE DEF b
      <4>2. Cardinality(0 .. b) = b - 0 + 1
        BY <4>1, FS_Interval
      <4>. QED BY <4>1, <4>2
    <3>. QED BY <3>1, <3>2
  <2>. QED BY <2>1
<1>. DEFINE Is(f) == f = [i \in 0 .. m |-> IF i = 0 THEN 0 ELSE f[i - 1] + c[i - 1]]
            s == CHOOSE f : Is(f)
<1>2. \E f : Is(f)
  <2>. DEFINE w == [i \in 1 .. m |-> c[i - 1]]
  <2>1. PICK f : SumsUpTo(f, w, m)
    BY SumsUpToDefined
  <2>2. f = [i \in 0 .. m |-> IF i = 0 THEN 0 ELSE f[i - 1] + w[i]]
    BY <2>1 DEF SumsUpTo
  <2>3. \A i \in 0 .. m : (IF i = 0 THEN 0 ELSE f[i - 1] + w[i])
                            = (IF i = 0 THEN 0 ELSE f[i - 1] + c[i - 1])
    OBVIOUS
  <2>. HIDE DEF w
  <2>. QED BY <2>2, <2>3
<1>3. Is(s)
  <2>. HIDE DEF Is
  <2>. QED BY <1>2
<1>4. Sum(c) = s[m]
  BY <1>1 DEF Sum
<1>. HIDE DEF s
<1>5. DOMAIN s = 0 .. m /\ s[0] = 0 /\ \A i \in 0 .. m : i # 0 => s[i] = s[i - 1] + c[i - 1]
  BY <1>3
<1>6. \A n \in 0 .. m - 1 : s[n + 1] = s[n] + c[n]
  <2>. TAKE n \in 0 .. m - 1
  <2>1. n + 1 \in 0 .. m /\ n + 1 # 0 /\ (n + 1) - 1 = n
    OBVIOUS
  <2>. QED BY <1>5, <2>1
<1>7. \A i \in Nat : i \in {k \in Nat : k <= m => s[k] \in Int}
  <2>. DEFINE S == {k \in Nat : k <= m => s[k] \in Int}
  <2>1. 0 \in S
    BY <1>5
  <2>2. ASSUME NEW i \in Nat, i \in S PROVE i + 1 \in S
    BY <1>6, <2>2
  <2>. HIDE DEF S
  <2>. QED BY <2>1, <2>2, NatSetInduction DEF S
<1>8. s = [i \in 0 .. m |-> s[i]]
  BY <1>3
<1>9. s \in [0 .. m -> Int]
  BY <1>7, <1>8
<1>. QED
  BY <1>4, <1>5, <1>6, <1>9

(* One counter is changed. *)
Added(c, l, d) == [c EXCEPT ![l] = @ + d]

LEMMA SumAdd ==
  ASSUME NEW m \in Nat, NEW c \in [0 .. m - 1 -> Int], NEW l \in 0 .. m - 1, NEW d \in Int
  PROVE  Added(c, l, d) \in [0 .. m - 1 -> Int] /\ Sum(Added(c, l, d)) = Sum(c) + d
<1>. DEFINE e == Added(c, l, d)
<1>1. e \in [0 .. m - 1 -> Int] /\ \A n \in 0 .. m - 1 : e[n] = IF n = l THEN c[n] + d ELSE c[n]
  BY DEF Added
<1>. HIDE DEF e
<1>2. PICK s \in [0 .. m -> Int] : /\ s[0] = 0 /\ s[m] = Sum(c)
                                   /\ \A n \in 0 .. m - 1 : s[n + 1] = s[n] + c[n]
  BY SumIs
<1>3. PICK r \in [0 .. m -> Int] : /\ r[0] = 0 /\ r[m] = Sum(e)
                                   /\ \A n \in 0 .. m - 1 : r[n + 1] = r[n] + e[n]
  BY <1>1, SumIs
<1>. DEFINE S == {n \in Nat : n <= m => r[n] = s[n] + (IF n > l THEN d ELSE 0)}
<1>4. 0 \in S
  BY <1>2, <1>3
<1>5. ASSUME NEW n \in Nat, n \in S PROVE n + 1 \in S
  <2>. SUFFICES ASSUME n + 1 <= m PROVE r[n + 1] = s[n + 1] + (IF n + 1 > l THEN d ELSE 0)
    OBVIOUS
  <2>1. n \in 0 .. m - 1 /\ n \in 0 .. m /\ s[n] \in Int /\ r[n] \in Int /\ c[n] \in Int
    BY <1>2, <1>3
  <2>2. r[n] = s[n] + (IF n > l THEN d ELSE 0)
    BY <1>5
  <2>3. r[n + 1] = r[n] + e[n] /\ s[n + 1] = s[n] + c[n]
    BY <1>2, <1>3, <2>1
  <2>4. e[n] = (IF n = l THEN c[n] + d ELSE c[n]) /\ l \in Int
    BY <1>1, <2>1
  <2>. HIDE DEF S
  <2>5. CASE n < l
    <3>1. ~(n > l) /\ ~(n + 1 > l) /\ n # l
      BY <2>4, <2>5
    <3>2. r[n] = s[n] /\ e[n] = c[n]
      BY <2>1, <2>2, <2>4, <3>1
    <3>. QED BY <2>3, <3>1, <3>2, <2>1
  <2>6. CASE n = l
    <3>1. ~(n > l) /\ n + 1 > l
      BY <2>4, <2>6
    <3>2. r[n] = s[n] /\ e[n] = c[n] + d
      BY <2>1, <2>2, <2>4, <2>6, <3>1
    <3>3. r[n + 1] = s[n] + (c[n] + d) /\ s[n + 1] = s[n] + c[n]
      BY <2>3, <3>2
    <3>4. \A x, y, z \in Int : x + (y + z) = (x + y) + z
      OBVIOUS
    <3>5. s[n] + (c[n] + d) = (s[n] + c[n]) + d
      BY <2>1, <3>4
    <3>. QED BY <3>1, <3>3, <3>5
  <2>7. CASE n > l
    <3>1. n + 1 > l /\ n # l
      BY <2>4, <2>7
    <3>2. r[n] = s[n] + d /\ e[n] = c[n]
      BY <2>2, <2>4, <2>7, <3>1
    <3>. QED BY <2>3, <3>1, <3>2, <2>1
  <2>. QED BY <2>4, <2>5, <2>6, <2>7
<1>. HIDE DEF S
<1>6. m \in S
  BY <1>4, <1>5, NatSetInduction
<1>7. r[m] = s[m] + d
  BY <1>6 DEF S
<1>. QED
  BY <1>1, <1>2, <1>3, <1>7 DEF e

(* Every counter is 0. *)
LEMMA SumZero ==
  ASSUME NEW m \in Nat, NEW c, c = [l \in 0 .. m - 1 |-> 0]
  PROVE  c \in [0 .. m - 1 -> Int] /\ Sum(c) = 0
<1>1. c \in [0 .. m - 1 -> Int] /\ \A n \in 0 .. m - 1 : c[n] = 0
  OBVIOUS
<1>2. PICK s \in [0 .. m -> Int] : /\ s[0] = 0 /\ s[m] = Sum(c)
                                   /\ \A n \in 0 .. m - 1 : s[n + 1] = s[n] + c[n]
  BY <1>1, SumIs
<1>. DEFINE S == {n \in Nat : n <= m => s[n] = 0}
<1>3. 0 \in S
  BY <1>2
<1>4. ASSUME NEW n \in Nat, n \in S PROVE n + 1 \in S
  BY <1>1, <1>2, <1>4
<1>. HIDE DEF S
<1>5. m \in S
  BY <1>3, <1>4, NatSetInduction
<1>. QED
  BY <1>1, <1>2, <1>5 DEF S

(* Positions are counted by their locks. *)
LEMMA SumCount ==
  ASSUME NEW m \in Nat, NEW P, IsFiniteSet(P), \A p \in P : lock_ind(p[1]) \in 0 .. m - 1,
         NEW c, c = [l \in 0 .. m - 1 |-> Cardinality({p \in P : lock_ind(p[1]) = l})]
  PROVE  c \in [0 .. m - 1 -> Int] /\ Sum(c) = Cardinality(P)
<1>. DEFINE Of(l) == {p \in P : lock_ind(p[1]) = l}
            Below(n) == {p \in P : lock_ind(p[1]) < n}
<1>0. \A n : IsFiniteSet(Of(n)) /\ IsFiniteSet(Below(n))
  BY FS_Subset
<1>1. c \in [0 .. m - 1 -> Int] /\ \A l \in 0 .. m - 1 : c[l] = Cardinality(Of(l))
  <2>1. ASSUME NEW l \in 0 .. m - 1 PROVE Cardinality(Of(l)) \in Int
    <3>. HIDE DEF Of
    <3>1. Cardinality(Of(l)) \in Nat
      BY <1>0, FS_CardinalityType
    <3>. QED BY <3>1
  <2>2. c = [l \in 0 .. m - 1 |-> Cardinality(Of(l))]
    OBVIOUS
  <2>. HIDE DEF Of
  <2>. QED BY <2>1, <2>2
<1>2. PICK s \in [0 .. m -> Int] : /\ s[0] = 0 /\ s[m] = Sum(c)
                                   /\ \A n \in 0 .. m - 1 : s[n + 1] = s[n] + c[n]
  BY <1>1, SumIs
<1>. DEFINE S == {n \in Nat : n <= m => s[n] = Cardinality(Below(n))}
<1>3. 0 \in S
  <2>1. Below(0) = {}
    OBVIOUS
  <2>. QED BY <1>2, <2>1, FS_EmptySet
<1>4. ASSUME NEW n \in Nat, n \in S PROVE n + 1 \in S
  <2>. SUFFICES ASSUME n + 1 <= m PROVE s[n + 1] = Cardinality(Below(n + 1))
    OBVIOUS
  <2>1. Below(n + 1) = Below(n) \cup Of(n) /\ Below(n) \cap Of(n) = {}
    OBVIOUS
  <2>2. s[n] = Cardinality(Below(n)) /\ n \in 0 .. m - 1
    BY <1>4
  <2>3. Cardinality(Below(n) \cup Of(n))
          = Cardinality(Below(n)) + Cardinality(Of(n)) - Cardinality(Below(n) \cap Of(n))
    <3>. HIDE DEF Below, Of
    <3>. QED BY <1>0, FS_Union
  <2>4. Cardinality(Below(n)) \in Nat /\ Cardinality(Of(n)) \in Nat
    <3>. HIDE DEF Below, Of
    <3>. QED BY <1>0, FS_CardinalityType
  <2>. HIDE DEF Below, Of
  <2>5. Cardinality(Below(n) \cap Of(n)) = 0
    BY <2>1, FS_EmptySet
  <2>6. Cardinality(Below(n + 1)) = Cardinality(Below(n)) + Cardinality(Of(n))
    <3>1. Cardinality(Below(n + 1)) = Cardinality(Below(n) \cup Of(n))
      BY <2>1, Zenon
    <3>. QED BY <2>3, <2>4, <2>5, <3>1
  <2>7. s[n + 1] = s[n] + c[n] /\ c[n] = Cardinality(Of(n))
    BY <1>1, <1>2, <2>2
  <2>. QED BY <2>2, <2>6, <2>7
<1>5. m \in S
  <2>. HIDE DEF S
  <2>. QED BY <1>3, <1>4, NatSetInduction
<1>6. Below(m) = P
  OBVIOUS
<1>. HIDE DEF Below
<1>. QED
  BY <1>1, <1>2, <1>5, <1>6

-----------------------------------------------------------------------------
(* Dictionaries *)

(* The dictionary of some elements.                                        *)
DictOf(E) ==
  [k \in Keys |-> IF \E kv \in E : kv.key = k
                  THEN (CHOOSE kv \in E : kv.key = k).val ELSE None]

(* Elements, no two of them with the same key. *)
Keyed(E) == E \subseteq KV /\ \A e, f \in E : e.key = f.key => e = f

(* The elements when key k has the value v, or no value.                   *)
With(E, k, v) ==
  {e \in E : e.key # k} \cup (IF v = None THEN {} ELSE {[key |-> k, val |-> v]})

LEMMA DictIs ==
  ASSUME NEW E, Keyed(E)
  PROVE  /\ DictOf(E) \in [Keys -> Vals \cup {None}]
         /\ \A e \in E : e.key \in Keys /\ e.val \in Vals /\ DictOf(E)[e.key] = e.val
         /\ \A k \in Keys : (\A e \in E : e.key # k) => DictOf(E)[k] = None
<1>1. \A e \in E : e.key \in Keys /\ e.val \in Vals
  BY DEF Keyed, KV
<1>2. ASSUME NEW e \in E PROVE DictOf(E)[e.key] = e.val
  <2>1. (CHOOSE kv \in E : kv.key = e.key) = e
    BY DEF Keyed
  <2>. QED BY <1>1, <2>1 DEF DictOf
<1>3. ASSUME NEW k \in Keys, \A e \in E : e.key # k PROVE DictOf(E)[k] = None
  BY <1>3 DEF DictOf
<1>4. ASSUME NEW k \in Keys PROVE DictOf(E)[k] \in Vals \cup {None}
  BY <1>1, <1>2, <1>3
<1>5. DictOf(E) = [k \in Keys |-> DictOf(E)[k]]
  BY DEF DictOf
<1>. QED
  BY <1>1, <1>2, <1>3, <1>4, <1>5

(* A key is bound in the dictionary of its elements. *)
LEMMA DictWith ==
  ASSUME NEW E, Keyed(E), NEW k \in Keys, NEW v \in Vals \cup {None}
  PROVE  Keyed(With(E, k, v)) /\ DictOf(With(E, k, v)) = [DictOf(E) EXCEPT ![k] = v]
<1>. DEFINE F == With(E, k, v)
            kv == [key |-> k, val |-> v]
<1>1. /\ \A e \in F : (e \in E /\ e.key # k) \/ (e = kv /\ v # None)
      /\ \A e \in E : e.key # k => e \in F
      /\ v # None => kv \in F
  BY DEF With
<1>2. kv.key = k /\ kv.val = v /\ (v # None => kv \in KV)
  BY DEF KV
<1>. HIDE DEF F, kv
<1>3. Keyed(F)
  BY <1>1, <1>2 DEF Keyed
<1>4. ASSUME NEW j \in Keys PROVE DictOf(F)[j] = [DictOf(E) EXCEPT ![k] = v][j]
  <2>1. CASE j = k /\ v # None
    BY <1>1, <1>2, <1>3, <2>1, DictIs
  <2>2. CASE j = k /\ v = None
    <3>1. \A e \in F : e.key # k
      BY <1>1, <2>2
    <3>. QED BY <1>3, <2>2, <3>1, DictIs
  <2>3. CASE j # k /\ \E e \in E : e.key = j
    <3>1. PICK e \in E : e.key = j
      BY <2>3
    <3>2. DictOf(E)[j] = e.val /\ DictOf(F)[j] = e.val
      BY <1>1, <1>3, <2>3, <3>1, DictIs
    <3>. QED BY <2>3, <3>2, DictIs
  <2>4. CASE j # k /\ ~ \E e \in E : e.key = j
    <3>1. \A e \in F : e.key # j
      BY <1>1, <1>2, <2>4
    <3>2. DictOf(E)[j] = None /\ DictOf(F)[j] = None
      BY <1>3, <2>4, <3>1, DictIs
    <3>. QED BY <2>4, <3>2, DictIs
  <2>. QED BY <2>1, <2>2, <2>3, <2>4
<1>5. DOMAIN DictOf(F) = Keys /\ DictOf(F) = [j \in Keys |-> DictOf(F)[j]]
  BY DEF DictOf
<1>. QED
  BY <1>3, <1>4, <1>5, DictIs DEF F

(* How many elements there are then. *)
LEMMA CountWith ==
  ASSUME NEW E, Keyed(E), IsFiniteSet(E), NEW k, NEW v
  PROVE  /\ IsFiniteSet(With(E, k, v))
         /\ \A e \in E : e.key = k => Cardinality(With(E, k, v))
                                        = Cardinality(E) - (IF v = None THEN 1 ELSE 0)
         /\ (\A e \in E : e.key # k) => Cardinality(With(E, k, v))
                                          = Cardinality(E) + (IF v = None THEN 0 ELSE 1)
<1>. DEFINE rest == {e \in E : e.key # k}
            kv == [key |-> k, val |-> v]
            n == IF v = None THEN 0 ELSE 1
<1>1. IsFiniteSet(rest) /\ kv \notin rest
  BY FS_Subset
<1>2. IsFiniteSet(With(E, k, v)) /\ Cardinality(With(E, k, v)) = Cardinality(rest) + n
  <2>1. CASE v = None
    <3>1. With(E, k, v) = rest
      BY <2>1 DEF With
    <3>. HIDE DEF rest
    <3>2. Cardinality(rest) \in Nat
      BY <1>1, FS_CardinalityType
    <3>. QED BY <1>1, <2>1, <3>1, <3>2
  <2>2. CASE v # None
    <3>1. With(E, k, v) = rest \cup {kv}
      BY <2>2 DEF With
    <3>. HIDE DEF rest, kv
    <3>. QED BY <1>1, <2>2, <3>1, FS_AddElement
  <2>. QED BY <2>1, <2>2
<1>3. ASSUME NEW e \in E, e.key = k PROVE Cardinality(rest) = Cardinality(E) - 1
  <2>1. rest = E \ {e}
    BY <1>3 DEF Keyed
  <2>. HIDE DEF rest
  <2>. QED BY <2>1, FS_RemoveElement
<1>4. ASSUME \A e \in E : e.key # k PROVE rest = E
  BY <1>4
<1>5. Cardinality(rest) \in Nat /\ Cardinality(E) \in Nat
  <2>. HIDE DEF rest
  <2>. QED BY <1>1, FS_CardinalityType
<1>. HIDE DEF rest
<1>. QED
  BY <1>2, <1>3, <1>4, <1>5

-----------------------------------------------------------------------------
(* The elements of the table *)

(* The buckets of the old container whose elements count.                  *)
Counting == IF Swapped THEN DOMAIN old ELSE Live(old, is_migrated)

Contained == Content(buckets, old, Counting)

(* Elements is what the containers hold, under distinct keys.              *)
LEMMA ElementsAre ==
  ASSUME DInv
  PROVE  /\ Elements = Contained /\ Keyed(Elements) /\ IsFiniteSet(Elements)
         /\ Count = Cardinality(Elements)
<1>. DEFINE A == LivePositions(buckets, FALSE)
            B == LivePositions(old, TRUE)
            fA == [p \in A |-> At(buckets, p)]
            fB == [p \in B |-> At(old, p)]
            cell(x) == Cell(buckets, old, Counting, x)
<1>1. /\ \A p \in A : p \in (DOMAIN buckets) \X Slots /\ p[1] \in Nat
                      /\ At(buckets, p) # Vacant /\ At(buckets, p) \in KV
      /\ \A p \in B : p \in (DOMAIN old) \X Slots /\ p[1] \in Nat
                      /\ At(old, p) # Vacant /\ At(old, p) \in KV
      /\ IsFiniteSet(A) /\ IsFiniteSet(B)
  BY PositionsAre
<1>2. Elements = {fA[p] : p \in A} \cup {fB[p] : p \in B}
  BY DEF Elements
<1>3. IsFiniteSet(Elements) /\ Elements \subseteq KV
  <2>1. IsFiniteSet({fA[p] : p \in A}) /\ IsFiniteSet({fB[p] : p \in B})
    <3>1. ASSUME NEW P, IsFiniteSet(P), NEW f, DOMAIN f = P, f = [p \in P |-> f[p]]
          PROVE  IsFiniteSet({f[p] : p \in P})
      <4>1. f \in Surjection(P, {f[p] : p \in P})
        BY <3>1 DEF Surjection
      <4>. QED BY <3>1, <4>1, FS_Surjection
    <3>2. DOMAIN fA = A /\ fA = [p \in A |-> fA[p]] /\ DOMAIN fB = B /\ fB = [p \in B |-> fB[p]]
      OBVIOUS
    <3>. HIDE DEF A, B, fA, fB
    <3>. QED BY <1>1, <3>1, <3>2
  <2>2. IsFiniteSet({fA[p] : p \in A} \cup {fB[p] : p \in B})
    <3>. HIDE DEF A, B, fA, fB
    <3>. QED BY <2>1, FS_Union
  <2>. QED BY <1>1, <1>2, <2>2
<1>4. /\ \A p : p \in A <=> /\ p \in (DOMAIN buckets) \X Slots
                            /\ buckets[p[1]][p[2]] # Vacant
      /\ \A p : p \in B <=> /\ p \in (DOMAIN old) \X Slots /\ p[1] \in Counting
                            /\ old[p[1]][p[2]] # Vacant
  BY DEF LivePositions, Positions, occupied, Counting, Live
<1>5. Counting \subseteq DOMAIN old
  BY DEF Counting, Live
<1>6. ASSUME NEW kv \in Elements PROVE kv \in Contained
  <2>1. CASE \E p \in A : kv = At(buckets, p)
    <3>1. PICK p \in A : kv = At(buckets, p)
      BY <2>1
    <3>2. <<1, p[1], p[2]>> \in Cells /\ cell(<<1, p[1], p[2]>>) = kv /\ kv # Vacant
      BY <1>1, <3>1 DEF Cells, Cell, At
    <3>. QED BY <3>2 DEF Content, Contained
  <2>2. CASE \E p \in B : kv = At(old, p)
    <3>1. PICK p \in B : kv = At(old, p)
      BY <2>2
    <3>2. p[1] \in Counting
      BY <1>4
    <3>3. p[1] \in Nat /\ p[2] \in Slots /\ kv = old[p[1]][p[2]] /\ kv # Vacant
      BY <1>1, <3>1 DEF At
    <3>4. <<2, p[1], p[2]>> \in Cells
      BY <3>3 DEF Cells
    <3>5. cell(<<2, p[1], p[2]>>) = kv
      BY <3>2, <3>3 DEF Cell
    <3>. QED BY <3>3, <3>4, <3>5 DEF Content, Contained
  <2>. QED BY <2>1, <2>2 DEF Elements
<1>7. ASSUME NEW kv \in Contained PROVE kv \in Elements
  <2>1. PICK x \in Cells : kv = cell(x) /\ kv # Vacant
    BY <1>7 DEF Content, Contained
  <2>2. x[3] \in Slots
    BY DEF Cells
  <2>3. CASE x[1] = 1
    <3>. DEFINE p == <<x[2], x[3]>>
    <3>1. p \in (DOMAIN buckets) \X Slots /\ buckets[p[1]][p[2]] = kv
      BY <2>1, <2>2, <2>3 DEF Cell
    <3>2. p \in A /\ kv = At(buckets, p)
      BY <1>4, <2>1, <3>1 DEF At
    <3>. QED BY <3>2 DEF Elements
  <2>4. CASE x[1] # 1
    <3>. DEFINE p == <<x[2], x[3]>>
    <3>1. p[1] \in Counting /\ p \in (DOMAIN old) \X Slots /\ old[p[1]][p[2]] = kv
      BY <1>5, <2>1, <2>2, <2>4 DEF Cell
    <3>2. p \in B /\ kv = At(old, p)
      BY <1>4, <2>1, <3>1 DEF At
    <3>. QED BY <3>2 DEF Elements
  <2>. QED BY <2>3, <2>4
<1>8. Elements = Contained
  BY <1>6, <1>7
<1>9. Apart(buckets, old, Counting)
  <2>1. CASE Swapped
    <3>1. buckets = NoOld /\ GoodTable(old_hashpower, old) /\ Single(old)
      BY <2>1 DEF DInv, DataInv, SwappedOK, LoneTable
    <3>2. \A i \in DOMAIN buckets, s \in Slots : buckets[i][s] = Vacant
      BY <3>1 DEF NoOld
    <3>3. Apart(buckets, old, Buckets(old_hashpower)) /\ DOMAIN old = Buckets(old_hashpower)
      BY <3>1, <3>2, ApartBehind DEF GoodTable, Containers
    <3>. QED BY <2>1, <3>3 DEF Counting
  <2>2. CASE ~ Swapped
    BY <2>2 DEF DInv, DataInv, TableOK, Counting
  <2>. QED BY <2>1, <2>2
<1>10. ASSUME NEW d \in Contained, NEW e \in Contained, d.key = e.key PROVE d = e
  <2>1. PICK x \in Cells : d = cell(x) /\ d # Vacant
    BY <1>10 DEF Content, Contained
  <2>2. PICK y \in Cells : e = cell(y) /\ e # Vacant
    BY <1>10 DEF Content, Contained
  <2>3. x = y
    BY <1>9, <1>10, <2>1, <2>2 DEF Apart
  <2>. QED BY <2>1, <2>2, <2>3
<1>11. Keyed(Elements)
  BY <1>3, <1>8, <1>10 DEF Keyed
<1>12. Cardinality({kv.key : kv \in Elements}) = Cardinality(Elements)
  <2>. DEFINE f == [e \in Elements |-> e.key]
  <2>1. \A p, q \in Elements : f[p] = f[q] => p = q
    BY <1>11 DEF Keyed
  <2>2. {f[e] : e \in Elements} = {kv.key : kv \in Elements}
    OBVIOUS
  <2>. HIDE DEF f
  <2>3. Cardinality({f[e] : e \in Elements}) = Cardinality(Elements)
    BY <1>3, <2>1, KeyCount
  <2>. QED BY <2>2, <2>3
<1>. QED
  BY <1>3, <1>8, <1>11, <1>12, DInvNoDuplicates DEF NoDuplicates

(* What is in a container, seen through an empty one in front of it.       *)
LEMMA ContentBehind ==
  ASSUME NEW data, NEW empty,
         \A i \in DOMAIN empty, s \in Slots : empty[i][s] = Vacant
  PROVE  Content(data, NoOld, {}) = Content(empty, data, DOMAIN data)
<1>1. ASSUME NEW x \in Cells, Cell(empty, data, DOMAIN data, x) # Vacant
      PROVE  \E z \in Cells : Cell(data, NoOld, {}, z) = Cell(empty, data, DOMAIN data, x)
  <2>. DEFINE z == <<1, x[2], x[3]>>
  <2>1. x[1] = 2 /\ x[2] \in DOMAIN data /\ x[2] \in Nat /\ x[3] \in Slots
    BY <1>1 DEF Cells, Cell
  <2>2. z \in Cells
    BY <2>1 DEF Cells
  <2>3. Cell(data, NoOld, {}, z) = Cell(empty, data, DOMAIN data, x)
    BY <2>1 DEF Cell
  <2>. QED BY <2>2, <2>3
<1>2. ASSUME NEW x \in Cells, Cell(data, NoOld, {}, x) # Vacant
      PROVE  \E z \in Cells : Cell(empty, data, DOMAIN data, z) = Cell(data, NoOld, {}, x)
  <2>. DEFINE z == <<2, x[2], x[3]>>
  <2>1. x[1] = 1 /\ x[2] \in DOMAIN data /\ x[2] \in Nat /\ x[3] \in Slots
    BY <1>2 DEF Cells, Cell
  <2>2. z \in Cells
    BY <2>1 DEF Cells
  <2>3. Cell(empty, data, DOMAIN data, z) = Cell(data, NoOld, {}, x)
    BY <2>1 DEF Cell
  <2>. QED BY <2>2, <2>3
<1>. QED
  BY <1>1, <1>2, ContentFrom

(* The same of the dictionary: Dict is that of the elements.                *)
LEMMA DictOfElements == Dict = DictOf(Elements)
  BY DEF Dict, DictOf

(* The containers of a table that is being rehashed, and of one that is not. *)
LEMMA ElementsOf ==
  /\ DInv /\ ~ Swapped => Elements = Content(buckets, old, Live(old, is_migrated))
  /\ DInv /\ ~ Swapped /\ old = NoOld => Elements = Contents(buckets)
  /\ DInv /\ Swapped => Elements = Contents(old)
<1>1. ASSUME DInv, ~ Swapped PROVE Elements = Content(buckets, old, Live(old, is_migrated))
  BY <1>1, ElementsAre DEF Contained, Counting
<1>2. ASSUME DInv, ~ Swapped, old = NoOld PROVE Elements = Contents(buckets)
  <2>1. Live(old, is_migrated) = {}
    BY <1>2, NothingLive
  <2>. QED BY <1>1, <1>2, <2>1 DEF Contents
<1>3. ASSUME DInv, Swapped PROVE Elements = Contents(old)
  <2>1. Elements = Content(buckets, old, DOMAIN old) /\ DOMAIN buckets = {}
    BY <1>3, ElementsAre DEF Contained, Counting, DInv, DataInv, SwappedOK, NoOld
  <2>2. Content(old, NoOld, {}) = Content(buckets, old, DOMAIN old)
    BY <2>1, ContentBehind
  <2>. QED BY <2>1, <2>2 DEF Contents
<1>. QED
  BY <1>1, <1>2, <1>3

-----------------------------------------------------------------------------
(* Calls and their labels *)

(* What brings a call to a label, at depth d of a path.                     *)
CallFits(p, d, c) ==
  /\ p = "idle" => c = NoCall
  /\ p \in {"search", "path", "move", "land", "double", "swap", "install"} => c.op \in Inserting
  /\ p \in {"get_locks", "lock"} /\ d # -1 => c.op \in Inserting
  /\ p \in {"rehash", "expand"} => c.op \in Resizing
  /\ p = "clear" => c.op = "clear"
  /\ p \in {"take_table", "table"} => c.op = "lock_table"
  /\ p \in {"lock_all", "lock_each"} =>
       c.op \in {"clear", "lock_table"} \cup Resizing \cup Inserting

(* The locks of the next move along a path.                                *)
PathLocks(f, c) ==
  LocksOf(IF f.depth = 0 THEN TwoBuckets(f.hp, c.key)
          ELSE IF f.depth = 1 THEN TwoBuckets(f.hp, c.key) \cup {f.path[f.depth + 1].bucket}
          ELSE {f.path[f.depth].bucket, f.path[f.depth + 1].bucket})

(* A thread takes them, and has them when it moves.                        *)
PathLocked(p, f, c, held) ==
  /\ p = "get_locks" /\ f.depth >= 0 => PathLocks(f, c) \subseteq f.want
  /\ p = "lock" /\ f.depth >= 0 => PathLocks(f, c) \subseteq f.want \cup held
  /\ p = "move" => PathLocks(f, c) \subseteq held

CallInv(u) ==
  /\ CallFits(pc[u], frame[u].depth, call[u])
  /\ PathLocked(pc[u], frame[u], call[u], Held(u, 1))

CInv == DInv /\ \A u \in Threads : CallInv(u)

(* The labels at which the frame does not matter. *)
LEMMA CallAt ==
  ASSUME NEW p, p \notin {"get_locks", "lock", "move"}, NEW d, NEW e, NEW f, NEW c, NEW held,
         CallFits(p, d, c)
  PROVE  CallFits(p, e, c) /\ PathLocked(p, f, c, held)
  BY DEF CallFits, PathLocked

(* The frame of the move at position d. *)
LEMMA MoveFrameLocks ==
  ASSUME NEW t, FrameTyped(frame[t]), NEW path, NEW d \in Nat
  PROVE  /\ MoveFrame(t, path, d).want = PathLocks(MoveFrame(t, path, d), call[t])
         /\ MoveFrame(t, path, d).depth = d
<1>. DEFINE f == frame[t]
            g == MoveFrame(t, path, d)
<1>1. g = AFrame(f.hp, f.cont, MoveLocks(t, path, d), f.queue, f.target, path, d, f.cursor)
  BY SetMove DEF MoveFrame
<1>2. /\ g.want = MoveLocks(t, path, d) /\ g.hp = f.hp /\ g.path = path /\ g.depth = d
  <2>. HIDE DEF f, g
  <2>. QED BY <1>1 DEF AFrame
<1>. HIDE DEF g
<1>3. g.want = PathLocks(g, call[t])
  BY <1>2, Zenon DEF PathLocks, MoveLocks, At1, At2, TwoBuckets
<1>. QED
  BY <1>2, <1>3 DEF g

(* A call that ends or starts over. *)
LEMMA CallEnds ==
  ASSUME CInv, NEW t \in Threads, (\E r : Return(t, r)) \/ StartOver(t)
  PROVE  CallInv(t)'
<1>1. CASE \E r : Return(t, r)
  <2>1. pc'[t] = "idle" /\ call'[t] = NoCall
    BY <1>1, Shapes, Going DEF Return, OfThreads, CInv, DInv
  <2>. QED BY <2>1 DEF CallInv, CallFits, PathLocked
<1>2. CASE StartOver(t)
  <2>1. pc'[t] = "snapshot"
    BY <1>2, Going DEF StartOver, CInv, DInv
  <2>. QED BY <2>1 DEF CallInv, CallFits, PathLocked
<1>. QED
  BY <1>1, <1>2

(* A call that goes on to a label at which the frame does not matter. *)
LEMMA CallGoes ==
  ASSUME CInv, NEW t \in Threads, NEW p, pc'[t] = p, call'[t] = call[t],
         p \notin {"get_locks", "lock", "move"}, CallFits(p, -1, call[t])
  PROVE  CallInv(t)'
  BY CallAt DEF CallInv

(* Steps that end a call, or start it over.                                *)
Ends(t) ==
  \/ Find(t) \/ Update(t) \/ Erase(t) \/ InsertInPlace(t) \/ Land(t)
  \/ HashpowerChanged(t) \/ DoubleRefused(t) \/ Install(t) \/ ExpandSimple(t)
  \/ Clear(t) \/ Unlock(t) \/ \E i : ExpandedMeanwhile(t, i)

LEMMA EndsHow ==
  ASSUME NEW t \in Threads, Ends(t)
  PROVE  (\E r : Return(t, r)) \/ StartOver(t)
<1>1. CASE Find(t) \/ Update(t) \/ Erase(t)
  BY <1>1 DEF Find, Update, Erase
<1>2. CASE InsertInPlace(t) \/ Land(t)
  BY <1>2 DEF InsertInPlace, Land, UpraseFound, AddToBucket
<1>3. CASE HashpowerChanged(t) \/ DoubleRefused(t) \/ Install(t)
  BY <1>3 DEF HashpowerChanged, DoubleRefused, Install
<1>4. CASE ExpandSimple(t) \/ Clear(t) \/ Unlock(t)
  BY <1>4 DEF ExpandSimple, Clear, Unlock
<1>5. CASE \E i : ExpandedMeanwhile(t, i)
  BY <1>5 DEF ExpandedMeanwhile
<1>. QED
  BY <1>1, <1>2, <1>3, <1>4, <1>5 DEF Ends

LEMMA EndsCalls ==
  ASSUME CInv, NEW t \in Threads, Ends(t)
  PROVE  CallInv(t)'
  BY EndsHow, CallEnds

(* Steps to a label at which the frame does not matter.                    *)
LEMMA GoesCalls ==
  ASSUME CInv, NEW t \in Threads,
         \/ RunCuckoo(t) \/ TableFull(t) \/ PathInvalid(t) \/ StartLockAll(t)
         \/ Double(t) \/ Swap(t) \/ TakeTable(t)
  PROVE  CallInv(t)'
<1>1. IInv /\ CallFits(pc[t], frame[t].depth, call[t])
  BY DEF CInv, DInv, CallInv
<1>2. Continue
  BY DEF RunCuckoo, TableFull, PathInvalid, StartLockAll, Double, Swap, TakeTable
<1>3. call'[t] = call[t]
  BY <1>1, <1>2, Continuing
<1>4. CASE RunCuckoo(t)
  <2>1. pc'[t] = "search" /\ call[t].op \in Inserting
    BY <1>1, <1>4, Going DEF RunCuckoo
  <2>. QED BY <1>3, <2>1, CallGoes DEF CallFits
<1>5. CASE TableFull(t)
  <2>1. pc'[t] = "lock_all" /\ pc[t] = "search"
    BY <1>1, <1>5, Going DEF TableFull
  <2>. QED BY <1>1, <1>3, <2>1, CallGoes DEF CallFits
<1>6. CASE PathInvalid(t)
  <2>1. pc'[t] = "search" /\ pc[t] = "move"
    BY <1>1, <1>6, Going DEF PathInvalid
  <2>. QED BY <1>1, <1>3, <2>1, CallGoes DEF CallFits
<1>7. CASE StartLockAll(t)
  <2>1. pc'[t] = "lock_each" /\ pc[t] = "lock_all"
    BY <1>1, <1>7, Going DEF StartLockAll
  <2>. QED BY <1>1, <1>3, <2>1, CallGoes DEF CallFits
<1>8. CASE Double(t) \/ Swap(t)
  <2>1. pc'[t] \in {"swap", "install"} /\ pc[t] \in {"double", "swap"}
    BY <1>1, <1>8, Going DEF Double, Swap
  <2>. QED BY <1>1, <1>3, <2>1, CallGoes DEF CallFits
<1>9. CASE TakeTable(t)
  <2>1. pc'[t] = "table" /\ pc[t] = "take_table"
    BY <1>1, <1>9, Going DEF TakeTable
  <2>. QED BY <1>1, <1>3, <2>1, CallGoes DEF CallFits
<1>. QED
  BY <1>4, <1>5, <1>6, <1>7, <1>8, <1>9

(* A call begins, and a resize reads the hashpower. *)
LEMMA BeginsCalls ==
  ASSUME CInv, NEW t \in Threads, Invoke(t) \/ Rehash(t)
  PROVE  CallInv(t)'
<1>1. IInv /\ CallFits(pc[t], frame[t].depth, call[t])
  BY DEF CInv, DInv, CallInv
<1>2. CASE Invoke(t)
  <2>1. PICK c \in left[t].calls :
          /\ call' = [call EXCEPT ![t] = c]
          /\ Goto(t, CASE c.op \in {"clear", "lock_table"} -> "lock_all"
                       [] c.op \in Resizing -> "rehash"
                       [] OTHER -> "snapshot")
    BY <1>2, Zenon DEF Invoke
  <2>. DEFINE p == CASE c.op \in {"clear", "lock_table"} -> "lock_all"
                     [] c.op \in Resizing -> "rehash"
                     [] OTHER -> "snapshot"
  <2>2. pc'[t] = p /\ call'[t] = c
    <3>1. call'[t] = c
      BY <1>1, <2>1, Shapes DEF OfThreads
    <3>2. Goto(t, p)
      BY <2>1
    <3>. HIDE DEF p
    <3>. QED BY <1>1, <3>1, <3>2, Going
  <2>3. \/ p = "lock_all" /\ c.op \in {"clear", "lock_table"}
        \/ p = "rehash" /\ c.op \in Resizing
        \/ p = "snapshot"
    OBVIOUS
  <2>. HIDE DEF p
  <2>. QED BY <2>2, <2>3 DEF CallInv, CallFits, PathLocked
<1>3. CASE Rehash(t)
  <2>1. CASE \E r : Return(t, r)
    BY <2>1, CallEnds
  <2>2. CASE Goto(t, "lock_all") /\ Continue
    <3>1. pc'[t] = "lock_all" /\ call'[t] = call[t] /\ pc[t] = "rehash"
      BY <1>1, <1>3, <2>2, Going, Continuing DEF Rehash
    <3>. QED BY <1>1, <3>1, CallGoes DEF CallFits
  <2>. QED BY <1>3, <2>1, <2>2 DEF Rehash
<1>. QED
  BY <1>2, <1>3

(* The last of all locks.                                                  *)
LEMMA LockEachCalls ==
  ASSUME CInv, NEW t \in Threads, LockEach(t)
  PROVE  CallInv(t)'
<1>1. IInv /\ CallFits(pc[t], frame[t].depth, call[t]) /\ pc[t] = "lock_each" /\ Continue
  BY DEF CInv, DInv, CallInv, LockEach
<1>2. call'[t] = call[t]
  BY <1>1, Continuing
<1>. DEFINE p == CASE call[t].op \in Inserting -> "double"
                   [] call[t].op \in Resizing -> "expand"
                   [] call[t].op = "clear" -> "clear"
                   [] OTHER -> "take_table"
<1>3. UNCHANGED pc \/ Goto(t, p)
  BY Zenon DEF LockEach
<1>4. CASE UNCHANGED pc
  BY <1>1, <1>2, <1>4, CallGoes DEF CallFits
<1>5. CASE Goto(t, p)
  <2>1. pc'[t] = p
    <3>. HIDE DEF p
    <3>. QED BY <1>1, <1>5, Going
  <2>2. \/ p = "double" /\ call[t].op \in Inserting
        \/ p = "expand" /\ call[t].op \in Resizing
        \/ p = "clear" /\ call[t].op = "clear"
        \/ p = "take_table" /\ call[t].op \notin {"clear"} \cup Resizing \cup Inserting
    OBVIOUS
  <2>. HIDE DEF p
  <2>. QED BY <1>1, <1>2, <2>1, <2>2, CallGoes DEF CallFits
<1>. QED
  BY <1>3, <1>4, <1>5

(* The owner's session is one call. *)
LEMMA SessionCalls ==
  ASSUME CInv, NEW t \in Threads, Session(t)
  PROVE  CallInv(t)'
<1>1. IInv /\ CallFits(pc[t], frame[t].depth, call[t])
  BY DEF CInv, DInv, CallInv
<1>2. pc[t] = "table" /\ pc' = pc /\ call' = call
  BY Zenon DEF Session, TableFind, TableInsert, TableErase, TableClear, TableResize, Begin, Forward,
         Back, EraseAt, Modifies, Moves
<1>. QED
  BY <1>1, <1>2, CallGoes DEF CallFits

(* The locks of a call are chosen. *)
LEMMA ChoosesCalls ==
  ASSUME CInv, NEW t \in Threads, Snapshot(t) \/ GetLocks(t)
  PROVE  CallInv(t)'
<1>1. /\ IInv /\ FrameTyped(frame[t]) /\ CallFits(pc[t], frame[t].depth, call[t])
      /\ PathLocked(pc[t], frame[t], call[t], Held(t, 1)) /\ WantsOwn(t)
  BY OfThread DEF CInv, CallInv, ThreadInv
<1>2. call'[t] = call[t]
  BY <1>1, Continuing DEF Snapshot, GetLocks
<1>3. CASE Snapshot(t)
  <2>. DEFINE ls == LocksOf(TwoBuckets(hashpower, call[t].key))
              f == frame[t]
              g == [frame[t] EXCEPT !.hp = hashpower, !.want = ls]
  <2>1. pc'[t] = "get_locks" /\ f.depth = -1
    BY <1>1, <1>3, Going DEF Snapshot, WantsOwn
  <2>2. frame'[t] = g
    BY <1>1, <1>3, Shapes DEF Snapshot, OfThreads
  <2>3. g = AFrame(hashpower, f.cont, ls, f.queue, f.target, f.path, f.depth, f.cursor)
    BY <1>1, SetSnapshot
  <2>4. frame'[t].depth = -1
    <3>. HIDE DEF f, g, ls
    <3>. QED BY <2>1, <2>2, <2>3 DEF AFrame
  <2>. QED BY <2>1, <2>4 DEF CallInv, CallFits, PathLocked
<1>4. CASE GetLocks(t)
  <2>. DEFINE f == frame[t]
              g == [frame[t] EXCEPT !.cont = current]
  <2>1. pc'[t] = "lock" /\ pc[t] = "get_locks"
    BY <1>1, <1>4, Going DEF GetLocks
  <2>2. frame'[t] = g
    BY <1>1, <1>4, Shapes DEF GetLocks, OfThreads
  <2>3. g = AFrame(f.hp, current, f.want, f.queue, f.target, f.path, f.depth, f.cursor)
    BY <1>1, SetCont
  <2>4. /\ frame'[t].depth = f.depth /\ frame'[t].want = f.want
        /\ frame'[t].hp = f.hp /\ frame'[t].path = f.path
    <3>. HIDE DEF f, g
    <3>. QED BY <2>2, <2>3 DEF AFrame
  <2>5. PathLocks(frame'[t], call[t]) = PathLocks(f, call[t])
    BY <2>4 DEF PathLocks
  <2>. HIDE DEF g
  <2>. QED BY <1>1, <1>2, <2>1, <2>4, <2>5 DEF CallInv, CallFits, PathLocked
<1>. QED
  BY <1>3, <1>4

(* A lock is taken. *)
LEMMA LockCalls ==
  ASSUME CInv, NEW t \in Threads, Lock(t)
  PROVE  CallInv(t)'
<1>. DEFINE f == frame[t]
<1>1. /\ IInv /\ OneContainer /\ FrameTyped(f) /\ CallFits(pc[t], f.depth, call[t])
      /\ PathLocked(pc[t], f, call[t], Held(t, 1)) /\ f.cont = 1 /\ pc[t] = "lock"
  BY OfThread DEF CInv, CallInv, ThreadInv, WantsOwn, Lock
<1>2. PICK l \in f.want :
        /\ NextLock(t, l) /\ LockFree(t, l)
        /\ locks' = [locks EXCEPT ![1][l] = t]
        /\ frame' = [frame EXCEPT ![t].want = @ \ {l}]
        /\ IF f.want # {l} THEN UNCHANGED pc
           ELSE Goto(t, IF f.depth = -1 THEN "body" ELSE "move")
        /\ Continue
  BY <1>1 DEF Lock
<1>. DEFINE want == f.want \ {l}
            g    == [frame[t] EXCEPT !.want = want]
<1>3. l \in LockIds /\ locks[1][l] = NoThread
  BY <1>1, <1>2, Container DEF NextLock, Ascending, LockFree
<1>4. Held(t, 1)' = Held(t, 1) \cup {l}
  BY <1>1, <1>2, <1>3, Taking
<1>5. frame'[t] = g
  BY <1>1, <1>2, Shapes DEF OfThreads
<1>6. g = AFrame(f.hp, f.cont, want, f.queue, f.target, f.path, f.depth, f.cursor)
  BY <1>1, SetWant
<1>7. call'[t] = call[t]
  BY <1>1, <1>2, Continuing
<1>8. /\ frame'[t].depth = f.depth /\ frame'[t].want = want
      /\ frame'[t].hp = f.hp /\ frame'[t].path = f.path
  <2>. HIDE DEF f, g, want
  <2>. QED BY <1>5, <1>6 DEF AFrame
<1>9. PathLocks(frame'[t], call[t]) = PathLocks(f, call[t])
  BY <1>8 DEF PathLocks
<1>10. f.depth \in Int /\ f.depth >= -1
  BY <1>1 DEF FrameTyped
<1>11. CASE f.want # {l}
  <2>1. pc'[t] = "lock"
    BY <1>1, <1>2, <1>11
  <2>. HIDE DEF g, f
  <2>. QED BY <1>1, <1>4, <1>7, <1>8, <1>9, <2>1 DEF CallInv, CallFits, PathLocked
<1>12. CASE f.want = {l}
  <2>1. pc'[t] = IF f.depth = -1 THEN "body" ELSE "move"
    BY <1>1, <1>2, <1>12, Going
  <2>2. f.depth # -1 => PathLocks(f, call[t]) \subseteq Held(t, 1) \cup {l}
    BY <1>1, <1>10, <1>12 DEF PathLocked
  <2>. HIDE DEF g, f
  <2>. QED BY <1>1, <1>4, <1>7, <1>8, <1>9, <2>1, <2>2 DEF CallInv, CallFits, PathLocked
<1>. QED
  BY <1>11, <1>12

(* The search of a path, and the path. *)
LEMMA SearchCalls ==
  ASSUME CInv, NEW t \in Threads, Search(t) \/ Path(t)
  PROVE  CallInv(t)'
<1>1. /\ IInv /\ OneContainer /\ FrameTyped(frame[t]) /\ CallFits(pc[t], frame[t].depth, call[t])
  BY OfThread DEF CInv, CallInv
<1>2. CASE Search(t)
  <2>1. PICK i : \/ ExpandedMeanwhile(t, i)
                 \/ ReadsOne(t, i) /\ (UNCHANGED pc \/ Goto(t, "path"))
    BY <1>2, Zenon DEF Search
  <2>2. CASE ReadsOne(t, i) /\ (UNCHANGED pc \/ Goto(t, "path"))
    <3>1. call'[t] = call[t] /\ pc'[t] \in {"search", "path"} /\ pc[t] = "search"
      BY <1>1, <1>2, <2>2, Continuing, Going DEF ReadsOne, Search
    <3>. QED BY <1>1, <3>1, CallGoes DEF CallFits
  <2>. QED BY <2>1, <2>2, EndsCalls DEF Ends
<1>3. CASE Path(t)
  <2>1. PICK i, path, d :
          \/ ExpandedMeanwhile(t, i)
          \/ ReadsOne(t, i) /\ UNCHANGED pc
          \/ /\ ReadsOne(t, i) /\ d = Len(frame[t].path)
             /\ frame' = [frame EXCEPT ![t] = MoveFrame(t, path, d)]
             /\ Goto(t, "get_locks")
    BY <1>3, Zenon DEF Path
  <2>2. CASE ReadsOne(t, i) /\ UNCHANGED pc
    <3>1. call'[t] = call[t] /\ pc'[t] = "path" /\ pc[t] = "path"
      BY <1>1, <1>3, <2>2, Continuing DEF ReadsOne, Path
    <3>. QED BY <1>1, <3>1, CallGoes DEF CallFits
  <2>3. CASE /\ ReadsOne(t, i) /\ d = Len(frame[t].path)
             /\ frame' = [frame EXCEPT ![t] = MoveFrame(t, path, d)]
             /\ Goto(t, "get_locks")
    <3>. DEFINE g == MoveFrame(t, path, d)
    <3>1. d \in Nat
      BY <1>1, <2>3 DEF FrameTyped
    <3>2. g.want = PathLocks(g, call[t])
      BY <1>1, <3>1, MoveFrameLocks
    <3>3. call'[t] = call[t] /\ pc'[t] = "get_locks" /\ pc[t] = "path"
      BY <1>1, <1>3, <2>3, Continuing, Going DEF ReadsOne, Path
    <3>4. frame'[t] = g
      BY <1>1, <2>3, Shapes DEF OfThreads
    <3>. HIDE DEF g
    <3>. QED BY <1>1, <3>2, <3>3, <3>4 DEF CallInv, CallFits, PathLocked
  <2>. QED BY <2>1, <2>2, <2>3, EndsCalls DEF Ends
<1>. QED
  BY <1>2, <1>3

(* A move. *)
LEMMA MoveCalls ==
  ASSUME CInv, NEW t \in Threads, Move(t)
  PROVE  CallInv(t)'
<1>1. /\ IInv /\ OneContainer /\ FrameTyped(frame[t]) /\ CallFits(pc[t], frame[t].depth, call[t])
      /\ pc[t] = "move" /\ frame[t].depth # -1
  BY OfThread DEF CInv, CallInv, Move, ThreadInv, HoldsOwn
<1>2. /\ Continue
      /\ \/ Goto(t, "land")
         \/ /\ frame[t].depth \notin {0, 1}
            /\ frame' = [frame EXCEPT ![t] = MoveFrame(t, frame[t].path, frame[t].depth - 1)]
            /\ Goto(t, "get_locks")
  BY Zenon DEF Move
<1>3. call'[t] = call[t]
  BY <1>1, <1>2, Continuing
<1>4. CASE Goto(t, "land")
  <2>1. pc'[t] = "land"
    BY <1>1, <1>4, Going
  <2>. QED BY <1>1, <1>3, <2>1, CallGoes DEF CallFits
<1>5. CASE /\ frame[t].depth \notin {0, 1}
           /\ frame' = [frame EXCEPT ![t] = MoveFrame(t, frame[t].path, frame[t].depth - 1)]
           /\ Goto(t, "get_locks")
  <2>. DEFINE d == frame[t].depth - 1
              g == MoveFrame(t, frame[t].path, d)
  <2>1. d \in Nat
    BY <1>1, <1>5 DEF FrameTyped
  <2>2. g.want = PathLocks(g, call[t])
    <3>. HIDE DEF d
    <3>. QED BY <1>1, <2>1, MoveFrameLocks
  <2>3. pc'[t] = "get_locks"
    BY <1>1, <1>5, Going
  <2>4. frame'[t] = g
    BY <1>1, <1>5, Shapes DEF OfThreads
  <2>. HIDE DEF g
  <2>. QED BY <1>1, <1>3, <2>2, <2>3, <2>4 DEF CallInv, CallFits, PathLocked
<1>. QED
  BY <1>2, <1>4, <1>5

(* Every step keeps them. *)
LEMMA StepCInv ==
  ASSUME CInv, DInv', NEW t \in Threads, Invoke(t) \/ Proceed(t) \/ Unlock(t) \/ Session(t)
  PROVE  CInv'
<1>1. CallInv(t)'
  <2>1. CASE TakeLocks(t)
    BY <2>1, ChoosesCalls, EndsCalls, LockCalls, GoesCalls, LockEachCalls DEF TakeLocks, Ends
  <2>2. CASE Operate(t)
    BY <2>2, EndsCalls, GoesCalls, SearchCalls, MoveCalls DEF Operate, Ends
  <2>3. CASE Resize(t)
    BY <2>3, EndsCalls, GoesCalls, BeginsCalls DEF Resize, Ends
  <2>. QED BY <2>1, <2>2, <2>3, BeginsCalls, EndsCalls, SessionCalls DEF Proceed, Ends
<1>2. DataStep(t)
  BY StepData DEF CInv
<1>3. ASSUME NEW u \in Threads \ {t} PROVE CallInv(u)'
  <2>1. /\ pc'[u] = pc[u] /\ frame'[u] = frame[u] /\ call'[u] = call[u]
        /\ Held(u, 1)' = Held(u, 1) /\ CallInv(u)
    BY <1>2 DEF DataStep, OnlyAt, CInv
  <2>. QED BY <2>1 DEF CallInv
<1>. QED
  BY <1>1, <1>3 DEF CInv

-----------------------------------------------------------------------------
(* What an operation does to the elements *)

CountsOK == elem_counter \in [LockIds -> Int] /\ Sum(elem_counter) = Cardinality(Elements)

(* A key of which both buckets are in the container. *)
Ready(k) ==
  /\ k \in Keys /\ ~ Swapped
  /\ is_migrated[lock_ind(FirstBucket(hashpower, k))]
  /\ is_migrated[lock_ind(SecondBucket(hashpower, k))]

(* The element of a key is rebound, added or removed. *)
LEMMA WithElement ==
  ASSUME NEW E, Keyed(E), NEW k, NEW v
  PROVE  /\ \A e \in E : e.key = k => /\ E \ {e} = With(E, k, None)
                                      /\ v # None =>
                                           \A kv : kv = [key |-> k, val |-> v] =>
                                             (E \ {e}) \cup {kv} = With(E, k, v)
         /\ (\A e \in E : e.key # k) /\ v # None =>
              \A kv : kv = [key |-> k, val |-> v] => E \cup {kv} = With(E, k, v)
<1>1. ASSUME NEW e \in E, e.key = k PROVE E \ {e} = {f \in E : f.key # k}
  BY <1>1 DEF Keyed
<1>2. ASSUME \A e \in E : e.key # k PROVE E = {f \in E : f.key # k}
  BY <1>2
<1>3. With(E, k, None) = {f \in E : f.key # k}
  BY DEF With
<1>4. v # None => With(E, k, v) = {f \in E : f.key # k} \cup {[key |-> k, val |-> v]}
  BY DEF With
<1>. QED
  BY <1>1, <1>2, <1>3, <1>4

(* What the two buckets of a key show is what the dictionary has.          *)
LEMMA LookUp ==
  ASSUME DInv, NEW k, Ready(k)
  PROVE  /\ cuckoo_find(buckets, hashpower, k) = {} =>
              (\A e \in Elements : e.key # k) /\ Dict[k] = None
         /\ \A p \in cuckoo_find(buckets, hashpower, k) :
              /\ p[1] \in Buckets(hashpower) /\ p[2] \in Slots /\ occupied(buckets[p[1]], p[2])
              /\ At(buckets, p).key = k /\ At(buckets, p) \in Elements
              /\ Dict[k] = At(buckets, p).val /\ Dict[k] \in Vals /\ Dict[k] # None
<1>1. /\ TableOK(buckets, hashpower, old, old_hashpower, is_migrated, num_remaining)
      /\ GoodTable(hashpower, buckets) /\ k \in Keys
  BY DEF Ready, DInv, DataInv, TableOK
<1>2. Elements = Content(buckets, old, Live(old, is_migrated)) /\ Keyed(Elements)
  BY ElementsOf, ElementsAre DEF Ready
<1>. DEFINE lv == Live(old, is_migrated)
<1>3. ASSUME cuckoo_find(buckets, hashpower, k) = {}, NEW e \in Elements PROVE e.key # k
  <2>1. PICK x \in Cells : e = Cell(buckets, old, lv, x) /\ e # Vacant
    BY <1>2 DEF Content
  <2>2. x[3] \in Slots
    BY DEF Cells
  <2>3. CASE x[1] = 1
    <3>1. Absent(buckets, k)
      BY <1>1, <1>3, FindFinds
    <3>2. x[2] \in DOMAIN buckets /\ e = buckets[x[2]][x[3]]
      BY <2>1, <2>3 DEF Cell
    <3>. QED BY <2>1, <2>2, <3>1, <3>2 DEF Absent, occupied
  <2>4. CASE x[1] # 1
    <3>1. x[2] \in lv /\ e = old[x[2]][x[3]]
      BY <2>1, <2>4 DEF Cell
    <3>2. \A j \in lv, r \in Slots : old[j][r] # Vacant => old[j][r].key # k
      BY <1>1, NotInOld DEF Ready
    <3>. HIDE DEF lv
    <3>. QED BY <2>1, <2>2, <3>1, <3>2
  <2>. QED BY <2>3, <2>4
<1>4. ASSUME NEW p \in cuckoo_find(buckets, hashpower, k)
      PROVE  /\ p[1] \in Buckets(hashpower) /\ p[2] \in Slots /\ occupied(buckets[p[1]], p[2])
             /\ At(buckets, p).key = k /\ At(buckets, p) \in Elements
  <2>1. /\ p[1] \in Buckets(hashpower) /\ p[2] \in Slots
        /\ occupied(buckets[p[1]], p[2]) /\ At(buckets, p).key = k
    BY <1>1, FindFinds
  <2>2. p[1] \in DOMAIN buckets /\ p[1] \in Nat
    BY <1>1, <2>1, GoodCell
  <2>. DEFINE x == <<1, p[1], p[2]>>
  <2>3. x \in Cells /\ Cell(buckets, old, lv, x) = At(buckets, p)
    BY <2>1, <2>2 DEF Cells, Cell, At
  <2>4. At(buckets, p) # Vacant
    BY <2>1 DEF occupied, At
  <2>5. At(buckets, p) \in Elements
    <3>. HIDE DEF x, lv
    <3>. QED BY <1>2, <2>3, <2>4 DEF Content, lv
  <2>. QED BY <2>1, <2>5
<1>5. Dict = DictOf(Elements) /\ None \notin Vals
  BY DictOfElements, MarksAssumption
<1>6. ASSUME NEW e \in Elements, e.key = k
      PROVE  Dict[k] = e.val /\ Dict[k] \in Vals /\ Dict[k] # None
  BY <1>2, <1>5, <1>6, DictIs
<1>7. (\A e \in Elements : e.key # k) => Dict[k] = None
  BY <1>1, <1>2, <1>5, DictIs
<1>. QED
  BY <1>3, <1>4, <1>6, <1>7

(* A bound or unbound key. *)
Binds(k, v) == Elements' = With(Elements, k, v) /\ CountsOK'

LEMMA BindsDict ==
  ASSUME DInv, NEW k \in Keys, NEW v \in Vals \cup {None}, Binds(k, v)
  PROVE  Dict' = [Dict EXCEPT ![k] = v]
<1>1. Dict = DictOf(Elements) /\ Dict' = DictOf(Elements')
  BY DictOfElements DEF DictOf, Dict
<1>. QED
  BY <1>1, ElementsAre, DictWith DEF Binds

LEMMA SameDict ==
  ASSUME Elements' = Elements PROVE Dict' = Dict
  BY DEF Dict

(* The counter of one lock follows.                                        *)
LEMMA CountOne ==
  ASSUME DInv, CountsOK, NEW p, NEW hp \in Nat, p[1] \in Buckets(hp),
         NEW d \in Int, Counted(p, d),
         Cardinality(Elements') = Cardinality(Elements) + d
  PROVE  CountsOK'
<1>. DEFINE m == kMaxNumLocks
            l == lock_ind(p[1])
<1>1. l \in LockIds
  <2>1. p[1] \in Nat
    BY SizeSteps DEF Buckets
  <2>. QED BY <2>1, LockIndex
<1>2. m \in Nat /\ LockIds = 0 .. m - 1
  BY TableAssumption DEF LockIds
<1>3. elem_counter' = [elem_counter EXCEPT ![l] = @ + d] /\ elem_counter \in [LockIds -> Int]
  BY DEF Counted, CountsOK
<1>. HIDE DEF m, l
<1>4. elem_counter' \in [LockIds -> Int] /\ Sum(elem_counter') = Sum(elem_counter) + d
  <2>1. elem_counter \in [0 .. m - 1 -> Int] /\ elem_counter' = Added(elem_counter, l, d)
    BY <1>2, <1>3 DEF Added
  <2>2. /\ Added(elem_counter, l, d) \in [0 .. m - 1 -> Int]
        /\ Sum(Added(elem_counter, l, d)) = Sum(elem_counter) + d
    BY <1>1, <1>2, <2>1, SumAdd
  <2>. QED BY <1>2, <2>1, <2>2
<1>5. Sum(elem_counter)' = Sum(elem_counter')
  BY DEF Sum
<1>. QED
  BY <1>4, <1>5 DEF CountsOK

(* A container whose locks and old container stay is edited.               *)
LEMMA EditedElements ==
  ASSUME DInv, DInv', ~ Swapped, ~ Swapped', Kept
  PROVE  /\ Elements = Content(buckets, old, Live(old, is_migrated))
         /\ Elements' = Content(buckets', old, Live(old, is_migrated))
         /\ GoodTable(hashpower, buckets) /\ hashpower \in Nat
         /\ Apart(buckets, old, Live(old, is_migrated))
         /\ Keyed(Elements) /\ IsFiniteSet(Elements) /\ None \notin Vals
<1>1. Elements' = Content(buckets', old', Live(old', is_migrated'))
  <2>1. (DInv /\ ~ Swapped => Elements = Content(buckets, old, Live(old, is_migrated)))'
    BY ElementsOf, PTL
  <2>. QED BY <2>1
<1>2. TableOK(buckets, hashpower, old, old_hashpower, is_migrated, num_remaining)
  BY DEF DInv, DataInv
<1>. QED
  BY <1>1, <1>2, ElementsOf, ElementsAre, MarksAssumption DEF Kept, TableOK, GoodTable

(* A new element in a free slot.                                           *)
LEMMA PutBinds ==
  ASSUME DInv, DInv', ~ Swapped', Kept, CountsOK, NEW k, Ready(k), NEW v \in Vals,
         cuckoo_find(buckets, hashpower, k) = {},
         NEW p, p[1] \in Buckets(hashpower), p[2] \in Slots, ~ occupied(buckets[p[1]], p[2]),
         buckets' = setKV(buckets, p[1], p[2], [key |-> k, val |-> v]), Counted(p, 1)
  PROVE  Binds(k, v)
<1>. DEFINE kv == [key |-> k, val |-> v]
            lv == Live(old, is_migrated)
            i == p[1]
            s == p[2]
<1>1. /\ Elements = Content(buckets, old, lv) /\ Elements' = Content(buckets', old, lv)
      /\ GoodTable(hashpower, buckets) /\ hashpower \in Nat /\ Keyed(Elements)
      /\ IsFiniteSet(Elements) /\ v # None
  BY EditedElements DEF Ready
<1>2. kv \in KV
  BY DEF KV, Ready
<1>3. buckets' = setKV(buckets, i, s, kv) /\ i \in Buckets(hashpower) /\ s \in Slots
      /\ ~ occupied(buckets[i], s)
  OBVIOUS
<1>4. Elements' = Elements \cup {kv}
  <2>. HIDE DEF kv, lv, i, s
  <2>. QED BY <1>1, <1>2, <1>3, PutContent
<1>5. \A e \in Elements : e.key # k
  BY LookUp
<1>6. Elements' = With(Elements, k, v)
  <2>1. kv = [key |-> k, val |-> v]
    OBVIOUS
  <2>. HIDE DEF kv
  <2>2. Elements \cup {kv} = With(Elements, k, v)
    BY <1>1, <1>5, <2>1, WithElement
  <2>. QED BY <1>4, <2>2
<1>7. Cardinality(Elements') = Cardinality(Elements) + 1
  BY <1>1, <1>5, <1>6, CountWith
<1>8. 1 \in Int
  OBVIOUS
<1>9. CountsOK'
  BY <1>1, <1>7, <1>8, CountOne
<1>. QED
  BY <1>6, <1>9 DEF Binds

(* The element of a slot is erased. *)
LEMMA EraseBinds ==
  ASSUME DInv, DInv', ~ Swapped, ~ Swapped', Kept, CountsOK,
         NEW p, p[1] \in Buckets(hashpower), p[2] \in Slots, occupied(buckets[p[1]], p[2]),
         buckets' = eraseKV(buckets, p[1], p[2]), Counted(p, -1)
  PROVE  Binds(At(buckets, p).key, None)
<1>. DEFINE lv == Live(old, is_migrated)
            i == p[1]
            s == p[2]
            e == At(buckets, p)
            k == e.key
<1>1. /\ Elements = Content(buckets, old, lv) /\ Elements' = Content(buckets', old, lv)
      /\ GoodTable(hashpower, buckets) /\ hashpower \in Nat /\ Keyed(Elements)
      /\ IsFiniteSet(Elements) /\ Apart(buckets, old, lv)
  BY EditedElements
<1>2. buckets' = eraseKV(buckets, i, s) /\ i \in Buckets(hashpower) /\ s \in Slots
      /\ occupied(buckets[i], s) /\ e = buckets[i][s]
  BY DEF At
<1>3. Elements' = Elements \ {e}
  <2>. HIDE DEF lv, i, s, e
  <2>. QED BY <1>1, <1>2, EraseContent
<1>4. e \in Elements
  <2>. DEFINE x == <<1, i, s>>
  <2>1. i \in DOMAIN buckets /\ i \in Nat
    BY <1>1, <1>2, GoodCell
  <2>2. x \in Cells /\ Cell(buckets, old, lv, x) = e /\ e # Vacant
    BY <1>2, <2>1 DEF Cells, Cell, occupied
  <2>. HIDE DEF x, lv, e
  <2>. QED BY <1>1, <2>2 DEF Content
<1>5. Elements' = With(Elements, k, None)
  <2>. HIDE DEF e
  <2>. QED BY <1>1, <1>3, <1>4, WithElement
<1>6. Cardinality(Elements') = Cardinality(Elements) - 1
  <2>. HIDE DEF e
  <2>. QED BY <1>1, <1>4, <1>5, CountWith
<1>7. -1 \in Int /\ Cardinality(Elements') = Cardinality(Elements) + (-1)
  <2>1. Cardinality(Elements) \in Nat
    BY <1>1, FS_CardinalityType
  <2>. QED BY <1>6, <2>1
<1>8. CountsOK'
  BY <1>1, <1>7, CountOne
<1>. QED
  BY <1>5, <1>8 DEF Binds

(* The element of a key gets another value. *)
LEMMA AssignBinds ==
  ASSUME DInv, DInv', ~ Swapped', Kept, CountsOK, NEW k, Ready(k), NEW v \in Vals,
         NEW p \in cuckoo_find(buckets, hashpower, k),
         buckets' = AssignVal(buckets, p[1], p[2], v), elem_counter' = elem_counter
  PROVE  Binds(k, v)
<1>. DEFINE kv == [key |-> k, val |-> v]
            lv == Live(old, is_migrated)
            i == p[1]
            s == p[2]
            e == At(buckets, p)
            new == buckets'
<1>1. /\ Elements = Content(buckets, old, lv) /\ Elements' = Content(buckets', old, lv)
      /\ GoodTable(hashpower, buckets) /\ hashpower \in Nat /\ Keyed(Elements)
      /\ IsFiniteSet(Elements) /\ v # None /\ Apart(buckets, old, lv)
  BY EditedElements DEF Ready
<1>2. /\ i \in Buckets(hashpower) /\ s \in Slots /\ occupied(buckets[i], s)
      /\ e = buckets[i][s] /\ e.key = k /\ e \in Elements
  BY LookUp DEF At
<1>3. kv \in KV
  BY DEF KV, Ready
<1>4. new = setKV(buckets, i, s, kv)
  <2>1. new = AssignVal(buckets, i, s, v)
    OBVIOUS
  <2>2. new = setKV(buckets, i, s, [key |-> buckets[i][s].key, val |-> v])
    <3>. HIDE DEF i, s, new, e, kv, lv
    <3>. QED BY <1>1, <1>2, <2>1, SetVal
  <2>. QED BY <1>2, <2>2
<1>5. Elements' = (Elements \ {e}) \cup {kv}
  <2>. HIDE DEF lv, i, s, e, kv
  <2>. QED BY <1>1, <1>2, <1>3, <1>4, ReplaceContent DEF new
<1>6. Elements' = With(Elements, k, v)
  <2>1. kv = [key |-> k, val |-> v]
    OBVIOUS
  <2>. HIDE DEF e, kv
  <2>. QED BY <1>1, <1>2, <1>5, <2>1, WithElement
<1>7. Cardinality(Elements') = Cardinality(Elements)
  <2>1. Cardinality(Elements) \in Nat
    BY <1>1, FS_CardinalityType
  <2>. HIDE DEF e
  <2>. QED BY <1>1, <1>2, <1>6, <2>1, CountWith
<1>8. CountsOK'
  <2>1. Sum(elem_counter)' = Sum(elem_counter)
    BY DEF Sum
  <2>. QED BY <1>7, <2>1 DEF CountsOK
<1>. QED
  BY <1>6, <1>8 DEF Binds

(* Nothing is written. *)
LEMMA SameElements ==
  ASSUME DInv, Swapped' = Swapped, UNCHANGED <<containers, is_migrated>>,
         elem_counter' = elem_counter
  PROVE  Elements' = Elements /\ (CountsOK => CountsOK')
<1>1. Elements' = Elements
  BY DEF Elements, LivePositions, containers
<1>2. Sum(elem_counter)' = Sum(elem_counter)
  BY DEF Sum
<1>. QED
  BY <1>1, <1>2 DEF CountsOK

(* The operation of a call that holds the locks of its key takes effect.   *)
Takes(t) == Map!Effect(t, call[t].op, call[t].key, call[t].val) /\ CountsOK'

LEMMA KeyReady ==
  ASSUME DInv, NEW t \in Threads, pc[t] \in {"body", "land"}, NEW r, Return(t, r)
  PROVE  /\ Ready(call[t].key) /\ ~ Swapped /\ ~ Swapped' /\ Swapped' = Swapped
         /\ frame[t].hp = hashpower /\ hashpower \in Nat
         /\ call[t].key \in Keys /\ call[t].val \in Vals
         /\ ret' = [ret EXCEPT ![t] = r]
<1>1. OnlyAt(t, pc, pc') /\ pc'[t] # "install"
  BY EndedData
<1>2. Swapped' = Swapped
  BY <1>1, SameSwapped
<1>. QED
  BY <1>2, AtKey DEF Ready, Return

LEMMA FindTakes ==
  ASSUME DInv, CountsOK, NEW t \in Threads, Find(t)
  PROVE  Takes(t)
<1>. DEFINE k == call[t].key
            pos == cuckoo_find(buckets, hashpower, k)
            r == IF pos = {} THEN None
                 ELSE CHOOSE v \in Vals : \E p \in pos : v = Stored(t, p)
<1>1. pc[t] = "body" /\ call[t].op = "find" /\ frame[t].hp = hashpower
  BY AtKey DEF Find
<1>2. Return(t, r)
  <2>1. Return(t, IF cuckoo_find(buckets, frame[t].hp, call[t].key) = {} THEN None
                  ELSE CHOOSE v \in Vals : \E p \in cuckoo_find(buckets, frame[t].hp, call[t].key) :
                                             v = Stored(t, p))
    BY Zenon DEF Find
  <2>. QED BY <1>1, <2>1
<1>3. Ready(k) /\ ret' = [ret EXCEPT ![t] = r] /\ Swapped' = Swapped
  <2>. HIDE DEF r
  <2>. QED BY <1>1, <1>2, KeyReady
<1>4. r = Dict[k]
  <2>1. CASE pos = {}
    <3>1. Dict[k] = None
      BY <1>3, <2>1, LookUp
    <3>. QED BY <2>1, <3>1
  <2>2. CASE pos # {}
    <3>1. \A p \in pos : Stored(t, p) = Dict[k] /\ Dict[k] \in Vals
      BY <1>3, LookUp DEF Stored
    <3>. HIDE DEF pos
    <3>2. \A v \in Vals : (\E p \in pos : v = Stored(t, p)) <=> v = Dict[k]
      BY <2>2, <3>1
    <3>3. (CHOOSE v \in Vals : \E p \in pos : v = Stored(t, p)) = Dict[k]
      BY <2>2, <3>1, <3>2
    <3>. QED BY <2>2, <3>3
  <2>. QED BY <2>1, <2>2
<1>5. Elements' = Elements /\ CountsOK'
  BY <1>3, SameElements DEF Find, Kept, containers
<1>6. Dict' = Dict
  BY <1>5, SameDict
<1>. HIDE DEF r
<1>. QED
  BY <1>1, <1>3, <1>4, <1>5, <1>6 DEF Takes, Map!Effect, Map!Returns

LEMMA UpdateTakes ==
  ASSUME DInv, DInv', CountsOK, NEW t \in Threads, Update(t)
  PROVE  Takes(t)
<1>. DEFINE k == call[t].key
            v == call[t].val
            pos == cuckoo_find(buckets, hashpower, k)
<1>1. /\ pc[t] = "body" /\ call[t].op = "update" /\ frame[t].hp = hashpower /\ Kept
      /\ elem_counter' = elem_counter
  BY AtKey DEF Update
<1>2. IF pos = {} THEN Return(t, "no") /\ buckets' = buckets
      ELSE \E p \in pos : Return(t, "yes") /\ buckets' = AssignVal(buckets, p[1], p[2], v)
  <2>1. IF cuckoo_find(buckets, frame[t].hp, call[t].key) = {}
        THEN Return(t, "no") /\ UNCHANGED buckets
        ELSE \E p \in cuckoo_find(buckets, frame[t].hp, call[t].key) :
               /\ Return(t, "yes")
               /\ buckets' = AssignVal(buckets, p[1], p[2], call[t].val)
    BY Zenon DEF Update
  <2>. QED BY <1>1, <2>1
<1>3. CASE pos = {}
  <2>1. Return(t, "no") /\ buckets' = buckets
    BY <1>2, <1>3
  <2>2. Ready(k) /\ ret' = [ret EXCEPT ![t] = "no"] /\ Swapped' = Swapped
    BY <1>1, <2>1, KeyReady
  <2>3. Dict[k] = None
    BY <1>3, <2>2, LookUp
  <2>4. Elements' = Elements /\ CountsOK'
    BY <1>1, <2>1, <2>2, SameElements DEF Kept, containers
  <2>5. Dict' = Dict
    BY <2>4, SameDict
  <2>. QED
    BY <1>1, <2>2, <2>3, <2>4, <2>5
       DEF Takes, Map!Effect, Map!Returns, Map!IfPresent, Map!Present
<1>4. CASE pos # {}
  <2>1. PICK p \in pos : Return(t, "yes") /\ buckets' = AssignVal(buckets, p[1], p[2], v)
    BY <1>2, <1>4
  <2>2. Ready(k) /\ ret' = [ret EXCEPT ![t] = "yes"] /\ ~ Swapped' /\ v \in Vals /\ k \in Keys
    BY <1>1, <2>1, KeyReady
  <2>3. Dict[k] # None
    BY <2>2, LookUp
  <2>4. Binds(k, v)
    <3>. HIDE DEF k, v
    <3>. QED BY <1>1, <2>1, <2>2, AssignBinds
  <2>5. Dict' = [Dict EXCEPT ![k] = v] /\ CountsOK'
    BY <2>2, <2>4, BindsDict DEF Binds
  <2>. QED
    BY <1>1, <2>2, <2>3, <2>5
       DEF Takes, Map!Effect, Map!Returns, Map!IfPresent, Map!Present, Map!Bind
<1>. QED
  BY <1>3, <1>4

(* The element found for a key is erased. *)
LEMMA EraseFound ==
  ASSUME DInv, DInv', CountsOK, ~ Swapped', Kept, NEW k, Ready(k),
         NEW p \in cuckoo_find(buckets, hashpower, k),
         buckets' = eraseKV(buckets, p[1], p[2]), Counted(p, -1)
  PROVE  Binds(k, None) /\ Dict' = [Dict EXCEPT ![k] = None] /\ CountsOK' /\ Dict[k] # None
<1>1. /\ p[1] \in Buckets(hashpower) /\ p[2] \in Slots /\ occupied(buckets[p[1]], p[2])
      /\ At(buckets, p).key = k /\ Dict[k] # None /\ k \in Keys
  BY LookUp DEF Ready
<1>2. Binds(At(buckets, p).key, None)
  BY <1>1, EraseBinds DEF Ready
<1>. QED
  BY <1>1, <1>2, BindsDict DEF Binds

LEMMA EraseTakes ==
  ASSUME DInv, DInv', CountsOK, NEW t \in Threads, Erase(t)
  PROVE  Takes(t)
<1>. DEFINE k == call[t].key
            pos == cuckoo_find(buckets, hashpower, k)
<1>1. pc[t] = "body" /\ call[t].op = "erase" /\ frame[t].hp = hashpower /\ Kept
  BY AtKey DEF Erase
<1>2. IF pos = {} THEN Return(t, "no") /\ UNCHANGED <<buckets, elem_counter>>
      ELSE \E p \in pos : /\ Return(t, "yes") /\ Counted(p, -1)
                          /\ buckets' = eraseKV(buckets, p[1], p[2])
  <2>1. IF cuckoo_find(buckets, frame[t].hp, call[t].key) = {}
        THEN Return(t, "no") /\ UNCHANGED <<buckets, elem_counter>>
        ELSE \E p \in cuckoo_find(buckets, frame[t].hp, call[t].key) :
               /\ Return(t, "yes")
               /\ buckets' = eraseKV(buckets, p[1], p[2])
               /\ Counted(p, -1)
    BY Zenon DEF Erase
  <2>. QED BY <1>1, <2>1
<1>3. CASE pos = {}
  <2>1. Return(t, "no") /\ buckets' = buckets /\ elem_counter' = elem_counter
    BY <1>2, <1>3
  <2>2. Ready(k) /\ ret' = [ret EXCEPT ![t] = "no"] /\ Swapped' = Swapped /\ k \in Keys
    BY <1>1, <2>1, KeyReady
  <2>3. Dict[k] = None
    BY <1>3, <2>2, LookUp
  <2>4. Elements' = Elements /\ CountsOK'
    BY <1>1, <2>1, <2>2, SameElements DEF Kept, containers
  <2>5. Dict' = Dict
    BY <2>4, SameDict
  <2>6. Dict' = [Dict EXCEPT ![k] = None]
    <3>1. Dict = [j \in Keys |-> Dict[j]]
      BY DEF Dict
    <3>. QED BY <2>3, <2>5, <3>1
  <2>. QED
    BY <1>1, <2>2, <2>3, <2>4, <2>6
       DEF Takes, Map!Effect, Map!Returns, Map!IfPresent, Map!Present, Map!Bind
<1>4. CASE pos # {}
  <2>1. PICK p \in pos : /\ Return(t, "yes") /\ Counted(p, -1)
                         /\ buckets' = eraseKV(buckets, p[1], p[2])
    BY <1>2, <1>4
  <2>2. Ready(k) /\ ret' = [ret EXCEPT ![t] = "yes"] /\ ~ Swapped'
    BY <1>1, <2>1, KeyReady
  <2>3. Dict' = [Dict EXCEPT ![k] = None] /\ CountsOK' /\ Dict[k] # None
    <3>. HIDE DEF k
    <3>. QED BY <1>1, <2>1, <2>2, EraseFound
  <2>. QED
    BY <1>1, <2>2, <2>3
       DEF Takes, Map!Effect, Map!Returns, Map!IfPresent, Map!Present, Map!Bind
<1>. QED
  BY <1>3, <1>4

(* An insert that finds its key. *)
LEMMA FoundTakes ==
  ASSUME DInv, DInv', CountsOK, NEW t \in Threads, pc[t] \in {"body", "land"}, Kept,
         NEW p \in cuckoo_find(buckets, frame[t].hp, call[t].key), UpraseFound(t, p)
  PROVE  Takes(t)
<1>. DEFINE k == call[t].key
            v == call[t].val
<1>1. Return(t, "no") /\ frame[t].hp = hashpower
  BY AtKey DEF UpraseFound
<1>2. /\ Ready(k) /\ ret' = [ret EXCEPT ![t] = "no"] /\ ~ Swapped' /\ Swapped' = Swapped
      /\ v \in Vals /\ k \in Keys
  BY <1>1, KeyReady
<1>3. p \in cuckoo_find(buckets, hashpower, k) /\ Dict[k] # None
  BY <1>1, <1>2, LookUp
<1>4. CASE call[t].op = "insert" /\ UNCHANGED <<buckets, elem_counter>>
  <2>1. Elements' = Elements /\ CountsOK'
    BY <1>2, <1>4, SameElements DEF Kept, containers
  <2>2. Dict' = Dict
    BY <2>1, SameDict
  <2>. QED
    BY <1>2, <1>3, <1>4, <2>1, <2>2
       DEF Takes, Map!Effect, Map!Returns, Map!IfAbsent, Map!Present, Map!Bind
<1>5. CASE /\ call[t].op = "insert_or_assign" /\ elem_counter' = elem_counter
           /\ buckets' = AssignVal(buckets, p[1], p[2], v)
  <2>1. Binds(k, v)
    <3>. HIDE DEF k, v
    <3>. QED BY <1>2, <1>3, <1>5, AssignBinds
  <2>2. Dict' = [Dict EXCEPT ![k] = v] /\ CountsOK'
    BY <1>2, <2>1, BindsDict DEF Binds
  <2>. QED
    BY <1>2, <1>3, <1>5, <2>2
       DEF Takes, Map!Effect, Map!Returns, Map!IfAbsent, Map!Present, Map!Bind
<1>6. CASE /\ call[t].op = "uprase" /\ Counted(p, -1)
           /\ buckets' = eraseKV(buckets, p[1], p[2])
  <2>1. Dict' = [Dict EXCEPT ![k] = None] /\ CountsOK'
    <3>. HIDE DEF k
    <3>. QED BY <1>2, <1>3, <1>6, EraseFound
  <2>. QED
    BY <1>2, <1>3, <1>6, <2>1
       DEF Takes, Map!Effect, Map!Returns, Map!IfAbsent, Map!Present, Map!Bind
<1>. QED
  BY <1>4, <1>5, <1>6 DEF UpraseFound

(* An insert that does not, and adds its element. *)
LEMMA AddTakes ==
  ASSUME DInv, DInv', CountsOK, NEW t \in Threads, pc[t] \in {"body", "land"}, Kept,
         call[t].op \in Inserting,
         cuckoo_find(buckets, frame[t].hp, call[t].key) = {},
         NEW p, p[1] \in TwoBuckets(frame[t].hp, call[t].key), p[2] \in Slots,
         ~ occupied(buckets[p[1]], p[2]), AddToBucket(t, p)
  PROVE  Takes(t)
<1>. DEFINE k == call[t].key
            v == call[t].val
<1>1. /\ Return(t, "yes") /\ frame[t].hp = hashpower /\ Counted(p, 1)
      /\ buckets' = setKV(buckets, p[1], p[2], [key |-> k, val |-> v])
  BY AtKey DEF AddToBucket
<1>2. /\ Ready(k) /\ ret' = [ret EXCEPT ![t] = "yes"] /\ ~ Swapped'
      /\ v \in Vals /\ k \in Keys /\ hashpower \in Nat
  BY <1>1, KeyReady
<1>3. cuckoo_find(buckets, hashpower, k) = {} /\ Dict[k] = None
  BY <1>1, <1>2, LookUp
<1>4. p[1] \in Buckets(hashpower)
  BY <1>1, <1>2, KeyBuckets
<1>5. Binds(k, v)
  <2>. HIDE DEF k, v
  <2>. QED BY <1>1, <1>2, <1>3, <1>4, PutBinds
<1>6. Dict' = [Dict EXCEPT ![k] = v] /\ CountsOK'
  BY <1>2, <1>5, BindsDict DEF Binds
<1>7. call[t].op \in {"insert", "insert_or_assign", "uprase"}
  BY DEF Inserting
<1>. QED
  BY <1>2, <1>3, <1>6, <1>7
     DEF Takes, Map!Effect, Map!Returns, Map!IfAbsent, Map!Present, Map!Bind

(* After a cuckoo path the slot at which it begins is free. *)
LandFree(u) ==
  pc[u] = "land" =>
    ~ occupied(buckets[frame[u].path[1].bucket], frame[u].path[1].slot)

LEMMA InsertTakes ==
  ASSUME CInv, DInv', CountsOK, NEW t \in Threads, LandFree(t), InsertInPlace(t) \/ Land(t)
  PROVE  Takes(t)
<1>1. DInv /\ Kept /\ pc[t] \in {"body", "land"} /\ call[t].op \in Inserting
  BY DEF CInv, CallInv, CallFits, InsertInPlace, Land
<1>2. CASE \E p \in cuckoo_find(buckets, frame[t].hp, call[t].key) : UpraseFound(t, p)
  BY <1>1, <1>2, FoundTakes
<1>3. CASE InsertInPlace(t)
  <2>1. CASE /\ cuckoo_find(buckets, frame[t].hp, call[t].key) = {}
             /\ \E p \in InsertPosition(buckets, frame[t].hp, call[t].key) : AddToBucket(t, p)
    <3>1. PICK p \in InsertPosition(buckets, frame[t].hp, call[t].key) : AddToBucket(t, p)
      BY <2>1
    <3>2. /\ p[1] \in TwoBuckets(frame[t].hp, call[t].key) /\ p[2] \in Slots
          /\ ~ occupied(buckets[p[1]], p[2])
      BY InsertPositionHome
    <3>. QED BY <1>1, <2>1, <3>1, <3>2, AddTakes
  <2>. QED BY <1>2, <1>3, <2>1, Zenon DEF InsertInPlace
<1>4. CASE Land(t)
  <2>1. FrameOK("land", frame[t], call[t])
    BY <1>1, <1>4, OfThread DEF Land
  <2>2. PathOK(frame[t].hp, call[t].key, frame[t].path) /\ Len(frame[t].path) > 0
    BY <2>1 DEF FrameOK
  <2>. DEFINE p == <<frame[t].path[1].bucket, frame[t].path[1].slot>>
  <2>3. p[1] \in TwoBuckets(frame[t].hp, call[t].key) /\ p[2] \in Slots
    <3>. DEFINE path == frame[t].path
    <3>1. PathOK(frame[t].hp, call[t].key, path) /\ Len(path) > 0
      BY <2>2
    <3>. HIDE DEF path
    <3>2. /\ path[1].bucket \in TwoBuckets(frame[t].hp, call[t].key)
          /\ path[1].slot \in Slots
      BY <3>1, PathRecords
    <3>. QED BY <3>2 DEF path
  <2>4. ~ occupied(buckets[p[1]], p[2])
    BY <1>4 DEF Land, LandFree
  <2>5. \/ \E q \in cuckoo_find(buckets, frame[t].hp, call[t].key) : UpraseFound(t, q)
        \/ cuckoo_find(buckets, frame[t].hp, call[t].key) = {} /\ AddToBucket(t, p)
    BY <1>4, Zenon DEF Land
  <2>. HIDE DEF p
  <2>. QED BY <1>1, <1>2, <2>3, <2>4, <2>5, AddTakes
<1>. QED
  BY <1>3, <1>4

-----------------------------------------------------------------------------
(* Where a step writes *)

(* Only a swap is followed by an installation, only a move by a landing.   *)
LEMMA Labels ==
  ASSUME DInv, NEW t \in Threads, Invoke(t) \/ Proceed(t) \/ Unlock(t) \/ Session(t)
  PROVE  /\ OnlyAt(t, pc, pc')
         /\ pc'[t] = "install" => Swap(t)
         /\ pc'[t] = "land" => Move(t)
         /\ pc'[t] = "table" => TakeTable(t) \/ Session(t)
<1>0. IInv /\ DataStep(t)
  BY StepData DEF DInv
<1>. SUFFICES \/ Swap(t) \/ Move(t) \/ TakeTable(t) \/ Session(t)
              \/ pc'[t] \notin {"install", "land", "table"}
  <2>1. Swap(t) => pc'[t] = "install"
    BY <1>0, Going DEF Swap
  <2>2. Move(t) => pc'[t] \in {"land", "get_locks"}
    <3>1. Move(t) => Goto(t, "land") \/ Goto(t, "get_locks")
      BY Zenon DEF Move
    <3>. QED BY <1>0, <3>1, Going
  <2>3. TakeTable(t) => pc'[t] = "table"
    BY <1>0, Going DEF TakeTable
  <2>4. Session(t) => pc'[t] = "table"
    BY Zenon DEF Session, TableFind, TableInsert, TableErase, TableClear, TableResize, Begin,
                 Forward, Back, EraseAt, Modifies, Moves
  <2>. QED BY <1>0, <2>1, <2>2, <2>3, <2>4 DEF DataStep
<1>1. CASE Ends(t)
  <2>1. pc'[t] \in {"idle", "snapshot"}
    BY <1>0, <1>1, EndsHow, Going DEF Return, StartOver
  <2>. QED BY <2>1
<1>2. CASE Invoke(t)
  <2>. DEFINE p(c) == CASE c.op \in {"clear", "lock_table"} -> "lock_all"
                        [] c.op \in Resizing -> "rehash"
                        [] OTHER -> "snapshot"
  <2>1. PICK c : Goto(t, p(c))
    BY <1>2, Zenon DEF Invoke
  <2>2. p(c) \in {"lock_all", "rehash", "snapshot"}
    OBVIOUS
  <2>. HIDE DEF p
  <2>. QED BY <1>0, <2>1, <2>2, Going
<1>3. CASE Snapshot(t) \/ GetLocks(t) \/ StartLockAll(t)
  BY <1>0, <1>3, Going DEF Snapshot, GetLocks, StartLockAll
<1>4. CASE Lock(t)
  <2>1. pc[t] = "lock" /\ (UNCHANGED pc \/ Goto(t, "body") \/ Goto(t, "move"))
    BY <1>4 DEF Lock
  <2>. QED BY <1>0, <2>1, Going
<1>5. CASE LockEach(t)
  <2>. DEFINE p == CASE call[t].op \in Inserting -> "double"
                     [] call[t].op \in Resizing -> "expand"
                     [] call[t].op = "clear" -> "clear"
                     [] OTHER -> "take_table"
  <2>1. pc[t] = "lock_each" /\ (UNCHANGED pc \/ Goto(t, p))
    BY <1>5, Zenon DEF LockEach
  <2>2. p \in {"double", "expand", "clear", "take_table"}
    OBVIOUS
  <2>. HIDE DEF p
  <2>. QED BY <1>0, <2>1, <2>2, Going
<1>6. CASE RunCuckoo(t) \/ TableFull(t) \/ PathInvalid(t)
  BY <1>0, <1>6, Going DEF RunCuckoo, TableFull, PathInvalid
<1>7. CASE Search(t)
  <2>1. /\ pc[t] = "search"
        /\ UNCHANGED pc \/ Goto(t, "path") \/ \E i : ExpandedMeanwhile(t, i)
    BY <1>7, Zenon DEF Search
  <2>. QED BY <1>0, <1>1, <2>1, Going DEF Ends
<1>8. CASE Path(t)
  <2>1. /\ pc[t] = "path"
        /\ UNCHANGED pc \/ Goto(t, "get_locks") \/ \E i : ExpandedMeanwhile(t, i)
    BY <1>8, Zenon DEF Path
  <2>. QED BY <1>0, <1>1, <2>1, Going DEF Ends
<1>9. CASE Double(t)
  BY <1>0, <1>9, Going DEF Double
<1>10. CASE Rehash(t)
  <2>1. Goto(t, "lock_all") \/ \E r : Return(t, r)
    BY <1>10 DEF Rehash
  <2>. QED BY <1>0, <2>1, Going DEF Return
<1>11. Unlock(t) \/ Install(t) \/ ExpandSimple(t) \/ Clear(t) \/ DoubleRefused(t)
       \/ HashpowerChanged(t) \/ Find(t) \/ Update(t) \/ Erase(t) \/ InsertInPlace(t) \/ Land(t)
         => Ends(t)
  BY DEF Ends
<1>. QED
  BY <1>1, <1>2, <1>3, <1>4, <1>5, <1>6, <1>7, <1>8, <1>9, <1>10, <1>11
     DEF Proceed, TakeLocks, Operate, Resize

(* What is not rehashed yet is not written before.                         *)
FreshBuckets ==
  \A j \in DOMAIN buckets, s \in Slots :
    ~ is_migrated[lock_ind(j)] => buckets[j][s] = Vacant

(* A thread writes under its locks, or rehashes what a free lock guards.   *)
Near(t) ==
  \/ Held(t, 1) = LockIds /\ FreshBuckets'
  \/ /\ DOMAIN buckets' = DOMAIN buckets
     /\ \A l \in LockIds : is_migrated[l] => is_migrated'[l]
     /\ \A j \in DOMAIN buckets :
          \/ buckets'[j] = buckets[j]
          \/ is_migrated[lock_ind(j)] /\ lock_ind(j) \in Held(t, 1)
          \/ ~ is_migrated[lock_ind(j)] /\ is_migrated'[lock_ind(j)]

LEMMA BucketIndexes ==
  ASSUME DInv
  PROVE  \A j \in DOMAIN buckets : j \in Nat /\ lock_ind(j) \in LockIds
<1>1. \A j \in DOMAIN buckets : j \in Nat
  <2>1. CASE Swapped
    BY <2>1 DEF DInv, DataInv, SwappedOK, NoOld
  <2>2. CASE ~ Swapped
    <3>1. GoodTable(hashpower, buckets)
      BY <2>2 DEF DInv, DataInv, TableOK
    <3>. QED BY <3>1, SizeSteps DEF GoodTable, Containers, Buckets
  <2>. QED BY <2>1, <2>2
<1>. QED
  BY <1>1, LockIndex

LEMMA AllFresh ==
  ASSUME DInv, Unmigrated(is_migrated) = {}
  PROVE  FreshBuckets
  BY BucketIndexes DEF FreshBuckets, Unmigrated

(* So the buckets that matter to the others stay as they are.              *)
LEMMA NearKeeps ==
  ASSUME DInv, DInv', FreshBuckets, NEW t \in Threads, DataStep(t), Near(t)
  PROVE  /\ FreshBuckets'
         /\ \A u \in Threads \ {t} : LandFree(u) => LandFree(u)'
<1>1. FreshBuckets'
  <2>1. CASE Held(t, 1) = LockIds /\ FreshBuckets'
    BY <2>1
  <2>2. CASE ~ (Held(t, 1) = LockIds /\ FreshBuckets')
    <3>1. ASSUME NEW j \in DOMAIN buckets', NEW s \in Slots, ~ is_migrated'[lock_ind(j)]
          PROVE  buckets'[j][s] = Vacant
      <4>1. j \in DOMAIN buckets /\ lock_ind(j) \in LockIds
        BY <2>2, <3>1, BucketIndexes DEF Near
      <4>2. ~ is_migrated[lock_ind(j)]
        BY <2>2, <3>1, <4>1 DEF Near
      <4>3. buckets'[j] = buckets[j]
        BY <2>2, <3>1, <4>1, <4>2 DEF Near
      <4>. QED BY <4>1, <4>2, <4>3 DEF FreshBuckets
    <3>. QED BY <3>1 DEF FreshBuckets
  <2>. QED BY <2>1, <2>2
<1>2. ASSUME NEW u \in Threads \ {t}, LandFree(u) PROVE LandFree(u)'
  <2>. SUFFICES ASSUME pc'[u] = "land"
                PROVE  ~ occupied(buckets'[frame'[u].path[1].bucket], frame'[u].path[1].slot)
    BY DEF LandFree
  <2>1. pc[u] = "land" /\ frame'[u] = frame[u]
    BY DEF DataStep, OnlyAt
  <2>. DEFINE b == frame[u].path[1].bucket
  <2>2. /\ ~ occupied(buckets[b], frame[u].path[1].slot)
        /\ PathOK(frame[u].hp, call[u].key, frame[u].path) /\ Len(frame[u].path) > 0
        /\ OwnLocks(u) \subseteq Held(u, 1) /\ Held(u, 1) # {} /\ frame[u].hp = hashpower
        /\ OneContainer
    <3>1. FrameOK("land", frame[u], call[u]) /\ ThreadInv(u) /\ OneContainer
      BY <2>1, OfThread
    <3>. QED BY <1>2, <2>1, <3>1 DEF FrameOK, ThreadInv, HoldsOwn, SameHashpower, LandFree
  <2>3. b \in TwoBuckets(hashpower, call[u].key)
    BY <2>2 DEF PathOK
  <2>4. lock_ind(b) \in Held(u, 1)
    BY <2>2, <2>3 DEF OwnLocks, At1, At2, TwoBuckets
  <2>5. is_migrated[lock_ind(b)]
    BY <2>1, <2>4, OfThread DEF Rehashed
  <2>6. lock_ind(b) \notin Held(t, 1) /\ lock_ind(b) \in LockIds
    BY <2>2, <2>4, HeldAre
  <2>7. b \in DOMAIN buckets
    <3>1. GoodTable(hashpower, buckets) /\ hashpower \in Nat /\ call[u].key \in Keys
      BY <2>1, AtKey
    <3>. QED BY <2>3, <3>1, KeyBuckets DEF GoodTable, Containers
  <2>8. buckets'[b] = buckets[b]
    <3>. HIDE DEF b
    <3>. QED BY <2>5, <2>6, <2>7 DEF Near
  <2>. QED BY <2>1, <2>2, <2>8
<1>. QED
  BY <1>1, <1>2

(* Nothing is written, and one bucket is.                                  *)
LEMMA NothingNear ==
  ASSUME buckets' = buckets, is_migrated' = is_migrated
  PROVE  \A t : Near(t)
  BY DEF Near

OnlyBucket(b) == DOMAIN buckets' = DOMAIN buckets /\ \A j \in DOMAIN buckets : j # b => buckets'[j] = buckets[j]

LEMMA OneBucket ==
  \A b, s, w : buckets' = setKV(buckets, b, s, w) \/ buckets' = eraseKV(buckets, b, s)
               \/ buckets' = AssignVal(buckets, b, s, w) => OnlyBucket(b)
  BY DEF setKV, eraseKV, AssignVal, OnlyBucket

LEMMA EditNear ==
  ASSUME DInv, NEW t \in Threads, pc[t] \in {"body", "land"}, Kept,
         NEW b \in TwoBuckets(frame[t].hp, call[t].key), OnlyBucket(b)
  PROVE  Near(t)
<1>1. lock_ind(b) \in Held(t, 1)
  BY OfThread DEF ThreadInv, HoldsOwn, OwnLocks, At1, At2, TwoBuckets
<1>2. is_migrated[lock_ind(b)] /\ is_migrated' = is_migrated
  BY <1>1, OfThread DEF Rehashed, Kept
<1>. QED
  BY <1>1, <1>2 DEF Near, OnlyBucket

LEMMA FoundHome ==
  ASSUME DInv, NEW t \in Threads, pc[t] \in {"body", "land"},
         NEW p \in cuckoo_find(buckets, frame[t].hp, call[t].key)
  PROVE  p[1] \in TwoBuckets(frame[t].hp, call[t].key)
<1>1. GoodTable(hashpower, buckets) /\ frame[t].hp = hashpower /\ call[t].key \in Keys
  BY AtKey
<1>2. /\ p[1] \in Buckets(hashpower) /\ p[2] \in Slots
      /\ occupied(buckets[p[1]], p[2]) /\ At(buckets, p).key = call[t].key
  BY <1>1, FindFinds
<1>. QED
  BY <1>1, <1>2, GoodCell DEF At

LEMMA OperationNear ==
  ASSUME DInv, NEW t \in Threads,
         Find(t) \/ Update(t) \/ Erase(t) \/ InsertInPlace(t) \/ Land(t)
  PROVE  Near(t)
<1>. DEFINE pos == cuckoo_find(buckets, frame[t].hp, call[t].key)
            k == call[t].key
<1>1. pc[t] \in {"body", "land"} /\ Kept
  BY DEF Find, Update, Erase, InsertInPlace, Land
<1>2. \A b \in TwoBuckets(frame[t].hp, k) : OnlyBucket(b) => Near(t)
  BY <1>1, EditNear
<1>3. buckets' = buckets => Near(t)
  BY <1>1, NothingNear DEF Kept
<1>4. \A p \in pos : \A v :
        \/ buckets' = eraseKV(buckets, p[1], p[2]) \/ buckets' = AssignVal(buckets, p[1], p[2], v)
        => Near(t)
  BY <1>1, <1>2, FoundHome, OneBucket
<1>5. ASSUME NEW p, p[1] \in TwoBuckets(frame[t].hp, k), AddToBucket(t, p) PROVE Near(t)
  <2>1. buckets' = setKV(buckets, p[1], p[2], [key |-> call[t].key, val |-> call[t].val])
    BY <1>5 DEF AddToBucket
  <2>. QED BY <1>2, <1>5, <2>1, OneBucket
<1>6. ASSUME NEW p \in pos, UpraseFound(t, p) PROVE Near(t)
  <2>1. \/ buckets' = buckets
        \/ buckets' = AssignVal(buckets, p[1], p[2], call[t].val)
        \/ buckets' = eraseKV(buckets, p[1], p[2])
    BY <1>6 DEF UpraseFound
  <2>. HIDE DEF pos
  <2>. QED BY <1>3, <1>4, <2>1
<1>7. CASE Find(t)
  BY <1>3, <1>7 DEF Find
<1>8. CASE Update(t)
  <2>1. buckets' = buckets \/ \E p \in pos : buckets' = AssignVal(buckets, p[1], p[2], call[t].val)
    BY <1>8, Zenon DEF Update
  <2>. HIDE DEF pos
  <2>. QED BY <1>3, <1>4, <2>1
<1>9. CASE Erase(t)
  <2>1. buckets' = buckets \/ \E p \in pos : buckets' = eraseKV(buckets, p[1], p[2])
    BY <1>9, Zenon DEF Erase
  <2>. HIDE DEF pos
  <2>. QED BY <1>3, <1>4, <2>1
<1>10. CASE InsertInPlace(t)
  <2>1. \/ \E p \in pos : UpraseFound(t, p)
        \/ \E p \in InsertPosition(buckets, frame[t].hp, k) : AddToBucket(t, p)
    BY <1>10, Zenon DEF InsertInPlace
  <2>2. \A p \in InsertPosition(buckets, frame[t].hp, k) : p[1] \in TwoBuckets(frame[t].hp, k)
    BY InsertPositionHome
  <2>. QED BY <1>5, <1>6, <2>1, <2>2
<1>11. CASE Land(t)
  <2>. DEFINE p == <<frame[t].path[1].bucket, frame[t].path[1].slot>>
  <2>1. (\E q \in pos : UpraseFound(t, q)) \/ AddToBucket(t, p)
    BY <1>11, Zenon DEF Land
  <2>2. p[1] \in TwoBuckets(frame[t].hp, k)
    <3>1. FrameOK("land", frame[t], call[t])
      BY <1>11, OfThread DEF Land
    <3>. QED BY <3>1 DEF FrameOK, PathOK
  <2>. HIDE DEF p
  <2>. QED BY <1>5, <1>6, <2>1, <2>2
<1>. QED
  BY <1>7, <1>8, <1>9, <1>10, <1>11

(* A cuckoo move writes two buckets, whose locks the thread holds.         *)
LEMMA MoveWrites ==
  ASSUME CInv, NEW t \in Threads, Move(t), NEW d, d = frame[t].depth, NEW path, path = frame[t].path
  PROVE  /\ d \in Nat /\ d < Len(path) /\ Len(path) \in Nat /\ frame[t].hp = hashpower
         /\ PathOK(hashpower, call[t].key, path)
         /\ IF d = 0 THEN buckets' = buckets /\ ~ occupied(buckets[path[1].bucket], path[1].slot)
            ELSE /\ path[d].bucket \in Buckets(hashpower) /\ path[d].slot \in Slots
                 /\ path[d + 1].bucket \in Buckets(hashpower) /\ path[d + 1].slot \in Slots
                 /\ path[d + 1].bucket
                      \in TwoBuckets(hashpower, buckets[path[d].bucket][path[d].slot].key)
                 /\ occupied(buckets[path[d].bucket], path[d].slot)
                 /\ ~ occupied(buckets[path[d + 1].bucket], path[d + 1].slot)
                 /\ buckets' = eraseKV(setKV(buckets, path[d + 1].bucket, path[d + 1].slot,
                                             buckets[path[d].bucket][path[d].slot]),
                                       path[d].bucket, path[d].slot)
                 /\ lock_ind(path[d].bucket) \in Held(t, 1)
                 /\ lock_ind(path[d + 1].bucket) \in Held(t, 1)
<1>1. /\ DInv /\ pc[t] = "move" /\ PathLocks(frame[t], call[t]) \subseteq Held(t, 1)
      /\ frame[t].hp = hashpower /\ hashpower \in Nat /\ call[t].key \in Keys
      /\ GoodTable(hashpower, buckets)
  <2>1. DInv /\ pc[t] = "move" /\ CallInv(t)
    BY DEF CInv, Move
  <2>. QED BY <2>1, AtKey DEF CallInv, PathLocked
<1>2. PathOK(hashpower, call[t].key, path) /\ d \in Nat /\ d < Len(path)
  <2>1. FrameOK("move", frame[t], call[t]) /\ d # -1
    BY <1>1, OfThread DEF ThreadInv, HoldsOwn
  <2>2. MAX_BFS_PATH_LEN \in Nat
    BY TableAssumption
  <2>. QED BY <1>1, <2>1, <2>2 DEF FrameOK
<1>3. /\ Len(path) \in Nat
      /\ \A n \in 1 .. Len(path) : path[n].bucket \in Buckets(hashpower) /\ path[n].slot \in Slots
      /\ Len(path) > 0 => path[1].bucket \in TwoBuckets(hashpower, call[t].key)
      /\ \A n \in 1 .. Len(path) - 1 :
           path[n + 1].bucket = alt_index(hashpower, partial_key(path[n].hash), path[n].bucket)
  BY <1>2, PathRecords
<1>4. /\ PathHolds(t)
      /\ IF d = 0 THEN UNCHANGED buckets
         ELSE buckets' = eraseKV(setKV(buckets, path[d + 1].bucket, path[d + 1].slot,
                                       buckets[path[d].bucket][path[d].slot]),
                                 path[d].bucket, path[d].slot)
  BY Zenon DEF Move
<1>5. CASE d = 0
  <2>1. ~ occupied(buckets[path[1].bucket], path[1].slot)
    BY <1>4, <1>5 DEF PathHolds
  <2>. QED BY <1>1, <1>2, <1>3, <1>4, <1>5, <2>1
<1>6. CASE d # 0
  <2>. DEFINE n == Len(path)
              x == path[d]
              y == path[d + 1]
              kv == buckets[x.bucket][x.slot]
  <2>0. n \in Nat /\ d \in Nat /\ d < n /\ d # 0
    BY <1>2, <1>3, <1>6
  <2>. HIDE DEF n
  <2>1. d \in 1 .. n /\ d + 1 \in 1 .. n /\ d \in 1 .. n - 1
    BY ONLY <2>0
  <2>2. /\ x.bucket \in Buckets(hashpower) /\ x.slot \in Slots
        /\ y.bucket \in Buckets(hashpower) /\ y.slot \in Slots
        /\ y.bucket = alt_index(hashpower, partial_key(x.hash), x.bucket)
    BY <1>3, <2>1 DEF n
  <2>3. /\ occupied(buckets[x.bucket], x.slot) /\ Hash[kv.key] = x.hash
        /\ ~ occupied(buckets[y.bucket], y.slot)
    <3>1. PathHolds(t) /\ frame[t].path = path /\ frame[t].depth = d /\ d # 0
      BY <1>4, <1>6
    <3>2. frame[t].path[frame[t].depth] = x /\ frame[t].path[frame[t].depth + 1] = y
      BY <3>1
    <3>. HIDE DEF x, y
    <3>. QED BY <3>1, <3>2 DEF PathHolds
  <2>4. buckets' = eraseKV(setKV(buckets, y.bucket, y.slot, kv), x.bucket, x.slot)
    BY <1>4, <1>6, Zenon
  <2>7. lock_ind(x.bucket) \in Held(t, 1) /\ lock_ind(y.bucket) \in Held(t, 1)
    <3>1. CASE d = 1
      <4>1. x.bucket \in TwoBuckets(hashpower, call[t].key)
        BY <1>3, <2>0, <3>1 DEF n
      <4>2. PathLocks(frame[t], call[t])
              = LocksOf(TwoBuckets(hashpower, call[t].key) \cup {y.bucket})
        BY <1>1, <3>1 DEF PathLocks
      <4>. HIDE DEF x, y
      <4>. QED BY <1>1, <4>1, <4>2 DEF LocksOf
    <3>2. CASE d # 1
      <4>2. PathLocks(frame[t], call[t]) = LocksOf({x.bucket, y.bucket})
        BY <1>6, <3>2 DEF PathLocks
      <4>. HIDE DEF x, y
      <4>. QED BY <1>1, <4>2 DEF LocksOf
    <3>. QED BY <3>1, <3>2
  <2>5. kv.key \in Keys /\ x.bucket \in TwoBuckets(hashpower, kv.key)
    <3>. HIDE DEF x, y
    <3>. QED BY <1>1, <2>2, <2>3, GoodCell
  <2>6. y.bucket \in TwoBuckets(hashpower, kv.key)
    <3>. HIDE DEF x, y, kv
    <3>. QED BY <1>1, <2>2, <2>3, <2>5, AlternateIsHome DEF Alternate
  <2>8. /\ Len(path) \in Nat /\ frame[t].hp = hashpower /\ PathOK(hashpower, call[t].key, path)
        /\ d \in Nat /\ d < Len(path) /\ d # 0
    BY <1>1, <1>2, <1>3, <1>6
  <2>. QED BY ONLY <2>2, <2>3, <2>4, <2>6, <2>7, <2>8
<1>. QED
  BY <1>5, <1>6


LEMMA MoveNear ==
  ASSUME CInv, NEW t \in Threads, Move(t)
  PROVE  Near(t)
<1>. DEFINE d == frame[t].depth
            path == frame[t].path
            x == path[d]
            y == path[d + 1]
            kv == buckets[x.bucket][x.slot]
<1>1. is_migrated' = is_migrated /\ pc[t] = "move" /\ DInv
  BY DEF Move, Kept, CInv
<1>2. \A l \in Held(t, 1) : is_migrated[l]
  BY <1>1, OfThread DEF Rehashed
<1>3. CASE d = 0
  <2>1. buckets' = buckets
    BY <1>3, MoveWrites
  <2>. QED BY <1>1, <2>1, NothingNear
<1>4. CASE d # 0
  <2>1. /\ buckets' = eraseKV(setKV(buckets, y.bucket, y.slot, kv), x.bucket, x.slot)
        /\ lock_ind(x.bucket) \in Held(t, 1) /\ lock_ind(y.bucket) \in Held(t, 1)
    BY <1>4, MoveWrites
  <2>. HIDE DEF x, y, kv
  <2>2. /\ DOMAIN buckets' = DOMAIN buckets
        /\ \A j \in DOMAIN buckets :
             j # x.bucket /\ j # y.bucket => buckets'[j] = buckets[j]
    BY <2>1 DEF eraseKV, setKV
  <2>. QED BY <1>1, <1>2, <2>1, <2>2 DEF Near
<1>. QED
  BY <1>3, <1>4

(* No element is lost or changed by a move. *)
LEMMA MoveElements ==
  ASSUME CInv, DInv', NEW t \in Threads, Move(t)
  PROVE  /\ Elements' = Elements /\ (CountsOK => CountsOK')
         /\ LandFree(t)'
<1>. DEFINE d == frame[t].depth
            path == frame[t].path
            x == path[d]
            y == path[d + 1]
            kv == buckets[x.bucket][x.slot]
<1>1. /\ Kept /\ elem_counter' = elem_counter /\ pc[t] = "move" /\ DInv /\ IInv
      /\ (d \in {0, 1} => frame' = [frame EXCEPT ![t].depth = 0])
      /\ (d \notin {0, 1} => Goto(t, "get_locks"))
      /\ (Goto(t, "get_locks") \/ Goto(t, "land"))
  BY DEF Move, CInv, DInv
<1>2. /\ ~ Swapped /\ ~ Swapped' /\ Swapped' = Swapped
      /\ (d \notin {0, 1} => pc'[t] # "land")
  <2>1. OnlyAt(t, pc, pc') /\ pc'[t] # "install" /\ (d \notin {0, 1} => pc'[t] # "land")
    BY <1>1, Going
  <2>. QED BY <1>1, <2>1, AtKey, SameSwapped
<1>3. /\ Elements = Content(buckets, old, Live(old, is_migrated))
      /\ Elements' = Content(buckets', old, Live(old, is_migrated))
      /\ GoodTable(hashpower, buckets)
  BY <1>1, <1>2, EditedElements
<1>4. d = 0 => Elements' = Elements
  <2>1. d = 0 => buckets' = buckets
    BY MoveWrites
  <2>. QED BY <1>3, <2>1
<1>5. d # 0 => Elements' = Elements /\ ~ occupied(buckets'[x.bucket], x.slot)
  <2>. SUFFICES ASSUME d # 0
                PROVE  Elements' = Elements /\ ~ occupied(buckets'[x.bucket], x.slot)
    OBVIOUS
  <2>1. /\ x.bucket \in Buckets(hashpower) /\ x.slot \in Slots /\ y.slot \in Slots
        /\ y.bucket \in TwoBuckets(hashpower, buckets[x.bucket][x.slot].key)
        /\ occupied(buckets[x.bucket], x.slot)
        /\ ~ occupied(buckets[y.bucket], y.slot)
        /\ buckets' = eraseKV(setKV(buckets, y.bucket, y.slot, buckets[x.bucket][x.slot]),
                              x.bucket, x.slot)
    BY MoveWrites
  <2>. HIDE DEF x, y
  <2>2. /\ Content(buckets', old, Live(old, is_migrated))
             = Content(buckets, old, Live(old, is_migrated))
        /\ ~ occupied(buckets'[x.bucket], x.slot)
    BY <1>3, <2>1, MoveContent
  <2>. QED BY <1>3, <2>2
<1>6. Elements' = Elements /\ (CountsOK => CountsOK')
  <2>1. Elements' = Elements
    BY <1>4, <1>5
  <2>2. Sum(elem_counter)' = Sum(elem_counter)
    BY <1>1 DEF Sum
  <2>. QED BY <1>1, <2>1, <2>2 DEF CountsOK
<1>7. LandFree(t)'
  <2>. SUFFICES ASSUME pc'[t] = "land"
                PROVE  ~ occupied(buckets'[frame'[t].path[1].bucket], frame'[t].path[1].slot)
    BY DEF LandFree
  <2>1. d \in {0, 1} /\ frame' = [frame EXCEPT ![t].depth = 0]
    BY <1>1, <1>2
  <2>2. frame'[t].path = path
    <3>. DEFINE g == [frame[t] EXCEPT !.depth = 0]
    <3>1. frame' = [frame EXCEPT ![t] = g]
      BY <1>1, <2>1, Shapes DEF OfThreads
    <3>2. g = AFrame(frame[t].hp, frame[t].cont, frame[t].want, frame[t].queue,
                     frame[t].target, frame[t].path, 0, frame[t].cursor)
      BY <1>1, SetDepth, OfThread
    <3>. HIDE DEF g
    <3>3. frame'[t] = g
      BY <1>1, <3>1, NewFrame
    <3>. QED BY <3>2, <3>3 DEF AFrame
  <2>3. CASE d = 0
    <3>1. buckets' = buckets /\ ~ occupied(buckets[path[1].bucket], path[1].slot)
      BY <2>3, MoveWrites
    <3>. QED BY <2>2, <3>1
  <2>4. CASE d = 1
    <3>1. x = path[1] /\ d # 0
      BY <2>4
    <3>. QED BY <1>5, <2>2, <3>1
  <2>. QED BY <2>1, <2>3, <2>4
<1>. QED
  BY <1>6, <1>7


-----------------------------------------------------------------------------
(* Rehashing a lock *)

(* Both buckets to which the elements of a bucket go have its lock.        *)
LEMMA TargetLock ==
  ASSUME NEW hp \in Nat, hashsize(hp) >= kMaxNumLocks, NEW j \in Buckets(hp + 1)
  PROVE  lock_ind(j % hashsize(hp)) = lock_ind(j)
<1>. DEFINE s == hashsize(hp)
            i == j % s
<1>1. s \in Nat \ {0} /\ hashsize(hp + 1) = 2 * s
  BY SizeSteps
<1>2. j \in Nat /\ j < 2 * s
  BY <1>1 DEF Buckets
<1>. HIDE DEF s
<1>3. i \in Nat /\ (j < s => i = j)
  BY <1>1, <1>2
<1>4. j >= s => i = j - s
  BY <1>1, <1>2, BeyondHalf
<1>5. i = j \/ j = i + s
  BY <1>1, <1>2, <1>3, <1>4
<1>. HIDE DEF i
<1>6. lock_ind(i + s) = lock_ind(i)
  BY <1>3, SameLock DEF s
<1>7. lock_ind(i) = lock_ind(j)
  BY <1>5, <1>6
<1>. QED
  BY <1>7 DEF i, s

(* Nothing is lost when locks are rehashed, and only buckets of theirs are *)
(* written.                                                                *)
LEMMA MigratedContent ==
  ASSUME NEW data, NEW hp, NEW rest, NEW ohp, NEW flags, NEW n,
         TableOK(data, hp, rest, ohp, flags, n), NEW ls \in SUBSET LockIds,
         \A j \in DOMAIN data, s \in Slots : ~ flags[lock_ind(j)] => data[j][s] = Vacant,
         NEW todo, todo = {l \in ls : ~ flags[l]},
         NEW new, new = move_buckets(rest, ohp, data, UNION {BucketsOf(rest, l) : l \in todo}),
         NEW flags2, flags2 = [l \in DOMAIN flags |-> flags[l] \/ l \in ls],
         NEW n2, n2 = n - Cardinality(todo),
         NEW rest2, rest2 = IF todo # {} /\ n2 = 0 THEN NoOld ELSE rest
  PROVE  /\ Content(new, rest2, Live(rest2, flags2)) = Content(data, rest, Live(rest, flags))
         /\ DOMAIN new = DOMAIN data
         /\ \A j \in DOMAIN data : new[j] = data[j] \/ (~ flags[lock_ind(j)] /\ flags2[lock_ind(j)])
<1>. DEFINE indexes == UNION {BucketsOf(rest, l) : l \in todo}
            un  == Unmigrated(flags)
            un2 == Unmigrated(flags2)
<1>1. /\ GoodTable(hp, data) /\ ohp \in Nat /\ flags \in [LockIds -> BOOLEAN]
      /\ n = Cardinality(un) /\ DOMAIN flags = LockIds
      /\ Apart(data, rest, Live(rest, flags))
      /\ DOMAIN data = Buckets(hp)
  BY DEF TableOK, GoodTable, Containers
<1>2. /\ flags2 \in [LockIds -> BOOLEAN] /\ todo \subseteq un /\ un2 = un \ todo
      /\ \A l \in LockIds : flags2[l] = (flags[l] \/ l \in ls)
  BY <1>1 DEF Unmigrated
<1>3. TableOK(new, hp, rest2, ohp, flags2, n2)
  <2>1. /\ TableOK(data, hp, rest, ohp, flags, n) /\ ls \in SUBSET LockIds
        /\ todo = {l \in ls : ~ flags[l]}
        /\ new = move_buckets(rest, ohp, data, UNION {BucketsOf(rest, l) : l \in todo})
        /\ flags2 = [l \in DOMAIN flags |-> flags[l] \/ l \in ls]
        /\ n2 = n - Cardinality(todo)
        /\ rest2 = IF todo # {} /\ n2 = 0 THEN NoOld ELSE rest
    OBVIOUS
  <2>. QED BY ONLY <2>1, MigratedTable
<1>4. CASE todo = {}
  <2>1. indexes = {}
    BY <1>4
  <2>2. new = data
    <3>. HIDE DEF indexes
    <3>1. new = move_buckets(rest, ohp, data, indexes)
      BY DEF indexes
    <3>. QED BY <1>1, <2>1, <3>1 DEF move_buckets, GoodTable, Containers
  <2>3. rest2 = rest /\ flags2 = flags
    <3>1. \A l \in LockIds : flags2[l] = flags[l]
      BY <1>1, <1>2, <1>4
    <3>. QED BY <1>1, <1>2, <1>4, <3>1
  <2>. QED BY <2>2, <2>3
<1>5. CASE todo # {}
  <2>1. un # {}
    BY <1>2, <1>5
  <2>2. GoodTable(ohp, rest) /\ hp = ohp + 1 /\ hashsize(ohp) >= kMaxNumLocks
        /\ DOMAIN rest = Buckets(ohp)
    BY <2>1 DEF TableOK, GoodTable, Containers
  <2>3. new = move_buckets(rest, ohp, data, indexes)
    OBVIOUS
  <2>4. \A i \in DOMAIN rest : i \in Nat /\ lock_ind(i) \in LockIds
    BY <2>2, SizeSteps, LockIndex DEF Buckets
  <2>5. /\ indexes = {i \in DOMAIN rest : lock_ind(i) \in todo}
        /\ indexes \subseteq Live(rest, flags)
        /\ Live(rest, flags2) = Live(rest, flags) \ indexes
        /\ Live(rest, flags) \subseteq Buckets(ohp)
    <3>1. indexes = {i \in DOMAIN rest : lock_ind(i) \in todo}
      BY DEF BucketsOf
    <3>. HIDE DEF indexes, un, un2
    <3>. QED BY <1>1, <1>2, <2>2, <2>4, <3>1 DEF Live
  <2>. HIDE DEF indexes
  <2>6. DOMAIN new = DOMAIN data
    BY <2>3 DEF move_buckets
  <2>7. Receiving(ohp, data, indexes)
    <3>. SUFFICES ASSUME NEW i \in indexes, NEW s \in Slots
                  PROVE  data[i][s] = Vacant /\ data[i + hashsize(ohp)][s] = Vacant
      BY DEF Receiving
    <3>1. i \in Buckets(ohp) /\ i \in Nat /\ ~ flags[lock_ind(i)]
      BY <2>2, <2>4, <2>5
    <3>2. i \in DOMAIN data /\ i + hashsize(ohp) \in DOMAIN data
      <4>1. hashsize(ohp) \in Nat \ {0} /\ hashsize(ohp + 1) = 2 * hashsize(ohp)
        BY <1>1, SizeSteps
      <4>. QED BY <1>1, <2>2, <3>1, <4>1 DEF Buckets
    <3>3. lock_ind(i + hashsize(ohp)) = lock_ind(i)
      BY <1>1, <2>2, <3>1, SameLock
    <3>. QED BY <3>1, <3>2, <3>3
  <2>8. Content(new, rest, Live(rest, flags2)) = Content(data, rest, Live(rest, flags))
    <3>. DEFINE lv == Live(rest, flags)
    <3>1. indexes \subseteq lv /\ lv \subseteq Buckets(ohp) /\ Live(rest, flags2) = lv \ indexes
      BY <2>5
    <3>. HIDE DEF lv
    <3>2. Content(new, rest, lv \ indexes) = Content(data, rest, lv)
      BY <1>1, <2>2, <2>3, <2>7, <3>1, MoveBucketsContent
    <3>. QED BY <3>1, <3>2 DEF lv
  <2>9. Content(new, rest2, Live(rest2, flags2)) = Content(new, rest, Live(rest, flags2))
    <3>1. CASE n2 = 0
      <4>1. un2 = {}
        <5>1. n2 = Cardinality(un2) /\ IsFiniteSet(un2)
          BY <1>3, LocksFinite DEF TableOK
        <5>. HIDE DEF un2
        <5>. QED BY <3>1, <5>1, FS_EmptySet
      <4>2. rest2 = NoOld
        BY <1>5, <3>1
      <4>. DEFINE lv == Live(rest, flags2)
                  lv2 == Live(rest2, flags2)
      <4>3. lv2 = {} /\ lv = {}
        BY <2>2, <4>1, <4>2, NothingLive
      <4>. HIDE DEF lv, lv2
      <4>4. Content(new, rest2, lv2) = Content(new, rest, lv)
        BY <4>3 DEF Content, Cell
      <4>. QED BY <4>4 DEF lv, lv2
    <3>2. CASE n2 # 0
      <4>1. rest2 = rest
        BY <3>2
      <4>. QED BY <4>1
    <3>. QED BY <3>1, <3>2
  <2>10. ASSUME NEW j \in DOMAIN data
         PROVE  new[j] = data[j] \/ (~ flags[lock_ind(j)] /\ flags2[lock_ind(j)])
    <3>. DEFINE i == j % hashsize(ohp)
    <3>1. new[j] = IF i \in indexes THEN move_bucket(rest, ohp, data, i)[j] ELSE data[j]
      BY <2>3 DEF move_buckets
    <3>2. lock_ind(i) = lock_ind(j)
      BY <1>1, <2>2, TargetLock
    <3>. HIDE DEF i
    <3>3. i \in indexes => lock_ind(j) \in todo
      BY <2>5, <3>2
    <3>4. lock_ind(j) \in todo => ~ flags[lock_ind(j)] /\ flags2[lock_ind(j)]
      BY <1>2
    <3>. QED BY <3>1, <3>3, <3>4
  <2>. QED BY <2>6, <2>8, <2>9, <2>10
<1>. QED
  BY <1>4, <1>5

(* The same of the tables: rehash_lock changes no element.                 *)
LEMMA MigrateKeeps ==
  ASSUME DInv, FreshBuckets, DInv', ~ Swapped, ~ Swapped', NEW t \in Threads,
         NEW ls \in SUBSET LockIds, Migrate(ls), elem_counter' = elem_counter
  PROVE  Elements' = Elements /\ (CountsOK => CountsOK') /\ Near(t)
<1>. DEFINE todo == {l \in ls : ~ is_migrated[l]}
            n2 == num_remaining - Cardinality(todo)
<1>1. /\ buckets' = move_buckets(old, old_hashpower, buckets,
                                 UNION {BucketsOf(old, l) : l \in todo})
      /\ is_migrated' = [l \in DOMAIN is_migrated |-> is_migrated[l] \/ l \in ls]
      /\ num_remaining' = n2
      /\ old' = IF todo # {} /\ n2 = 0 THEN NoOld ELSE old
  BY DEF Migrate
<1>2. TableOK(buckets, hashpower, old, old_hashpower, is_migrated, num_remaining)
  BY DEF DInv, DataInv
<1>3. \A j \in DOMAIN buckets, s \in Slots : ~ is_migrated[lock_ind(j)] => buckets[j][s] = Vacant
  BY DEF FreshBuckets
<1>. HIDE DEF n2
<1>4. /\ Content(buckets', old', Live(old', is_migrated'))
           = Content(buckets, old, Live(old, is_migrated))
      /\ DOMAIN buckets' = DOMAIN buckets
      /\ \A j \in DOMAIN buckets :
           buckets'[j] = buckets[j] \/ (~ is_migrated[lock_ind(j)] /\ is_migrated'[lock_ind(j)])
  <2>1. n2 = num_remaining - Cardinality(todo)
    BY DEF n2
  <2>2. todo = {l \in ls : ~ is_migrated[l]}
    OBVIOUS
  <2>. HIDE DEF todo
  <2>. QED BY <1>1, <1>2, <1>3, <2>1, <2>2, MigratedContent
<1>. HIDE DEF todo
<1>5. Elements' = Elements
  <2>1. (DInv /\ ~ Swapped => Elements = Content(buckets, old, Live(old, is_migrated)))'
    BY ElementsOf, PTL
  <2>. QED BY <1>4, <2>1, ElementsOf
<1>6. CountsOK => CountsOK'
  <2>1. Sum(elem_counter)' = Sum(elem_counter)
    BY DEF Sum
  <2>. QED BY <1>5, <2>1 DEF CountsOK
<1>7. \A l \in LockIds : is_migrated[l] => is_migrated'[l]
  BY <1>1, <1>2 DEF TableOK
<1>. QED
  BY <1>4, <1>5, <1>6, <1>7 DEF Near


-----------------------------------------------------------------------------
(* Steps that change no element *)

Stepping(t) == Invoke(t) \/ Proceed(t) \/ Unlock(t) \/ Session(t)

(* What they leave as it was. *)
Silent(t) == Elements' = Elements /\ (CountsOK => CountsOK') /\ Near(t)

Untouched == UNCHANGED <<containers, elem_counter, is_migrated, num_remaining>>

LEMMA QuietSilent ==
  ASSUME DInv, NEW t \in Threads, Stepping(t), pc[t] \notin {"swap", "install"}, Untouched
  PROVE  Silent(t) /\ Swapped' = Swapped
<1>1. OnlyAt(t, pc, pc') /\ (pc'[t] = "install" => Swap(t))
  BY Labels DEF Stepping
<1>2. pc'[t] # "install"
  BY <1>1 DEF Swap
<1>3. Swapped' = Swapped
  BY <1>1, <1>2, SameSwapped
<1>4. buckets' = buckets /\ is_migrated' = is_migrated
  BY DEF Untouched, containers
<1>. QED
  BY <1>3, <1>4, SameElements, NothingNear DEF Untouched, Silent

(* The steps that write neither the table nor a counter. *)
LEMMA QuietSteps ==
  ASSUME DInv, NEW t \in Threads,
         \/ Invoke(t) \/ Snapshot(t) \/ GetLocks(t) \/ HashpowerChanged(t) \/ StartLockAll(t)
         \/ LockEach(t) \/ RunCuckoo(t) \/ TableFull(t) \/ PathInvalid(t) \/ DoubleRefused(t)
         \/ Rehash(t) \/ Unlock(t)
  PROVE  Silent(t) /\ Swapped' = Swapped
<1>1. Untouched
  <2>1. CASE Invoke(t) \/ Snapshot(t) \/ GetLocks(t) \/ HashpowerChanged(t) \/ StartLockAll(t)
    BY <2>1 DEF Invoke, Snapshot, GetLocks, HashpowerChanged, StartLockAll, lockVars, Untouched
  <2>2. CASE LockEach(t)
    BY <2>2, Zenon DEF LockEach, Untouched
  <2>3. CASE RunCuckoo(t) \/ PathInvalid(t)
    BY <2>3 DEF RunCuckoo, PathInvalid, Kept, Untouched, containers
  <2>4. CASE TableFull(t) \/ Rehash(t)
    BY <2>4 DEF TableFull, Rehash, lockVars, Untouched
  <2>5. CASE DoubleRefused(t) \/ Unlock(t)
    BY <2>5 DEF DoubleRefused, Unlock, Untouched
  <2>. QED BY <2>1, <2>2, <2>3, <2>4, <2>5
<1>2. Stepping(t)
  BY DEF Stepping, Proceed, TakeLocks, Operate, Resize
<1>3. pc[t] \notin {"swap", "install"}
  <2>1. CASE Invoke(t) \/ Snapshot(t) \/ GetLocks(t) \/ HashpowerChanged(t) \/ StartLockAll(t)
    BY <2>1 DEF Invoke, Snapshot, GetLocks, HashpowerChanged, StartLockAll
  <2>2. CASE LockEach(t)
    BY <2>2, Zenon DEF LockEach
  <2>3. CASE RunCuckoo(t) \/ PathInvalid(t) \/ TableFull(t) \/ Rehash(t)
    BY <2>3 DEF RunCuckoo, PathInvalid, TableFull, Rehash
  <2>5. CASE DoubleRefused(t) \/ Unlock(t)
    BY <2>5 DEF DoubleRefused, Unlock
  <2>. QED BY <2>1, <2>2, <2>3, <2>5
<1>. QED
  BY <1>1, <1>2, <1>3, QuietSilent

(* So do the session's steps that only look. *)
LEMMA LookSilent ==
  ASSUME DInv, NEW t \in Threads, Session(t), UNCHANGED <<containers, lockVars>>
  PROVE  Silent(t) /\ Swapped' = Swapped
<1>1. pc[t] = "table"
  BY Zenon DEF Session, TableFind, TableInsert, TableErase, TableClear, TableResize, Begin,
               Forward, Back, EraseAt, Modifies, Moves
<1>. QED
  BY <1>1, QuietSilent DEF Stepping, Untouched, lockVars

(* Steps that rehash the locks they use. *)
LEMMA MigrateSilent ==
  ASSUME DInv, FreshBuckets, DInv', NEW t \in Threads, Stepping(t),
         pc[t] \notin {"swap", "install"}, ~ Swapped,
         NEW ls \in SUBSET LockIds, Migrate(ls), elem_counter' = elem_counter
  PROVE  Silent(t) /\ ~ Swapped'
<1>1. OnlyAt(t, pc, pc') /\ (pc'[t] = "install" => Swap(t))
  BY Labels DEF Stepping
<1>2. pc'[t] # "install"
  BY <1>1 DEF Swap
<1>3. ~ Swapped'
  BY <1>1, <1>2, SameSwapped
<1>. QED
  BY <1>3, MigrateKeeps DEF Silent

LEMMA LockSilent ==
  ASSUME DInv, FreshBuckets, DInv', NEW t \in Threads, Lock(t)
  PROVE  Silent(t)
<1>1. Stepping(t) /\ pc[t] = "lock" /\ elem_counter' = elem_counter
  BY DEF Stepping, Proceed, TakeLocks, Lock
<1>2. PICK l \in frame[t].want :
        /\ NextLock(t, l) /\ LockFree(t, l)
        /\ IF frame[t].want # {l}
           THEN UNCHANGED <<containers, is_migrated, num_remaining, pc>>
           ELSE Migrate(Held(t, frame[t].cont) \cup {l})
  BY Zenon DEF Lock
<1>3. OneContainer /\ frame[t].cont = 1 /\ IInv
  BY <1>1, OfThread DEF ThreadInv, WantsOwn
<1>4. l \in LockIds /\ locks[1][l] = NoThread
  <2>1. l \in DOMAIN locks[1] /\ locks[1][l] = NoThread
    BY <1>2, <1>3 DEF NextLock, Ascending, LockFree
  <2>. QED BY <1>3, <2>1, Container
<1>5. CASE frame[t].want # {l}
  <2>1. Untouched
    BY <1>1, <1>2, <1>5 DEF Untouched
  <2>. QED BY <1>1, <2>1, QuietSilent
<1>6. CASE frame[t].want = {l}
  <2>1. Migrate(Held(t, 1) \cup {l})
    BY <1>2, <1>3, <1>6
  <2>2. Held(t, 1) \cup {l} \in SUBSET LockIds
    BY <1>3, <1>4, HeldAre
  <2>3. ~ Swapped
    BY <1>1, <1>3, <1>4, NotSwapped
  <2>. QED BY <1>1, <2>1, <2>2, <2>3, MigrateSilent
<1>. QED
  BY <1>5, <1>6


(* The bucket that a search or a path is about to read.                    *)
LEMMA SearchIndex ==
  ASSUME DInv, NEW t \in Threads, pc[t] = "search", frame[t].queue # <<>>
  PROVE  Head(frame[t].queue).bucket \in Nat
<1>. DEFINE q == frame[t].queue
            S == Nodes(frame[t].hp)
            x == Head(q)
<1>1. q \in Seq(S) /\ q # <<>> /\ frame[t].hp \in Nat
  BY OfThread DEF FrameOK
<1>2. x \in S
  <2>. HIDE DEF q, S
  <2>. QED BY <1>1
<1>. HIDE DEF x
<1>3. x.bucket \in Nat
  BY <1>1, <1>2, SizeSteps DEF Nodes, Buckets, S
<1>. QED
  BY <1>3 DEF x

LEMMA PathIndex ==
  ASSUME DInv, NEW t \in Threads, pc[t] = "path"
  PROVE  NextBucket(frame[t], At1(t), At2(t)) \in Nat
<1>. DEFINE f == frame[t]
            key == call[t].key
            hp == f.hp
            b == NextBucket(f, FirstBucket(hp, key), SecondBucket(hp, key))
<1>1. /\ hp \in Nat /\ key \in Keys /\ PathOK(hp, key, f.path)
      /\ \A n \in 1 .. Len(f.path) : f.path[n].hash \in Nat
  BY OfThread DEF FrameOK
<1>2. b \in Nat
  <2>1. f.hp = hp /\ b = NextBucket(f, FirstBucket(hp, key), SecondBucket(hp, key))
    OBVIOUS
  <2>. HIDE DEF f, key, hp, b
  <2>. QED BY <1>1, <2>1, NextBucketIs
<1>. QED
  BY <1>2 DEF At1, At2

LEMMA ReadsSilent ==
  ASSUME DInv, FreshBuckets, DInv', NEW t \in Threads, Search(t) \/ Path(t)
  PROVE  Silent(t)
<1>1. Stepping(t) /\ pc[t] \in {"search", "path"}
  <2>1. Stepping(t)
    BY DEF Stepping, Proceed, Operate
  <2>2. (Search(t) => pc[t] = "search") /\ (Path(t) => pc[t] = "path")
    BY Zenon DEF Search, Path
  <2>. QED BY <2>1, <2>2
<1>2. ASSUME NEW i, ExpandedMeanwhile(t, i) PROVE Silent(t)
  <2>1. Untouched
    BY <1>2 DEF ExpandedMeanwhile, Untouched, lockVars
  <2>. QED BY <1>1, <2>1, QuietSilent
<1>3. ASSUME NEW i \in Nat, ReadsOne(t, i) PROVE Silent(t)
  <2>1. IInv /\ OneContainer /\ lock_ind(i) \in LockIds
    BY OfThread, LockIndex
  <2>2. locks[1][lock_ind(i)] = NoThread
    BY <1>3, <2>1 DEF ReadsOne, LockOneFree, OneContainer, current
  <2>3. ~ Swapped
    BY <1>1, <2>1, <2>2, NotSwapped
  <2>4. Migrate({lock_ind(i)}) /\ elem_counter' = elem_counter /\ {lock_ind(i)} \in SUBSET LockIds
    BY <1>3, <2>1 DEF ReadsOne
  <2>. QED BY <1>1, <2>3, <2>4, MigrateSilent
<1>4. CASE Search(t)
  <2>. DEFINE i == Head(frame[t].queue).bucket
  <2>1. frame[t].queue # <<>> /\ pc[t] = "search" /\ (ExpandedMeanwhile(t, i) \/ ReadsOne(t, i))
    BY <1>4, Zenon DEF Search
  <2>2. i \in Nat
    BY <2>1, SearchIndex
  <2>. HIDE DEF i
  <2>. QED BY <1>2, <1>3, <2>1, <2>2
<1>5. CASE Path(t)
  <2>. DEFINE i == NextBucket(frame[t], At1(t), At2(t))
  <2>1. pc[t] = "path" /\ (ExpandedMeanwhile(t, i) \/ ReadsOne(t, i))
    BY <1>5, Zenon DEF Path
  <2>2. i \in Nat
    BY <2>1, PathIndex
  <2>. HIDE DEF i
  <2>. QED BY <1>2, <1>3, <2>1, <2>2
<1>. QED
  BY <1>4, <1>5

-----------------------------------------------------------------------------
(* Steps with all locks *)

(* Whoever holds all locks and leaves nothing to be rehashed.              *)
LEMMA AllNear ==
  ASSUME DInv, DInv', NEW t \in Threads, pc[t] \in WithAll, Unmigrated(is_migrated') = {}
  PROVE  Near(t)
<1>1. FreshBuckets'
  <2>1. (DInv /\ Unmigrated(is_migrated) = {} => FreshBuckets)'
    BY AllFresh, PTL
  <2>2. Unmigrated(is_migrated)' = Unmigrated(is_migrated')
    BY DEF Unmigrated
  <2>. QED BY <2>1, <2>2
<1>2. Held(t, 1) = LockIds
  BY AllLocks
<1>. QED
  BY <1>1, <1>2 DEF Near

LEMMA AllMarked ==
  ASSUME NEW flags, flags = Marked(LockIds, TRUE)
  PROVE  Unmigrated(flags) = {}
  BY DEF Unmigrated, Marked

(* AllMigrated has all elements.                                           *)
LEMMA AllMigratedContent ==
  ASSUME DInv, FreshBuckets, NEW t \in Threads, pc[t] \in WithAll, pc[t] # "install"
  PROVE  Contents(AllMigrated) = Elements
<1>. DEFINE todo == {l \in LockIds : ~ is_migrated[l]}
            flags2 == [l \in DOMAIN is_migrated |-> is_migrated[l] \/ l \in LockIds]
            n2 == num_remaining - Cardinality(todo)
            rest2 == IF todo # {} /\ n2 = 0 THEN NoOld ELSE old
            new == AllMigrated
<1>1. /\ TableOK(buckets, hashpower, old, old_hashpower, is_migrated, num_remaining)
      /\ DOMAIN is_migrated = LockIds /\ ~ Swapped
  BY AllLocks
<1>2. new = move_buckets(old, old_hashpower, buckets, UNION {BucketsOf(old, l) : l \in todo})
  BY <1>1 DEF AllMigrated
<1>3. \A j \in DOMAIN buckets, s \in Slots : ~ is_migrated[lock_ind(j)] => buckets[j][s] = Vacant
  BY DEF FreshBuckets
<1>4. LockIds \in SUBSET LockIds /\ todo = {l \in LockIds : ~ is_migrated[l]}
      /\ flags2 = [l \in DOMAIN is_migrated |-> is_migrated[l] \/ l \in LockIds]
      /\ n2 = num_remaining - Cardinality(todo)
      /\ rest2 = IF todo # {} /\ n2 = 0 THEN NoOld ELSE old
  OBVIOUS
<1>5. Unmigrated(flags2) = {}
  BY <1>1 DEF Unmigrated
<1>. HIDE DEF todo, flags2, n2, rest2, new
<1>6. TableOK(new, hashpower, rest2, old_hashpower, flags2, n2)
  BY ONLY <1>1, <1>2, <1>4, MigratedTable
<1>7. Content(new, rest2, Live(rest2, flags2)) = Content(buckets, old, Live(old, is_migrated))
  BY ONLY <1>1, <1>2, <1>3, <1>4, MigratedContent
<1>8. rest2 = NoOld
  BY <1>5, <1>6, RehashedTable
<1>9. Live(rest2, flags2) = {}
  BY <1>8, NothingLive
<1>10. Elements = Content(buckets, old, Live(old, is_migrated))
  BY <1>1, ElementsOf
<1>. QED
  BY <1>7, <1>8, <1>9, <1>10 DEF Contents, new

(* The elements of a table that is not being rehashed any more.            *)
LEMMA FreshElements ==
  ASSUME DInv', ~ Swapped', old' = NoOld
  PROVE  Elements' = Contents(buckets')
<1>1. (DInv /\ ~ Swapped /\ old = NoOld => Elements = Contents(buckets))'
  BY ElementsOf, PTL
<1>. QED
  BY <1>1

LEMMA SameCounts ==
  ASSUME Elements' = Elements, elem_counter' = elem_counter
  PROVE  CountsOK => CountsOK'
<1>1. Sum(elem_counter)' = Sum(elem_counter)
  BY DEF Sum
<1>. QED
  BY <1>1 DEF CountsOK

LEMMA AllMigratedSilent ==
  ASSUME DInv, FreshBuckets, DInv', NEW t \in Threads, Double(t) \/ TakeTable(t)
  PROVE  Silent(t)
<1>1. /\ pc[t] \in {"double", "take_table"} /\ pc[t] \in WithAll /\ pc[t] # "install"
      /\ buckets' = AllMigrated /\ old' = NoOld
  BY DEF Double, TakeTable, WithAll
<1>2. elem_counter' = elem_counter /\ is_migrated' = Marked(LockIds, TRUE)
  <2>1. DOMAIN is_migrated = LockIds /\ DOMAIN elem_counter = LockIds
    BY <1>1, AllLocks
  <2>2. CASE Double(t)
    <3>1. ResizedCounters(hashpower + 1) = elem_counter
      BY NoNewLocks DEF ResizedCounters, DInv
    <3>. QED BY <2>1, <2>2, <3>1 DEF Double
  <2>3. CASE TakeTable(t)
    BY <2>1, <2>3 DEF TakeTable
  <2>. QED BY <2>2, <2>3
<1>3. ~ Swapped'
  <2>1. Stepping(t)
    BY DEF Stepping, Proceed, Resize
  <2>2. OnlyAt(t, pc, pc') /\ (pc'[t] = "install" => Swap(t))
    BY <2>1, Labels DEF Stepping
  <2>3. pc'[t] # "install"
    BY <1>1, <2>2 DEF Swap
  <2>. QED BY <1>1, <2>2, <2>3, SameSwapped, AllLocks
<1>4. Elements' = Elements
  BY <1>1, <1>3, FreshElements, AllMigratedContent
<1>5. Near(t)
  BY <1>1, <1>2, AllMarked, AllNear
<1>. QED
  BY <1>2, <1>4, <1>5, SameCounts DEF Silent


(* The swap leaves the elements in the old container alone, the new        *)
(* container takes them over or is put in front of them.                   *)
LEMMA SwapSilent ==
  ASSUME DInv, DInv', NEW t \in Threads, Swap(t)
  PROVE  Silent(t)
<1>1. /\ pc[t] = "swap" /\ pc[t] \in WithAll /\ pc[t] # "install"
      /\ old' = buckets /\ elem_counter' = elem_counter /\ is_migrated' = is_migrated
  BY DEF Swap, WithAll, lockVars
<1>2. Swapped'
  <2>1. pc'[t] = "install"
    BY Going DEF DInv, Swap
  <2>. QED BY <2>1 DEF Swapped
<1>3. Unmigrated(is_migrated) = {} /\ ~ Swapped
      /\ TableOK(buckets, hashpower, old, old_hashpower, is_migrated, num_remaining)
  BY <1>1, AllLocks, OfThread DEF Rehashed
<1>4. old = NoOld
  BY <1>3, RehashedTable
<1>5. Elements = Contents(buckets)
  BY <1>3, <1>4, ElementsOf
<1>6. Elements' = Contents(old')
  <2>1. (DInv /\ Swapped => Elements = Contents(old))'
    BY ElementsOf, PTL
  <2>. QED BY <1>2, <2>1
<1>7. Elements' = Elements
  BY <1>1, <1>5, <1>6
<1>8. Near(t)
  BY <1>1, <1>3, AllNear
<1>. QED
  BY <1>1, <1>7, <1>8, SameCounts DEF Silent

LEMMA InstallSilent ==
  ASSUME DInv, DInv', NEW t \in Threads, Install(t)
  PROVE  Silent(t)
<1>1. /\ pc[t] = "install" /\ pc[t] \in WithAll /\ elem_counter' = elem_counter /\ StartOver(t)
  BY DEF Install, WithAll
<1>2. /\ SwappedOK(buckets, hashpower, old, old_hashpower, is_migrated, num_remaining)
      /\ Swapped /\ Held(t, 1) = LockIds
      /\ \A u \in Threads \ {t} : pc[u] # "install"
  BY <1>1, AllLocks DEF Swapped
<1>3. /\ LoneTable(old_hashpower, old) /\ old_hashpower \in Nat /\ DOMAIN old = Buckets(old_hashpower)
      /\ is_migrated \in [LockIds -> BOOLEAN] /\ Unmigrated(is_migrated) = {}
  BY <1>2 DEF SwappedOK, LoneTable, GoodTable, Containers
<1>4. ~ Swapped'
  <2>1. OnlyAt(t, pc, pc') /\ pc'[t] = "snapshot"
    BY <1>1, StartedOverData
  <2>. QED BY <1>2, <2>1 DEF Swapped, OnlyAt
<1>5. Elements = Contents(old)
  BY <1>2, ElementsOf
<1>6. CASE hashsize(old_hashpower) < kMaxNumLocks
  <2>1. /\ buckets' = Doubled(table(old_hashpower, old)).data /\ old' = NoOld
        /\ is_migrated' = is_migrated
    BY <1>6 DEF Install
  <2>2. Contents(buckets') = Contents(old)
    BY <1>3, <2>1, DoubledGood
  <2>3. Elements' = Elements
    BY <1>4, <1>5, <2>1, <2>2, FreshElements
  <2>4. Near(t)
    BY <1>1, <1>3, <2>1, AllNear
  <2>. QED BY <1>1, <2>3, <2>4, SameCounts DEF Silent
<1>7. CASE ~ (hashsize(old_hashpower) < kMaxNumLocks)
  <2>1. /\ buckets' = bucket_container(old_hashpower + 1) /\ old' = old
        /\ is_migrated' = [l \in LockIds |-> FALSE]
    BY <1>3, <1>7 DEF Install, Marked
  <2>2. \A i \in DOMAIN buckets', s \in Slots : buckets'[i][s] = Vacant
    BY <2>1 DEF bucket_container, EmptyBucket
  <2>3. Contents(old) = Content(buckets', old, DOMAIN old)
    <3>. DEFINE empty == buckets'
    <3>1. \A i \in DOMAIN empty, s \in Slots : empty[i][s] = Vacant
      BY <2>2
    <3>. HIDE DEF empty
    <3>2. Content(old, NoOld, {}) = Content(empty, old, DOMAIN old)
      BY <3>1, ContentBehind
    <3>. QED BY <3>2 DEF empty, Contents
  <2>4. Live(old', is_migrated') = DOMAIN old
    <3>1. \A i \in DOMAIN old : i \in Nat
      BY <1>3, SizeSteps DEF Buckets
    <3>. QED BY <2>1, <3>1, LockIndex DEF Live
  <2>5. Elements' = Content(buckets', old', Live(old', is_migrated'))
    <3>1. (DInv /\ ~ Swapped => Elements = Content(buckets, old, Live(old, is_migrated)))'
      BY ElementsOf, PTL
    <3>. QED BY <1>4, <3>1
  <2>6. Elements' = Elements
    BY <1>5, <2>1, <2>3, <2>4, <2>5
  <2>7. Near(t)
    <3>1. FreshBuckets'
      BY <2>2 DEF FreshBuckets
    <3>. QED BY <1>2, <3>1 DEF Near
  <2>. QED BY <1>1, <2>6, <2>7, SameCounts DEF Silent
<1>. QED
  BY <1>6, <1>7

(* A table is emptied.                                                     *)
LEMMA EmptyContents ==
  ASSUME NEW data, \A i \in DOMAIN data, s \in Slots : data[i][s] = Vacant
  PROVE  Contents(data) = {}
<1>1. \A x \in Cells : Cell(data, NoOld, {}, x) = Vacant
  BY DEF Cells, Cell
<1>. QED
  BY <1>1 DEF Contents, Content

LEMMA EmptiedElements ==
  ASSUME DInv, DInv', NEW t \in Threads, pc[t] \in WithAll, pc[t] # "install", Emptied, ~ Swapped'
  PROVE  Elements' = {} /\ CountsOK' /\ Near(t) /\ Dict' = [k \in Keys |-> None]
<1>1. /\ buckets' = bucket_container(hashpower) /\ old' = NoOld
      /\ elem_counter' = Marked(LockIds, 0)
      /\ is_migrated' = Marked(LockIds, TRUE)
  BY AllLocks DEF Emptied
<1>2. Elements' = {}
  <2>1. \A i \in DOMAIN buckets', s \in Slots : buckets'[i][s] = Vacant
    BY <1>1 DEF bucket_container, EmptyBucket
  <2>. DEFINE empty == buckets'
  <2>2. Contents(empty) = {}
    <3>1. \A i \in DOMAIN empty, s \in Slots : empty[i][s] = Vacant
      BY <2>1
    <3>. HIDE DEF empty
    <3>. QED BY <3>1, EmptyContents
  <2>. QED BY <1>1, <2>2, FreshElements
<1>3. CountsOK'
  <2>. DEFINE m == kMaxNumLocks
  <2>1. m \in Nat /\ LockIds = 0 .. m - 1
    BY TableAssumption DEF LockIds
  <2>. HIDE DEF m
  <2>2. elem_counter' = [l \in 0 .. m - 1 |-> 0]
    BY <1>1, <2>1 DEF Marked
  <2>3. elem_counter' \in [0 .. m - 1 -> Int] /\ Sum(elem_counter') = 0
    BY <2>1, <2>2, SumZero
  <2>4. Sum(elem_counter)' = Sum(elem_counter')
    BY DEF Sum
  <2>5. Cardinality(Elements') = 0
    BY <1>2, FS_EmptySet
  <2>. QED BY <2>1, <2>3, <2>4, <2>5 DEF CountsOK
<1>4. Near(t)
  BY <1>1, AllMarked, AllNear
<1>5. Dict' = [k \in Keys |-> None]
  BY <1>2 DEF Dict
<1>. QED
  BY <1>2, <1>3, <1>4, <1>5

LEMMA ClearTakes ==
  ASSUME CInv, DInv', NEW t \in Threads, Clear(t)
  PROVE  Takes(t) /\ Near(t)
<1>1. /\ pc[t] = "clear" /\ pc[t] \in WithAll /\ pc[t] # "install" /\ Emptied
      /\ Return(t, "done") /\ DInv
  BY DEF Clear, WithAll, CInv
<1>2. ~ Swapped'
  <2>1. OnlyAt(t, pc, pc') /\ pc'[t] # "install"
    BY <1>1, EndedData
  <2>. QED BY <1>1, <2>1, AllLocks, SameSwapped
<1>3. Dict' = [k \in Keys |-> None] /\ CountsOK' /\ Near(t)
  BY <1>1, <1>2, EmptiedElements
<1>4. call[t].op = "clear"
  BY <1>1 DEF CInv, CallInv, CallFits
<1>5. ret' = [ret EXCEPT ![t] = "done"]
  BY <1>1 DEF Return
<1>. QED
  BY <1>3, <1>4, <1>5 DEF Takes, Map!Effect, Map!Returns


-----------------------------------------------------------------------------
(* Rebuilding the table *)

(* The new map has all elements, and its locks the counters.               *)
LEMMA RebuildSilent ==
  ASSUME DInv, DInv', FreshBuckets, NEW t \in Threads, pc[t] \in WithAll, pc[t] # "install",
         NEW hp \in Nat, NEW unlocked, unlocked \in {locks, Unlocked(t)}, NEW holder,
         Rebuild(hp, unlocked, holder), Swapped' = Swapped
  PROVE  Silent(t)
<1>1. elem_counter' = elem_counter
  <2>1. elem_counter' = ResizedCounters(Rebuilt(AllMigrated, hp).hp)
    BY DEF Rebuild
  <2>. QED BY <2>1, NoNewLocks DEF ResizedCounters, DInv
<1>2. is_migrated' = Marked(LockIds, TRUE)
  BY RebuildData
<1>3. Near(t)
  BY <1>2, AllMarked, AllNear
<1>4. Elements' = Elements
  <2>1. buckets' = Rebuilt(AllMigrated, hp).data /\ old' = NoOld
    BY DEF Rebuild
  <2>2. ~ Swapped'
    BY AllLocks
  <2>3. Elements' = Contents(buckets')
    BY <2>1, <2>2, FreshElements
  <2>4. LoneTable(hashpower, AllMigrated)
    BY AllMigratedLone
  <2>5. Contents(Rebuilt(AllMigrated, hp).data) = Contents(AllMigrated)
    <3>1. ~ RebuildRefused(AllMigrated, hp)
      BY DEF Rebuild
    <3>. QED BY <2>4, <3>1, RebuiltContent
  <2>6. Contents(AllMigrated) = Elements
    BY AllMigratedContent
  <2>. QED BY <2>1, <2>3, <2>5, <2>6
<1>. QED
  BY <1>1, <1>3, <1>4, SameCounts DEF Silent

LEMMA ExpandTakes ==
  ASSUME CInv, CountsOK, DInv', FreshBuckets, NEW t \in Threads, ExpandSimple(t)
  PROVE  Takes(t) /\ Near(t)
<1>1. /\ pc[t] = "expand" /\ pc[t] \in WithAll /\ pc[t] # "install" /\ pc[t] # "swap" /\ DInv
      /\ Stepping(t)
  BY DEF ExpandSimple, WithAll, CInv, Stepping, Proceed, Resize
<1>2. Return(t, "threw") \/ Return(t, "yes")
  BY DEF ExpandSimple
<1>3. Silent(t)
  <2>1. CASE WantedHashpower(call[t]) > MaxHashpower
    <3>1. Untouched
      BY <2>1 DEF ExpandSimple, Untouched
    <3>. QED BY <1>1, <3>1, QuietSilent
  <2>2. CASE ~ (WantedHashpower(call[t]) > MaxHashpower)
    <3>. DEFINE hp == WantedHashpower(call[t])
    <3>1. hp \in Nat
      BY <1>1, AllLocks, WantedNat
    <3>2. Rebuild(hp, Unlocked(t), NoThread)
      BY <2>2 DEF ExpandSimple
    <3>3. Swapped' = Swapped
      <4>1. OnlyAt(t, pc, pc') /\ (pc'[t] = "install" => Swap(t))
        BY <1>1, Labels DEF Stepping
      <4>2. pc'[t] # "install"
        BY <1>1, <4>1 DEF Swap
      <4>. QED BY <1>1, <4>1, <4>2, SameSwapped
    <3>. HIDE DEF hp
    <3>. QED BY <1>1, <3>1, <3>2, <3>3, RebuildSilent
  <2>. QED BY <2>1, <2>2
<1>4. call[t].op \in Resizing
  BY <1>1 DEF CInv, CallInv, CallFits
<1>5. ret' = [ret EXCEPT ![t] = "threw"] \/ ret' = [ret EXCEPT ![t] = "yes"]
  BY <1>2 DEF Return
<1>6. Dict' = Dict /\ CountsOK' /\ Near(t)
  BY <1>3, SameDict DEF Silent
<1>. QED
  BY <1>4, <1>5, <1>6
     DEF Takes, Map!Effect, Map!Returns, Resizing, Map!Resizing, Map!Inserting

-----------------------------------------------------------------------------
(* What the owner does to the elements *)

OwnerDoes(t) ==
  \E op \in Inserting \cup Resizing \cup {"find", "erase", "clear"}, k \in Keys, v \in Vals :
    Map!Effect(t, op, k, v)

(* An operation of the dictionary, or nothing that can be seen.            *)
Serves(t) ==
  /\ OwnerDoes(t) \/ (Dict' = Dict /\ ret' = ret)
  /\ CountsOK' /\ Near(t)

LEMMA OwnersElements ==
  ASSUME DInv, NEW t \in Threads, pc[t] = "table"
  PROVE  /\ Elements = Contents(buckets) /\ ~ Swapped
         /\ \A k \in Keys : Ready(k)
         /\ pc[t] \in WithAll /\ pc[t] # "install"
<1>1. /\ pc[t] \in WithAll /\ pc[t] # "install"
  BY DEF WithAll
<1>2. ~ Swapped
  BY <1>1, AllLocks
<1>3. Elements = Contents(buckets)
  BY <1>2, OwnersTable, ElementsOf
<1>4. ASSUME NEW k \in Keys PROVE Ready(k)
  <2>1. /\ FirstBucket(hashpower, k) \in Nat /\ SecondBucket(hashpower, k) \in Nat
    <3>1. hashpower \in Nat
      BY OwnersTable
    <3>2. FirstBucket(hashpower, k) \in Buckets(hashpower) /\ SecondBucket(hashpower, k) \in Buckets(hashpower)
      BY <3>1, KeyBuckets
    <3>. QED BY <3>1, <3>2, SizeSteps DEF Buckets
  <2>. QED BY <1>2, <2>1, OwnersTable, LockIndex DEF Ready, Marked
<1>. QED
  BY <1>1, <1>2, <1>3, <1>4

(* The calls that the owner makes, and that it remains the owner.          *)
LEMMA OwnersStep ==
  ASSUME DInv, DInv', NEW t \in Threads, Session(t)
  PROVE  /\ pc[t] = "table" /\ Swapped' = Swapped /\ ~ Swapped /\ ~ Swapped' /\ Near(t)
         /\ \A ops : \A c \in Asked(t, ops) :
              c \in Calls /\ c.key \in Keys /\ c.val \in Vals /\ c.op \in ops
<1>1. pc[t] = "table" /\ pc' = pc
  BY Zenon DEF Session, TableFind, TableInsert, TableErase, TableClear, TableResize, Begin,
               Forward, Back, EraseAt, Modifies, Moves
<1>2. Swapped' = Swapped /\ ~ Swapped
  BY <1>1, OwnersElements DEF Swapped
<1>3. Unmigrated(is_migrated') = {}
  <2>1. (DInv /\ pc[t] = "table" => is_migrated = Marked(LockIds, TRUE))'
    BY OwnersTable, PTL
  <2>2. pc'[t] = "table"
    BY <1>1
  <2>. QED BY <2>1, <2>2, AllMarked
<1>4. Near(t)
  BY <1>1, <1>3, OwnersElements, AllNear
<1>5. \A ops : \A c \in Asked(t, ops) :
        c \in Calls /\ c.key \in Keys /\ c.val \in Vals /\ c.op \in ops
  BY CallsAssumption DEF Asked, DInv, Planned
<1>. QED
  BY <1>1, <1>2, <1>4, <1>5

LEMMA LookServes ==
  ASSUME DInv, DInv', CountsOK, NEW t \in Threads, Session(t), UNCHANGED <<containers, lockVars>>
  PROVE  Dict' = Dict /\ CountsOK' /\ Near(t)
  BY LookSilent, SameDict DEF Silent

LEMMA MovesServes ==
  ASSUME DInv, DInv', CountsOK, NEW t \in Threads, Begin(t) \/ Forward(t) \/ Back(t)
  PROVE  Serves(t)
<1>1. Session(t) /\ UNCHANGED <<containers, lockVars>> /\ ret' = ret
  BY DEF Session, Begin, Forward, Back, Moves
<1>. QED
  BY <1>1, LookServes DEF Serves

LEMMA TableFindServes ==
  ASSUME DInv, DInv', CountsOK, NEW t \in Threads, TableFind(t)
  PROVE  Serves(t)
<1>1. PICK c \in Asked(t, {"find"}) :
        /\ Answer(t, IF cuckoo_find(buckets, hashpower, c.key) = {} THEN None
                     ELSE CHOOSE v \in Vals :
                            \E p \in cuckoo_find(buckets, hashpower, c.key) : v = At(buckets, p).val)
        /\ UNCHANGED <<containers, lockVars>>
  BY Zenon DEF TableFind
<1>2. Session(t)
  BY DEF Session
<1>3. pc[t] = "table" /\ c.key \in Keys /\ c.val \in Vals
  BY <1>2, OwnersStep
<1>. DEFINE k == c.key
            pos == cuckoo_find(buckets, hashpower, k)
            r == IF pos = {} THEN None
                 ELSE CHOOSE v \in Vals : \E p \in pos : v = At(buckets, p).val
<1>4. Ready(k)
  BY <1>3, OwnersElements
<1>5. r = Dict[k]
  <2>1. CASE pos = {}
    <3>1. Dict[k] = None
      BY <1>4, <2>1, LookUp
    <3>. QED BY <2>1, <3>1
  <2>2. CASE pos # {}
    <3>1. \A p \in pos : At(buckets, p).val = Dict[k] /\ Dict[k] \in Vals
      BY <1>4, LookUp
    <3>. HIDE DEF pos
    <3>2. \A v \in Vals : (\E p \in pos : v = At(buckets, p).val) <=> v = Dict[k]
      BY <2>2, <3>1
    <3>3. (CHOOSE v \in Vals : \E p \in pos : v = At(buckets, p).val) = Dict[k]
      BY <2>2, <3>1, <3>2
    <3>. QED BY <2>2, <3>3
  <2>. QED BY <2>1, <2>2
<1>6. ret' = [ret EXCEPT ![t] = r]
  BY <1>1 DEF Answer
<1>. HIDE DEF r
<1>7. Dict' = Dict /\ CountsOK' /\ Near(t)
  BY <1>1, <1>2, LookServes
<1>8. Map!Effect(t, "find", c.key, c.val)
  BY <1>5, <1>6, <1>7 DEF Map!Effect, Map!Returns
<1>. QED
  BY <1>3, <1>7, <1>8 DEF Serves, OwnerDoes

(* erase(key). *)
LEMMA TableEraseServes ==
  ASSUME DInv, DInv', CountsOK, NEW t \in Threads, TableErase(t)
  PROVE  Serves(t)
<1>1. PICK c \in Asked(t, {"erase"}) :
        \/ /\ cuckoo_find(buckets, hashpower, c.key) = {}
           /\ Answer(t, "no")
           /\ UNCHANGED <<containers, lockVars>>
        \/ \E p \in cuckoo_find(buckets, hashpower, c.key) :
             DelFromBucket(p) /\ Answer(t, "yes")
  BY Zenon DEF TableErase
<1>2. Session(t)
  BY DEF Session
<1>. DEFINE k == c.key
<1>3. /\ pc[t] = "table" /\ k \in Keys /\ c.val \in Vals /\ ~ Swapped /\ ~ Swapped'
      /\ Near(t) /\ Ready(k)
  BY <1>2, OwnersStep, OwnersElements
<1>. HIDE DEF k
<1>4. ASSUME Dict' = [Dict EXCEPT ![k] = None], CountsOK',
             IF Dict[k] # None THEN Answer(t, "yes") ELSE Answer(t, "no")
      PROVE  Serves(t)
  <2>1. Map!Effect(t, "erase", k, c.val)
    BY <1>4 DEF Map!Effect, Map!Returns, Map!IfPresent, Map!Present, Map!Bind, Answer
  <2>. QED BY <1>3, <1>4, <2>1 DEF Serves, OwnerDoes
<1>5. CASE /\ cuckoo_find(buckets, hashpower, k) = {}
           /\ Answer(t, "no")
           /\ UNCHANGED <<containers, lockVars>>
  <2>1. Dict[k] = None
    BY <1>3, <1>5, LookUp
  <2>2. Dict' = Dict /\ CountsOK'
    BY <1>2, <1>5, LookServes
  <2>3. Dict' = [Dict EXCEPT ![k] = None]
    <3>1. Dict = [j \in Keys |-> Dict[j]]
      BY DEF Dict
    <3>. QED BY <2>1, <2>2, <3>1
  <2>. QED BY <1>4, <1>5, <2>1, <2>2, <2>3
<1>6. ASSUME NEW p \in cuckoo_find(buckets, hashpower, k), DelFromBucket(p), Answer(t, "yes")
      PROVE  Serves(t)
  <2>1. Dict' = [Dict EXCEPT ![k] = None] /\ CountsOK' /\ Dict[k] # None
    BY <1>3, <1>6, EraseFound DEF DelFromBucket
  <2>. QED BY <1>4, <1>6, <2>1
<1>. QED
  BY <1>1, <1>5, <1>6 DEF k

(* erase(it). *)
LEMMA EraseAtServes ==
  ASSUME DInv, DInv', CountsOK, NEW t \in Threads, Walking(t), EraseAt(t)
  PROVE  Serves(t)
<1>1. /\ cursor(t).valid /\ cursor(t).pos # end_pos(buckets) /\ DelFromBucket(cursor(t).pos)
      /\ Answer(t, "yes") /\ Session(t)
  BY DEF EraseAt, Session
<1>2. pc[t] = "table" /\ ~ Swapped /\ ~ Swapped' /\ Near(t)
  BY <1>1, OwnersStep
<1>. DEFINE p == cursor(t).pos
            e == At(buckets, p)
<1>3. p \in Positions(buckets)
  BY <1>1 DEF Walking, WalkAt
<1>4. /\ p[1] \in Buckets(hashpower) /\ p[2] \in Slots /\ occupied(buckets[p[1]], p[2])
  <2>1. p \in (DOMAIN buckets) \X Slots /\ occupied(buckets[p[1]], p[2])
    BY <1>3 DEF Positions
  <2>2. DOMAIN buckets = Buckets(hashpower)
    BY <1>2, OwnersTable DEF LoneTable, GoodTable, Containers
  <2>. QED BY <2>1, <2>2
<1>5. e \in Elements
  BY <1>3 DEF Elements, LivePositions
<1>6. e.key \in Keys /\ e.val \in Vals /\ Dict[e.key] # None
  <2>1. Keyed(Elements) /\ None \notin Vals
    BY ElementsAre, MarksAssumption
  <2>2. e.key \in Keys /\ e.val \in Vals /\ DictOf(Elements)[e.key] = e.val
    BY <1>5, <2>1, DictIs
  <2>. QED BY <2>1, <2>2, DictOfElements
<1>7. buckets' = eraseKV(buckets, p[1], p[2]) /\ Counted(p, -1) /\ Kept
  BY <1>1 DEF DelFromBucket
<1>8. Binds(e.key, None)
  <2>. HIDE DEF p
  <2>. QED BY <1>2, <1>4, <1>7, EraseBinds
<1>. HIDE DEF e, p
<1>9. Dict' = [Dict EXCEPT ![e.key] = None] /\ CountsOK'
  BY <1>6, <1>8, BindsDict DEF Binds
<1>10. Map!Effect(t, "erase", e.key, e.val)
  BY <1>1, <1>6, <1>9
     DEF Map!Effect, Map!Returns, Map!IfPresent, Map!Present, Map!Bind, Answer
<1>. QED
  BY <1>2, <1>6, <1>9, <1>10 DEF Serves, OwnerDoes

LEMMA TableClearServes ==
  ASSUME DInv, DInv', CountsOK, NEW t \in Threads, TableClear(t)
  PROVE  Serves(t)
<1>1. Session(t) /\ Emptied /\ Answer(t, "done")
  BY DEF Session, TableClear
<1>2. /\ pc[t] \in WithAll /\ pc[t] # "install" /\ ~ Swapped'
  BY <1>1, OwnersStep, OwnersElements
<1>3. CountsOK' /\ Near(t) /\ Dict' = [k \in Keys |-> None]
  BY <1>1, <1>2, EmptiedElements
<1>4. PICK c \in Asked(t, {"clear"}) : c.key \in Keys /\ c.val \in Vals
  <2>1. Asked(t, {"clear"}) # {}
    BY DEF TableClear
  <2>. QED BY <1>1, <2>1, OwnersStep
<1>5. Map!Effect(t, "clear", c.key, c.val)
  BY <1>1, <1>3 DEF Map!Effect, Map!Returns, Answer
<1>. QED
  BY <1>3, <1>4, <1>5 DEF Serves, OwnerDoes

LEMMA TableResizeServes ==
  ASSUME DInv, DInv', CountsOK, FreshBuckets, NEW t \in Threads, TableResize(t)
  PROVE  Serves(t)
<1>1. PICK c \in Asked(t, Resizing) :
        \/ Answer(t, "threw") /\ UNCHANGED <<containers, lockVars>>
        \/ /\ WantedHashpower(c) <= MaxHashpower
           /\ Rebuild(WantedHashpower(c), locks, t) /\ ret' = ret
  BY Zenon DEF TableResize
<1>2. Session(t)
  BY DEF Session
<1>3. c \in Calls /\ c.key \in Keys /\ c.val \in Vals /\ c.op \in Resizing
      /\ pc[t] \in WithAll /\ pc[t] # "install" /\ pc[t] = "table"
  BY <1>2, OwnersStep, OwnersElements
<1>4. CASE Answer(t, "threw") /\ UNCHANGED <<containers, lockVars>>
  <2>1. Dict' = Dict /\ CountsOK' /\ Near(t)
    BY <1>2, <1>4, LookServes
  <2>2. Map!Effect(t, c.op, c.key, c.val)
    BY <1>3, <1>4, <2>1
       DEF Map!Effect, Map!Returns, Answer, Resizing, Map!Resizing, Map!Inserting
  <2>. QED BY <1>3, <2>1, <2>2 DEF Serves, OwnerDoes
<1>5. CASE /\ WantedHashpower(c) <= MaxHashpower
           /\ Rebuild(WantedHashpower(c), locks, t) /\ ret' = ret
  <2>1. WantedHashpower(c) \in Nat
    BY <1>3, WantedNat
  <2>2. Swapped' = Swapped
    BY <1>2, OwnersStep
  <2>3. Silent(t)
    <3>. DEFINE hp == WantedHashpower(c)
    <3>1. hp \in Nat /\ Rebuild(hp, locks, t)
      BY <1>5, <2>1
    <3>. HIDE DEF hp
    <3>. QED BY <1>3, <2>2, <3>1, RebuildSilent
  <2>. QED BY <1>5, <2>3, SameDict DEF Silent, Serves
<1>. QED
  BY <1>1, <1>4, <1>5

(* cuckoo_find returns at most one position.                               *)
LEMMA OnePosition ==
  \A data, hp, k : \A p, q \in cuckoo_find(data, hp, k) : p = q
  BY DEF cuckoo_find

(* Counting the one position.                                              *)
LEMMA CountsPosition ==
  ASSUME CountsOK, NEW hp \in Nat, NEW pos, NEW p \in pos, p[1] \in Buckets(hp),
         \A q \in pos : q = p,
         elem_counter' = [l \in DOMAIN elem_counter |->
                            elem_counter[l] + Cardinality({q \in pos : lock_ind(q[1]) = l})]
  PROVE  Counted(p, 1)
<1>. DEFINE m == lock_ind(p[1])
            Under(l) == {q \in pos : lock_ind(q[1]) = l}
<1>1. elem_counter \in [LockIds -> Int]
  BY DEF CountsOK
<1>2. ASSUME NEW l \in LockIds PROVE Cardinality(Under(l)) = IF l = m THEN 1 ELSE 0
  <2>1. CASE l = m
    <3>1. Under(l) = {p}
      BY <2>1, Zenon
    <3>. HIDE DEF Under
    <3>2. Cardinality({p}) = 1
      BY FS_Singleton
    <3>. QED BY <2>1, <3>1, <3>2
  <2>2. CASE l # m
    <3>1. Under(l) = {}
      BY <2>2, Zenon
    <3>. HIDE DEF Under
    <3>. QED BY <2>2, <3>1, FS_EmptySet
  <2>. QED BY <2>1, <2>2
<1>. DEFINE N(l) == Cardinality(Under(l))
<1>3. /\ elem_counter' = [l \in LockIds |-> elem_counter[l] + N(l)]
      /\ \A l \in LockIds : N(l) = IF l = m THEN 1 ELSE 0
  BY <1>1, <1>2
<1>. HIDE DEF N, m
<1>4. elem_counter' = [elem_counter EXCEPT ![m] = @ + 1]
  <2>. DEFINE c == elem_counter'
              d == [elem_counter EXCEPT ![m] = @ + 1]
  <2>1. c = [l \in LockIds |-> c[l]] /\ d = [l \in LockIds |-> d[l]]
    BY <1>1, <1>3
  <2>2. ASSUME NEW l \in LockIds PROVE c[l] = d[l]
    <3>1. c[l] = elem_counter[l] + N(l) /\ elem_counter[l] \in Int
      BY <1>1, <1>3
    <3>2. d[l] = IF l = m THEN elem_counter[l] + 1 ELSE elem_counter[l]
      BY <1>1
    <3>. HIDE DEF c, d
    <3>. QED BY <1>3, <3>1, <3>2
  <2>. HIDE DEF c, d
  <2>3. c = d
    BY <2>1, <2>2
  <2>. QED BY <2>3 DEF c, d
<1>. QED
  BY <1>4 DEF Counted, m

(* Where the owner finds a key.                                            *)
OwnersFind(t, k) ==
  /\ hashpower \in Nat
  /\ cuckoo_find(buckets, hashpower, k) = {} => \A e \in Elements : e.key # k
  /\ \A p \in cuckoo_find(buckets, hashpower, k) :
       /\ p[1] \in Buckets(hashpower) /\ At(buckets, p) \in Elements
       /\ At(buckets, p).key = k

OwnersSee == \A t \in Threads, k \in Keys : pc[t] = "table" => OwnersFind(t, k)

LEMMA OwnersLookUp == DInv => OwnersSee
<1>. SUFFICES ASSUME NEW t \in Threads, NEW k \in Keys, DInv, pc[t] = "table"
              PROVE  OwnersFind(t, k)
  BY DEF OwnersSee
<1>1. Ready(k) /\ hashpower \in Nat
  BY OwnersElements, OwnersTable
<1>. QED
  BY <1>1, LookUp DEF OwnersFind

(* insert.                                                                 *)
LEMMA TableInsertServes ==
  ASSUME DInv, DInv', CountsOK, NEW t \in Threads, TableInsert(t)
  PROVE  Serves(t)
<1>. DEFINE Kv(c) == [key |-> c.key, val |-> c.val]
            R(c) == InsertGrowing(Owned, Kv(c), MaxHashpower)
            Pos(c) == cuckoo_find(buckets', R(c).tbl.hp, c.key)
<1>1. PICK c \in Asked(t, {"insert"}) :
        \/ /\ cuckoo_find(buckets, hashpower, c.key) # {}
           /\ Answer(t, "no")
           /\ UNCHANGED <<containers, lockVars>>
        \/ /\ cuckoo_find(buckets, hashpower, c.key) = {}
           /\ Answer(t, IF R(c).thrown THEN "threw" ELSE "yes")
           /\ buckets' = R(c).tbl.data
           /\ hashpower' = R(c).tbl.hp
           /\ elem_counter' =
                [l \in DOMAIN ResizedCounters(R(c).tbl.hp) |->
                   ResizedCounters(R(c).tbl.hp)[l]
                     + Cardinality({p \in Pos(c) : lock_ind(p[1]) = l})]
           /\ old' = old
  BY Zenon DEF TableInsert
<1>. DEFINE k == c.key
            v == c.val
            kv == Kv(c)
            r == R(c)
            pos == Pos(c)
<1>2. Session(t)
  BY DEF Session
<1>3. /\ pc[t] = "table" /\ k \in Keys /\ v \in Vals /\ ~ Swapped /\ ~ Swapped'
      /\ Near(t) /\ Ready(k) /\ Elements = Contents(buckets)
  BY <1>2, OwnersStep, OwnersElements
<1>4. /\ None \notin Vals /\ Keyed(Elements) /\ IsFiniteSet(Elements)
  BY ElementsAre, MarksAssumption
<1>5. CASE /\ cuckoo_find(buckets, hashpower, k) # {}
           /\ Answer(t, "no")
           /\ UNCHANGED <<containers, lockVars>>
  <2>1. Dict[k] # None
    BY <1>3, <1>5, LookUp
  <2>2. Dict' = Dict /\ CountsOK'
    BY <1>2, <1>5, LookServes
  <2>3. Map!Effect(t, "insert", k, v)
    BY <1>5, <2>1, <2>2 DEF Map!Effect, Map!Returns, Map!IfAbsent, Map!Present, Answer
  <2>. QED BY <1>3, <2>2, <2>3 DEF Serves, OwnerDoes, Inserting
<1>6. CASE /\ cuckoo_find(buckets, hashpower, k) = {}
           /\ Answer(t, IF r.thrown THEN "threw" ELSE "yes")
           /\ buckets' = r.tbl.data
           /\ hashpower' = r.tbl.hp
           /\ elem_counter' =
                [l \in DOMAIN ResizedCounters(r.tbl.hp) |->
                   ResizedCounters(r.tbl.hp)[l]
                     + Cardinality({p \in pos : lock_ind(p[1]) = l})]
           /\ old' = old
  <2>1. kv \in KV /\ kv.key = k /\ kv = [key |-> k, val |-> v]
    BY <1>3 DEF KV
  <2>2. /\ LoneTable(hashpower, buckets) /\ GoodTable(hashpower, buckets) /\ old = NoOld
    BY <1>3, OwnersTable
  <2>3. LoneTab(Owned) /\ Owned.data = buckets /\ Owned.hp = hashpower
    BY <2>2 DEF Owned, table, LoneTab
  <2>4. (\A e \in Elements : e.key # k) /\ Dict[k] = None
    BY <1>3, <1>6, LookUp
  <2>5. /\ IF ~ r.thrown THEN Contents(r.tbl.data) = Elements \cup {kv}
           ELSE Absent(r.tbl.data, k) /\ Contents(r.tbl.data) = Elements
    <3>1. FALSE \in BOOLEAN /\ MaxHashpower \in Nat
      BY CallsAssumption
    <3>2. Absent(buckets, k)
      BY <1>3, <1>6, <2>2, FindFinds
    <3>. DEFINE tbl == Owned
    <3>. HIDE DEF tbl, kv
    <3>. DEFINE s == InsertGrowing(tbl, kv, MaxHashpower)
    <3>3. GrowingResult(s, kv, MaxHashpower, FALSE, tbl.hp, Contents(tbl.data)) /\ s.done
      BY <2>1, <2>3, <3>1, <3>2, InsertGrowingGood DEF tbl
    <3>4. r = s
      BY DEF tbl, kv
    <3>. HIDE DEF s, r
    <3>5. IF s.done /\ ~ s.thrown THEN Contents(s.tbl.data) = Contents(tbl.data) \cup {kv}
          ELSE Absent(s.tbl.data, kv.key) /\ Contents(s.tbl.data) = Contents(tbl.data)
      BY <3>3 DEF GrowingResult
    <3>6. Contents(tbl.data) = Elements /\ s.done
      BY <1>3, <2>3, <3>3 DEF tbl
    <3>. QED BY <2>1, <3>4, <3>5, <3>6
  <2>. HIDE DEF r, kv
  <2>6. Elements' = Contents(buckets')
    <3>1. old' = NoOld
      BY <1>6, <2>2
    <3>. QED BY <1>3, <3>1, FreshElements
  <2>7. ResizedCounters(r.tbl.hp) = elem_counter
    BY NoNewLocks DEF ResizedCounters, DInv
  <2>8. elem_counter' = [l \in DOMAIN elem_counter |->
                           elem_counter[l] + Cardinality({p \in pos : lock_ind(p[1]) = l})]
    BY <1>6, <2>7
  <2>9. /\ hashpower' \in Nat
        /\ pos = {} => \A e \in Elements' : e.key # k
        /\ \A p \in pos : /\ p[1] \in Buckets(hashpower') /\ At(buckets', p) \in Elements'
                          /\ At(buckets', p).key = k
    <3>1. OwnersSee'
      <4>1. (DInv => OwnersSee)'
        BY OwnersLookUp, PTL
      <4>. QED BY <4>1
    <3>2. pc'[t] = "table"
      BY <1>2, Zenon DEF TableInsert, Modifies
    <3>3. pos = cuckoo_find(buckets', hashpower', k)
      BY <1>6 DEF r
    <3>4. DInv' /\ t \in Threads /\ k \in Keys
      BY <1>3
    <3>. HIDE DEF pos, k
    <3>. QED BY <3>1, <3>2, <3>3, <3>4 DEF OwnersSee, OwnersFind
  <2>. HIDE DEF pos
  <2>11. CASE r.thrown
    <3>1. Elements' = Elements
      BY <1>6, <2>5, <2>6, <2>11
    <3>2. pos = {}
      BY <2>4, <2>9, <3>1
    <3>3. elem_counter' = elem_counter
      <4>1. \A l : {p \in pos : lock_ind(p[1]) = l} = {}
        BY <3>2
      <4>2. \A l : Cardinality({p \in pos : lock_ind(p[1]) = l}) = 0
        BY <4>1, FS_EmptySet
      <4>. DEFINE N(l) == Cardinality({p \in pos : lock_ind(p[1]) = l})
      <4>3. elem_counter' = [l \in DOMAIN elem_counter |-> elem_counter[l] + N(l)] /\ \A l : N(l) = 0
        BY <2>8, <4>2
      <4>. HIDE DEF N
      <4>. QED BY <4>3 DEF CountsOK
    <3>4. Dict' = Dict /\ CountsOK'
      BY <3>1, <3>3, SameDict, SameCounts
    <3>5. Map!Effect(t, "insert", k, v)
      BY <1>6, <2>11, <3>4
         DEF Map!Effect, Map!Returns, Answer, Map!Inserting, Map!Resizing
    <3>. QED BY <1>3, <3>4, <3>5 DEF Serves, OwnerDoes, Inserting
  <2>12. CASE ~ r.thrown
    <3>1. Elements' = Elements \cup {kv}
      BY <1>6, <2>5, <2>6, <2>12
    <3>2. Elements \cup {kv} = With(Elements, k, v)
      BY <1>3, <1>4, <2>1, <2>4, WithElement
    <3>3. Cardinality(Elements') = Cardinality(Elements) + 1
      <4>1. v # None /\ \A e \in Elements : e.key # k
        BY <1>3, <1>4, <2>4
      <4>. HIDE DEF k, v
      <4>2. Cardinality(With(Elements, k, v))
              = Cardinality(Elements) + (IF v = None THEN 0 ELSE 1)
        BY <1>4, <4>1, CountWith
      <4>. QED BY <3>1, <3>2, <4>1, <4>2
    <3>4. PICK p \in pos : TRUE
      BY <2>1, <2>9, <3>1
    <3>5. Counted(p, 1)
      <4>1. \A q \in pos : q = p
        BY OnePosition DEF pos
      <4>. QED BY <2>8, <2>9, <2>9, <4>1, CountsPosition
    <3>6. CountsOK'
      BY <2>9, <2>9, <3>3, <3>5, CountOne
    <3>7. Binds(k, v)
      BY <3>1, <3>2, <3>6 DEF Binds
    <3>8. Dict' = [Dict EXCEPT ![k] = v]
      <4>. HIDE DEF k, v
      <4>. QED BY <1>3, <3>7, BindsDict
    <3>9. Map!Effect(t, "insert", k, v)
      BY <1>6, <2>4, <2>12, <3>8
         DEF Map!Effect, Map!Returns, Map!IfAbsent, Map!Present, Map!Bind, Answer
    <3>. QED BY <1>3, <3>6, <3>9 DEF Serves, OwnerDoes, Inserting
  <2>. QED BY <2>11, <2>12
<1>. QED
  BY <1>1, <1>5, <1>6

LEMMA SessionServes ==
  ASSUME DInv, DInv', CountsOK, FreshBuckets, NEW t \in Threads, Walking(t), Session(t)
  PROVE  Serves(t)
  BY TableFindServes, TableInsertServes, TableEraseServes, TableClearServes,
     TableResizeServes, MovesServes, EraseAtServes DEF Session

-----------------------------------------------------------------------------
(* The inductive invariant of the elements *)

EInv ==
  /\ WInv /\ CInv /\ FreshBuckets
  /\ \A u \in Threads : LandFree(u)
  /\ CountsOK

(* The steps that the dictionary does not see.                             *)
Hidden(t) ==
  \/ Invoke(t) \/ TakeLocks(t) \/ RunCuckoo(t) \/ Search(t) \/ TableFull(t) \/ Path(t)
  \/ PathInvalid(t) \/ Move(t) \/ DoubleRefused(t) \/ Double(t) \/ Swap(t) \/ Install(t)
  \/ Rehash(t) \/ TakeTable(t) \/ Unlock(t)

(* The steps in which a call takes effect.                                 *)
Effective(t) ==
  \/ Find(t) \/ Update(t) \/ Erase(t) \/ InsertInPlace(t) \/ Land(t)
  \/ ExpandSimple(t) \/ Clear(t)

LEMMA StepIs ==
  \A t : Stepping(t) <=> Hidden(t) \/ Effective(t) \/ Session(t)
  BY DEF Stepping, Hidden, Effective, Proceed, Operate, Resize

LEMMA HiddenSilent ==
  ASSUME EInv, DInv', NEW t \in Threads, Hidden(t)
  PROVE  Silent(t)
<1>1. DInv /\ CInv /\ FreshBuckets
  BY DEF EInv, CInv
<1>2. CASE Move(t)
  BY <1>1, <1>2, MoveNear, MoveElements DEF Silent
<1>3. CASE \/ Invoke(t) \/ Snapshot(t) \/ GetLocks(t) \/ HashpowerChanged(t)
           \/ StartLockAll(t) \/ LockEach(t) \/ RunCuckoo(t) \/ TableFull(t)
           \/ PathInvalid(t) \/ DoubleRefused(t) \/ Rehash(t) \/ Unlock(t)
  BY <1>1, <1>3, QuietSteps
<1>4. CASE Lock(t)
  BY <1>1, <1>4, LockSilent
<1>5. CASE Search(t) \/ Path(t)
  BY <1>1, <1>5, ReadsSilent
<1>6. CASE Double(t) \/ TakeTable(t)
  BY <1>1, <1>6, AllMigratedSilent
<1>7. CASE Swap(t) \/ Install(t)
  BY <1>1, <1>7, SwapSilent, InstallSilent
<1>. QED
  BY <1>2, <1>3, <1>4, <1>5, <1>6, <1>7 DEF Hidden, TakeLocks

LEMMA EffectiveTakes ==
  ASSUME EInv, DInv', NEW t \in Threads, Effective(t)
  PROVE  Takes(t) /\ Near(t)
<1>1. DInv /\ CInv /\ CountsOK /\ LandFree(t)
  BY DEF EInv, CInv
<1>2. CASE Find(t) \/ Update(t) \/ Erase(t) \/ InsertInPlace(t) \/ Land(t)
  <2>1. Near(t)
    BY <1>1, <1>2, OperationNear
  <2>2. Takes(t)
    BY <1>1, <1>2, FindTakes, UpdateTakes, EraseTakes, InsertTakes
  <2>. QED BY <2>1, <2>2
<1>3. CASE ExpandSimple(t) \/ Clear(t)
  BY <1>1, <1>3, ExpandTakes, ClearTakes DEF EInv
<1>. QED
  BY <1>2, <1>3 DEF Effective

(* Every step, and where it leaves the counters.                           *)
LEMMA StepNear ==
  ASSUME EInv, DInv', NEW t \in Threads, Stepping(t)
  PROVE  CountsOK' /\ Near(t)
<1>1. DInv /\ CountsOK /\ Walking(t) /\ FreshBuckets
  BY DEF EInv, CInv, WInv
<1>2. CASE Hidden(t)
  BY <1>1, <1>2, HiddenSilent DEF Silent
<1>3. CASE Effective(t)
  BY <1>3, EffectiveTakes DEF Takes
<1>4. CASE Session(t)
  BY <1>1, <1>4, SessionServes DEF Serves
<1>. QED
  BY <1>2, <1>3, <1>4, StepIs

LEMMA StepEInv == EInv /\ [TableStep]_vars => EInv'
<1>. SUFFICES ASSUME EInv, [TableStep]_vars
              PROVE  EInv'
  OBVIOUS
<1>1. WInv' /\ DInv' /\ DInv /\ CInv /\ FreshBuckets /\ CountsOK
  BY StepWInv DEF EInv, WInv
<1>2. ASSUME NEW t \in Threads, Stepping(t) PROVE EInv'
  <2>1. CountsOK' /\ Near(t)
    BY <1>1, <1>2, StepNear
  <2>2. CInv'
    BY <1>1, <1>2, StepCInv DEF Stepping
  <2>3. FreshBuckets' /\ \A u \in Threads \ {t} : LandFree(u) => LandFree(u)'
    BY <1>1, <1>2, <2>1, StepData, NearKeeps DEF Stepping
  <2>4. LandFree(t)'
    <3>1. pc'[t] = "land" => Move(t)
      BY <1>1, <1>2, Labels DEF Stepping
    <3>2. CASE Move(t)
      BY <1>1, <3>2, MoveElements
    <3>3. CASE ~ Move(t)
      BY <3>1, <3>3 DEF LandFree
    <3>. QED BY <3>2, <3>3
  <2>. QED BY <1>1, <2>1, <2>2, <2>3, <2>4 DEF EInv
<1>3. CASE UNCHANGED vars
  <2>1. UNCHANGED <<buckets, hashpower, old, old_hashpower, locks, elem_counter, is_migrated,
                    num_remaining, pc, frame, call, ret, left>>
    BY <1>3 DEF vars, containers, lockVars, threadVars
  <2>2. FreshBuckets'
    BY <1>1, <2>1 DEF FreshBuckets
  <2>3. \A u \in Threads : LandFree(u)'
    BY <2>1 DEF EInv, LandFree
  <2>4. CountsOK'
    <3>1. Swapped' = Swapped
      BY <2>1 DEF Swapped
    <3>. QED BY <1>1, <2>1, <3>1, SameElements DEF containers
  <2>5. CInv'
    <3>1. \A u \in Threads : CallInv(u)'
      <4>1. \A u : Held(u, 1)' = Held(u, 1)
        BY <2>1 DEF Held
      <4>. QED BY <1>1, <2>1, <4>1 DEF CInv, CallInv
    <3>. QED BY <1>1, <3>1 DEF CInv
  <2>. QED BY <1>1, <2>2, <2>3, <2>4, <2>5 DEF EInv
<1>. QED
  BY <1>2, <1>3 DEF TableStep, Next, Stepping

LEMMA InitEInv == StartsWithAllLocks /\ Init => EInv
<1>. SUFFICES ASSUME StartsWithAllLocks, Init PROVE EInv
  OBVIOUS
<1>1. DInv /\ WInv
  BY InitDInv, InitWInv
<1>2. PICK start \in Starts :
        LET hp   == start.hashpower
            data == Filled(hp, start.elements).data
            ls   == 0 .. NumLocks(hp) - 1
        IN  /\ buckets = data /\ old = NoOld
            /\ elem_counter = [l \in ls |-> Cardinality({p \in Positions(data) :
                                                           lock_ind(p[1]) = l})]
            /\ is_migrated = Marked(ls, TRUE)
  BY Zenon DEF Init
<1>. DEFINE m == kMaxNumLocks
<1>3. m \in Nat /\ LockIds = 0 .. m - 1 /\ NumLocks(start.hashpower) = m
  BY TableAssumption DEF LockIds, StartsWithAllLocks
<1>. HIDE DEF m
<1>4. /\ old = NoOld /\ is_migrated = Marked(LockIds, TRUE)
      /\ elem_counter = [l \in 0 .. m - 1 |-> Cardinality({p \in Positions(buckets) :
                                                            lock_ind(p[1]) = l})]
  BY <1>2, <1>3
<1>5. \A u \in Threads : pc[u] = "idle" /\ frame[u] = EmptyFrame /\ call[u] = NoCall
  BY DEF Init
<1>6. CInv
  <2>1. ASSUME NEW u \in Threads PROVE CallInv(u)
    BY <1>5 DEF CallInv, CallFits, PathLocked
  <2>. QED BY <1>1, <2>1 DEF CInv
<1>7. FreshBuckets
  BY <1>1, <1>4, AllMarked, AllFresh
<1>8. \A u \in Threads : LandFree(u)
  BY <1>5 DEF LandFree
<1>9. CountsOK
  <2>. DEFINE P == Positions(buckets)
  <2>1. LivePositions(buckets, FALSE) = P
    BY DEF LivePositions
  <2>2. LivePositions(old, TRUE) = {}
    BY <1>4 DEF LivePositions, Positions, NoOld
  <2>3. IsFiniteSet(P) /\ \A p \in P : lock_ind(p[1]) \in 0 .. m - 1
    <3>1. IsFiniteSet(P) /\ \A p \in P : p[1] \in Nat
      <4>1. /\ \A p \in LivePositions(buckets, FALSE) : p[1] \in Nat
            /\ IsFiniteSet(LivePositions(buckets, FALSE))
        BY <1>1, PositionsAre
      <4>. QED BY <2>1, <4>1
    <3>. HIDE DEF P
    <3>. QED BY <1>3, <3>1, LockIndex
  <2>4. Cardinality(Elements) = Cardinality(P)
    <3>1. Cardinality(P) \in Nat /\ Cardinality(LivePositions(old, TRUE)) = 0
      BY <2>2, <2>3, FS_CardinalityType, FS_EmptySet
    <3>2. Count = Cardinality(P)
      <4>. DEFINE L == LivePositions(buckets, FALSE)
                  R == LivePositions(old, TRUE)
      <4>1. Count = Cardinality(L) + Cardinality(R)
        BY Zenon DEF Count
      <4>2. L = P /\ Cardinality(R) = 0
        BY <2>1, <3>1
      <4>. HIDE DEF L, R, P
      <4>. QED BY <3>1, <4>1, <4>2
    <3>. QED BY <1>1, <3>2, ElementsAre
  <2>. HIDE DEF P
  <2>5. elem_counter = [l \in 0 .. m - 1 |-> Cardinality({p \in P : lock_ind(p[1]) = l})]
    BY <1>4 DEF P
  <2>6. elem_counter \in [0 .. m - 1 -> Int] /\ Sum(elem_counter) = Cardinality(P)
    BY <1>3, <2>3, <2>5, SumCount
  <2>. QED BY <1>3, <2>4, <2>6 DEF CountsOK
<1>. QED
  BY <1>1, <1>6, <1>7, <1>8, <1>9 DEF EInv

LEMMA EInvCounts == EInv => CountersAddUp
<1>. SUFFICES ASSUME EInv PROVE CountersAddUp
  OBVIOUS
<1>1. DInv /\ CountsOK
  BY DEF EInv, CInv
<1>. QED
  BY <1>1, ElementsAre DEF CountsOK, CountersAddUp

-----------------------------------------------------------------------------
(* The owner of the dictionary *)

(* Whoever holds a lock keeps all others from owning the table.            *)
LEMMA HolderAlone ==
  ASSUME DInv, NEW t \in Threads, Held(t, 1) # {}, NEW u \in Threads \ {t}
  PROVE  pc[u] # "table"
<1>1. SUFFICES ASSUME pc[u] = "table" PROVE FALSE
  OBVIOUS
<1>2. Held(u, 1) = LockIds /\ OneContainer /\ LockIds # {}
  BY <1>1, OfThread, LocksFinite DEF ThreadInv, HoldsEverything
<1>. QED
  BY <1>2, OneHolder, OfThread

LEMMA OwnersHold ==
  ASSUME DInv, NEW t \in Threads,
         pc[t] \in {"body", "land", "double", "expand", "clear", "take_table", "table"}
  PROVE  Held(t, 1) # {}
  BY OfThread, LocksFinite DEF ThreadInv, HoldsEverything, HoldsOwn

OwnerIsKnown ==
  /\ \A t \in Threads : pc[t] = "table" => Owner = t
  /\ (\A t \in Threads : pc[t] # "table") => Owner = NoThread

LEMMA OwnerKnown == DInv => OwnerIsKnown
<1>. SUFFICES ASSUME DInv PROVE OwnerIsKnown
  OBVIOUS
<1>1. ASSUME NEW t \in Threads, pc[t] = "table" PROVE Owner = t
  <2>1. \A u \in Threads : pc[u] = "table" => u = t
    BY <1>1, OwnersHold, HolderAlone
  <2>. QED BY <1>1, <2>1 DEF Owner
<1>. QED
  BY <1>1 DEF OwnerIsKnown, Owner

(* In the new state.                                                       *)
LEMMA OwnerThen ==
  ASSUME DInv'
  PROVE  /\ \A t \in Threads : pc'[t] = "table" => Owner' = t
         /\ (\A t \in Threads : pc'[t] # "table") => Owner' = NoThread
<1>1. (DInv => OwnerIsKnown)'
  BY OwnerKnown, PTL
<1>. QED
  BY <1>1 DEF OwnerIsKnown

LEMMA SameOwner ==
  ASSUME DInv, DInv', NEW t \in Threads, OnlyAt(t, pc, pc'),
         pc'[t] = "table" <=> pc[t] = "table"
  PROVE  Owner' = Owner
<1>1. \A u \in Threads : pc'[u] = "table" <=> pc[u] = "table"
  BY DEF OnlyAt
<1>2. CASE \E u \in Threads : pc[u] = "table"
  BY <1>1, <1>2, OwnerKnown, OwnerThen DEF OwnerIsKnown
<1>3. CASE \A u \in Threads : pc[u] # "table"
  BY <1>1, <1>3, OwnerKnown, OwnerThen DEF OwnerIsKnown
<1>. QED
  BY <1>2, <1>3

(* The owner only works on the table or gives it back.                     *)
LEMMA OwnersSteps ==
  ASSUME NEW t \in Threads, pc[t] = "table", Hidden(t) \/ Effective(t)
  PROVE  Unlock(t)
<1>1. ~ TakeLocks(t) /\ ~ Invoke(t)
  BY Zenon DEF TakeLocks, Invoke, Snapshot, GetLocks, HashpowerChanged, Lock, StartLockAll,
               LockEach
<1>2. ~ (RunCuckoo(t) \/ TableFull(t) \/ PathInvalid(t) \/ Move(t))
  BY Zenon DEF RunCuckoo, TableFull, PathInvalid, Move
<1>3. ~ (Search(t) \/ Path(t))
  BY Zenon DEF Search, Path
<1>4. ~ (DoubleRefused(t) \/ Double(t) \/ Swap(t) \/ Install(t) \/ Rehash(t) \/ TakeTable(t)
         \/ ExpandSimple(t) \/ Clear(t))
  BY Zenon DEF DoubleRefused, Double, Swap, Install, Rehash, TakeTable, ExpandSimple, Clear
<1>5. ~ (Find(t) \/ Update(t) \/ Erase(t) \/ InsertInPlace(t) \/ Land(t))
  BY Zenon DEF Find, Update, Erase, InsertInPlace, Land
<1>. QED
  BY <1>1, <1>2, <1>3, <1>4, <1>5 DEF Hidden, Effective

(* Who owns the table after a step.                                        *)
LEMMA StepOwner ==
  ASSUME DInv, DInv', NEW t \in Threads, Hidden(t) \/ Effective(t) \/ Session(t),
         ~ TakeTable(t), ~ Unlock(t)
  PROVE  Owner' = Owner
<1>1. Stepping(t)
  BY StepIs
<1>2. OnlyAt(t, pc, pc') /\ (pc'[t] = "table" => Session(t))
  BY <1>1, Labels DEF Stepping
<1>3. CASE Session(t)
  <2>1. pc[t] = "table" /\ pc' = pc
    BY <1>3, Zenon DEF Session, TableFind, TableInsert, TableErase, TableClear, TableResize,
                       Begin, Forward, Back, EraseAt, Modifies, Moves
  <2>. QED BY <1>2, <2>1, SameOwner
<1>4. CASE ~ Session(t)
  <2>1. pc'[t] # "table" /\ pc[t] # "table"
    BY <1>2, <1>4, OwnersSteps
  <2>. QED BY <1>2, <2>1, SameOwner
<1>. QED
  BY <1>3, <1>4

-----------------------------------------------------------------------------
(* The steps of the dictionary *)

(* A call in progress.                                                     *)
LEMMA InCall ==
  ASSUME DInv, NEW t \in Threads, pc[t] # "idle"
  PROVE  call[t] \in Calls /\ call[t] # NoCall
  BY OfThread, MarksAssumption DEF FrameOK

(* These steps leave call and answer alone.                                *)
LEMMA CallsStay ==
  ASSUME NEW t \in Threads, Hidden(t), ~ Invoke(t), ~ DoubleRefused(t), ~ Rehash(t), ~ Unlock(t)
  PROVE  call' = call /\ ret' = ret
<1>1. Continue => call' = call /\ ret' = ret
  BY DEF Continue
<1>2. StartOver(t) => Continue
  BY DEF StartOver
<1>3. CASE TakeLocks(t)
  <2>1. Continue
    BY <1>2, <1>3, Zenon
       DEF TakeLocks, Snapshot, GetLocks, HashpowerChanged, Lock, StartLockAll, LockEach
  <2>. QED BY <1>1, <2>1
<1>4. CASE Search(t) \/ Path(t)
  <2>1. (\E i : ExpandedMeanwhile(t, i)) \/ (\E i : ReadsOne(t, i))
    BY <1>4, Zenon DEF Search, Path
  <2>2. Continue
    BY <1>2, <2>1, Zenon DEF ExpandedMeanwhile, ReadsOne
  <2>. QED BY <1>1, <2>2
<1>5. CASE RunCuckoo(t) \/ TableFull(t) \/ PathInvalid(t) \/ Move(t)
  <2>1. Continue
    BY <1>5, Zenon DEF RunCuckoo, TableFull, PathInvalid, Move
  <2>. QED BY <1>1, <2>1
<1>6. CASE Double(t) \/ Swap(t) \/ Install(t) \/ TakeTable(t)
  <2>1. Continue
    BY <1>2, <1>6, Zenon DEF Double, Swap, Install, TakeTable
  <2>. QED BY <1>1, <2>1
<1>. QED
  BY <1>3, <1>4, <1>5, <1>6 DEF Hidden

LEMMA InvokeMaps ==
  ASSUME EInv, DInv', NEW t \in Threads, Invoke(t)
  PROVE  Map!Invoke(t)
<1>1. DInv /\ CallInv(t) /\ Hidden(t) /\ ~ TakeTable(t) /\ ~ Unlock(t) /\ pc[t] = "idle"
  BY DEF EInv, CInv, Hidden, Invoke, TakeTable, Unlock
<1>2. Dict' = Dict /\ Owner' = Owner /\ ret' = ret
  BY <1>1, HiddenSilent, SameDict, StepOwner DEF Silent, Invoke
<1>3. call[t] = NoCall
  BY <1>1 DEF CallInv, CallFits
<1>4. \E c \in Calls : call' = [call EXCEPT ![t] = c]
  <2>1. left[t].calls \subseteq Calls
    BY <1>1 DEF DInv, Planned
  <2>2. \E c \in left[t].calls : call' = [call EXCEPT ![t] = c]
    BY Zenon DEF Invoke
  <2>. QED BY <2>1, <2>2
<1>. QED
  BY <1>2, <1>3, <1>4 DEF Map!Invoke

(* A call that takes effect while nobody owns the table.                   *)
LEMMA EffectMaps ==
  ASSUME DInv, NEW t \in Threads, pc[t] # "idle", pc[t] # "table", Held(t, 1) # {},
         Owner' = Owner, NEW r, Return(t, r),
         Map!Effect(t, call[t].op, call[t].key, call[t].val)
  PROVE  Map!TakeEffect(t)
<1>1. \A u \in Threads : pc[u] # "table"
  BY HolderAlone
<1>2. Owner = NoThread
  BY <1>1, OwnerKnown DEF OwnerIsKnown
<1>3. call[t] # NoCall
  BY InCall
<1>4. call' = [call EXCEPT ![t] = NoCall]
  BY DEF Return
<1>. QED
  BY <1>2, <1>3, <1>4 DEF Map!TakeEffect

LEMMA EffectiveReturns ==
  ASSUME NEW t \in Threads, Effective(t)
  PROVE  \E r : Return(t, r)
<1>1. CASE Find(t) \/ Update(t) \/ Erase(t)
  BY <1>1, Zenon DEF Find, Update, Erase
<1>2. CASE InsertInPlace(t) \/ Land(t)
  BY <1>2, Zenon DEF InsertInPlace, Land, UpraseFound, AddToBucket
<1>3. CASE ExpandSimple(t) \/ Clear(t)
  BY <1>3, Zenon DEF ExpandSimple, Clear
<1>. QED
  BY <1>1, <1>2, <1>3 DEF Effective

LEMMA EffectiveMaps ==
  ASSUME EInv, DInv', NEW t \in Threads, Effective(t)
  PROVE  Map!TakeEffect(t)
<1>1. DInv
  BY DEF EInv, CInv
<1>2. pc[t] \in {"body", "land", "expand", "clear"}
  BY Zenon DEF Effective, Find, Update, Erase, InsertInPlace, Land, ExpandSimple, Clear
<1>3. PICK r : Return(t, r)
  BY EffectiveReturns
<1>4. Map!Effect(t, call[t].op, call[t].key, call[t].val)
  BY EffectiveTakes DEF Takes
<1>5. Owner' = Owner
  <2>1. ~ TakeTable(t) /\ ~ Unlock(t)
    BY <1>2 DEF TakeTable, Unlock
  <2>. QED BY <1>1, <2>1, StepOwner
<1>6. Held(t, 1) # {}
  BY <1>1, <1>2, OwnersHold
<1>. QED
  BY <1>1, <1>2, <1>3, <1>4, <1>5, <1>6, EffectMaps

(* A refused doubling: the insert throws, or starts over.                  *)
LEMMA RefusedMaps ==
  ASSUME EInv, DInv', NEW t \in Threads, DoubleRefused(t)
  PROVE  Map!TakeEffect(t) \/ UNCHANGED Map!kvVars
<1>1. /\ DInv /\ CallInv(t) /\ Hidden(t) /\ pc[t] = "double"
      /\ ~ TakeTable(t) /\ ~ Unlock(t)
  BY DEF EInv, CInv, Hidden, DoubleRefused, TakeTable, Unlock
<1>2. Dict' = Dict /\ Owner' = Owner
  BY <1>1, HiddenSilent, SameDict, StepOwner DEF Silent
<1>3. CASE Return(t, "threw")
  <2>1. call[t].op \in Inserting
    BY <1>1 DEF CallInv, CallFits
  <2>2. ret' = [ret EXCEPT ![t] = "threw"]
    BY <1>3 DEF Return
  <2>3. Map!Effect(t, call[t].op, call[t].key, call[t].val)
    BY <1>2, <2>1, <2>2 DEF Map!Effect, Map!Returns, Map!Inserting, Inserting
  <2>4. Held(t, 1) # {}
    BY <1>1, OwnersHold
  <2>5. pc[t] # "idle" /\ pc[t] # "table"
    BY <1>1
  <2>. QED BY <1>1, <1>2, <1>3, <2>3, <2>4, <2>5, EffectMaps
<1>4. CASE StartOver(t)
  <2>1. call' = call /\ ret' = ret
    BY <1>4 DEF StartOver, Continue
  <2>. QED BY <1>2, <2>1 DEF Map!kvVars
<1>. QED
  BY <1>3, <1>4 DEF DoubleRefused

(* A resize finds the hashpower that it wants, or goes on.                 *)
LEMMA RehashMaps ==
  ASSUME EInv, DInv', NEW t \in Threads, Rehash(t)
  PROVE  Map!FindNothingToDo(t) \/ UNCHANGED Map!kvVars
<1>1. /\ DInv /\ CallInv(t) /\ Hidden(t) /\ pc[t] = "rehash"
      /\ ~ TakeTable(t) /\ ~ Unlock(t)
  BY DEF EInv, CInv, Hidden, Rehash, TakeTable, Unlock
<1>2. Dict' = Dict /\ Owner' = Owner
  BY <1>1, HiddenSilent, SameDict, StepOwner DEF Silent
<1>3. CASE Return(t, "no")
  <2>1. call[t].op \in Map!Resizing
    BY <1>1 DEF CallInv, CallFits, Resizing, Map!Resizing
  <2>2. ret' = [ret EXCEPT ![t] = "no"] /\ call' = [call EXCEPT ![t] = NoCall]
    BY <1>3 DEF Return
  <2>3. call[t] # NoCall
    BY <1>1, InCall
  <2>. QED BY <1>2, <2>1, <2>2, <2>3 DEF Map!FindNothingToDo, Map!Returns
<1>4. CASE Continue
  BY <1>2, <1>4 DEF Continue, Map!kvVars
<1>. QED
  BY <1>3, <1>4 DEF Rehash

LEMMA TakeTableMaps ==
  ASSUME EInv, DInv', NEW t \in Threads, TakeTable(t)
  PROVE  Map!Own(t)
<1>1. DInv /\ CallInv(t) /\ Hidden(t) /\ pc[t] = "take_table" /\ Continue /\ Stepping(t)
  BY StepIs DEF EInv, CInv, Hidden, TakeTable
<1>2. Dict' = Dict /\ call' = call /\ ret' = ret
  BY <1>1, HiddenSilent, SameDict DEF Silent, Continue
<1>3. call[t].op = "lock_table" /\ call[t] # NoCall
  BY <1>1, InCall DEF CallInv, CallFits
<1>4. Owner = NoThread
  <2>1. \A u \in Threads : pc[u] # "table"
    BY <1>1, OwnersHold, HolderAlone
  <2>. QED BY <1>1, <2>1, OwnerKnown DEF OwnerIsKnown
<1>5. Owner' = t
  <2>1. pc'[t] = "table"
    BY <1>1, Going DEF TakeTable, DInv
  <2>. QED BY <2>1, OwnerThen
<1>. QED
  BY <1>2, <1>3, <1>4, <1>5 DEF Map!Own

LEMMA UnlockMaps ==
  ASSUME EInv, DInv', NEW t \in Threads, Unlock(t)
  PROVE  Map!Disown(t)
<1>1. DInv /\ Hidden(t) /\ pc[t] = "table" /\ Return(t, "done") /\ Stepping(t)
  BY StepIs DEF EInv, CInv, Hidden, Unlock
<1>2. Dict' = Dict
  BY <1>1, HiddenSilent, SameDict DEF Silent
<1>3. Owner = t
  BY <1>1, OwnerKnown DEF OwnerIsKnown
<1>4. Owner' = NoThread
  <2>1. OnlyAt(t, pc, pc') /\ pc'[t] = "idle"
    BY <1>1, Labels, Going DEF Stepping, Return, DInv
  <2>2. \A u \in Threads \ {t} : pc[u] # "table"
    BY <1>1, OwnersHold, HolderAlone
  <2>3. \A u \in Threads : pc'[u] # "table"
    BY <2>1, <2>2 DEF OnlyAt
  <2>. QED BY <2>3, OwnerThen
<1>. QED
  BY <1>1, <1>2, <1>3, <1>4 DEF Map!Disown, Map!Returns, Return

LEMMA SessionMaps ==
  ASSUME EInv, DInv', NEW t \in Threads, Session(t)
  PROVE  Map!OwnerOperation(t) \/ UNCHANGED Map!kvVars
<1>1. DInv /\ CountsOK /\ Walking(t) /\ FreshBuckets
  BY DEF EInv, CInv, WInv
<1>2. pc[t] = "table" /\ call' = call
  BY Zenon DEF Session, TableFind, TableInsert, TableErase, TableClear, TableResize, Begin,
               Forward, Back, EraseAt, Modifies, Moves
<1>3. Owner = t /\ Owner' = Owner
  <2>1. ~ TakeTable(t)
    BY <1>2 DEF TakeTable
  <2>2. ~ Unlock(t)
    <3>1. pc' = pc
      BY Zenon DEF Session, TableFind, TableInsert, TableErase, TableClear, TableResize, Begin,
                   Forward, Back, EraseAt, Modifies, Moves
    <3>2. Unlock(t) => pc'[t] = "idle"
      BY <1>1, Going DEF Unlock, Return, DInv
    <3>. QED BY <1>2, <3>1, <3>2
  <2>. QED BY <1>1, <1>2, <2>1, <2>2, OwnerKnown, StepOwner DEF OwnerIsKnown
<1>4. OwnerDoes(t) \/ (Dict' = Dict /\ ret' = ret)
  BY <1>1, SessionServes DEF Serves
<1>5. CASE OwnerDoes(t)
  BY <1>2, <1>3, <1>5
     DEF OwnerDoes, Map!OwnerOperation, Inserting, Resizing, Map!Inserting, Map!Resizing
<1>6. CASE Dict' = Dict /\ ret' = ret
  BY <1>2, <1>3, <1>6 DEF Map!kvVars
<1>. QED
  BY <1>4, <1>5, <1>6

LEMMA HiddenMaps ==
  ASSUME EInv, DInv', NEW t \in Threads, Hidden(t),
         ~ Invoke(t), ~ DoubleRefused(t), ~ Rehash(t), ~ Unlock(t), ~ TakeTable(t)
  PROVE  UNCHANGED Map!kvVars
<1>1. DInv
  BY DEF EInv, CInv
<1>2. Dict' = Dict /\ Owner' = Owner
  BY <1>1, HiddenSilent, SameDict, StepOwner DEF Silent
<1>. QED
  BY <1>2, CallsStay DEF Map!kvVars

(* Every step of the table is one of the dictionary, or none.              *)
LEMMA StepMaps ==
  EInv /\ EInv' /\ [TableStep]_vars => [Map!KVNext]_(Map!kvVars)
<1>. SUFFICES ASSUME EInv, EInv', [TableStep]_vars
              PROVE  [Map!KVNext]_(Map!kvVars)
  OBVIOUS
<1>1. DInv'
  BY DEF EInv, CInv
<1>2. ASSUME NEW t \in Threads, Stepping(t) PROVE [Map!KVNext]_(Map!kvVars)
  <2>1. CASE Session(t)
    BY <1>1, <2>1, SessionMaps DEF Map!KVNext
  <2>2. CASE Effective(t)
    BY <1>1, <2>2, EffectiveMaps DEF Map!KVNext
  <2>3. CASE Hidden(t)
    <3>1. CASE Invoke(t)
      BY <1>1, <3>1, InvokeMaps DEF Map!KVNext
    <3>2. CASE DoubleRefused(t)
      BY <1>1, <3>2, RefusedMaps DEF Map!KVNext
    <3>3. CASE Rehash(t)
      BY <1>1, <3>3, RehashMaps DEF Map!KVNext
    <3>4. CASE TakeTable(t)
      BY <1>1, <3>4, TakeTableMaps DEF Map!KVNext
    <3>5. CASE Unlock(t)
      BY <1>1, <3>5, UnlockMaps DEF Map!KVNext
    <3>6. CASE ~ (Invoke(t) \/ DoubleRefused(t) \/ Rehash(t) \/ TakeTable(t) \/ Unlock(t))
      BY <1>1, <2>3, <3>6, HiddenMaps
    <3>. QED BY <3>1, <3>2, <3>3, <3>4, <3>5, <3>6
  <2>. QED BY <1>2, <2>1, <2>2, <2>3, StepIs
<1>3. CASE UNCHANGED vars
  <2>1. /\ buckets' = buckets /\ old' = old /\ is_migrated' = is_migrated
        /\ pc' = pc /\ call' = call /\ ret' = ret
    BY <1>3 DEF vars, containers, lockVars, threadVars
  <2>2. Dict' = Dict
    BY <2>1 DEF Dict, Elements, LivePositions, Swapped
  <2>3. Owner' = Owner
    BY <2>1 DEF Owner
  <2>. QED BY <2>1, <2>2, <2>3 DEF Map!kvVars
<1>. QED
  BY <1>2, <1>3 DEF TableStep, Next, Stepping

LEMMA InitMaps == EInv /\ Init => Map!KVInit
<1>. SUFFICES ASSUME EInv, Init PROVE Map!KVInit
  OBVIOUS
<1>1. Dict \in [Keys -> Vals \cup {None}]
  <2>1. Keyed(Elements)
    BY ElementsAre DEF EInv, CInv
  <2>2. DictOf(Elements) \in [Keys -> Vals \cup {None}]
    BY <2>1, DictIs
  <2>. QED BY <2>2, DictOfElements
<1>2. /\ call = [t \in Threads |-> NoCall] /\ ret = [t \in Threads |-> None]
      /\ pc = [t \in Threads |-> "idle"]
  BY DEF Init
<1>3. Owner = NoThread
  BY <1>2 DEF Owner
<1>. QED
  BY <1>1, <1>2, <1>3 DEF Map!KVInit

-----------------------------------------------------------------------------
(* The counters, and the dictionary *)

(* size() is right whenever it is read with all locks: the counters of the *)
(* locks add up to the number of elements, although an element is counted  *)
(* under the lock under which it was inserted, and leaves it.              *)
THEOREM CountersCorrect ==
  StartsWithAllLocks => (TableSpec => []CountersAddUp)
<1>. SUFFICES ASSUME StartsWithAllLocks
              PROVE  TableSpec => []CountersAddUp
  OBVIOUS
<1>1. Init => EInv
  BY InitEInv
<1>. QED
  BY <1>1, TableSteps, StepEInv, EInvCounts, PTL DEF TableSpec, TableInit

(* Every call takes effect at one instant, as on a dictionary, and those   *)
(* of the owner of a locked table exclude all others: no element is lost,  *)
(* seen twice or seen with another value, however paths, expansions and    *)
(* lazy rehashes of several threads interleave.                            *)
THEOREM MapLinearizable ==
  StartsWithAllLocks => (TableSpec => Linearizable)
<1>. SUFFICES ASSUME StartsWithAllLocks
              PROVE  TableSpec => Linearizable
  OBVIOUS
<1>1. Init => EInv
  BY InitEInv
<1>. QED
  BY <1>1, TableSteps, StepEInv, InitMaps, StepMaps, PTL DEF TableSpec, TableInit, Linearizable, Map!KVSpec
=============================================================================
