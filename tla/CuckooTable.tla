----------------------------- MODULE CuckooTable -----------------------------
(***************************************************************************)
(* The data of libcuckoo::cuckoohash_map (src/libcuckoo), the hash table   *)
(* in which server.cpp keeps the keys, without its locks: the two buckets  *)
(* of a key, the bucket container, the search for a cuckoo path and the    *)
(* redistribution of the elements when the table grows or shrinks.  All    *)
(* definitions are functions of a container, so that the operations that   *)
(* interleave (Cuckoo) and the ones that own the whole table use the same. *)
(*                                                                         *)
(* A container is a function from bucket indexes to buckets, a bucket a    *)
(* function from slots to elements.  partials_[slot] is always the partial *)
(* key of the element in the slot and is not kept apart from it.           *)
(***************************************************************************)
EXTENDS Integers, Sequences, FiniteSetsExt

CONSTANTS
  Keys,
  Hash,               \* the hash value of every key
  Vacant,             \* the content of a slot that is not occupied
  SLOT_PER_BUCKET,
  kMaxNumLocks,
  MAX_BFS_PATH_LEN,
  SlotsPerElement     \* 1 / DEFAULT_MINIMUM_LOAD_FACTOR, 20 in the code

(* const_pow, a to the power b. *)
const_pow(a, b) ==
  LET pow[n \in Nat] == IF n = 0 THEN 1 ELSE a * pow[n - 1] IN pow[b]

hashsize(hp) == const_pow(2, hp)

(* The number of bits of a hash value that the model keeps: the code folds  *)
(* 64 bits into 8 in halves, 16 bits take the last of those three steps.    *)
HashBits == 16

(* kMaxNumLocks is a power of two, as every number of buckets. *)
ASSUME TableAssumption ==
  /\ Hash \in [Keys -> Nat]
  /\ SLOT_PER_BUCKET \in Nat \ {0}
  /\ kMaxNumLocks \in Nat \ {0}
  /\ \E n \in 0 .. HashBits : kMaxNumLocks = hashsize(n)
  /\ MAX_BFS_PATH_LEN \in Nat \ {0}
  /\ SlotsPerElement \in Nat \ {0}

Slots == 0 .. SLOT_PER_BUCKET - 1

-----------------------------------------------------------------------------
(* Hash values and bucket indexes *)

Buckets(hp) == 0 .. hashsize(hp) - 1

(* The exclusive or of the low n bits of two naturals. *)
BitXor(a, b, n) ==
  LET low[i \in Nat] ==
        [x \in Nat \X Nat |->
           IF i = 0 THEN 0
           ELSE ((x[1] + x[2]) % 2) + 2 * low[i - 1][<<x[1] \div 2, x[2] \div 2>>]]
  IN  low[n][<<a, b>>]

partial_key(hash) == BitXor(hash % 256, (hash % hashsize(HashBits)) \div 256, 8)

index_hash(hp, hash) == hash % hashsize(hp)

(* The multiplier of alt_index.  The product is masked to the hashpower, so *)
(* that its low bits decide: 16 of them do for every hashpower up to 16.    *)
MurmurLow == 59797

alt_index(hp, partial, index) ==
  BitXor(index, ((partial + 1) * MurmurLow) % hashsize(hp), hp)

(* The buckets in which a table of hashpower hp may hold a key. *)
FirstBucket(hp, key) == index_hash(hp, Hash[key])

SecondBucket(hp, key) ==
  alt_index(hp, partial_key(Hash[key]), FirstBucket(hp, key))

TwoBuckets(hp, key) == {FirstBucket(hp, key), SecondBucket(hp, key)}

(* Where an element found in bucket index goes when it is kicked out. *)
Alternate(hp, index, key) == alt_index(hp, partial_key(Hash[key]), index)

lock_ind(bucket_ind) == bucket_ind % kMaxNumLocks

(* The smallest hashpower with room for n elements. *)
reserve_calc(n) ==
  LET needed == (n + SLOT_PER_BUCKET - 1) \div SLOT_PER_BUCKET
  IN  CHOOSE hp \in 0 .. n : /\ hashsize(hp) >= needed
                             /\ \A q \in 0 .. hp - 1 : hashsize(q) < needed

-----------------------------------------------------------------------------
(* The bucket container *)

EmptyBucket == [s \in Slots |-> Vacant]

bucket_container(hp) == [i \in Buckets(hp) |-> EmptyBucket]

occupied(b, s) == b[s] # Vacant

setKV(data, i, s, kv) == [data EXCEPT ![i][s] = kv]

eraseKV(data, i, s) == [data EXCEPT ![i][s] = Vacant]

AssignVal(data, i, s, v) == [data EXCEPT ![i][s].val = v]

(* The slots of a bucket that hold a key, and all occupied positions. *)
SlotsOf(b, key) == {s \in Slots : occupied(b, s) /\ b[s].key = key}

Positions(data) ==
  {p \in (DOMAIN data) \X Slots : occupied(data[p[1]], p[2])}

At(data, p) == data[p[1]][p[2]]

(* cuckoo_find with try_read_from_bucket: the set of the one position at    *)
(* which the key is found, the first bucket and the lowest slot first.      *)
cuckoo_find(data, hp, key) ==
  LET i1 == FirstBucket(hp, key)
      i2 == SecondBucket(hp, key)
  IN  IF SlotsOf(data[i1], key) # {} THEN {<<i1, Min(SlotsOf(data[i1], key))>>}
      ELSE IF SlotsOf(data[i2], key) # {} THEN {<<i2, Min(SlotsOf(data[i2], key))>>}
      ELSE {}

(* The slot an insert takes: try_find_insert_bucket remembers the last free *)
(* slot, and cuckoo_insert prefers the first bucket.                        *)
FreeSlots(b) == {s \in Slots : ~ occupied(b, s)}

InsertPosition(data, hp, key) ==
  LET i1 == FirstBucket(hp, key)
      i2 == SecondBucket(hp, key)
  IN  IF FreeSlots(data[i1]) # {} THEN {<<i1, Max(FreeSlots(data[i1]))>>}
      ELSE IF FreeSlots(data[i2]) # {} THEN {<<i2, Max(FreeSlots(data[i2]))>>}
      ELSE {}

-----------------------------------------------------------------------------
(* The breadth-first search for a cuckoo path *)

(* A b_slot: the last bucket of a path, the slots of the path as digits in  *)
(* base SLOT_PER_BUCKET after the choice of the first bucket, its length.   *)
b_slot(bucket, pathcode, depth) ==
  [bucket |-> bucket, pathcode |-> pathcode, depth |-> depth]

StartQueue(i1, i2) == <<b_slot(i1, 0, 0), b_slot(i2, 1, 0)>>

(* One iteration of slot_search on the bucket of x: the slots are read from *)
(* the last digit of the path on; the first free one ends the search,       *)
(* otherwise every slot gives a path that is one longer.                    *)
Explore(hp, b, x) ==
  LET order == [n \in 1 .. SLOT_PER_BUCKET |->
                  (x.pathcode + n - 1) % SLOT_PER_BUCKET]
      free  == {n \in DOMAIN order : ~ occupied(b, order[n])}
      longer(s) == b_slot(Alternate(hp, x.bucket, b[s].key),
                          x.pathcode * SLOT_PER_BUCKET + s, x.depth + 1)
  IN  IF free # {}
      THEN [found |-> {[x EXCEPT !.pathcode =
                          @ * SLOT_PER_BUCKET + order[Min(free)]]},
            more  |-> <<>>]
      ELSE [found |-> {},
            more  |-> IF x.depth < MAX_BFS_PATH_LEN - 1
                      THEN [n \in DOMAIN order |-> longer(order[n])]
                      ELSE <<>>]

(* The digits of a pathcode: the slot at position i of the path, and which  *)
(* of the two buckets the path starts from.                                 *)
PathSlot(x, i) ==
  (x.pathcode \div const_pow(SLOT_PER_BUCKET, x.depth - i)) % SLOT_PER_BUCKET

PathStart(x) == x.pathcode \div const_pow(SLOT_PER_BUCKET, x.depth + 1)

MAX_CUCKOO_COUNT ==
  2 * (IF SLOT_PER_BUCKET = 1 THEN MAX_BFS_PATH_LEN
       ELSE (const_pow(SLOT_PER_BUCKET, MAX_BFS_PATH_LEN) - 1)
              \div (SLOT_PER_BUCKET - 1))

(* slot_search by a thread that owns the whole table, after n buckets. *)
slot_search(data, hp, i1, i2) ==
  LET search[n \in Nat] ==
        IF n = 0 THEN [found |-> {}, queue |-> StartQueue(i1, i2)]
        ELSE LET so_far == search[n - 1]
                 x == Head(so_far.queue)
                 e == Explore(hp, data[x.bucket], x)
             IN  IF so_far.found # {} \/ so_far.queue = <<>> THEN so_far
                 ELSE [found |-> e.found, queue |-> Tail(so_far.queue) \o e.more]
  IN  search[MAX_CUCKOO_COUNT].found

(* cuckoopath_search: the positions along the path of x, each in the bucket *)
(* to which the element at the one before it can move.  The path ends where *)
(* x does, or at the first slot that is free.                               *)
PathPositions(data, hp, x, i1, i2) ==
  LET path[i \in 0 .. x.depth] ==
        IF i = 0 THEN <<<<IF PathStart(x) = 0 THEN i1 ELSE i2, PathSlot(x, 0)>>>>
        ELSE LET so_far == path[i - 1]
                 prev   == so_far[Len(so_far)]
             IN  IF ~ occupied(data[prev[1]], prev[2]) THEN so_far
                 ELSE Append(so_far, <<Alternate(hp, prev[1], At(data, prev).key),
                                       PathSlot(x, i)>>)
  IN  path[x.depth]

(* cuckoopath_move: the elements are moved from the end of the path on, so  *)
(* that each finds its target free; the first slot is free afterwards.      *)
MoveKV(data, from, to) ==
  eraseKV(setKV(data, to[1], to[2], data[from[1]][from[2]]), from[1], from[2])

(* Its check before a move: the target is free, and what is moved has the   *)
(* hash value that the search saw.  When there is nothing to move, the slot *)
(* at which the path begins must be free.                                   *)
StillThere(data, from, to, hash) ==
  /\ ~ occupied(data[to[1]], to[2])
  /\ occupied(data[from[1]], from[2])
  /\ Hash[At(data, from).key] = hash

(* The container after the moves along a path, by the owner of the table.   *)
(* Nothing changes between its search and its moves, and a breadth-first    *)
(* search meets no slot twice, so that no check fails.                      *)
MovedAlong(data, path) ==
  LET moved[n \in 0 .. Len(path) - 1] ==
        IF n = 0 THEN {d \in {data} : Len(path) = 1 => ~ occupied(d[path[1][1]], path[1][2])}
        ELSE LET from == path[Len(path) - n]
                 to   == path[Len(path) - n + 1]
             IN  {MoveKV(d, from, to) :
                    d \in {e \in moved[n - 1] :
                             StillThere(e, from, to, Hash[At(data, from).key])}}
  IN  moved[Len(path) - 1]

-----------------------------------------------------------------------------
(* Growing and shrinking *)

(* How many of the moving slots come before slot q. *)
Rank(moving, q) == Cardinality({r \in moving : r < q})

\* Mutant of Leaves: only the elements in their first bucket move.
LeavesFirst(hp, index, key) ==
  index = FirstBucket(hp, key) /\ FirstBucket(hp + 1, key) = index + hashsize(hp)

(* In a table twice as large the element goes from bucket index of the old  *)
(* one to the bucket hashsize(hp) further.                                  *)
Leaves(hp, index, key) ==
  LET beyond == index + hashsize(hp)
  IN  \/ index = FirstBucket(hp, key)  /\ FirstBucket(hp + 1, key) = beyond
      \/ index = SecondBucket(hp, key) /\ SecondBucket(hp + 1, key) = beyond

(* move_bucket: what the bucket index of the old container holds goes, in a *)
(* container twice as large, to the same position, or to the first slots of *)
(* the bucket hashsize(hp) further when that is its bucket there.           *)
move_bucket(old, hp, data, index) ==
  LET b      == old[index]
      moving == {s \in Slots : occupied(b, s) /\ Leaves(hp, index, b[s].key)}
  IN  [data EXCEPT
        ![index] =
          [s \in Slots |-> IF occupied(b, s) /\ s \notin moving THEN b[s] ELSE @[s]],
        ![index + hashsize(hp)] =
          [s \in Slots |-> IF \E q \in moving : Rank(moving, q) = s
                           THEN b[CHOOSE q \in moving : Rank(moving, q) = s]
                           ELSE @[s]]]

(* The loop of rehash_lock: the buckets of the old container under a lock. *)
BucketsOf(old, l) == {i \in DOMAIN old : lock_ind(i) = l}

move_buckets(old, hp, data, indexes) ==
  [j \in DOMAIN data |->
     LET i == j % hashsize(hp)
     IN  IF i \in indexes THEN move_bucket(old, hp, data, i)[j] ELSE data[j]]

(* A whole table: hashpower and container. *)
table(hp, data) == [hp |-> hp, data |-> data]

Doubled(tbl) ==
  table(tbl.hp + 1, move_buckets(tbl.data, tbl.hp, bucket_container(tbl.hp + 1),
                                 DOMAIN tbl.data))

(* cuckoo_insert of a new element by a thread that owns the whole table: a  *)
(* free slot of its buckets, or one that a cuckoo path makes; no table when *)
(* there is neither.                                                        *)
PutAt(tbl, data, p, kv) == table(tbl.hp, setKV(data, p[1], p[2], kv))

Paths(tbl, key) ==
  LET i1 == FirstBucket(tbl.hp, key)
      i2 == SecondBucket(tbl.hp, key)
  IN  {PathPositions(tbl.data, tbl.hp, x, i1, i2) :
         x \in slot_search(tbl.data, tbl.hp, i1, i2)}

Placed(tbl, kv) ==
  LET pos == InsertPosition(tbl.data, tbl.hp, kv.key)
  IN  IF pos # {} THEN {PutAt(tbl, tbl.data, p, kv) : p \in pos}
      ELSE UNION {{PutAt(tbl, data, Head(path), kv) :
                     data \in MovedAlong(tbl.data, path)} :
                    path \in Paths(tbl, kv.key)}

(* The automatic expansion is refused beyond the maximum hashpower, and     *)
(* below the minimum load.                                                  *)
LoadTooLow(hp, size) == size * SlotsPerElement < hashsize(hp) * SLOT_PER_BUCKET


(* cuckoo_insert_loop by the owner of the table: it doubles until the       *)
(* element can be placed or the expansion is refused.  Indexes are exact    *)
(* up to hashpower HashBits.                                                *)
Attempt(tbl, kv, maxhp, size) ==
  LET placed == Placed(tbl, kv)
  IN  IF placed # {}
      THEN [tbl |-> CHOOSE t \in placed : TRUE, done |-> TRUE, thrown |-> FALSE]
      ELSE IF tbl.hp >= maxhp \/ LoadTooLow(tbl.hp, size)
      THEN [tbl |-> tbl, done |-> TRUE, thrown |-> TRUE]
      ELSE [tbl |-> Doubled(tbl), done |-> FALSE, thrown |-> FALSE]

InsertGrowing(tbl, kv, maxhp) ==
  LET size == Cardinality(Positions(tbl.data))
      result[n \in Nat] ==
        IF n = 0 THEN [tbl |-> tbl, done |-> FALSE, thrown |-> FALSE]
        ELSE LET so_far == result[n - 1]
             IN  IF so_far.done THEN so_far ELSE Attempt(so_far.tbl, kv, maxhp, size)
  IN  result[maxhp + 1]

(* insert, unless the key is there. *)
Inserted(tbl, kv, maxhp) ==
  IF cuckoo_find(tbl.data, tbl.hp, kv.key) # {}
  THEN [tbl |-> tbl, done |-> TRUE, thrown |-> FALSE]
  ELSE InsertGrowing(tbl, kv, maxhp)

(* The new_map of cuckoo_expand_simple has no maximum hashpower of its own  *)
(* and may have to be larger than the hashpower it is made for.  (Indexes   *)
(* are exact up to HashBits.)                                               *)
NewMapLimit(hp) == HashBits

(* The slots of a container in the order in which its elements are moved.   *)
Visited(n) == <<n \div SLOT_PER_BUCKET, n % SLOT_PER_BUCKET>>

Visits(data) == Cardinality(DOMAIN data) * SLOT_PER_BUCKET

(* new_map after n slots, and whether it has thrown: an element finds no    *)
(* place in it, and it is too empty to be doubled for the element.          *)
Filling(data, hp) ==
  LET new_map[n \in Nat] ==
        IF n = 0
        THEN [tbl |-> table(hp, bucket_container(hp)), done |-> TRUE, thrown |-> FALSE]
        ELSE LET so_far == new_map[n - 1]
                 kv     == At(data, Visited(n - 1))
             IN  IF so_far.thrown \/ Visited(n - 1) \notin Positions(data)
                 THEN so_far ELSE Inserted(so_far.tbl, kv, NewMapLimit(hp))
  IN  new_map

Rebuilt(data, hp) == Filling(data, hp)[Visits(data)].tbl

RebuildRefused(data, hp) == Filling(data, hp)[Visits(data)].thrown

-----------------------------------------------------------------------------
(* The iterators of a locked_table *)

Before(p, q) == p[1] < q[1] \/ (p[1] = q[1] /\ p[2] < q[2])

begin_pos == <<0, 0>>

end_pos(data) == <<Cardinality(DOMAIN data), 0>>

(* The first occupied position that is p or after it, or the end: where the *)
(* constructor leaves an iterator that is created at p, and operator++ one  *)
(* that is created just after p.                                            *)
Settle(data, p) ==
  LET after == {q \in Positions(data) : ~ Before(q, p)}
  IN  IF after = {} THEN end_pos(data)
      ELSE CHOOSE q \in after : \A r \in after : ~ Before(r, q)

\* Mutant of Succ: the rest of the bucket is skipped.
SuccBucket(data, p) == Settle(data, <<p[1] + 1, 0>>)

Succ(data, p) == Settle(data, <<p[1], p[2] + 1>>)

(* operator--, not defined at the first element. *)
Pred(data, p) ==
  LET before == {q \in Positions(data) : Before(q, p)}
  IN  CHOOSE q \in before : \A r \in before : ~ Before(q, r)
=============================================================================
