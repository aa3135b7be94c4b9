-------------------------------- MODULE Cuckoo --------------------------------
(***************************************************************************)
(* Threads that call the operations of one cuckoohash_map at the same time *)
(* (normal_mode in src/libcuckoo/cuckoohash_map.hh).  A call takes the     *)
(* locks of the two buckets of its key, which are striped over at most     *)
(* kMaxNumLocks locks; an insert that finds both buckets full gives the    *)
(* locks up, looks for a cuckoo path one bucket at a time, moves the       *)
(* elements along it and, when there is no path, takes every lock and      *)
(* doubles the table, whose elements are then moved lazily by whoever      *)
(* takes a lock.                                                           *)
(*                                                                         *)
(* Everything between taking the last lock and giving the locks up is one  *)
(* step; so is a critical section that takes a single lock and only reads. *)
(***************************************************************************)
EXTENDS CuckooTable, SequencesExt

CONSTANTS
  Threads,
  NoThread,
  Vals,
  None,
  NoCall,
  Calls,              \* the calls that the threads make
  MaxHashpower,       \* maximum_hashpower(), at most HashBits
  Starts              \* how the threads find the table, and what they do

(* A start has the hashpower the table is constructed with, the elements   *)
(* inserted before the threads start, and for every thread the calls it    *)
(* makes and (a bound) their number.                                       *)
ASSUME StartsAssumption ==
  \A s \in Starts :
    /\ s.hashpower \in 0 .. MaxHashpower
    /\ s.elements \in Seq([key : Keys, val : Vals])
    /\ s.plan \in [Threads -> [calls : SUBSET Calls, n : Nat]]

ASSUME NoThreadAssumption == NoThread \notin Threads

ASSUME CallsAssumption ==
  /\ MaxHashpower \in Nat
  /\ \A c \in Calls : c.key \in Keys /\ c.val \in Vals /\ c.n \in Nat

(* The model's marks for a key that is not in the map and for no call.     *)
ASSUME MarksAssumption == None \notin Vals /\ NoCall \notin Calls

ASSUME VacantAssumption == Vacant \notin [key : Keys, val : Vals]

VARIABLES
  buckets,            \* buckets_, and old_buckets_ below
  hashpower,
  old,
  old_hashpower,
  locks,              \* all_locks_: containers of locks, each lock its holder
  elem_counter,       \* of the locks of the last container
  is_migrated,
  num_remaining,      \* num_remaining_lazy_rehash_locks_
  pc,
  frame,              \* what a call keeps on its stack
  call,
  ret,
  left                \* the operations that a thread may still start

containers == <<buckets, hashpower, old, old_hashpower>>
lockVars == <<locks, elem_counter, is_migrated, num_remaining>>
threadVars == <<pc, frame, call, ret, left>>
vars == <<containers, lockVars, threadVars>>

-----------------------------------------------------------------------------
(* Helpers *)

Inserting == {"insert", "insert_or_assign", "uprase"}

Resizing == {"rehash", "reserve"}

(* The hashpower and the lock container that a call works with, the locks  *)
(* it has still to take, the queue of slot_search, the b_slot it returned, *)
(* the records of the cuckoo path and the position in it (depth -1 while   *)
(* no path is being moved along), the iterator of the owner of the table.  *)
NoTarget == b_slot(0, 0, -1)

(* An iterator is a position, and beside it the keys that its user has     *)
(* passed since begin().                                                   *)
NoCursor == [pos |-> begin_pos, passed |-> {}, valid |-> FALSE]

EmptyFrame == [hp |-> 0, cont |-> 0, want |-> {}, queue |-> <<>>,
               target |-> NoTarget, path |-> <<>>, depth |-> -1,
               cursor |-> NoCursor]

NumLocks(hp) == Min({kMaxNumLocks, hashsize(hp)})

(* old_buckets_ when no lock is left to rehash and nobody reads it: the    *)
(* container without memory (clear_and_deallocate), or the one of a single *)
(* bucket with which the constructor makes the table (cuckoohash_map.hh:   *)
(* 109).                                                                   *)
NoOld == <<>>


current == Len(locks)

Held(t, c) == {l \in DOMAIN locks[c] : locks[c][l] = t}

Unlocked(t) ==
  [c \in DOMAIN locks |->
     [l \in DOMAIN locks[c] |->
        IF locks[c][l] = t THEN NoThread ELSE locks[c][l]]]

LocksOf(indexes) == {lock_ind(i) : i \in indexes}

At1(t) == FirstBucket(frame[t].hp, call[t].key)
At2(t) == SecondBucket(frame[t].hp, call[t].key)

Goto(t, label) == pc' = [pc EXCEPT ![t] = label]

(* The call of t ends with the answer r. *)
Return(t, r) ==
  /\ Goto(t, "idle")
  /\ frame' = [frame EXCEPT ![t] = EmptyFrame]
  /\ call' = [call EXCEPT ![t] = NoCall]
  /\ ret' = [ret EXCEPT ![t] = r]
  /\ UNCHANGED left

Continue == UNCHANGED <<call, ret, left>>

(* snapshot_and_lock_two starts over, also after a failure_under_expansion. *)
StartOver(t) ==
  /\ Goto(t, "snapshot")
  /\ frame' = [frame EXCEPT ![t] = EmptyFrame]
  /\ Continue

\* Mutant of Migrate: the flags are set without moving the elements.
MigrateFlags(ls) ==
  LET n == num_remaining - Cardinality({l \in ls : ~ is_migrated[l]})
  IN  /\ is_migrated' = [l \in DOMAIN is_migrated |-> is_migrated[l] \/ l \in ls]
      /\ num_remaining' = n
      /\ old' = IF n = 0 THEN NoOld ELSE old
      /\ UNCHANGED <<buckets, hashpower, old_hashpower>>

(* rehash_lock<kIsLazy> on the locks ls of the current container: their    *)
(* buckets of old move to buckets; the last lock frees old.                *)
Migrate(ls) ==
  LET todo == {l \in ls : ~ is_migrated[l]}
      n    == num_remaining - Cardinality(todo)
  IN  /\ buckets' = move_buckets(old, old_hashpower, buckets,
                                 UNION {BucketsOf(old, l) : l \in todo})
      /\ is_migrated' = [l \in DOMAIN is_migrated |-> is_migrated[l] \/ l \in ls]
      /\ num_remaining' = n
      /\ old' = IF todo # {} /\ n = 0 THEN NoOld ELSE old
      /\ UNCHANGED <<hashpower, old_hashpower>>

(* The container once every lock is rehashed (rehash_with_workers). *)
AllMigrated ==
  move_buckets(old, old_hashpower, buckets,
               UNION {BucketsOf(old, l) :
                        l \in {m \in DOMAIN is_migrated : ~ is_migrated[m]}})

(* maybe_resize_locks, for a table of hashpower hp: a container of locks   *)
(* that copies the counters and is held by the given thread.               *)
MoreLocks(all, hp) ==
  LET size == Cardinality(DOMAIN all[Len(all)])
  IN  size < kMaxNumLocks /\ size < hashsize(hp)

ResizedLocks(all, hp, holder) ==
  IF MoreLocks(all, hp)
  THEN Append(all, [l \in 0 .. NumLocks(hp) - 1 |-> holder]) ELSE all

\* Mutant of ResizedCounters: the counters of the old container are kept.
ResizedCountersNot(hp) == elem_counter

ResizedCounters(hp) ==
  IF MoreLocks(locks, hp)
  THEN [l \in 0 .. NumLocks(hp) - 1 |->
          IF l \in DOMAIN elem_counter THEN elem_counter[l] ELSE 0]
  ELSE elem_counter

Marked(ls, b) == [l \in ls |-> b]

(* The loop of size() over the locks. *)
Sum(counters) ==
  LET n == Cardinality(DOMAIN counters)
      s[i \in 0 .. n] == IF i = 0 THEN 0 ELSE s[i - 1] + counters[i - 1]
  IN  s[n]

-----------------------------------------------------------------------------
(* Taking the locks of a call *)

(* A table of hashpower hp with those of the elements for which it has room. *)
Filled(hp, elements) ==
  LET filled[n \in 0 .. Len(elements)] ==
        IF n = 0 THEN table(hp, bucket_container(hp))
        ELSE Inserted(filled[n - 1], elements[n], hp).tbl
  IN  filled[Len(elements)]

Init ==
  \E start \in Starts :
    LET hp   == start.hashpower
        data == Filled(hp, start.elements).data
        ls   == 0 .. NumLocks(hp) - 1
    IN  /\ buckets = data
        /\ hashpower = hp
        /\ old = NoOld
        /\ old_hashpower = 0
        /\ locks = <<[l \in ls |-> NoThread]>>
        /\ elem_counter = [l \in ls |-> Cardinality({p \in Positions(data) :
                                                       lock_ind(p[1]) = l})]
        /\ is_migrated = Marked(ls, TRUE)
        /\ num_remaining = 0
        /\ pc = [t \in Threads |-> "idle"]
        /\ frame = [t \in Threads |-> EmptyFrame]
        /\ call = [t \in Threads |-> NoCall]
        /\ ret = [t \in Threads |-> None]
        /\ left = start.plan

Invoke(t) ==
  /\ pc[t] = "idle"
  /\ left[t].n > 0
  /\ left' = [left EXCEPT ![t].n = @ - 1]
  /\ \E c \in left[t].calls :
       /\ call' = [call EXCEPT ![t] = c]
       /\ Goto(t, CASE c.op \in {"clear", "lock_table"} -> "lock_all"
                    [] c.op \in Resizing -> "rehash"
                    [] OTHER -> "snapshot")
  /\ UNCHANGED <<containers, lockVars, frame, ret>>

(* snapshot_and_lock_two reads the hashpower, then lock_two the container. *)
Snapshot(t) ==
  /\ pc[t] = "snapshot"
  /\ frame' = [frame EXCEPT ![t].hp = hashpower,
                 ![t].want = LocksOf(TwoBuckets(hashpower, call[t].key))]
  /\ Goto(t, "get_locks")
  /\ Continue
  /\ UNCHANGED <<containers, lockVars>>

GetLocks(t) ==
  /\ pc[t] = "get_locks"
  /\ frame' = [frame EXCEPT ![t].cont = current]
  /\ Goto(t, "lock")
  /\ Continue
  /\ UNCHANGED <<containers, lockVars>>

(* The next of the locks that lock_all takes, in the order of a container, *)
(* and of those that lock_two and lock_three sort before they take them.   *)
Ascending(t, l) ==
  /\ l \in DOMAIN locks[frame[t].cont]
  /\ \A m \in frame[t].want : l <= m

\* Mutant of NextLock: the locks are taken from the highest on.
NextLockFalling(t, l) ==
  /\ l \in DOMAIN locks[frame[t].cont]
  /\ \A m \in frame[t].want : m <= l

NextLock(t, l) == Ascending(t, l)

LockFree(t, l) == locks[frame[t].cont][l] = NoThread

\* Mutant of FirstLock: check_hashpower is not called.
FirstLockUnchecked(t) == FALSE

FirstLock(t) == Held(t, frame[t].cont) = {}

(* check_hashpower fails after the first lock: lock_two and lock_three     *)
(* unlock and throw, and the call starts over from its snapshot.           *)
HashpowerChanged(t) ==
  /\ pc[t] = "lock"
  /\ \E l \in frame[t].want : NextLock(t, l) /\ LockFree(t, l)
  /\ FirstLock(t)
  /\ hashpower # frame[t].hp
  /\ StartOver(t)
  /\ UNCHANGED <<containers, lockVars>>

(* The next lock in ascending order; once it holds them all the thread     *)
(* rehashes what they guard and goes on.                                   *)
Lock(t) ==
  LET c == frame[t].cont
  IN  \E l \in frame[t].want :
        /\ pc[t] = "lock"
        /\ NextLock(t, l)
        /\ LockFree(t, l)
        /\ FirstLock(t) => hashpower = frame[t].hp
        /\ locks' = [locks EXCEPT ![c][l] = t]
        /\ frame' = [frame EXCEPT ![t].want = @ \ {l}]
        /\ IF frame[t].want # {l}
           THEN UNCHANGED <<containers, is_migrated, num_remaining, pc>>
           ELSE /\ Migrate(Held(t, c) \cup {l})
                /\ Goto(t, IF frame[t].depth = -1 THEN "body" ELSE "move")
        /\ Continue
        /\ UNCHANGED elem_counter

-----------------------------------------------------------------------------
(* The operations, with the two locks held *)

Stored(t, p) == At(buckets, p).val

Kept == UNCHANGED <<hashpower, old, old_hashpower, is_migrated, num_remaining>>

Counted(p, n) ==
  elem_counter' = [elem_counter EXCEPT ![lock_ind(p[1])] = @ + n]

(* find_fn, update_fn and erase_fn. *)
Find(t) ==
  LET pos == cuckoo_find(buckets, frame[t].hp, call[t].key)
  IN  /\ pc[t] = "body"
      /\ call[t].op = "find"
      /\ Return(t, IF pos = {} THEN None
                   ELSE CHOOSE v \in Vals : \E p \in pos : v = Stored(t, p))
      /\ locks' = Unlocked(t)
      /\ Kept
      /\ UNCHANGED <<buckets, elem_counter>>

Update(t) ==
  LET pos == cuckoo_find(buckets, frame[t].hp, call[t].key)
  IN  /\ pc[t] = "body"
      /\ call[t].op = "update"
      /\ IF pos = {}
         THEN Return(t, "no") /\ UNCHANGED buckets
         ELSE \E p \in pos :
                /\ Return(t, "yes")
                /\ buckets' = AssignVal(buckets, p[1], p[2], call[t].val)
      /\ locks' = Unlocked(t)
      /\ Kept
      /\ UNCHANGED elem_counter

Erase(t) ==
  LET pos == cuckoo_find(buckets, frame[t].hp, call[t].key)
  IN  /\ pc[t] = "body"
      /\ call[t].op = "erase"
      /\ IF pos = {}
         THEN Return(t, "no") /\ UNCHANGED <<buckets, elem_counter>>
         ELSE \E p \in pos :
                /\ Return(t, "yes")
                /\ buckets' = eraseKV(buckets, p[1], p[2])
                /\ Counted(p, -1)
      /\ locks' = Unlocked(t)
      /\ Kept

\* Mutant of UpraseFound: the erased element stays in the counter.
UpraseFoundUncounted(t, p) ==
  /\ \/ /\ call[t].op = "insert"
        /\ UNCHANGED buckets
     \/ /\ call[t].op = "insert_or_assign"
        /\ buckets' = AssignVal(buckets, p[1], p[2], call[t].val)
     \/ /\ call[t].op = "uprase"
        /\ buckets' = eraseKV(buckets, p[1], p[2])
  /\ UNCHANGED elem_counter
  /\ Return(t, "no")

(* uprase_fn with the position of a duplicate: insert leaves the value     *)
(* alone, insert_or_assign replaces it, and a function that returns true   *)
(* has the element erased.                                                 *)
UpraseFound(t, p) ==
  /\ \/ /\ call[t].op = "insert"
        /\ UNCHANGED <<buckets, elem_counter>>
     \/ /\ call[t].op = "insert_or_assign"
        /\ buckets' = AssignVal(buckets, p[1], p[2], call[t].val)
        /\ UNCHANGED elem_counter
     \/ /\ call[t].op = "uprase"
        /\ buckets' = eraseKV(buckets, p[1], p[2])
        /\ Counted(p, -1)
  /\ Return(t, "no")

(* add_to_bucket *)
AddToBucket(t, p) ==
  /\ buckets' = setKV(buckets, p[1], p[2],
                      [key |-> call[t].key, val |-> call[t].val])
  /\ Counted(p, 1)
  /\ Return(t, "yes")

(* cuckoo_insert when the key is found or one of its buckets has room. *)
InsertInPlace(t) ==
  LET dup  == cuckoo_find(buckets, frame[t].hp, call[t].key)
      free == InsertPosition(buckets, frame[t].hp, call[t].key)
  IN  /\ pc[t] = "body"
      /\ call[t].op \in Inserting
      /\ \/ \E p \in dup : UpraseFound(t, p)
         \/ /\ dup = {}
            /\ \E p \in free : AddToBucket(t, p)
      /\ locks' = Unlocked(t)
      /\ Kept

(* run_cuckoo begins: both buckets are full, and their locks are given up. *)
SearchFrame(t) ==
  [frame[t] EXCEPT !.queue = StartQueue(At1(t), At2(t)), !.want = {},
                   !.target = NoTarget, !.path = <<>>, !.depth = -1]

RunCuckoo(t) ==
  /\ pc[t] = "body"
  /\ call[t].op \in Inserting
  /\ cuckoo_find(buckets, frame[t].hp, call[t].key) = {}
  /\ InsertPosition(buckets, frame[t].hp, call[t].key) = {}
  /\ frame' = [frame EXCEPT ![t] = SearchFrame(t)]
  /\ Goto(t, "search")
  /\ Continue
  /\ locks' = Unlocked(t)
  /\ Kept
  /\ UNCHANGED <<buckets, elem_counter>>

-----------------------------------------------------------------------------
(* The cuckoo path: searched and moved along without the insert's locks *)

(* lock_one: the section reads one bucket and gives its lock back.  A      *)
(* changed hashpower ends run_cuckoo with failure_under_expansion.         *)
(* get_current_locks and the lock are one step here, unlike GetLocks and   *)
(* Lock: a table with kMaxNumLocks locks has one container for good, and   *)
(* in a smaller one a container gone stale in between is left out.         *)
LockOneFree(i) == locks[current][lock_ind(i)] = NoThread

ReadsOne(t, i) ==
  /\ LockOneFree(i)
  /\ hashpower = frame[t].hp
  /\ Migrate({lock_ind(i)})
  /\ Continue
  /\ UNCHANGED <<locks, elem_counter>>

ExpandedMeanwhile(t, i) ==
  /\ LockOneFree(i)
  /\ hashpower # frame[t].hp
  /\ StartOver(t)
  /\ UNCHANGED <<containers, lockVars>>

(* slot_search, one bucket of the queue. *)
Search(t) ==
  LET x == Head(frame[t].queue)
      e == Explore(frame[t].hp, buckets'[x.bucket], x)
  IN  /\ pc[t] = "search"
      /\ frame[t].queue # <<>>
      /\ \/ ExpandedMeanwhile(t, x.bucket)
         \/ /\ ReadsOne(t, x.bucket)
            /\ \/ /\ e.found = {}
                  /\ frame' = [frame EXCEPT ![t].queue = Tail(@) \o e.more]
                  /\ UNCHANGED pc
               \/ \E y \in e.found :
                    /\ frame' = [frame EXCEPT ![t].queue = <<>>, ![t].target = y]
                    /\ Goto(t, "path")

(* The queue is used up: failure_table_full. *)
TableFull(t) ==
  /\ pc[t] = "search"
  /\ frame[t].queue = <<>>
  /\ Goto(t, "lock_all")
  /\ Continue
  /\ UNCHANGED <<containers, lockVars, frame>>

(* The locks that cuckoopath_move takes for the element at position d - 1: *)
(* lock_three at the last move, and both buckets when nothing is to move.  *)
MoveLocks(t, path, d) ==
  LET to == path[d + 1].bucket
  IN  LocksOf(IF d = 0 THEN {At1(t), At2(t)}
              ELSE IF d = 1 THEN {At1(t), At2(t), to}
              ELSE {path[d].bucket, to})

MoveFrame(t, path, d) ==
  [frame[t] EXCEPT !.path = path, !.depth = d, !.want = MoveLocks(t, path, d)]

NoHash == -1            \* the record of a free slot has no hash value

(* cuckoopath_search, the record at one position: the path ends at a slot  *)
(* that is free by now, or where slot_search ended.                        *)
NextBucket(f, i1, i2) ==
  IF f.path = <<>> THEN IF PathStart(f.target) = 0 THEN i1 ELSE i2
  ELSE alt_index(f.hp, partial_key(Last(f.path).hash), Last(f.path).bucket)

Path(t) ==
  LET f      == frame[t]
      i      == Len(f.path)
      bucket == NextBucket(f, At1(t), At2(t))
      slot   == PathSlot(f.target, i)
      here   == buckets'[bucket][slot]
      path   == Append(f.path, [bucket |-> bucket, slot |-> slot,
                  hash |-> IF here = Vacant THEN NoHash ELSE Hash[here.key]])
  IN  /\ pc[t] = "path"
      /\ \/ ExpandedMeanwhile(t, bucket)
         \/ /\ ReadsOne(t, bucket)
            /\ IF here = Vacant \/ i = f.target.depth
               THEN /\ frame' = [frame EXCEPT ![t] = MoveFrame(t, path, i)]
                    /\ Goto(t, "get_locks")
               ELSE /\ frame' = [frame EXCEPT ![t].path = path]
                    /\ UNCHANGED pc

(* cuckoopath_move finds the table changed since the search: it unlocks    *)
(* and run_cuckoo searches again.                                          *)
PathHolds(t) ==
  LET d     == frame[t].depth
      path  == frame[t].path
      empty(r) == ~ occupied(buckets[r.bucket], r.slot)
      from  == path[d]
  IN  IF d = 0 THEN empty(path[1])
      ELSE /\ empty(path[d + 1])
           /\ ~ empty(from)
           /\ Hash[buckets[from.bucket][from.slot].key] = from.hash

PathInvalid(t) ==
  /\ pc[t] = "move"
  /\ ~ PathHolds(t)
  /\ frame' = [frame EXCEPT ![t] = SearchFrame(t)]
  /\ Goto(t, "search")
  /\ Continue
  /\ locks' = Unlocked(t)
  /\ Kept
  /\ UNCHANGED <<buckets, elem_counter>>

(* One element moves to its other bucket.  After the last move only the    *)
(* locks of the key's own buckets are kept.                                *)
Move(t) ==
  LET f    == frame[t]
      d    == f.depth
      from == f.path[d]
      to   == f.path[d + 1]
      own  == {lock_ind(At1(t)), lock_ind(At2(t))}
  IN  /\ pc[t] = "move"
      /\ PathHolds(t)
      /\ IF d = 0 THEN UNCHANGED buckets
         ELSE buckets' = eraseKV(setKV(buckets, to.bucket, to.slot,
                                       buckets[from.bucket][from.slot]),
                                 from.bucket, from.slot)
      /\ IF d \in {0, 1}
         THEN /\ locks' = [locks EXCEPT ![f.cont] = [l \in DOMAIN @ |->
                             IF @[l] = t /\ l \notin own THEN NoThread ELSE @[l]]]
              /\ frame' = [frame EXCEPT ![t].depth = 0]
              /\ Goto(t, "land")
         ELSE /\ locks' = Unlocked(t)
              /\ frame' = [frame EXCEPT ![t] = MoveFrame(t, f.path, d - 1)]
              /\ Goto(t, "get_locks")
      /\ Continue
      /\ Kept
      /\ UNCHANGED elem_counter

\* Mutant of Land: the key is not looked for again.
LandUnseen(t) ==
  /\ pc[t] = "land"
  /\ AddToBucket(t, <<frame[t].path[1].bucket, frame[t].path[1].slot>>)
  /\ locks' = Unlocked(t)
  /\ Kept

(* cuckoo_insert after run_cuckoo: another thread may have inserted the    *)
(* key in the meantime; otherwise the slot that was made free is taken.    *)
Land(t) ==
  LET dup == cuckoo_find(buckets, frame[t].hp, call[t].key)
  IN  /\ pc[t] = "land"
      /\ \/ \E p \in dup : UpraseFound(t, p)
         \/ /\ dup = {}
            /\ AddToBucket(t, <<frame[t].path[1].bucket, frame[t].path[1].slot>>)
      /\ locks' = Unlocked(t)
      /\ Kept

-----------------------------------------------------------------------------
(* Operations that take every lock *)

(* lock_all starts with the last container and goes on to those that are   *)
(* appended while it waits.                                                *)
StartLockAll(t) ==
  /\ pc[t] = "lock_all"
  /\ frame' = [frame EXCEPT ![t].cont = current, ![t].want = DOMAIN locks[current]]
  /\ Goto(t, "lock_each")
  /\ Continue
  /\ UNCHANGED <<containers, lockVars>>

LockEach(t) ==
  LET c == frame[t].cont
  IN  \E l \in frame[t].want :
        /\ pc[t] = "lock_each"
        /\ Ascending(t, l)
        /\ LockFree(t, l)
        /\ locks' = [locks EXCEPT ![c][l] = t]
        /\ IF frame[t].want # {l}
           THEN frame' = [frame EXCEPT ![t].want = @ \ {l}] /\ UNCHANGED pc
           ELSE IF c < current
           THEN /\ frame' = [frame EXCEPT ![t].cont = c + 1,
                                          ![t].want = DOMAIN locks[c + 1]]
                /\ UNCHANGED pc
           ELSE /\ frame' = [frame EXCEPT ![t].want = {}]
                /\ Goto(t, CASE call[t].op \in Inserting -> "double"
                             [] call[t].op \in Resizing -> "expand"
                             [] call[t].op = "clear" -> "clear"
                             [] OTHER -> "take_table")
        /\ Continue
        /\ UNCHANGED <<containers, elem_counter, is_migrated, num_remaining>>

(* check_resize_validity of cuckoo_fast_double: an exception, or another   *)
(* expansion was faster and the insert starts over.                        *)
DoubleThrows(t) ==
  \/ frame[t].hp + 1 > MaxHashpower
  \/ LoadTooLow(hashpower, Sum(elem_counter))

DoubleRefused(t) ==
  /\ pc[t] = "double"
  /\ \/ DoubleThrows(t) /\ Return(t, "threw")
     \/ ~ DoubleThrows(t) /\ hashpower # frame[t].hp /\ StartOver(t)
  /\ locks' = Unlocked(t)
  /\ UNCHANGED <<containers, elem_counter, is_migrated, num_remaining>>

(* cuckoo_fast_double: what an earlier doubling left in old is rehashed,   *)
(* and the container of locks grows before the hashpower does.             *)
Double(t) ==
  /\ pc[t] = "double"
  /\ ~ DoubleThrows(t)
  /\ hashpower = frame[t].hp
  /\ buckets' = AllMigrated
  /\ old' = NoOld
  /\ num_remaining' = 0
  /\ locks' = ResizedLocks(locks, hashpower + 1, t)
  /\ elem_counter' = ResizedCounters(hashpower + 1)
  /\ is_migrated' = Marked(DOMAIN elem_counter', TRUE)
  /\ Goto(t, "swap")
  /\ Continue
  /\ UNCHANGED <<hashpower, old_hashpower, frame>>

(* old_buckets_.swap(buckets_): until the new container is assigned, the   *)
(* hashpower that everybody reads is the one old_buckets_ had before.      *)
Swap(t) ==
  /\ pc[t] = "swap"
  /\ buckets' = old
  /\ hashpower' = old_hashpower
  /\ old' = buckets
  /\ old_hashpower' = hashpower
  /\ Goto(t, "install")
  /\ Continue
  /\ UNCHANGED <<lockVars, frame>>

(* The new container.  With fewer than kMaxNumLocks old buckets all are    *)
(* moved now, otherwise each when its lock is next taken.                  *)
Install(t) ==
  LET hp == old_hashpower + 1
  IN  /\ pc[t] = "install"
      /\ hashpower' = hp
      /\ IF hashsize(old_hashpower) < kMaxNumLocks
         THEN /\ buckets' = Doubled(table(old_hashpower, old)).data
              /\ old' = NoOld
              /\ UNCHANGED <<is_migrated, num_remaining>>
         ELSE /\ buckets' = bucket_container(hp)
              /\ is_migrated' = Marked(DOMAIN is_migrated, FALSE)
              /\ num_remaining' = Cardinality(DOMAIN is_migrated)
              /\ UNCHANGED old
      /\ locks' = Unlocked(t)
      /\ StartOver(t)
      /\ UNCHANGED <<old_hashpower, elem_counter>>

(* cuckoo_rehash and cuckoo_reserve: nothing to do for the hashpower that  *)
(* is read before any lock is taken.                                       *)
WantedHashpower(c) == IF c.op = "reserve" THEN reserve_calc(c.n) ELSE c.n

Rehash(t) ==
  /\ pc[t] = "rehash"
  /\ IF hashpower = WantedHashpower(call[t])
     THEN Return(t, "no")
     ELSE Goto(t, "lock_all") /\ Continue /\ UNCHANGED frame
  /\ UNCHANGED <<containers, lockVars>>

(* cuckoo_expand_simple on the whole table: a new table with the elements  *)
(* of this one, at least as large as wanted.  (When the new table throws,  *)
(* the step is RebuildThrows of LockedTable.)                              *)
Rebuild(hp, unlocked, holder) ==
  LET new == Rebuilt(AllMigrated, hp)
  IN  /\ ~ RebuildRefused(AllMigrated, hp)
      /\ buckets' = new.data
      /\ hashpower' = new.hp
      /\ old' = NoOld
      /\ num_remaining' = 0
      /\ elem_counter' = ResizedCounters(hashpower')
      /\ is_migrated' = Marked(DOMAIN elem_counter', TRUE)
      /\ locks' = ResizedLocks(unlocked, hashpower', holder)
      /\ UNCHANGED old_hashpower

ExpandSimple(t) ==
  /\ pc[t] = "expand"
  /\ IF WantedHashpower(call[t]) > MaxHashpower
     THEN /\ Return(t, "threw")
          /\ locks' = Unlocked(t)
          /\ UNCHANGED <<containers, elem_counter, is_migrated, num_remaining>>
     ELSE /\ Return(t, "yes")
          /\ Rebuild(WantedHashpower(call[t]), Unlocked(t), NoThread)

\* Mutant of Emptied: the locks stay marked as not rehashed.
EmptiedUnmarked ==
  /\ buckets' = bucket_container(hashpower)
  /\ old' = NoOld
  /\ num_remaining' = 0
  /\ elem_counter' = Marked(DOMAIN elem_counter, 0)
  /\ UNCHANGED <<hashpower, old_hashpower, is_migrated>>

(* cuckoo_clear *)
Emptied ==
  /\ buckets' = bucket_container(hashpower)
  /\ old' = NoOld
  /\ num_remaining' = 0
  /\ elem_counter' = Marked(DOMAIN elem_counter, 0)
  /\ is_migrated' = Marked(DOMAIN is_migrated, TRUE)
  /\ UNCHANGED <<hashpower, old_hashpower>>

Clear(t) ==
  /\ pc[t] = "clear"
  /\ Emptied
  /\ locks' = Unlocked(t)
  /\ Return(t, "done")

(* The constructor of locked_table, and its unlock. *)
TakeTable(t) ==
  /\ pc[t] = "take_table"
  /\ buckets' = AllMigrated
  /\ old' = NoOld
  /\ num_remaining' = 0
  /\ is_migrated' = Marked(DOMAIN is_migrated, TRUE)
  /\ Goto(t, "table")
  /\ Continue
  /\ UNCHANGED <<hashpower, old_hashpower, locks, elem_counter, frame>>

Unlock(t) ==
  /\ pc[t] = "table"
  /\ locks' = Unlocked(t)
  /\ Return(t, "done")
  /\ UNCHANGED <<containers, elem_counter, is_migrated, num_remaining>>

-----------------------------------------------------------------------------
(* Specification *)

(* A step of a call in progress, other than giving a locked table back. *)
Operate(t) ==
  \/ Find(t) \/ Update(t) \/ Erase(t) \/ InsertInPlace(t) \/ RunCuckoo(t)
  \/ Search(t) \/ TableFull(t) \/ Path(t) \/ PathInvalid(t) \/ Move(t) \/ Land(t)

Resize(t) ==
  \/ DoubleRefused(t) \/ Double(t) \/ Swap(t) \/ Install(t)
  \/ Rehash(t) \/ ExpandSimple(t) \/ Clear(t) \/ TakeTable(t)

TakeLocks(t) ==
  \/ Snapshot(t) \/ GetLocks(t) \/ HashpowerChanged(t) \/ Lock(t)
  \/ StartLockAll(t) \/ LockEach(t)

Proceed(t) == TakeLocks(t) \/ Operate(t) \/ Resize(t)

Next == \E t \in Threads : Invoke(t) \/ Proceed(t) \/ Unlock(t)

Spec == Init /\ [][Next]_vars

-----------------------------------------------------------------------------
(* Properties *)

(* The elements of the table: in buckets, and in the part of old that is   *)
(* not yet rehashed; in old alone between the swap and the new container.  *)
Swapped == \E t \in Threads : pc[t] = "install"

LivePositions(data, isOld) ==
  {p \in Positions(data) :
     isOld => Swapped \/ ~ is_migrated[lock_ind(p[1])]}

Elements ==
  {At(buckets, p) : p \in LivePositions(buckets, FALSE)}
    \cup {At(old, p) : p \in LivePositions(old, TRUE)}

Count == Cardinality(LivePositions(buckets, FALSE))
           + Cardinality(LivePositions(old, TRUE))

TypeOK ==
  /\ hashpower \in Nat /\ old_hashpower \in Nat
  /\ Elements \subseteq [key : Keys, val : Vals]
  /\ \A c \in DOMAIN locks : \A l \in DOMAIN locks[c] :
       locks[c][l] \in Threads \cup {NoThread}
  /\ DOMAIN elem_counter = DOMAIN locks[current]
  /\ is_migrated \in [DOMAIN locks[current] -> BOOLEAN]
  /\ call \in [Threads -> Calls \cup {NoCall}]
  /\ \A t \in Threads :
       /\ frame[t].depth \in -1 .. MAX_BFS_PATH_LEN - 1
       /\ pc[t] = "lock" => frame[t].want \subseteq DOMAIN locks[frame[t].cont]

(* No key is in the table twice, although an insert gives its locks up for *)
(* the search of a path and a doubling leaves elements in old (run_cuckoo  *)
(* names the race, cuckoo_insert closes it).                               *)
NoDuplicates == Count = Cardinality({kv.key : kv \in Elements})

(* Every element is in one of the two buckets where find looks for it, for *)
(* the hashpower of the container it is in: after any mixture of moves,    *)
(* doublings, lazy rehashes and rebuilds.                                  *)
Homes ==
  ~ Swapped =>
    /\ \A p \in LivePositions(buckets, FALSE) :
         p[1] \in TwoBuckets(hashpower, At(buckets, p).key)
    /\ \A p \in LivePositions(old, TRUE) :
         p[1] \in TwoBuckets(old_hashpower, At(old, p).key)

(* size() is right whenever nobody is inside an operation's critical       *)
(* section, although a single counter is not: it is not moved along with   *)
(* an element, and may be negative.                                        *)
CountersAddUp == Sum(elem_counter) = Count

(* The lazy rehash: old holds the container before a doubling exactly      *)
(* while a lock is left whose buckets were not moved, their number is      *)
(* num_remaining, and old is then half as large as buckets (the comment on *)
(* old_buckets_).                                                          *)
LazyRehashAccounted ==
  ~ Swapped =>
    /\ num_remaining = Cardinality({l \in DOMAIN is_migrated : ~ is_migrated[l]})
    /\ old # NoOld <=> num_remaining > 0
    /\ num_remaining > 0 => /\ old_hashpower + 1 = hashpower
                            /\ Cardinality(DOMAIN locks[current]) = kMaxNumLocks

(* What snapshot_and_lock_two promises: while a thread works on the two    *)
(* buckets of its key, the locks it holds are the current ones of these    *)
(* buckets, and the hashpower is the one it computed the buckets with.     *)
LocksStayCorrect ==
  \A t \in Threads :
    pc[t] \in {"body", "move", "land"} =>
      /\ frame[t].hp = hashpower
      /\ frame[t].cont = current
      /\ pc[t] # "move" \/ frame[t].depth \in {0, 1} =>
           {lock_ind(At1(t)), lock_ind(At2(t))} \subseteq Held(t, current)

(* The table implements the dictionary of KVMap: no element is lost or     *)
(* seen twice while it is moved, by a cuckoo path or by an expansion.      *)
Dict ==
  [k \in Keys |-> IF \E kv \in Elements : kv.key = k
                  THEN (CHOOSE kv \in Elements : kv.key = k).val ELSE None]

Owner ==
  IF \E t \in Threads : pc[t] = "table"
  THEN CHOOSE t \in Threads : pc[t] = "table" ELSE NoThread

Map == INSTANCE KVMap WITH dict <- Dict, owner <- Owner

Linearizable == Map!KVSpec

(* A thread cannot go on when it is not in a call, owns the table (and may *)
(* do as it likes), or spins on a lock that is taken.                      *)
Waits(t) ==
  \/ pc[t] \in {"idle", "table"}
  \/ /\ pc[t] = "lock"
     /\ ~ \E l \in frame[t].want : NextLock(t, l) /\ LockFree(t, l)
  \/ /\ pc[t] = "lock_each"
     /\ ~ \E l \in frame[t].want : Ascending(t, l) /\ LockFree(t, l)
  \/ /\ pc[t] = "search" /\ frame[t].queue # <<>>
     /\ ~ LockOneFree(Head(frame[t].queue).bucket)
  \/ pc[t] = "path" /\ ~ LockOneFree(NextBucket(frame[t], At1(t), At2(t)))
=============================================================================
