---------------------------- MODULE CuckooProofs ----------------------------
(***************************************************************************)
(* Proofs about LockedTable, for any number of threads, locks, keys and    *)
(* hash values, and a table that starts with all its locks.                *)
(*                                                                         *)
(* The first part is about the locks: whoever works on the buckets of a    *)
(* key holds their current locks (IInv).  The second part is about the     *)
(* elements, which it relates to the locks: the table and what is left of  *)
(* the old one are in order between any two steps, and the stack of every  *)
(* call fits them (DInv).  The third part is about the iterator of a       *)
(* locked table (WInv).  CuckooMapProofs goes on from there.               *)
(***************************************************************************)
EXTENDS LockedTable, CuckooTableProofs

LockIds == 0 .. kMaxNumLocks - 1

(* The constructor makes kMaxNumLocks locks when the table has as many     *)
(* buckets.                                                                *)
StartsWithAllLocks == \A s \in Starts : NumLocks(s.hashpower) = kMaxNumLocks

-----------------------------------------------------------------------------
(* The inductive invariant *)

(* There is only ever one container of locks. *)
OneContainer ==
  /\ locks \in Seq([LockIds -> Threads \cup {NoThread}])
  /\ Len(locks) = 1

(* A frame is a record, its depth a number and its path a sequence. *)
FrameTyped(f) ==
  /\ f = [hp |-> f.hp, cont |-> f.cont, want |-> f.want, queue |-> f.queue,
          target |-> f.target, path |-> f.path, depth |-> f.depth,
          cursor |-> f.cursor]
  /\ f.depth \in Int
  /\ f.depth >= -1
  /\ \E S : f.path \in Seq(S)

(* x is a function of the threads. *)
OfThreads(x) == DOMAIN x = Threads /\ x = [u \in Threads |-> x[u]]

Typed ==
  /\ OneContainer
  /\ OfThreads(pc) /\ OfThreads(frame) /\ OfThreads(call)
  /\ \A u \in Threads : FrameTyped(frame[u])

(* The locks of the two buckets of the key of a call. *)
OwnLocks(u) == {lock_ind(At1(u)), lock_ind(At2(u))}

(* Between its calls, and wherever it gives its locks up, a thread has none. *)
HoldsNothing(u) ==
  pc[u] \in {"idle", "snapshot", "get_locks", "search", "path", "lock_all", "rehash"}
    => Held(u, 1) = {}

(* With the whole table a thread has every lock, on the way there the ones    *)
(* it does not want any more.                                              *)
HoldsEverything(u) ==
  /\ pc[u] \in {"double", "swap", "install", "expand", "clear", "take_table", "table"}
       => Held(u, 1) = LockIds
  /\ pc[u] = "lock_each" => frame[u].cont = 1 /\ LockIds \subseteq frame[u].want \cup Held(u, 1)

(* What a call has still to lock: the locks of its key's buckets, unless   *)
(* it moves elements further along a path.                                 *)
WantsOwn(u) ==
  /\ pc[u] \in {"idle", "snapshot"} => frame[u].depth = -1
  /\ pc[u] = "get_locks" /\ frame[u].depth \in {-1, 0, 1}
       => OwnLocks(u) \subseteq frame[u].want
  /\ pc[u] = "lock" /\ frame[u].depth \in {-1, 0, 1}
       => OwnLocks(u) \subseteq frame[u].want \cup Held(u, 1)
  /\ pc[u] = "lock" => frame[u].cont = 1

(* From its first lock on the thread has the hashpower it started with.    *)
SameHashpower(u) ==
  pc[u] \in {"lock", "body", "move", "land"} /\ Held(u, 1) # {}
    => frame[u].hp = hashpower

(* At the buckets of its key a thread has their locks. *)
HoldsOwn(u) ==
  /\ pc[u] \in {"body", "move", "land"} => Held(u, 1) # {} /\ frame[u].cont = 1
  /\ pc[u] = "body" => frame[u].depth = -1
  /\ pc[u] = "move" => frame[u].depth # -1
  /\ pc[u] \in {"body", "land"} \/ (pc[u] = "move" /\ frame[u].depth \in {0, 1})
       => OwnLocks(u) \subseteq Held(u, 1)

ThreadInv(u) ==
  /\ HoldsNothing(u)
  /\ HoldsEverything(u)
  /\ WantsOwn(u)
  /\ SameHashpower(u)
  /\ HoldsOwn(u)

IInv == Typed /\ \A u \in Threads : ThreadInv(u)

-----------------------------------------------------------------------------
(* Containers of locks *)

(* A container with all its locks is never replaced. *)
LEMMA NoMoreLocks ==
  ASSUME NEW all \in Seq([LockIds -> Threads \cup {NoThread}]), Len(all) = 1, NEW hp
  PROVE  /\ ~ MoreLocks(all, hp)
         /\ \A holder : ResizedLocks(all, hp, holder) = all
<1>1. DOMAIN all[Len(all)] = LockIds
  OBVIOUS
<1>2. Cardinality(LockIds) = kMaxNumLocks
  BY TableAssumption, FS_Interval DEF LockIds
<1>. QED
  BY <1>1, <1>2, TableAssumption DEF ResizedLocks, MoreLocks

(* The one container, a function of the lock indexes. *)
LEMMA Container ==
  ASSUME OneContainer
  PROVE  DOMAIN locks = 1..1 /\ locks[1] \in [LockIds -> Threads \cup {NoThread}]
  BY DEF OneContainer

(* The container that replaces it has the same shape. *)
LEMMA NewContainer ==
  ASSUME OneContainer, NEW one \in [LockIds -> Threads \cup {NoThread}]
  PROVE  /\ [locks EXCEPT ![1] = one] \in Seq([LockIds -> Threads \cup {NoThread}])
         /\ Len([locks EXCEPT ![1] = one]) = 1
         /\ [locks EXCEPT ![1] = one][1] = one
  BY Container, ExceptSeq DEF OneContainer

(* What a step that gives every lock of a thread back changes. *)
LEMMA Unlocking ==
  ASSUME OneContainer, NEW t \in Threads
  PROVE  /\ Unlocked(t) \in Seq([LockIds -> Threads \cup {NoThread}])
         /\ Len(Unlocked(t)) = 1
         /\ locks' = Unlocked(t) =>
              /\ OneContainer'
              /\ Held(t, 1)' = {}
              /\ \A u \in Threads \ {t} : Held(u, 1)' = Held(u, 1)
<1>. DEFINE one == [l \in DOMAIN locks[1] |->
                      IF locks[1][l] = t THEN NoThread ELSE locks[1][l]]
<1>1. DOMAIN locks = 1..1 /\ locks[1] \in [LockIds -> Threads \cup {NoThread}]
  BY Container
<1>2. Unlocked(t) = [c \in 1..1 |-> one]
  BY <1>1 DEF Unlocked
<1>3. one \in [LockIds -> Threads \cup {NoThread}]
  BY <1>1
<1>4. Unlocked(t) \in Seq([LockIds -> Threads \cup {NoThread}]) /\ Len(Unlocked(t)) = 1
  BY <1>2, <1>3
<1>5. Unlocked(t)[1] = one
  BY <1>2
<1>6. ASSUME locks' = Unlocked(t)
      PROVE  /\ Held(t, 1)' = {}
             /\ \A u \in Threads \ {t} : Held(u, 1)' = Held(u, 1)
  BY <1>1, <1>5, <1>6, NoThreadAssumption DEF Held
<1>. QED
  BY <1>4, <1>6 DEF OneContainer

(* What a step that takes one lock changes. *)
LEMMA Taking ==
  ASSUME OneContainer, NEW t \in Threads, NEW l \in LockIds,
         locks[1][l] = NoThread, locks' = [locks EXCEPT ![1][l] = t]
  PROVE  /\ OneContainer'
         /\ Held(t, 1)' = Held(t, 1) \cup {l}
         /\ \A u \in Threads \ {t} : Held(u, 1)' = Held(u, 1)
<1>1. DOMAIN locks = 1..1 /\ locks[1] \in [LockIds -> Threads \cup {NoThread}]
  BY Container
<1>2. /\ locks'[1] = [locks[1] EXCEPT ![l] = t]
      /\ locks' \in Seq([LockIds -> Threads \cup {NoThread}])
      /\ Len(locks') = 1
  <2>. DEFINE one == [locks[1] EXCEPT ![l] = t]
  <2>1. locks' = [locks EXCEPT ![1] = one]
    OBVIOUS
  <2>2. one \in [LockIds -> Threads \cup {NoThread}]
    BY <1>1
  <2>. QED
    BY <2>1, <2>2, NewContainer
<1>. QED
  BY <1>1, <1>2, NoThreadAssumption DEF OneContainer, Held

(* The end of a cuckoo path keeps some of the locks. *)
LEMMA Keeping ==
  ASSUME OneContainer, NEW t \in Threads, NEW own,
         locks' = [locks EXCEPT ![1] = [l \in DOMAIN @ |->
                     IF @[l] = t /\ l \notin own THEN NoThread ELSE @[l]]]
  PROVE  /\ OneContainer'
         /\ Held(t, 1)' = Held(t, 1) \cap own
         /\ \A u \in Threads \ {t} : Held(u, 1)' = Held(u, 1)
<1>. DEFINE one == [l \in DOMAIN locks[1] |->
                      IF locks[1][l] = t /\ l \notin own THEN NoThread ELSE locks[1][l]]
<1>1. DOMAIN locks = 1..1 /\ locks[1] \in [LockIds -> Threads \cup {NoThread}]
  BY Container
<1>2. one \in [LockIds -> Threads \cup {NoThread}]
  BY <1>1
<1>3. locks' = [locks EXCEPT ![1] = one]
  OBVIOUS
<1>4. /\ locks'[1] = one
      /\ locks' \in Seq([LockIds -> Threads \cup {NoThread}])
      /\ Len(locks') = 1
  BY <1>2, <1>3, NewContainer
<1>. QED
  BY <1>1, <1>4, NoThreadAssumption DEF OneContainer, Held

(* Nobody holds a lock while another thread holds them all. *)
LEMMA OneHolder ==
  ASSUME NEW t \in Threads, NEW u \in Threads \ {t}, Held(t, 1) = LockIds,
         OneContainer
  PROVE  Held(u, 1) = {}
  BY DEF Held, OneContainer
-----------------------------------------------------------------------------
(* Frames *)

(* A frame, written out. *)
AFrame(hp, cont, want, queue, target, path, depth, cursr) ==
  [hp |-> hp, cont |-> cont, want |-> want, queue |-> queue, target |-> target,
   path |-> path, depth |-> depth, cursor |-> cursr]

(* A frame put together from its fields. *)
LEMMA AFrameTyped ==
  ASSUME NEW hp, NEW cont, NEW want, NEW queue, NEW target, NEW S, NEW path \in Seq(S),
         NEW depth \in Int, depth >= -1, NEW cursr
  PROVE  FrameTyped(AFrame(hp, cont, want, queue, target, path, depth, cursr))
  BY DEF FrameTyped, AFrame

(* The frame of a thread that is in no call. *)
LEMMA EmptyFrameTyped == FrameTyped(EmptyFrame) /\ EmptyFrame.depth = -1
  BY DEF FrameTyped, EmptyFrame, NoTarget, NoCursor

(* What the updates of a frame do to its fields. *)
(* Snapshot. *)
LEMMA SetSnapshot ==
  ASSUME NEW f, FrameTyped(f), NEW a, NEW b,
         NEW g, g = [f EXCEPT !.hp = a, !.want = b]
  PROVE  g = AFrame(a, f.cont, b, f.queue, f.target, f.path, f.depth, f.cursor)
  BY DEF FrameTyped, AFrame

(* GetLocks. *)
LEMMA SetCont ==
  ASSUME NEW f, FrameTyped(f), NEW a,
         NEW g, g = [f EXCEPT !.cont = a]
  PROVE  g = AFrame(f.hp, a, f.want, f.queue, f.target, f.path, f.depth, f.cursor)
  BY DEF FrameTyped, AFrame

(* A lock is taken. *)
LEMMA SetWant ==
  ASSUME NEW f, FrameTyped(f), NEW a,
         NEW g, g = [f EXCEPT !.want = a]
  PROVE  g = AFrame(f.hp, f.cont, a, f.queue, f.target, f.path, f.depth, f.cursor)
  BY DEF FrameTyped, AFrame

(* The next container of locks. *)
LEMMA SetContWant ==
  ASSUME NEW f, FrameTyped(f), NEW a, NEW b,
         NEW g, g = [f EXCEPT !.cont = a, !.want = b]
  PROVE  g = AFrame(f.hp, a, b, f.queue, f.target, f.path, f.depth, f.cursor)
  BY DEF FrameTyped, AFrame

(* A bucket is explored. *)
LEMMA SetQueue ==
  ASSUME NEW f, FrameTyped(f), NEW a,
         NEW g, g = [f EXCEPT !.queue = a]
  PROVE  g = AFrame(f.hp, f.cont, f.want, a, f.target, f.path, f.depth, f.cursor)
  BY DEF FrameTyped, AFrame

(* The search has ended. *)
LEMMA SetTarget ==
  ASSUME NEW f, FrameTyped(f), NEW a, NEW b,
         NEW g, g = [f EXCEPT !.queue = a, !.target = b]
  PROVE  g = AFrame(f.hp, f.cont, f.want, a, b, f.path, f.depth, f.cursor)
  BY DEF FrameTyped, AFrame

(* The search begins. *)
LEMMA SetSearch ==
  ASSUME NEW f, FrameTyped(f), NEW a, NEW b, NEW c, NEW d, NEW e,
         NEW g, g = [f EXCEPT !.queue = a, !.want = b, !.target = c, !.path = d, !.depth = e]
  PROVE  g = AFrame(f.hp, f.cont, b, a, c, d, e, f.cursor)
  BY DEF FrameTyped, AFrame

(* A record of the path. *)
LEMMA SetPath ==
  ASSUME NEW f, FrameTyped(f), NEW a,
         NEW g, g = [f EXCEPT !.path = a]
  PROVE  g = AFrame(f.hp, f.cont, f.want, f.queue, f.target, a, f.depth, f.cursor)
  BY DEF FrameTyped, AFrame

(* The next move along the path. *)
LEMMA SetMove ==
  ASSUME NEW f, FrameTyped(f), NEW a, NEW b, NEW c,
         NEW g, g = [f EXCEPT !.path = a, !.depth = b, !.want = c]
  PROVE  g = AFrame(f.hp, f.cont, c, f.queue, f.target, a, b, f.cursor)
  BY DEF FrameTyped, AFrame

(* The last move is done. *)
LEMMA SetDepth ==
  ASSUME NEW f, FrameTyped(f), NEW a,
         NEW g, g = [f EXCEPT !.depth = a]
  PROVE  g = AFrame(f.hp, f.cont, f.want, f.queue, f.target, f.path, a, f.cursor)
  BY DEF FrameTyped, AFrame

(* The iterator of the owner of the table. *)
LEMMA SetCursorOf ==
  ASSUME NEW f, FrameTyped(f), NEW a,
         NEW g, g = [f EXCEPT !.cursor = a]
  PROVE  g = AFrame(f.hp, f.cont, f.want, f.queue, f.target, f.path, f.depth, a)
  BY DEF FrameTyped, AFrame

-----------------------------------------------------------------------------
(* Steps *)

(* A step changes the function x to y at the thread t only. *)
OnlyAt(t, x, y) == OfThreads(y) /\ \A u \in Threads \ {t} : y[u] = x[u]

(* A function that is updated at one thread, or not at all. *)
LEMMA Updated ==
  ASSUME NEW x, OfThreads(x), NEW t \in Threads, NEW v, NEW y, y = [x EXCEPT ![t] = v]
  PROVE  OnlyAt(t, x, y) /\ y[t] = v
  BY DEF OfThreads, OnlyAt

(* A function that is not updated. *)
LEMMA Unchanged ==
  ASSUME NEW x, OfThreads(x), NEW t \in Threads, NEW y, y = x
  PROVE  OnlyAt(t, x, y) /\ y[t] = x[t]
  BY DEF OfThreads, OnlyAt

(* The invariant of the other threads is kept by a step of one. *)
LEMMA StepOf ==
  ASSUME IInv, NEW t \in Threads, OneContainer',
         OnlyAt(t, pc, pc'), OnlyAt(t, frame, frame'), OnlyAt(t, call, call'),
         \A u \in Threads \ {t} : Held(u, 1)' = Held(u, 1),
         hashpower' = hashpower \/ Held(t, 1) = LockIds,
         FrameTyped(frame[t])', ThreadInv(t)'
  PROVE  IInv'
<1>1. Typed'
  BY DEF IInv, Typed, OnlyAt
<1>2. ASSUME NEW u \in Threads \ {t}
      PROVE  ThreadInv(u)'
  <2>1. /\ pc'[u] = pc[u] /\ frame'[u] = frame[u] /\ call'[u] = call[u]
        /\ Held(u, 1)' = Held(u, 1)
        /\ ThreadInv(u)
    BY DEF OnlyAt, IInv
  <2>2. OwnLocks(u)' = OwnLocks(u)
    BY <2>1 DEF OwnLocks, At1, At2
  <2>3. hashpower' = hashpower \/ Held(u, 1) = {}
    BY OneHolder DEF IInv, Typed
  <2>4. HoldsNothing(u)' /\ HoldsEverything(u)'
    BY <2>1 DEF ThreadInv, HoldsNothing, HoldsEverything
  <2>5. WantsOwn(u)'
    BY <2>1, <2>2 DEF ThreadInv, WantsOwn
  <2>6. SameHashpower(u)'
    BY <2>1, <2>3 DEF ThreadInv, SameHashpower
  <2>7. HoldsOwn(u)'
    BY <2>1, <2>2 DEF ThreadInv, HoldsOwn
  <2>. QED
    BY <2>4, <2>5, <2>6, <2>7 DEF ThreadInv
<1>. QED
  BY <1>1, <1>2 DEF IInv

(* The shapes of the variables. *)
LEMMA Shapes ==
  ASSUME IInv
  PROVE  OfThreads(pc) /\ OfThreads(frame) /\ OfThreads(call) /\ OneContainer
  BY DEF IInv, Typed

(* What the common parts of the steps change. *)
LEMMA Going ==
  ASSUME IInv, NEW t \in Threads, NEW label, Goto(t, label)
  PROVE  OnlyAt(t, pc, pc') /\ pc'[t] = label
  BY Shapes DEF Goto, OfThreads, OnlyAt

(* A step inside a call leaves the calls alone. *)
LEMMA Continuing ==
  ASSUME IInv, NEW t \in Threads, Continue
  PROVE  OnlyAt(t, call, call') /\ call'[t] = call[t]
  BY Unchanged DEF Continue, IInv, Typed

(* A step that leaves the locks alone. *)
LEMMA SameLocks ==
  ASSUME IInv, locks' = locks
  PROVE  OneContainer' /\ \A u \in Threads : Held(u, 1)' = Held(u, 1)
  BY DEF IInv, Typed, OneContainer, Held

(* A frame that keeps path and depth. *)
LEMMA FrameFrom ==
  ASSUME NEW f, FrameTyped(f), NEW hp, NEW cont, NEW want, NEW queue, NEW target,
         NEW cursr, NEW g,
         g = AFrame(hp, cont, want, queue, target, f.path, f.depth, cursr)
  PROVE  /\ FrameTyped(g)
         /\ g.hp = hp /\ g.cont = cont /\ g.want = want
         /\ g.path = f.path /\ g.depth = f.depth
<1>1. f.depth \in Int /\ f.depth >= -1 /\ \E S : f.path \in Seq(S)
  BY DEF FrameTyped
<1>. QED
  BY <1>1, AFrameTyped DEF AFrame

(* The locks of the two buckets of a key. *)
LEMMA OwnOf ==
  ASSUME NEW hp, NEW key
  PROVE  LocksOf(TwoBuckets(hp, key))
           = {lock_ind(FirstBucket(hp, key)), lock_ind(SecondBucket(hp, key))}
  BY DEF LocksOf, TwoBuckets

(* A call that ends, or starts over, holds no lock any more. *)
LEMMA ReturnKeeps ==
  ASSUME IInv, NEW t \in Threads, NEW r, Return(t, r), OneContainer',
         Held(t, 1)' = {}, \A u \in Threads \ {t} : Held(u, 1)' = Held(u, 1),
         hashpower' = hashpower \/ Held(t, 1) = LockIds
  PROVE  IInv'
<1>1. OnlyAt(t, pc, pc') /\ pc'[t] = "idle"
  BY Going DEF Return
<1>2. OnlyAt(t, call, call')
  BY Shapes DEF Return, OfThreads, OnlyAt
<1>3. OnlyAt(t, frame, frame') /\ frame'[t] = EmptyFrame
  BY Shapes DEF Return, OfThreads, OnlyAt
<1>4. ThreadInv(t)'
  BY <1>1, <1>3, EmptyFrameTyped
     DEF ThreadInv, HoldsNothing, HoldsEverything, WantsOwn, SameHashpower, HoldsOwn
<1>. QED
  BY <1>1, <1>2, <1>3, <1>4, EmptyFrameTyped, StepOf

(* A call that starts over holds no lock any more. *)
LEMMA StartOverKeeps ==
  ASSUME IInv, NEW t \in Threads, StartOver(t), OneContainer',
         Held(t, 1)' = {}, \A u \in Threads \ {t} : Held(u, 1)' = Held(u, 1),
         hashpower' = hashpower \/ Held(t, 1) = LockIds
  PROVE  IInv'
<1>1. OnlyAt(t, pc, pc') /\ pc'[t] = "snapshot"
  BY Going DEF StartOver
<1>2. OnlyAt(t, call, call')
  BY Continuing DEF StartOver
<1>3. OnlyAt(t, frame, frame') /\ frame'[t] = EmptyFrame
  BY Shapes DEF StartOver, OfThreads, OnlyAt
<1>4. ThreadInv(t)'
  BY <1>1, <1>3, EmptyFrameTyped
     DEF ThreadInv, HoldsNothing, HoldsEverything, WantsOwn, SameHashpower, HoldsOwn
<1>. QED
  BY <1>1, <1>2, <1>3, <1>4, EmptyFrameTyped, StepOf

-----------------------------------------------------------------------------
(* Taking locks *)

(* A call begins, with no lock. *)
LEMMA InvokeKeeps ==
  ASSUME IInv, NEW t \in Threads, Invoke(t)
  PROVE  IInv'
<1>1. PICK label \in {"lock_all", "rehash", "snapshot"} : Goto(t, label)
  BY DEF Invoke
<1>2. OnlyAt(t, pc, pc') /\ pc'[t] = label
  BY <1>1, Going
<1>3. OnlyAt(t, call, call')
  BY Shapes DEF Invoke, OfThreads, OnlyAt
<1>4. OnlyAt(t, frame, frame') /\ frame'[t] = frame[t]
  BY Unchanged DEF Invoke, IInv, Typed
<1>5. /\ OneContainer' /\ \A u \in Threads : Held(u, 1)' = Held(u, 1)
      /\ hashpower' = hashpower /\ pc[t] = "idle"
  BY SameLocks DEF Invoke, lockVars, containers
<1>6. ThreadInv(t)'
  BY <1>2, <1>4, <1>5
     DEF IInv, ThreadInv, HoldsNothing, HoldsEverything, WantsOwn, SameHashpower, HoldsOwn
<1>7. FrameTyped(frame[t])'
  BY <1>4 DEF IInv, Typed
<1>. QED
  BY <1>2, <1>3, <1>4, <1>5, <1>6, <1>7, StepOf

(* The locks wanted are those of the hashpower that is read. *)
LEMMA SnapshotKeeps ==
  ASSUME IInv, NEW t \in Threads, Snapshot(t)
  PROVE  IInv'
<1>. DEFINE want == LocksOf(TwoBuckets(hashpower, call[t].key))
            g    == [frame[t] EXCEPT !.hp = hashpower, !.want = want]
            f    == frame[t]
<1>1. FrameTyped(f)
  BY DEF IInv, Typed
<1>2. frame' = [frame EXCEPT ![t] = g]
  BY DEF Snapshot, IInv, Typed, OfThreads
<1>3. g = AFrame(hashpower, f.cont, want, f.queue, f.target, f.path, f.depth, f.cursor)
  BY <1>1, SetSnapshot
<1>4. FrameTyped(g) /\ g.hp = hashpower /\ g.want = want /\ g.depth = f.depth
  <2>. HIDE DEF g, f, want
  <2>. QED
    BY <1>1, <1>3, FrameFrom
<1>5. OnlyAt(t, frame, frame') /\ frame'[t] = g
  <2>. HIDE DEF g
  <2>. QED
    BY <1>2, Shapes DEF OfThreads, OnlyAt
<1>6. /\ OnlyAt(t, pc, pc') /\ pc'[t] = "get_locks" /\ pc[t] = "snapshot"
      /\ OnlyAt(t, call, call') /\ call'[t] = call[t]
  BY Going, Continuing DEF Snapshot
<1>7. /\ OneContainer' /\ \A u \in Threads : Held(u, 1)' = Held(u, 1)
      /\ hashpower' = hashpower
  BY SameLocks DEF Snapshot, lockVars, containers
<1>8. OwnLocks(t)' = want
  BY <1>4, <1>5, <1>6, OwnOf DEF OwnLocks, At1, At2
<1>9. ThreadInv(t)'
  <2>. HIDE DEF g, f, want
  <2>. QED
    BY <1>4, <1>5, <1>6, <1>7, <1>8
       DEF IInv, ThreadInv, HoldsNothing, HoldsEverything, WantsOwn, SameHashpower, HoldsOwn
<1>. QED
  <2>. HIDE DEF g, f, want
  <2>. QED
    BY <1>4, <1>5, <1>6, <1>7, <1>9, StepOf

(* The container is the one container of locks. *)
LEMMA GetLocksKeeps ==
  ASSUME IInv, NEW t \in Threads, GetLocks(t)
  PROVE  IInv'
<1>. DEFINE g == [frame[t] EXCEPT !.cont = 1]
            f == frame[t]
<1>1. FrameTyped(f)
  BY DEF IInv, Typed
<1>2. frame' = [frame EXCEPT ![t] = g]
  BY DEF GetLocks, IInv, Typed, OfThreads, OneContainer, current
<1>3. g = AFrame(f.hp, 1, f.want, f.queue, f.target, f.path, f.depth, f.cursor)
  BY <1>1, SetCont
<1>4. /\ FrameTyped(g) /\ g.hp = f.hp /\ g.cont = 1 /\ g.want = f.want
      /\ g.depth = f.depth
  <2>. HIDE DEF g, f
  <2>. QED
    BY <1>1, <1>3, FrameFrom
<1>5. OnlyAt(t, frame, frame') /\ frame'[t] = g
  <2>. HIDE DEF g
  <2>. QED
    BY <1>2, Shapes DEF OfThreads, OnlyAt
<1>6. /\ OnlyAt(t, pc, pc') /\ pc'[t] = "lock" /\ pc[t] = "get_locks"
      /\ OnlyAt(t, call, call') /\ call'[t] = call[t]
  BY Going, Continuing DEF GetLocks
<1>7. /\ OneContainer' /\ \A u \in Threads : Held(u, 1)' = Held(u, 1)
      /\ hashpower' = hashpower
  BY SameLocks DEF GetLocks, lockVars, containers
<1>8. OwnLocks(t)' = OwnLocks(t)
  BY <1>4, <1>5, <1>6 DEF OwnLocks, At1, At2
<1>9. ThreadInv(t)'
  <2>. HIDE DEF g
  <2>. QED
    BY <1>4, <1>5, <1>6, <1>7, <1>8
       DEF IInv, ThreadInv, HoldsNothing, HoldsEverything, WantsOwn, SameHashpower, HoldsOwn
<1>. QED
  <2>. HIDE DEF g, f
  <2>. QED
    BY <1>4, <1>5, <1>6, <1>7, <1>9, StepOf

(* A failed check_hashpower: the first lock was not taken for good. *)
LEMMA HashpowerChangedKeeps ==
  ASSUME IInv, NEW t \in Threads, HashpowerChanged(t)
  PROVE  IInv'
<1>1. /\ OneContainer' /\ \A u \in Threads : Held(u, 1)' = Held(u, 1)
      /\ hashpower' = hashpower
  BY SameLocks DEF HashpowerChanged, lockVars, containers
<1>2. Held(t, 1) = {}
  BY DEF HashpowerChanged, FirstLock, IInv, ThreadInv, WantsOwn
<1>. QED
  BY <1>1, <1>2, StartOverKeeps DEF HashpowerChanged

(* A lock moves from the wanted to the held ones, and the hashpower is checked
   with the first. *)
LEMMA LockKeeps ==
  ASSUME IInv, NEW t \in Threads, Lock(t)
  PROVE  IInv'
<1>. DEFINE f == frame[t]
<1>1. FrameTyped(f) /\ f.cont = 1 /\ pc[t] = "lock"
  BY DEF IInv, Typed, ThreadInv, WantsOwn, Lock
<1>2. PICK l \in f.want :
        /\ NextLock(t, l) /\ LockFree(t, l)
        /\ FirstLock(t) => hashpower = f.hp
        /\ locks' = [locks EXCEPT ![1][l] = t]
        /\ frame' = [frame EXCEPT ![t].want = @ \ {l}]
        /\ IF f.want # {l}
           THEN UNCHANGED <<containers, is_migrated, num_remaining, pc>>
           ELSE /\ Migrate(Held(t, 1) \cup {l})
                /\ Goto(t, IF f.depth = -1 THEN "body" ELSE "move")
        /\ Continue
  BY <1>1 DEF Lock
<1>. DEFINE want == f.want \ {l}
            g    == [frame[t] EXCEPT !.want = want]
<1>3. l \in LockIds /\ locks[1][l] = NoThread
  BY <1>1, <1>2, Container DEF NextLock, Ascending, LockFree, IInv, Typed
<1>4. /\ OneContainer' /\ Held(t, 1)' = Held(t, 1) \cup {l}
      /\ \A u \in Threads \ {t} : Held(u, 1)' = Held(u, 1)
  BY <1>2, <1>3, Taking DEF IInv, Typed
<1>5. frame' = [frame EXCEPT ![t] = g]
  BY <1>2 DEF IInv, Typed, OfThreads
<1>6. g = AFrame(f.hp, f.cont, want, f.queue, f.target, f.path, f.depth, f.cursor)
  BY <1>1, SetWant
<1>7. /\ FrameTyped(g) /\ g.hp = f.hp /\ g.cont = 1 /\ g.want = want
      /\ g.depth = f.depth
  <2>. HIDE DEF g, f, want
  <2>. QED
    BY <1>1, <1>6, FrameFrom
<1>8. OnlyAt(t, frame, frame') /\ frame'[t] = g
  <2>. HIDE DEF g
  <2>. QED
    BY <1>5, Shapes DEF OfThreads, OnlyAt
<1>9. /\ OnlyAt(t, call, call') /\ call'[t] = call[t]
      /\ hashpower' = hashpower
  BY <1>2, Continuing DEF containers, Migrate
<1>10. OwnLocks(t)' = OwnLocks(t)
  BY <1>7, <1>8, <1>9 DEF OwnLocks, At1, At2
<1>11. SameHashpower(t)' /\ hashpower = f.hp
  BY <1>1, <1>2, <1>7, <1>8, <1>9 DEF SameHashpower, IInv, ThreadInv, FirstLock
<1>12. OnlyAt(t, pc, pc') /\ ThreadInv(t)'
  <2>1. CASE f.want # {l}
    <3>1. OnlyAt(t, pc, pc') /\ pc'[t] = "lock"
      BY <1>1, <1>2, <2>1, Unchanged DEF IInv, Typed
    <3>. QED
      <4>. HIDE DEF g
      <4>. QED
        BY <1>1, <1>4, <1>7, <1>8, <1>10, <1>11, <3>1
           DEF IInv, ThreadInv, HoldsNothing, HoldsEverything, WantsOwn, HoldsOwn
  <2>2. CASE f.want = {l}
    <3>1. OnlyAt(t, pc, pc') /\ pc'[t] = IF f.depth = -1 THEN "body" ELSE "move"
      BY <1>2, <2>2, Going
    <3>. QED
      <4>. HIDE DEF g
      <4>. QED
        BY <1>1, <1>4, <1>7, <1>8, <1>10, <1>11, <2>2, <3>1
           DEF IInv, ThreadInv, HoldsNothing, HoldsEverything, WantsOwn, HoldsOwn
  <2>. QED
    BY <2>1, <2>2
<1>. QED
  <2>. HIDE DEF g, f, want
  <2>. QED
    BY <1>4, <1>7, <1>8, <1>9, <1>12, StepOf

(* All locks are wanted. *)
LEMMA StartLockAllKeeps ==
  ASSUME IInv, NEW t \in Threads, StartLockAll(t)
  PROVE  IInv'
<1>. DEFINE g == [frame[t] EXCEPT !.cont = 1, !.want = LockIds]
            f == frame[t]
<1>1. FrameTyped(f)
  BY DEF IInv, Typed
<1>2. current = 1 /\ DOMAIN locks[1] = LockIds
  BY Shapes, Container DEF OneContainer, current
<1>3. frame' = [frame EXCEPT ![t] = g]
  BY <1>2, Shapes DEF StartLockAll, OfThreads
<1>4. g = AFrame(f.hp, 1, LockIds, f.queue, f.target, f.path, f.depth, f.cursor)
  BY <1>1, SetContWant
<1>5. FrameTyped(g) /\ g.cont = 1 /\ g.want = LockIds /\ g.depth = f.depth
  <2>. HIDE DEF g, f
  <2>. QED
    BY <1>1, <1>4, FrameFrom
<1>6. OnlyAt(t, frame, frame') /\ frame'[t] = g
  <2>. HIDE DEF g
  <2>. QED
    BY <1>3, Shapes DEF OfThreads, OnlyAt
<1>7. /\ OnlyAt(t, pc, pc') /\ pc'[t] = "lock_each" /\ pc[t] = "lock_all"
      /\ OnlyAt(t, call, call')
  BY Going, Continuing DEF StartLockAll
<1>8. /\ OneContainer' /\ \A u \in Threads : Held(u, 1)' = Held(u, 1)
      /\ hashpower' = hashpower
  BY SameLocks DEF StartLockAll, lockVars, containers
<1>9. ThreadInv(t)'
  <2>. HIDE DEF g
  <2>. QED
    BY <1>5, <1>6, <1>7, <1>8
       DEF IInv, ThreadInv, HoldsNothing, HoldsEverything, WantsOwn, SameHashpower, HoldsOwn
<1>. QED
  <2>. HIDE DEF g, f
  <2>. QED
    BY <1>5, <1>6, <1>7, <1>8, <1>9, StepOf

(* One of them is taken, and with the last of them the thread holds all. *)
LEMMA LockEachKeeps ==
  ASSUME IInv, NEW t \in Threads, LockEach(t)
  PROVE  IInv'
<1>. DEFINE f == frame[t]
<1>1. /\ FrameTyped(f) /\ f.cont = 1 /\ pc[t] = "lock_each"
      /\ LockIds \subseteq f.want \cup Held(t, 1)
      /\ current = 1
  BY DEF IInv, Typed, ThreadInv, HoldsEverything, LockEach, OneContainer, current
<1>2. PICK l \in f.want :
        /\ Ascending(t, l) /\ LockFree(t, l)
        /\ locks' = [locks EXCEPT ![1][l] = t]
        /\ \/ f.want # {l} /\ pc' = pc
           \/ f.want = {l} /\ \E label \in {"double", "expand", "clear", "take_table"} :
                                Goto(t, label)
        /\ frame' = [frame EXCEPT ![t].want = f.want \ {l}]
        /\ Continue /\ hashpower' = hashpower
  <2>. DEFINE then == CASE call[t].op \in Inserting -> "double"
                        [] call[t].op \in Resizing -> "expand"
                        [] call[t].op = "clear" -> "clear"
                        [] OTHER -> "take_table"
  <2>5. PICK l \in frame[t].want :
          /\ Ascending(t, l) /\ LockFree(t, l)
          /\ locks' = [locks EXCEPT ![frame[t].cont][l] = t]
          /\ IF frame[t].want # {l}
             THEN frame' = [frame EXCEPT ![t].want = @ \ {l}] /\ UNCHANGED pc
             ELSE IF frame[t].cont < current
             THEN /\ frame' = [frame EXCEPT ![t].cont = frame[t].cont + 1,
                                 ![t].want = DOMAIN locks[frame[t].cont + 1]]
                  /\ UNCHANGED pc
             ELSE /\ frame' = [frame EXCEPT ![t].want = {}]
                  /\ Goto(t, then)
          /\ Continue
          /\ UNCHANGED <<containers, elem_counter, is_migrated, num_remaining>>
    BY Zenon DEF LockEach
  <2>6. ~ (frame[t].cont < current)
    BY <1>1
  <2>7. locks' = [locks EXCEPT ![1][l] = t] /\ hashpower' = hashpower
    BY <1>1, <2>5 DEF containers
  <2>1. /\ Ascending(t, l) /\ LockFree(t, l)
        /\ IF f.want # {l}
           THEN frame' = [frame EXCEPT ![t].want = @ \ {l}] /\ UNCHANGED pc
           ELSE /\ frame' = [frame EXCEPT ![t].want = {}]
                /\ Goto(t, then)
        /\ Continue
    <3>. HIDE DEF then
    <3>. QED
      BY <2>5, <2>6, Zenon
  <2>4. then \in {"double", "expand", "clear", "take_table"}
    BY Zenon
  <2>2. f.want = {l} => f.want \ {l} = {}
    OBVIOUS
  <2>3. frame' = [frame EXCEPT ![t].want = f.want \ {l}]
    BY <2>1, <2>2
  <2>. HIDE DEF then
  <2>. QED
    BY <2>1, <2>3, <2>4, <2>7
<1>. DEFINE want == f.want \ {l}
            g    == [frame[t] EXCEPT !.want = want]
<1>3. l \in LockIds /\ locks[1][l] = NoThread
  BY <1>1, <1>2, Container, Shapes DEF Ascending, LockFree
<1>4. /\ OneContainer' /\ Held(t, 1)' = Held(t, 1) \cup {l}
      /\ \A u \in Threads \ {t} : Held(u, 1)' = Held(u, 1)
  BY <1>2, <1>3, Taking, Shapes
<1>5. frame' = [frame EXCEPT ![t] = g]
  BY <1>2, Shapes DEF OfThreads
<1>6. g = AFrame(f.hp, f.cont, want, f.queue, f.target, f.path, f.depth, f.cursor)
  BY <1>1, SetWant
<1>7. FrameTyped(g) /\ g.cont = 1 /\ g.want = want /\ g.depth = f.depth
  <2>. HIDE DEF g, f, want
  <2>. QED
    BY <1>1, <1>6, FrameFrom
<1>8. OnlyAt(t, frame, frame') /\ frame'[t] = g
  <2>. HIDE DEF g
  <2>. QED
    BY <1>5, Shapes DEF OfThreads, OnlyAt
<1>9. OnlyAt(t, call, call')
  BY <1>2, Continuing
<1>10. LockIds \subseteq want \cup Held(t, 1)' /\ Held(t, 1)' \subseteq LockIds
  BY <1>1, <1>3, <1>4, Shapes, Container DEF Held
<1>11. OnlyAt(t, pc, pc') /\ ThreadInv(t)'
  <2>1. CASE f.want # {l}
    <3>1. OnlyAt(t, pc, pc') /\ pc'[t] = "lock_each"
      BY <1>1, <1>2, <2>1, Unchanged, Shapes
    <3>. QED
      <4>. HIDE DEF g
      <4>. QED
        BY <1>4, <1>7, <1>8, <1>10, <3>1
           DEF ThreadInv, HoldsNothing, HoldsEverything, WantsOwn, SameHashpower, HoldsOwn
  <2>2. CASE f.want = {l}
    <3>1. PICK label \in {"double", "expand", "clear", "take_table"} : Goto(t, label)
      BY <1>2, <2>2
    <3>2. OnlyAt(t, pc, pc') /\ pc'[t] = label
      BY <3>1, Going
    <3>3. Held(t, 1)' = LockIds
      BY <1>10, <2>2
    <3>. QED
      BY <3>2, <3>3
         DEF ThreadInv, HoldsNothing, HoldsEverything, WantsOwn, SameHashpower, HoldsOwn
  <2>. QED
    BY <1>2, <2>1, <2>2
<1>. QED
  <2>. HIDE DEF g, f, want
  <2>. QED
    BY <1>2, <1>4, <1>7, <1>8, <1>9, <1>11, StepOf

-----------------------------------------------------------------------------
(* Critical sections *)

(* A call that gives its locks back and returns. *)
LEMMA UnlockReturnKeeps ==
  ASSUME IInv, NEW t \in Threads, NEW r, Return(t, r), locks' = Unlocked(t),
         hashpower' = hashpower \/ Held(t, 1) = LockIds
  PROVE  IInv'
  BY ReturnKeeps, Unlocking, Shapes

(* A call that gives its locks back and starts over. *)
LEMMA UnlockStartOverKeeps ==
  ASSUME IInv, NEW t \in Threads, StartOver(t), locks' = Unlocked(t),
         hashpower' = hashpower \/ Held(t, 1) = LockIds
  PROVE  IInv'
  BY StartOverKeeps, Unlocking, Shapes

(* The operations with the two locks held. *)
LEMMA OperationKeeps ==
  ASSUME IInv, NEW t \in Threads,
         Find(t) \/ Update(t) \/ Erase(t) \/ InsertInPlace(t) \/ Land(t)
  PROVE  IInv'
<1>1. CASE Find(t)
  BY <1>1, UnlockReturnKeeps DEF Find, Kept
<1>2. CASE Update(t)
  <2>1. PICK r : Return(t, r)
    BY <1>2 DEF Update
  <2>. QED
    BY <1>2, <2>1, UnlockReturnKeeps DEF Update, Kept
<1>3. CASE Erase(t)
  <2>1. PICK r : Return(t, r)
    BY <1>3 DEF Erase
  <2>. QED
    BY <1>3, <2>1, UnlockReturnKeeps DEF Erase, Kept
<1>4. CASE InsertInPlace(t)
  <2>1. PICK r : Return(t, r)
    BY <1>4 DEF InsertInPlace, UpraseFound, AddToBucket
  <2>. QED
    BY <1>4, <2>1, UnlockReturnKeeps DEF InsertInPlace, Kept
<1>5. CASE Land(t)
  <2>1. PICK r : Return(t, r)
    BY <1>5 DEF Land, UpraseFound, AddToBucket
  <2>. QED
    BY <1>5, <2>1, UnlockReturnKeeps DEF Land, Kept
<1>. QED
  BY <1>1, <1>2, <1>3, <1>4, <1>5

(* run_cuckoo begins, or begins again. *)
LEMMA SearchAgainKeeps ==
  ASSUME IInv, NEW t \in Threads,
         frame' = [frame EXCEPT ![t] = SearchFrame(t)],
         Goto(t, "search"), Continue, locks' = Unlocked(t), hashpower' = hashpower
  PROVE  IInv'
<1>. DEFINE f == frame[t]
<1>1. FrameTyped(f)
  BY DEF IInv, Typed
<1>2. SearchFrame(t)
        = AFrame(f.hp, f.cont, {}, StartQueue(At1(t), At2(t)), NoTarget, <<>>, -1, f.cursor)
  BY <1>1, SetSearch DEF SearchFrame
<1>3. FrameTyped(SearchFrame(t))
  <2>1. <<>> \in Seq({})
    OBVIOUS
  <2>2. -1 \in Int /\ -1 >= -1
    OBVIOUS
  <2>. QED
    BY <1>2, <2>1, <2>2, AFrameTyped
<1>4. OnlyAt(t, frame, frame') /\ frame'[t] = SearchFrame(t)
  BY Shapes DEF OfThreads, OnlyAt
<1>5. /\ OnlyAt(t, pc, pc') /\ pc'[t] = "search" /\ OnlyAt(t, call, call')
  BY Going, Continuing
<1>6. /\ OneContainer' /\ Held(t, 1)' = {}
      /\ \A u \in Threads \ {t} : Held(u, 1)' = Held(u, 1)
  BY Unlocking, Shapes
<1>7. ThreadInv(t)'
  BY <1>5, <1>6
     DEF ThreadInv, HoldsNothing, HoldsEverything, WantsOwn, SameHashpower, HoldsOwn
<1>. QED
  BY <1>3, <1>4, <1>5, <1>6, <1>7, StepOf

(* The search begins, or begins again after an invalid path. *)
LEMMA RunCuckooKeeps ==
  ASSUME IInv, NEW t \in Threads, RunCuckoo(t) \/ PathInvalid(t)
  PROVE  IInv'
  BY SearchAgainKeeps DEF RunCuckoo, PathInvalid, Kept

(* The search ends because the table has been expanded. *)
LEMMA ExpandedMeanwhileKeeps ==
  ASSUME IInv, NEW t \in Threads, NEW i, ExpandedMeanwhile(t, i), pc[t] \in {"search", "path"}
  PROVE  IInv'
<1>1. Held(t, 1) = {}
  BY DEF IInv, ThreadInv, HoldsNothing
<1>2. /\ OneContainer' /\ \A u \in Threads : Held(u, 1)' = Held(u, 1)
      /\ hashpower' = hashpower /\ StartOver(t)
  BY SameLocks DEF ExpandedMeanwhile, lockVars, containers
<1>. QED
  BY <1>1, <1>2, StartOverKeeps

(* A step of the search, which takes no lock for good. *)
LEMMA LockFreeStepKeeps ==
  ASSUME IInv, NEW t \in Threads, Continue, locks' = locks, hashpower' = hashpower,
         pc[t] \in {"search", "path"}, OnlyAt(t, pc, pc'),
         pc'[t] \in {"search", "path", "lock_all"},
         OnlyAt(t, frame, frame'), FrameTyped(frame[t])'
  PROVE  IInv'
<1>1. Held(t, 1) = {}
  BY DEF IInv, ThreadInv, HoldsNothing
<1>2. OneContainer' /\ \A u \in Threads : Held(u, 1)' = Held(u, 1)
  BY SameLocks
<1>3. OnlyAt(t, call, call')
  BY Continuing
<1>4. ThreadInv(t)'
  BY <1>1, <1>2
     DEF ThreadInv, HoldsNothing, HoldsEverything, WantsOwn, SameHashpower, HoldsOwn
<1>. QED
  BY <1>2, <1>3, <1>4, StepOf

(* The search ends without a path. *)
LEMMA TableFullKeeps ==
  ASSUME IInv, NEW t \in Threads, TableFull(t)
  PROVE  IInv'
<1>1. OnlyAt(t, pc, pc') /\ pc'[t] = "lock_all" /\ pc[t] = "search"
  BY Going DEF TableFull
<1>2. OnlyAt(t, frame, frame') /\ frame'[t] = frame[t]
  BY Unchanged, Shapes DEF TableFull
<1>3. FrameTyped(frame[t])'
  BY <1>2 DEF IInv, Typed
<1>. QED
  BY <1>1, <1>2, <1>3, LockFreeStepKeeps DEF TableFull, lockVars, containers

(* The search looks at one bucket. *)
LEMMA SearchKeeps ==
  ASSUME IInv, NEW t \in Threads, Search(t)
  PROVE  IInv'
<1>. DEFINE f == frame[t]
            x == Head(f.queue)
<1>1. FrameTyped(f) /\ pc[t] = "search"
  BY DEF IInv, Typed, Search
<1>2. CASE ExpandedMeanwhile(t, x.bucket)
  BY <1>1, <1>2, ExpandedMeanwhileKeeps
<1>3. CASE ReadsOne(t, x.bucket) /\ \E q : frame' = [frame EXCEPT ![t].queue = q] /\ pc' = pc
  <2>1. PICK q : frame' = [frame EXCEPT ![t].queue = q] /\ pc' = pc
    BY <1>3
  <2>. DEFINE g == [frame[t] EXCEPT !.queue = q]
  <2>2. frame' = [frame EXCEPT ![t] = g]
    BY <2>1, Shapes DEF OfThreads
  <2>3. g = AFrame(f.hp, f.cont, f.want, q, f.target, f.path, f.depth, f.cursor)
    BY <1>1, SetQueue
  <2>4. FrameTyped(g)
    <3>. HIDE DEF g, f
    <3>. QED
      BY <1>1, <2>3, FrameFrom
  <2>5. OnlyAt(t, frame, frame') /\ frame'[t] = g
    <3>. HIDE DEF g
    <3>. QED
      BY <2>2, Shapes DEF OfThreads, OnlyAt
  <2>6. OnlyAt(t, pc, pc') /\ pc'[t] = "search"
    BY <1>1, <2>1, Unchanged, Shapes
  <2>. QED
    <3>. HIDE DEF g
    <3>. QED
      BY <1>1, <1>3, <2>4, <2>5, <2>6, LockFreeStepKeeps DEF ReadsOne, Migrate
<1>4. CASE ReadsOne(t, x.bucket) /\ \E y : /\ frame' = [frame EXCEPT ![t].queue = <<>>, ![t].target = y]
                                           /\ Goto(t, "path")
  <2>1. PICK y : /\ frame' = [frame EXCEPT ![t].queue = <<>>, ![t].target = y]
                 /\ Goto(t, "path")
    BY <1>4
  <2>. DEFINE g == [frame[t] EXCEPT !.queue = <<>>, !.target = y]
  <2>2. frame' = [frame EXCEPT ![t] = g]
    BY <2>1, Shapes DEF OfThreads
  <2>3. g = AFrame(f.hp, f.cont, f.want, <<>>, y, f.path, f.depth, f.cursor)
    BY <1>1, SetTarget
  <2>4. FrameTyped(g)
    <3>. HIDE DEF g, f
    <3>. QED
      BY <1>1, <2>3, FrameFrom
  <2>5. OnlyAt(t, frame, frame') /\ frame'[t] = g
    <3>. HIDE DEF g
    <3>. QED
      BY <2>2, Shapes DEF OfThreads, OnlyAt
  <2>6. OnlyAt(t, pc, pc') /\ pc'[t] = "path"
    BY <2>1, Going
  <2>. QED
    <3>. HIDE DEF g
    <3>. QED
      BY <1>1, <1>4, <2>4, <2>5, <2>6, LockFreeStepKeeps DEF ReadsOne, Migrate
<1>. QED
  <2>1. \/ ExpandedMeanwhile(t, x.bucket)
        \/ /\ ReadsOne(t, x.bucket)
           /\ \/ \E q : frame' = [frame EXCEPT ![t].queue = q] /\ pc' = pc
              \/ \E y : /\ frame' = [frame EXCEPT ![t].queue = <<>>, ![t].target = y]
                        /\ Goto(t, "path")
    BY DEF Search
  <2>. QED
    BY <1>2, <1>3, <1>4, <2>1

-----------------------------------------------------------------------------
(* Moving along the path *)

(* A path can be extended. *)
LEMMA Longer ==
  ASSUME NEW S, NEW p \in Seq(S), NEW r
  PROVE  Len(p) \in Nat /\ Append(p, r) \in Seq(S \cup {r})
<1>1. p \in Seq(S \cup {r})
  OBVIOUS
<1>. QED
  BY <1>1

(* The frame with which a move begins. *)
LEMMA MoveFrameTyped ==
  ASSUME NEW t, FrameTyped(frame[t]), NEW S, NEW path \in Seq(S), NEW d \in Nat
  PROVE  /\ FrameTyped(MoveFrame(t, path, d))
         /\ MoveFrame(t, path, d).hp = frame[t].hp
         /\ MoveFrame(t, path, d).want = MoveLocks(t, path, d)
         /\ MoveFrame(t, path, d).depth = d
<1>. DEFINE f == frame[t]
<1>1. MoveFrame(t, path, d)
        = AFrame(f.hp, f.cont, MoveLocks(t, path, d), f.queue, f.target, path, d, f.cursor)
  BY SetMove DEF MoveFrame
<1>2. d \in Int /\ d >= -1
  OBVIOUS
<1>. HIDE DEF f
<1>3. FrameTyped(MoveFrame(t, path, d))
  BY <1>1, <1>2, AFrameTyped
<1>. QED
  BY <1>1, <1>3 DEF AFrame, f

(* The last two positions of a path are moved under the key's own locks. *)
LEMMA MoveLocksOwn ==
  ASSUME NEW t, NEW path, NEW d \in {0, 1}
  PROVE  OwnLocks(t) \subseteq MoveLocks(t, path, d)
  BY DEF OwnLocks, MoveLocks, LocksOf

(* The thread goes on to take the locks of the move at position d. *)
LEMMA NextMoveKeeps ==
  ASSUME IInv, NEW t \in Threads, NEW S, NEW path \in Seq(S), NEW d \in Nat,
         frame' = [frame EXCEPT ![t] = MoveFrame(t, path, d)],
         Goto(t, "get_locks"), Continue, hashpower' = hashpower,
         OneContainer', Held(t, 1)' = {},
         \A u \in Threads \ {t} : Held(u, 1)' = Held(u, 1)
  PROVE  IInv'
<1>. DEFINE g == MoveFrame(t, path, d)
<1>1. /\ FrameTyped(g) /\ g.hp = frame[t].hp /\ g.depth = d
      /\ g.want = MoveLocks(t, path, d)
  BY MoveFrameTyped DEF IInv, Typed
<1>2. OnlyAt(t, frame, frame') /\ frame'[t] = g
  <2>. HIDE DEF g
  <2>. QED
    BY Shapes DEF OfThreads, OnlyAt, g
<1>3. /\ OnlyAt(t, pc, pc') /\ pc'[t] = "get_locks"
      /\ OnlyAt(t, call, call') /\ call'[t] = call[t]
  BY Going, Continuing
<1>4. OwnLocks(t)' = OwnLocks(t)
  BY <1>1, <1>2, <1>3 DEF OwnLocks, At1, At2
<1>5. d \in {0, 1} => OwnLocks(t)' \subseteq g.want
  BY <1>1, <1>4, MoveLocksOwn
<1>6. ThreadInv(t)'
  <2>. HIDE DEF g
  <2>. QED
    BY <1>1, <1>2, <1>3, <1>5
       DEF ThreadInv, HoldsNothing, HoldsEverything, WantsOwn, SameHashpower, HoldsOwn
<1>. QED
  <2>. HIDE DEF g
  <2>. QED
    BY <1>1, <1>2, <1>3, <1>6, StepOf

(* The path is recorded; at its end the first move begins. *)
LEMMA PathKeeps ==
  ASSUME IInv, NEW t \in Threads, Path(t)
  PROVE  IInv'
<1>. DEFINE f      == frame[t]
            i      == Len(f.path)
            bucket == NextBucket(f, At1(t), At2(t))
            slot   == PathSlot(f.target, i)
            here   == buckets'[bucket][slot]
            r      == [bucket |-> bucket, slot |-> slot,
                       hash |-> IF here = Vacant THEN NoHash ELSE Hash[here.key]]
            path   == Append(f.path, r)
<1>1. FrameTyped(f) /\ pc[t] = "path"
  BY DEF IInv, Typed, Path
<1>2. PICK S : f.path \in Seq(S)
  BY <1>1 DEF FrameTyped
<1>3. i \in Nat /\ path \in Seq(S \cup {r})
  <2>. HIDE DEF f, r
  <2>. QED
    BY <1>2, Longer
<1>4. Held(t, 1) = {}
  BY <1>1 DEF IInv, ThreadInv, HoldsNothing
<1>5. \/ ExpandedMeanwhile(t, bucket)
      \/ /\ ReadsOne(t, bucket)
         /\ \/ /\ frame' = [frame EXCEPT ![t] = MoveFrame(t, path, i)]
               /\ Goto(t, "get_locks")
            \/ frame' = [frame EXCEPT ![t].path = path] /\ pc' = pc
  BY Zenon DEF Path
<1>6. CASE ExpandedMeanwhile(t, bucket)
  BY <1>1, <1>6, ExpandedMeanwhileKeeps
<1>7. CASE /\ ReadsOne(t, bucket)
           /\ frame' = [frame EXCEPT ![t] = MoveFrame(t, path, i)]
           /\ Goto(t, "get_locks")
  <2>1. /\ Continue /\ hashpower' = hashpower /\ OneContainer'
        /\ \A u \in Threads : Held(u, 1)' = Held(u, 1)
    BY <1>7, SameLocks DEF ReadsOne, Migrate
  <2>. HIDE DEF i, path, r
  <2>. QED
    BY <1>3, <1>4, <1>7, <2>1, NextMoveKeeps
<1>8. CASE ReadsOne(t, bucket) /\ frame' = [frame EXCEPT ![t].path = path] /\ pc' = pc
  <2>. DEFINE g == [frame[t] EXCEPT !.path = path]
  <2>1. frame' = [frame EXCEPT ![t] = g]
    <3>. HIDE DEF path
    <3>. QED
      BY <1>8, Shapes DEF OfThreads
  <2>2. g = AFrame(f.hp, f.cont, f.want, f.queue, f.target, path, f.depth, f.cursor)
    <3>. HIDE DEF path
    <3>. QED
      BY <1>1, SetPath
  <2>3. f.depth \in Int /\ f.depth >= -1
    BY <1>1 DEF FrameTyped
  <2>4. FrameTyped(g)
    <3>. HIDE DEF g, f, path, r
    <3>. QED
      BY <1>3, <2>2, <2>3, AFrameTyped
  <2>5. OnlyAt(t, frame, frame') /\ frame'[t] = g
    <3>. HIDE DEF g
    <3>. QED
      BY <2>1, Shapes DEF OfThreads, OnlyAt
  <2>6. OnlyAt(t, pc, pc') /\ pc'[t] = "path"
    BY <1>1, <1>8, Unchanged, Shapes
  <2>. QED
    <3>. HIDE DEF g
    <3>. QED
      BY <1>1, <1>8, <2>4, <2>5, <2>6, LockFreeStepKeeps DEF ReadsOne, Migrate
<1>. QED
  BY <1>5, <1>6, <1>7, <1>8

(* A move: the last one keeps the locks of the own buckets. *)
LEMMA MoveKeeps ==
  ASSUME IInv, NEW t \in Threads, Move(t)
  PROVE  IInv'
<1>. DEFINE f == frame[t]
<1>1. /\ FrameTyped(f) /\ pc[t] = "move" /\ f.cont = 1 /\ f.depth # -1
      /\ SameHashpower(t) /\ Held(t, 1) # {}
      /\ f.depth \in {0, 1} => OwnLocks(t) \subseteq Held(t, 1)
  BY DEF IInv, Typed, ThreadInv, HoldsOwn, Move
<1>2. /\ Continue /\ hashpower' = hashpower
      /\ \/ /\ f.depth \in {0, 1}
            /\ locks' = [locks EXCEPT ![f.cont] = [l \in DOMAIN @ |->
                           IF @[l] = t /\ l \notin OwnLocks(t) THEN NoThread ELSE @[l]]]
            /\ frame' = [frame EXCEPT ![t].depth = 0]
            /\ Goto(t, "land")
         \/ /\ f.depth \notin {0, 1}
            /\ locks' = Unlocked(t)
            /\ frame' = [frame EXCEPT ![t] = MoveFrame(t, f.path, f.depth - 1)]
            /\ Goto(t, "get_locks")
  BY Zenon DEF Move, Kept, OwnLocks
<1>3. CASE f.depth \in {0, 1}
  <2>. DEFINE g == [frame[t] EXCEPT !.depth = 0]
  <2>1. locks' = [locks EXCEPT ![1] = [l \in DOMAIN @ |->
                    IF @[l] = t /\ l \notin OwnLocks(t) THEN NoThread ELSE @[l]]]
    BY <1>1, <1>2, <1>3
  <2>2. /\ OneContainer' /\ Held(t, 1)' = Held(t, 1) \cap OwnLocks(t)
        /\ \A u \in Threads \ {t} : Held(u, 1)' = Held(u, 1)
    BY <2>1, Keeping, Shapes
  <2>3. Held(t, 1)' = OwnLocks(t) /\ OwnLocks(t) # {}
    BY <1>1, <1>3, <2>2 DEF OwnLocks
  <2>4. frame' = [frame EXCEPT ![t] = g]
    BY <1>2, <1>3, Shapes DEF OfThreads
  <2>5. g = AFrame(f.hp, f.cont, f.want, f.queue, f.target, f.path, 0, f.cursor)
    BY <1>1, SetDepth
  <2>6. FrameTyped(g) /\ g.hp = f.hp /\ g.cont = 1
    <3>1. PICK S : f.path \in Seq(S)
      BY <1>1 DEF FrameTyped
    <3>2. 0 \in Int /\ 0 >= -1
      OBVIOUS
    <3>. HIDE DEF g, f
    <3>3. FrameTyped(g)
      BY <2>5, <3>1, <3>2, AFrameTyped
    <3>. QED
      BY <1>1, <2>5, <3>3 DEF AFrame
  <2>7. OnlyAt(t, frame, frame') /\ frame'[t] = g
    <3>. HIDE DEF g
    <3>. QED
      BY <2>4, Shapes DEF OfThreads, OnlyAt
  <2>8. /\ OnlyAt(t, pc, pc') /\ pc'[t] = "land"
        /\ OnlyAt(t, call, call') /\ call'[t] = call[t]
    BY <1>2, <1>3, Going, Continuing
  <2>9. OwnLocks(t)' = OwnLocks(t)
    BY <2>6, <2>7, <2>8 DEF OwnLocks, At1, At2
  <2>10. f.hp = hashpower
    BY <1>1 DEF SameHashpower
  <2>11. ThreadInv(t)'
    <3>. HIDE DEF g
    <3>. QED
      BY <1>2, <2>3, <2>6, <2>7, <2>8, <2>9, <2>10
         DEF ThreadInv, HoldsNothing, HoldsEverything, WantsOwn, SameHashpower, HoldsOwn
  <2>. QED
    <3>. HIDE DEF g
    <3>. QED
      BY <1>2, <2>2, <2>6, <2>7, <2>8, <2>11, StepOf
<1>4. CASE f.depth \notin {0, 1}
  <2>1. f.depth - 1 \in Nat /\ \E S : f.path \in Seq(S)
    BY <1>1, <1>4 DEF FrameTyped
  <2>2. /\ OneContainer' /\ Held(t, 1)' = {}
        /\ \A u \in Threads \ {t} : Held(u, 1)' = Held(u, 1)
    BY <1>2, <1>4, Unlocking, Shapes
  <2>. QED
    BY <1>2, <1>4, <2>1, <2>2, NextMoveKeeps
<1>. QED
  BY <1>3, <1>4

-----------------------------------------------------------------------------
(* With every lock *)

(* A step of a thread that holds every lock and keeps them. *)
LEMMA AllLocksKeeps ==
  ASSUME IInv, NEW t \in Threads, Held(t, 1) = LockIds, locks' = locks,
         OnlyAt(t, pc, pc'), OnlyAt(t, call, call'), OnlyAt(t, frame, frame'),
         FrameTyped(frame[t])',
         pc'[t] \in {"swap", "install", "table"}
  PROVE  IInv'
<1>1. OneContainer' /\ \A u \in Threads : Held(u, 1)' = Held(u, 1)
  BY SameLocks
<1>2. ThreadInv(t)'
  BY <1>1 DEF ThreadInv, HoldsNothing, HoldsEverything, WantsOwn, SameHashpower, HoldsOwn
<1>. QED
  BY <1>1, <1>2, StepOf

(* A step that leaves the frames alone. *)
LEMMA SameFrame ==
  ASSUME IInv, NEW t \in Threads, frame' = frame
  PROVE  OnlyAt(t, frame, frame') /\ FrameTyped(frame[t])'
  BY Unchanged, Shapes DEF IInv, Typed

(* No container of locks is ever added to one with all of them. *)
LEMMA NoNewLocks ==
  ASSUME IInv, NEW hp, NEW holder
  PROVE  /\ ResizedLocks(locks, hp, holder) = locks
         /\ ~ MoreLocks(locks, hp)
  BY NoMoreLocks, Shapes DEF OneContainer

(* The steps that keep every lock. *)
LEMMA DoubleKeeps ==
  ASSUME IInv, NEW t \in Threads, Double(t) \/ Swap(t) \/ TakeTable(t)
  PROVE  IInv'
<1>1. Held(t, 1) = LockIds /\ locks' = locks
  BY NoNewLocks
     DEF IInv, ThreadInv, HoldsEverything, Double, Swap, TakeTable, lockVars
<1>2. PICK label \in {"swap", "install", "table"} : Goto(t, label)
  BY DEF Double, Swap, TakeTable
<1>3. OnlyAt(t, pc, pc') /\ pc'[t] = label
  BY <1>2, Going
<1>4. OnlyAt(t, call, call')
  BY Continuing DEF Double, Swap, TakeTable
<1>5. OnlyAt(t, frame, frame') /\ FrameTyped(frame[t])'
  BY SameFrame DEF Double, Swap, TakeTable
<1>. QED
  BY <1>1, <1>3, <1>4, <1>5, AllLocksKeeps

(* The steps that give every lock back. *)
LEMMA EndWithAllLocksKeeps ==
  ASSUME IInv, NEW t \in Threads,
         DoubleRefused(t) \/ Install(t) \/ ExpandSimple(t) \/ Clear(t) \/ Unlock(t)
  PROVE  IInv'
<1>1. CASE DoubleRefused(t)
  BY <1>1, UnlockReturnKeeps, UnlockStartOverKeeps DEF DoubleRefused, containers
<1>2. CASE Install(t)
  <2>1. Held(t, 1) = LockIds
    BY <1>2 DEF IInv, ThreadInv, HoldsEverything, Install
  <2>2. StartOver(t) /\ locks' = Unlocked(t)
    BY <1>2 DEF Install
  <2>. QED
    BY <2>1, <2>2, UnlockStartOverKeeps
<1>3. CASE ExpandSimple(t)
  <2>1. Held(t, 1) = LockIds
    BY <1>3 DEF IInv, ThreadInv, HoldsEverything, ExpandSimple
  <2>2. \E r : Return(t, r)
    BY <1>3 DEF ExpandSimple
  <2>3. locks' = Unlocked(t)
    <3>1. \/ locks' = Unlocked(t)
          \/ \E hp : locks' = ResizedLocks(Unlocked(t), hp, NoThread)
      BY <1>3 DEF ExpandSimple, Rebuild
    <3>2. \A hp : ResizedLocks(Unlocked(t), hp, NoThread) = Unlocked(t)
      BY Unlocking, NoMoreLocks, Shapes
    <3>. QED
      BY <3>1, <3>2
  <2>. QED
    BY <2>1, <2>2, <2>3, UnlockReturnKeeps
<1>4. CASE Clear(t)
  BY <1>4, UnlockReturnKeeps DEF Clear, Emptied
<1>5. CASE Unlock(t)
  BY <1>5, UnlockReturnKeeps DEF Unlock, containers
<1>. QED
  BY <1>1, <1>2, <1>3, <1>4, <1>5

(* A resize without a lock, or before it takes them all. *)
LEMMA RehashKeeps ==
  ASSUME IInv, NEW t \in Threads, Rehash(t)
  PROVE  IInv'
<1>1. Held(t, 1) = {} /\ pc[t] = "rehash"
  BY DEF IInv, ThreadInv, HoldsNothing, Rehash
<1>2. /\ OneContainer' /\ \A u \in Threads : Held(u, 1)' = Held(u, 1)
      /\ hashpower' = hashpower
  BY SameLocks DEF Rehash, lockVars, containers
<1>3. CASE Return(t, "no")
  BY <1>1, <1>2, <1>3, ReturnKeeps
<1>4. CASE Goto(t, "lock_all") /\ Continue /\ frame' = frame
  <2>1. OnlyAt(t, pc, pc') /\ pc'[t] = "lock_all" /\ OnlyAt(t, call, call')
    BY <1>4, Going, Continuing
  <2>2. OnlyAt(t, frame, frame') /\ FrameTyped(frame[t])'
    BY <1>4, SameFrame
  <2>3. ThreadInv(t)'
    BY <1>1, <1>2, <2>1
       DEF ThreadInv, HoldsNothing, HoldsEverything, WantsOwn, SameHashpower, HoldsOwn
  <2>. QED
    BY <1>2, <2>1, <2>2, <2>3, StepOf
<1>. QED
  BY <1>3, <1>4 DEF Rehash

-----------------------------------------------------------------------------
(* The owner of the table *)

(* What the owner of the table does keeps every lock. *)
LEMMA SessionKeeps ==
  ASSUME IInv, NEW t \in Threads, Session(t)
  PROVE  IInv'
<1>1. pc[t] = "table" /\ pc' = pc /\ call' = call
  BY DEF Session, TableFind, TableInsert, TableErase, TableClear, TableResize,
         Begin, Forward, Back, EraseAt, Modifies, Moves
<1>2. Held(t, 1) = LockIds
  BY <1>1 DEF IInv, ThreadInv, HoldsEverything
<1>3. locks' = locks
  <2>1. CASE TableInsert(t)
    BY <2>1, NoNewLocks DEF TableInsert, GrownLocks, lockVars
  <2>2. CASE TableResize(t)
    BY <2>2, NoNewLocks DEF TableResize, Rebuild, lockVars
  <2>3. CASE TableFind(t) \/ TableErase(t) \/ TableClear(t) \/ Begin(t)
             \/ Forward(t) \/ Back(t) \/ EraseAt(t)
    BY <2>3 DEF TableFind, TableErase, TableClear, Begin, Forward, Back, EraseAt,
                Moves, DelFromBucket, lockVars
  <2>. QED
    BY <2>1, <2>2, <2>3 DEF Session
<1>4. frame' = frame \/ \E to : SetCursor(t, to)
  BY Zenon DEF Session, TableFind, TableInsert, TableErase, TableClear, TableResize,
               Begin, Forward, Back, EraseAt
<1>5. OnlyAt(t, frame, frame') /\ FrameTyped(frame[t])'
  <2>1. CASE frame' = frame
    BY <2>1, SameFrame
  <2>2. ASSUME NEW to, SetCursor(t, to)
        PROVE  OnlyAt(t, frame, frame') /\ FrameTyped(frame[t])'
    <3>. DEFINE f == frame[t]
                g == [frame[t] EXCEPT !.cursor = to]
    <3>1. FrameTyped(f)
      BY DEF IInv, Typed
    <3>2. frame' = [frame EXCEPT ![t] = g]
      BY <2>2, Shapes DEF SetCursor, OfThreads
    <3>3. g = AFrame(f.hp, f.cont, f.want, f.queue, f.target, f.path, f.depth, to)
      BY <3>1, SetCursorOf
    <3>4. FrameTyped(g)
      <4>. HIDE DEF g, f
      <4>. QED
        BY <3>1, <3>3, FrameFrom
    <3>5. OnlyAt(t, frame, frame') /\ frame'[t] = g
      <4>. HIDE DEF g
      <4>. QED
        BY <3>2, Shapes DEF OfThreads, OnlyAt
    <3>. HIDE DEF g
    <3>. QED
      BY <3>4, <3>5
  <2>. QED
    BY <1>4, <2>1, <2>2
<1>6. OnlyAt(t, pc, pc') /\ pc'[t] = "table" /\ OnlyAt(t, call, call')
  BY <1>1, Unchanged, Shapes
<1>. QED
  BY <1>2, <1>3, <1>5, <1>6, AllLocksKeeps

-----------------------------------------------------------------------------
(* The theorems *)

(* The invariant holds initially. *)
LEMMA InitIInv ==
  ASSUME StartsWithAllLocks, Init
  PROVE  IInv
<1>1. PICK hp : /\ NumLocks(hp) = kMaxNumLocks
                /\ locks = <<[l \in 0 .. NumLocks(hp) - 1 |-> NoThread]>>
  BY DEF Init, StartsWithAllLocks
<1>2. OneContainer
  BY <1>1 DEF OneContainer, LockIds
<1>3. /\ pc = [t \in Threads |-> "idle"]
      /\ frame = [t \in Threads |-> EmptyFrame]
      /\ call = [t \in Threads |-> NoCall]
  BY DEF Init
<1>4. Typed
  BY <1>2, <1>3, EmptyFrameTyped DEF Typed, OfThreads
<1>5. \A u \in Threads : Held(u, 1) = {}
  BY <1>1, NoThreadAssumption DEF Held
<1>6. ASSUME NEW u \in Threads
      PROVE  ThreadInv(u)
  BY <1>3, <1>5, EmptyFrameTyped
     DEF ThreadInv, HoldsNothing, HoldsEverything, WantsOwn, SameHashpower, HoldsOwn
<1>. QED
  BY <1>4, <1>6 DEF IInv

(* A step of the table, or a resize that throws, which changes nothing     *)
(* that the model goes on with.                                            *)
LEMMA TableSteps == [TableNext]_<<vars, lost>> => [TableStep]_vars
  BY DEF TableNext, RebuildThrows

(* Every step keeps the invariant. *)
LEMMA StepIInv == IInv /\ [TableStep]_vars => IInv'
<1>. SUFFICES ASSUME IInv, [TableStep]_vars
              PROVE  IInv'
  OBVIOUS
<1>1. ASSUME NEW t \in Threads, TakeLocks(t)
      PROVE  IInv'
  BY <1>1, SnapshotKeeps, GetLocksKeeps, HashpowerChangedKeeps, LockKeeps,
     StartLockAllKeeps, LockEachKeeps DEF TakeLocks
<1>2. ASSUME NEW t \in Threads, Operate(t)
      PROVE  IInv'
  BY <1>2, OperationKeeps, RunCuckooKeeps, SearchKeeps, TableFullKeeps, PathKeeps,
     MoveKeeps DEF Operate
<1>3. ASSUME NEW t \in Threads, Resize(t)
      PROVE  IInv'
  BY <1>3, DoubleKeeps, EndWithAllLocksKeeps, RehashKeeps DEF Resize
<1>4. CASE UNCHANGED vars
  <2>1. Typed'
    BY <1>4 DEF vars, lockVars, threadVars, IInv, Typed, OneContainer, OfThreads
  <2>2. ASSUME NEW u \in Threads
        PROVE  ThreadInv(u)'
    <3>1. ThreadInv(u)
      BY DEF IInv
    <3>. QED
      BY <1>4, <3>1
         DEF vars, containers, lockVars, threadVars, ThreadInv, HoldsNothing,
             HoldsEverything, WantsOwn, SameHashpower, HoldsOwn, Held, OwnLocks,
             At1, At2
  <2>. QED
    BY <2>1, <2>2 DEF IInv
<1>. QED
  BY <1>1, <1>2, <1>3, <1>4, InvokeKeeps, EndWithAllLocksKeeps, SessionKeeps
     DEF TableStep, Next, Proceed

(* The invariant implies LocksStayCorrect. *)
LEMMA IInvLocksStayCorrect == IInv => LocksStayCorrect
<1>. SUFFICES ASSUME IInv, NEW t \in Threads, pc[t] \in {"body", "move", "land"}
              PROVE  /\ frame[t].hp = hashpower
                     /\ frame[t].cont = current
                     /\ pc[t] # "move" \/ frame[t].depth \in {0, 1} =>
                          {lock_ind(At1(t)), lock_ind(At2(t))} \subseteq Held(t, current)
  BY DEF LocksStayCorrect
<1>1. current = 1
  BY Shapes DEF OneContainer, current
<1>2. SameHashpower(t) /\ HoldsOwn(t)
  BY DEF IInv, ThreadInv
<1>3. frame[t].hp = hashpower /\ frame[t].cont = 1
  BY <1>2 DEF SameHashpower, HoldsOwn
<1>4. pc[t] # "move" \/ frame[t].depth \in {0, 1} => OwnLocks(t) \subseteq Held(t, 1)
  BY <1>2 DEF HoldsOwn
<1>. QED
  BY <1>1, <1>3, <1>4 DEF OwnLocks

(* What snapshot_and_lock_two promises (cuckoohash_map.hh:1047): in a table that
   starts with kMaxNumLocks locks, as the server's does, a thread that works on
   the buckets of a key holds their current locks. *)
THEOREM LocksCorrect == StartsWithAllLocks => (TableSpec => []LocksStayCorrect)
<1>. SUFFICES ASSUME StartsWithAllLocks
              PROVE  TableSpec => []LocksStayCorrect
  OBVIOUS
<1>1. Init => IInv
  BY InitIInv
<1>. QED
  BY <1>1, TableSteps, StepIInv, IInvLocksStayCorrect, PTL DEF TableSpec, TableInit

-----------------------------------------------------------------------------
(* The locks of the buckets in a larger table *)

(* Sizes multiply. *)
LEMMA SizeProduct ==
  ASSUME NEW n \in Nat, NEW d \in Nat
  PROVE  hashsize(n + d) = hashsize(n) * hashsize(d)
<1>. DEFINE N == {e \in Nat : hashsize(n + e) = hashsize(n) * hashsize(e)}
<1>. HIDE DEF hashsize
<1>1. 0 \in N
  <2>1. hashsize(0) = 1 /\ hashsize(n) \in Nat /\ n + 0 = n
    BY SizeSteps
  <2>. QED BY <2>1
<1>2. ASSUME NEW e \in Nat, e \in N PROVE e + 1 \in N
  <2>1. /\ hashsize(n + e) = hashsize(n) * hashsize(e)
        /\ n + (e + 1) = (n + e) + 1 /\ n + e \in Nat /\ e + 1 \in Nat
    BY <1>2
  <2>2. /\ hashsize((n + e) + 1) = 2 * hashsize(n + e)
        /\ hashsize(e + 1) = 2 * hashsize(e)
        /\ hashsize(n) \in Nat /\ hashsize(e) \in Nat
    BY <2>1, SizeSteps
  <2>3. \A a, b \in Nat : 2 * (a * b) = a * (2 * b)
    OBVIOUS
  <2>4. 2 * (hashsize(n) * hashsize(e)) = hashsize(n) * (2 * hashsize(e))
    BY <2>2, <2>3
  <2>. QED BY <2>1, <2>2, <2>4
<1>3. \A e \in Nat : e \in N
  <2>. HIDE DEF N
  <2>. QED BY <1>1, <1>2, NatSetInduction
<1>. QED
  BY <1>3

(* The buckets hashsize(hp) apart have the same lock, if there are as many *)
(* buckets as locks.                                                       *)
LEMMA SameLock ==
  ASSUME NEW hp \in Nat, hashsize(hp) >= kMaxNumLocks, NEW i \in Nat
  PROVE  lock_ind(i + hashsize(hp)) = lock_ind(i)
<1>1. PICK n \in Nat : kMaxNumLocks = hashsize(n)
  BY TableAssumption DEF HashBits
<1>. DEFINE m == kMaxNumLocks
<1>2. m \in Nat \ {0}
  BY TableAssumption
<1>3. hp >= n
  <2>. SUFFICES ASSUME hp < n PROVE FALSE
    OBVIOUS
  <2>. DEFINE d == (n - hp) - 1
  <2>1. d \in Nat /\ d + 1 \in Nat /\ n = hp + (d + 1)
    OBVIOUS
  <2>2. /\ hashsize(n) = hashsize(hp) * hashsize(d + 1)
        /\ hashsize(d + 1) = 2 * hashsize(d)
        /\ hashsize(hp) \in Nat \ {0} /\ hashsize(d) \in Nat \ {0}
    <3>. HIDE DEF d
    <3>1. hashsize(hp + (d + 1)) = hashsize(hp) * hashsize(d + 1)
      BY <2>1, SizeProduct
    <3>. QED BY <2>1, <3>1, SizeSteps
  <2>3. \A a, b \in Nat \ {0} : a * (2 * b) > a
    <3>1. ASSUME NEW a \in Nat \ {0}, NEW b \in Nat \ {0} PROVE a * (2 * b) > a
      <4>1. 2 * b >= 2 /\ 2 * b \in Nat
        OBVIOUS
      <4>2. a * (2 * b) >= a * 2
        BY <4>1
      <4>. QED BY <4>2
    <3>. QED BY <3>1
  <2>4. hashsize(n) > hashsize(hp)
    <3>. HIDE DEF d
    <3>. QED BY <2>2, <2>3
  <2>5. hashsize(hp) >= hashsize(n) /\ hashsize(hp) \in Nat /\ hashsize(n) \in Nat
    BY <1>1, SizeSteps
  <2>. QED BY <2>4, <2>5
<1>. DEFINE q == hashsize(hp - n)
            k == i \div m
            r == i % m
<1>4. q \in Nat /\ hashsize(hp) = m * q
  <2>1. hp - n \in Nat /\ n + (hp - n) = hp
    BY <1>3
  <2>2. hashsize(n + (hp - n)) = hashsize(n) * hashsize(hp - n)
    BY <2>1, SizeProduct
  <2>. QED BY <1>1, <2>1, <2>2, SizeSteps
<1>5. k \in Nat /\ r \in Nat /\ r < m /\ i = k * m + r
  BY <1>2, Division
<1>. HIDE DEF q, k, m
<1>6. i + m * q = (k + q) * m + r /\ k + q \in Nat
  <2>. HIDE DEF r
  <2>. QED BY <1>2, <1>4, <1>5
<1>7. (i + m * q) % m = r
  <2>. DEFINE a == i + m * q
              kq == k + q
  <2>1. a = kq * m + r /\ kq \in Nat
    BY <1>6
  <2>. HIDE DEF a, kq, r
  <2>2. a % m = r
    BY <1>2, <1>5, <2>1, Remainder
  <2>. QED BY <2>2 DEF a
<1>. QED
  BY <1>4, <1>7 DEF lock_ind, m

(* Locks have the indexes of LockIds. *)
LEMMA LockIndex ==
  \A i \in Nat : lock_ind(i) \in LockIds
<1>. SUFFICES ASSUME NEW i \in Nat PROVE lock_ind(i) \in LockIds
  OBVIOUS
<1>1. kMaxNumLocks \in Nat \ {0}
  BY TableAssumption
<1>2. i % kMaxNumLocks \in Nat /\ i % kMaxNumLocks < kMaxNumLocks
  BY <1>1, Division
<1>. QED
  BY <1>1, <1>2 DEF lock_ind, LockIds

-----------------------------------------------------------------------------
(* The table with its old container *)

Unmigrated(flags) == {l \in LockIds : ~ flags[l]}

(* The buckets of the old container whose elements count. *)
Live(rest, flags) == {i \in DOMAIN rest : ~ flags[lock_ind(i)]}

(* The containers, hashpowers, marks and number of locks not yet rehashed: *)
(* every element is at home in its container, no key is in two cells, and  *)
(* the old container is there exactly for the locks not rehashed.          *)
TableOK(data, hp, rest, ohp, flags, n) ==
  /\ GoodTable(hp, data)
  /\ ohp \in Nat
  /\ flags \in [LockIds -> BOOLEAN]
  /\ n = Cardinality(Unmigrated(flags))
  /\ Unmigrated(flags) = {} => rest = NoOld
  /\ Unmigrated(flags) # {} => /\ GoodTable(ohp, rest)
                               /\ hp = ohp + 1
                               /\ hashsize(ohp) >= kMaxNumLocks
  /\ Apart(data, rest, Live(rest, flags))

(* Between the swap and the new container the elements are in old alone. *)
SwappedOK(data, hp, rest, ohp, flags, n) ==
  /\ data = NoOld
  /\ hp \in Nat
  /\ flags \in [LockIds -> BOOLEAN]
  /\ Unmigrated(flags) = {}
  /\ n = 0
  /\ LoneTable(ohp, rest)

(* The locks and marks are finitely many. *)
LEMMA LocksFinite ==
  /\ IsFiniteSet(LockIds) /\ Cardinality(LockIds) = kMaxNumLocks /\ LockIds # {}
  /\ \A flags : IsFiniteSet(Unmigrated(flags)) /\ Cardinality(Unmigrated(flags)) \in Nat
<1>1. IsFiniteSet(LockIds) /\ Cardinality(LockIds) = kMaxNumLocks /\ 0 \in LockIds
  <2>. DEFINE b == kMaxNumLocks - 1
  <2>1. b \in Nat /\ kMaxNumLocks = b + 1 /\ LockIds = 0 .. b
    BY TableAssumption DEF LockIds
  <2>. HIDE DEF b
  <2>2. IsFiniteSet(0 .. b) /\ Cardinality(0 .. b) = b - 0 + 1
    BY <2>1, FS_Interval
  <2>. QED BY <2>1, <2>2
<1>2. \A flags : Unmigrated(flags) \subseteq LockIds
  BY DEF Unmigrated
<1>3. \A flags : IsFiniteSet(Unmigrated(flags))
  BY <1>1, <1>2, FS_Subset
<1>. QED
  BY <1>1, <1>3, FS_CardinalityType

(* Nothing counts in a container without memory, or with all locks rehashed. *)
LEMMA NothingLive ==
  ASSUME NEW rest, NEW flags
  PROVE  /\ Live(NoOld, flags) = {}
         /\ \A ohp : GoodTable(ohp, rest) /\ Unmigrated(flags) = {} => Live(rest, flags) = {}
<1>1. DOMAIN NoOld = {}
  BY DEF NoOld
<1>2. ASSUME NEW ohp, GoodTable(ohp, rest), Unmigrated(flags) = {}
      PROVE  Live(rest, flags) = {}
  <2>1. \A i \in DOMAIN rest : i \in Nat
    BY <1>2, SizeSteps DEF GoodTable, Containers, Buckets
  <2>. QED BY <1>2, <2>1, LockIndex DEF Live, Unmigrated
<1>. QED
  BY <1>1, <1>2 DEF Live

(* A table that is not being rehashed. *)
LEMMA FreshTable ==
  ASSUME NEW hp, NEW data, LoneTable(hp, data), NEW ohp \in Nat,
         NEW flags \in [LockIds -> BOOLEAN], Unmigrated(flags) = {}
  PROVE  TableOK(data, hp, NoOld, ohp, flags, 0)
<1>1. Cardinality(Unmigrated(flags)) = 0
  BY FS_EmptySet
<1>2. Live(NoOld, flags) = {}
  BY NothingLive
<1>. QED
  BY <1>1, <1>2 DEF TableOK, LoneTable, Single

(* The table of a TableOK with all locks rehashed. *)
LEMMA RehashedTable ==
  ASSUME NEW data, NEW hp, NEW rest, NEW ohp, NEW flags, NEW n,
         TableOK(data, hp, rest, ohp, flags, n), Unmigrated(flags) = {}
  PROVE  LoneTable(hp, data) /\ rest = NoOld /\ n = 0
<1>1. rest = NoOld /\ GoodTable(hp, data) /\ Apart(data, rest, Live(rest, flags))
  BY DEF TableOK
<1>2. Live(rest, flags) = {}
  BY <1>1, NothingLive
<1>3. n = 0
  BY FS_EmptySet DEF TableOK
<1>. QED
  BY <1>1, <1>2, <1>3 DEF LoneTable, Single

(* A step that leaves the old container and the marks alone. *)
LEMMA EditedTable ==
  ASSUME NEW data, NEW hp, NEW rest, NEW ohp, NEW flags, NEW n,
         TableOK(data, hp, rest, ohp, flags, n),
         NEW new, GoodTable(hp, new), Apart(new, rest, Live(rest, flags))
  PROVE  TableOK(new, hp, rest, ohp, flags, n)
  BY DEF TableOK

(* No key whose buckets are rehashed is left in the old container. *)
LEMMA NotInOld ==
  ASSUME NEW data, NEW hp, NEW rest, NEW ohp, NEW flags, NEW n,
         TableOK(data, hp, rest, ohp, flags, n), NEW key \in Keys,
         flags[lock_ind(FirstBucket(hp, key))], flags[lock_ind(SecondBucket(hp, key))]
  PROVE  \A j \in Live(rest, flags), r \in Slots : rest[j][r] # Vacant => rest[j][r].key # key
<1>. SUFFICES ASSUME NEW j \in Live(rest, flags), NEW r \in Slots,
                     rest[j][r] # Vacant, rest[j][r].key = key
              PROVE  FALSE
  OBVIOUS
<1>1. j \in DOMAIN rest /\ ~ flags[lock_ind(j)]
  BY DEF Live
<1>2. rest # NoOld
  BY <1>1 DEF NoOld
<1>3. GoodTable(ohp, rest) /\ hp = ohp + 1 /\ hashsize(ohp) >= kMaxNumLocks
  BY <1>2 DEF TableOK
<1>4. j \in Buckets(ohp) /\ ohp \in Nat
  BY <1>1, <1>3 DEF GoodTable, Containers
<1>5. j \in TwoBuckets(ohp, key) /\ j \in Nat
  BY <1>3, <1>4, GoodCell DEF occupied
<1>6. \/ FirstBucket(hp, key) \in {j, j + hashsize(ohp)}
      \/ SecondBucket(hp, key) \in {j, j + hashsize(ohp)}
  BY <1>3, <1>4, <1>5, LargerBuckets DEF TwoBuckets
<1>7. lock_ind(j + hashsize(ohp)) = lock_ind(j)
  BY <1>3, <1>4, <1>5, SameLock
<1>. QED
  BY <1>1, <1>6, <1>7

(* rehash_lock on some locks. *)
LEMMA MigratedTable ==
  ASSUME NEW data, NEW hp, NEW rest, NEW ohp, NEW flags, NEW n,
         TableOK(data, hp, rest, ohp, flags, n), NEW ls \in SUBSET LockIds,
         NEW todo, todo = {l \in ls : ~ flags[l]},
         NEW new, new = move_buckets(rest, ohp, data, UNION {BucketsOf(rest, l) : l \in todo}),
         NEW flags2, flags2 = [l \in DOMAIN flags |-> flags[l] \/ l \in ls],
         NEW n2, n2 = n - Cardinality(todo),
         NEW rest2, rest2 = IF todo # {} /\ n2 = 0 THEN NoOld ELSE rest
  PROVE  TableOK(new, hp, rest2, ohp, flags2, n2)
<1>. DEFINE indexes == UNION {BucketsOf(rest, l) : l \in todo}
            un  == Unmigrated(flags)
            un2 == Unmigrated(flags2)
<1>1. /\ GoodTable(hp, data) /\ ohp \in Nat /\ flags \in [LockIds -> BOOLEAN]
      /\ n = Cardinality(un) /\ DOMAIN flags = LockIds
      /\ Apart(data, rest, Live(rest, flags))
  BY DEF TableOK
<1>2. /\ flags2 \in [LockIds -> BOOLEAN] /\ todo \subseteq un /\ un2 = un \ todo
      /\ \A l \in LockIds : flags2[l] = (flags[l] \/ l \in ls)
  BY <1>1 DEF Unmigrated
<1>3. IsFiniteSet(un) /\ IsFiniteSet(todo) /\ IsFiniteSet(un2)
      /\ n2 = Cardinality(un2) /\ n \in Nat /\ n2 \in Nat
  <2>1. IsFiniteSet(un) /\ IsFiniteSet(un2) /\ Cardinality(un) \in Nat /\ Cardinality(un2) \in Nat
    BY LocksFinite
  <2>2. IsFiniteSet(todo)
    BY <1>2, <2>1, FS_Subset
  <2>3. Cardinality(todo) \in Nat
    BY <2>2, FS_CardinalityType
  <2>4. Cardinality(un) = Cardinality(un2) + Cardinality(todo)
    <3>. HIDE DEF un, un2
    <3>1. un = un2 \cup todo /\ un2 \cap todo = {}
      BY <1>2
    <3>2. Cardinality(un2 \cup todo)
            = Cardinality(un2) + Cardinality(todo) - Cardinality(un2 \cap todo)
      BY <2>1, <2>2, FS_Union
    <3>3. Cardinality(un2 \cap todo) = 0
      BY <3>1, FS_EmptySet
    <3>. QED BY <2>1, <2>3, <3>1, <3>2, <3>3
  <2>. HIDE DEF un, un2
  <2>. QED BY <1>1, <2>1, <2>2, <2>3, <2>4
<1>4. CASE todo = {}
  <2>1. indexes = {}
    BY <1>4
  <2>2. new = data
    <3>. HIDE DEF indexes
    <3>1. new = move_buckets(rest, ohp, data, indexes)
      BY DEF indexes
    <3>. QED BY <1>1, <2>1, <3>1 DEF move_buckets, GoodTable, Containers
  <2>3. rest2 = rest /\ flags2 = flags
    <3>1. \A l \in LockIds : flags2[l] = flags[l]
      BY <1>1, <1>2, <1>4
    <3>. QED BY <1>1, <1>2, <1>4, <3>1
  <2>4. n2 = n
    BY <1>1, <1>3, <2>3
  <2>. QED BY <2>2, <2>3, <2>4
<1>5. CASE todo # {}
  <2>1. un # {}
    BY <1>2, <1>5
  <2>2. GoodTable(ohp, rest) /\ hp = ohp + 1 /\ hashsize(ohp) >= kMaxNumLocks
    BY <2>1 DEF TableOK
  <2>3. new = move_buckets(rest, ohp, data, indexes)
    OBVIOUS
  <2>4. \A i \in DOMAIN rest : i \in Nat /\ lock_ind(i) \in LockIds
    BY <2>2, SizeSteps, LockIndex DEF GoodTable, Containers, Buckets
  <2>5. /\ indexes = {i \in DOMAIN rest : lock_ind(i) \in todo}
        /\ indexes \subseteq Live(rest, flags)
        /\ Live(rest, flags2) = Live(rest, flags) \ indexes
    <3>1. indexes = {i \in DOMAIN rest : lock_ind(i) \in todo}
      BY DEF BucketsOf
    <3>. HIDE DEF indexes, un, un2
    <3>. QED BY <1>1, <1>2, <2>4, <3>1 DEF Live
  <2>. HIDE DEF indexes
  <2>6. GoodTable(hp, new)
    BY <1>1, <2>2, <2>3, MoveBucketsGood
  <2>7. Apart(new, rest, Live(rest, flags2))
    <3>. DEFINE lv == Live(rest, flags)
    <3>. HIDE DEF lv
    <3>1. Apart(new, rest, lv \ indexes)
      BY <1>1, <2>2, <2>3, <2>5, MoveBucketsApart DEF lv
    <3>. QED BY <2>5, <3>1 DEF lv
  <2>8. CASE n2 = 0
    <3>1. un2 = {}
      <4>. HIDE DEF un2
      <4>. QED BY <1>3, <2>8, FS_EmptySet
    <3>2. rest2 = NoOld
      BY <1>5, <2>8
    <3>3. Live(rest2, flags2) = {} /\ Live(rest, flags2) = {}
      BY <2>2, <3>1, <3>2, NothingLive
    <3>4. Apart(new, rest2, Live(rest2, flags2))
      <4>. DEFINE lv == Live(rest, flags2)
                  lv2 == Live(rest2, flags2)
      <4>1. lv = {} /\ lv2 = {} /\ Apart(new, rest, lv)
        BY <2>7, <3>3
      <4>. HIDE DEF lv, lv2
      <4>2. Apart(new, rest2, lv2)
        BY <4>1, ApartAlone
      <4>. QED BY <4>2 DEF lv2
    <3>. QED BY <1>1, <1>2, <1>3, <2>6, <3>1, <3>2, <3>4 DEF TableOK
  <2>9. CASE n2 # 0
    <3>1. un2 # {}
      BY <1>3, <2>9, FS_EmptySet
    <3>2. rest2 = rest
      BY <2>9
    <3>. QED BY <1>1, <1>2, <1>3, <2>2, <2>6, <2>7, <3>1, <3>2 DEF TableOK
  <2>. QED BY <2>8, <2>9
<1>. QED
  BY <1>4, <1>5

(* All of the old container moved, as AllMigrated does. *)
LEMMA AllMigratedTable ==
  ASSUME NEW data, NEW hp, NEW rest, NEW ohp, NEW flags, NEW n,
         TableOK(data, hp, rest, ohp, flags, n),
         NEW new, new = move_buckets(rest, ohp, data,
                          UNION {BucketsOf(rest, l) : l \in {m \in DOMAIN flags : ~ flags[m]}})
  PROVE  LoneTable(hp, new)
<1>. DEFINE todo == {l \in LockIds : ~ flags[l]}
            flags2 == [l \in DOMAIN flags |-> flags[l] \/ l \in LockIds]
            n2 == n - Cardinality(todo)
            rest2 == IF todo # {} /\ n2 = 0 THEN NoOld ELSE rest
<1>1. DOMAIN flags = LockIds
  BY DEF TableOK
<1>2. new = move_buckets(rest, ohp, data, UNION {BucketsOf(rest, l) : l \in todo})
  BY <1>1
<1>3. TableOK(new, hp, rest2, ohp, flags2, n2)
  BY <1>2, MigratedTable
<1>4. Unmigrated(flags2) = {}
  BY <1>1 DEF Unmigrated
<1>. HIDE DEF rest2, flags2, n2
<1>. QED
  BY <1>3, <1>4, RehashedTable

(* The new container of a doubling, with the elements still in the old one. *)
LEMMA LazyTable ==
  ASSUME NEW ohp, NEW rest, LoneTable(ohp, rest), hashsize(ohp) >= kMaxNumLocks,
         NEW flags, flags = [l \in LockIds |-> FALSE]
  PROVE  TableOK(bucket_container(ohp + 1), ohp + 1, rest, ohp, flags, kMaxNumLocks)
<1>. DEFINE empty == bucket_container(ohp + 1)
<1>1. GoodTable(ohp, rest) /\ Single(rest) /\ ohp \in Nat /\ ohp + 1 \in Nat
      /\ DOMAIN rest = Buckets(ohp)
  BY DEF LoneTable, GoodTable, Containers
<1>2. GoodTable(ohp + 1, empty)
  BY <1>1, EmptyTable
<1>3. \A i \in DOMAIN empty, s \in Slots : empty[i][s] = Vacant
  BY DEF bucket_container, EmptyBucket
<1>4. Unmigrated(flags) = LockIds /\ Cardinality(LockIds) = kMaxNumLocks /\ LockIds # {}
  BY LocksFinite DEF Unmigrated
<1>5. Live(rest, flags) = Buckets(ohp)
  <2>1. \A i \in DOMAIN rest : i \in Nat
    BY <1>1, SizeSteps DEF Buckets
  <2>. QED BY <1>1, <2>1, LockIndex DEF Live
<1>6. Apart(empty, rest, Buckets(ohp))
  <2>. HIDE DEF empty
  <2>. QED BY <1>1, <1>3, ApartBehind
<1>. HIDE DEF empty
<1>7. flags \in [LockIds -> BOOLEAN]
  OBVIOUS
<1>8. TableOK(empty, ohp + 1, rest, ohp, flags, kMaxNumLocks)
  BY <1>1, <1>2, <1>4, <1>5, <1>6, <1>7 DEF TableOK
<1>. QED
  BY <1>8 DEF empty

-----------------------------------------------------------------------------
(* The inductive invariant of the data *)

(* The records of a cuckoo path: each is of the bucket to which the element of *)
(* the one before it can move, the first of a bucket of the key.           *)
PathOK(hp, key, path) ==
  /\ path \in Seq([bucket : Buckets(hp), slot : Slots, hash : Nat \cup {NoHash}])
  /\ Len(path) > 0 => path[1].bucket \in TwoBuckets(hp, key)
  /\ \A n \in 1 .. Len(path) - 1 :
       /\ path[n].hash \in Nat
       /\ path[n + 1].bucket = alt_index(hp, partial_key(path[n].hash), path[n].bucket)

(* What a thread at the label p keeps on the stack of its call c. *)
FrameOK(p, f, c) ==
  /\ f.hp \in Nat
  /\ c \in Calls \cup {NoCall}
  /\ p # "idle" => c \in Calls
  /\ PathOK(f.hp, c.key, f.path)
  /\ p \in {"idle", "snapshot", "search"} => f.path = <<>>
  /\ p = "search" => f.queue \in Seq(Nodes(f.hp))
  /\ p = "path" => /\ f.target \in Nodes(f.hp)
                   /\ Len(f.path) <= f.target.depth
                   /\ f.depth = -1
                   /\ \A n \in 1 .. Len(f.path) : f.path[n].hash \in Nat
  /\ f.depth \in -1 .. MAX_BFS_PATH_LEN - 1
  /\ f.depth >= 0 => f.depth < Len(f.path)
  /\ p = "land" => f.depth = 0
  /\ p \in {"get_locks", "lock"} => f.want \subseteq LockIds

(* What a thread holds while it works on buckets is rehashed, and all the  *)
(* table is between the two parts of a doubling and in a locked table.     *)
Rehashed(u) ==
  /\ pc[u] \in {"body", "move", "land"} => \A l \in Held(u, 1) : is_migrated[l]
  /\ pc[u] \in {"swap", "table"} => Unmigrated(is_migrated) = {}

ThreadData(u) == FrameOK(pc[u], frame[u], call[u]) /\ Rehashed(u)

DataInv ==
  /\ DOMAIN elem_counter = LockIds
  /\ IF Swapped
     THEN SwappedOK(buckets, hashpower, old, old_hashpower, is_migrated, num_remaining)
     ELSE TableOK(buckets, hashpower, old, old_hashpower, is_migrated, num_remaining)

(* The plans of the threads. *)
Planned == left \in [Threads -> [calls : SUBSET Calls, n : Nat]]

DInv == IInv /\ DataInv /\ Planned /\ \A u \in Threads : ThreadData(u)

(* A step of t that keeps it. *)
DataStep(t) ==
  /\ OnlyAt(t, pc, pc') /\ OnlyAt(t, frame, frame') /\ OnlyAt(t, call, call')
  /\ \A u \in Threads \ {t} : Held(u, 1)' = Held(u, 1)
  /\ \/ Held(t, 1) = LockIds
     \/ \A l \in LockIds : is_migrated[l] => is_migrated'[l]
  /\ DataInv'
  /\ ThreadData(t)'

(* The data of the other threads is left alone. *)
LEMMA DataStepKeeps ==
  ASSUME DInv, IInv', Planned', NEW t \in Threads, DataStep(t)
  PROVE  DInv'
<1>1. ASSUME NEW u \in Threads \ {t}
      PROVE  ThreadData(u)'
  <2>1. /\ pc'[u] = pc[u] /\ frame'[u] = frame[u] /\ call'[u] = call[u]
        /\ Held(u, 1)' = Held(u, 1)
    BY DEF DataStep, OnlyAt
  <2>2. ThreadData(u) /\ ThreadInv(u) /\ ThreadInv(t) /\ OneContainer
    BY DEF DInv, IInv, Typed
  <2>3. FrameOK(pc[u], frame[u], call[u])'
    BY <2>1, <2>2 DEF ThreadData
  <2>4. CASE Held(t, 1) = LockIds
    <3>1. Held(u, 1) = {} /\ LockIds # {}
      BY <2>2, <2>4, OneHolder, LocksFinite
    <3>2. pc[u] \notin {"body", "move", "land", "swap", "table"}
      BY <2>2, <3>1 DEF ThreadInv, HoldsOwn, HoldsEverything
    <3>. QED BY <2>1, <2>3, <3>2 DEF ThreadData, Rehashed
  <2>5. CASE \A l \in LockIds : is_migrated[l] => is_migrated'[l]
    <3>1. Held(u, 1) \subseteq LockIds
      BY <2>2, Container DEF Held
    <3>2. Rehashed(u)
      BY <2>2 DEF ThreadData
    <3>. QED BY <2>1, <2>3, <2>5, <3>1, <3>2 DEF ThreadData, Rehashed, Unmigrated
  <2>. QED BY <2>4, <2>5 DEF DataStep
<1>. QED
  BY <1>1 DEF DataStep, DInv

(* The locks a thread holds. *)
LEMMA HeldAre ==
  ASSUME OneContainer, NEW u
  PROVE  Held(u, 1) = {l \in LockIds : locks[1][l] = u}
  BY Container DEF Held

(* Nobody swaps the containers while another thread finds a lock free, or  *)
(* holds one.                                                              *)
LEMMA NotSwapped ==
  ASSUME IInv, NEW t \in Threads, pc[t] # "install",
         Held(t, 1) # {} \/ \E l \in LockIds : locks[1][l] = NoThread
  PROVE  ~ Swapped
<1>. SUFFICES ASSUME NEW u \in Threads, pc[u] = "install"
              PROVE  FALSE
  BY DEF Swapped
<1>1. Held(u, 1) = LockIds /\ OneContainer /\ u # t
  BY DEF IInv, Typed, ThreadInv, HoldsEverything
<1>2. Held(t, 1) = {}
  BY <1>1, OneHolder
<1>3. PICK l \in LockIds : locks[1][l] = NoThread
  BY <1>2
<1>4. l \in Held(u, 1)
  BY <1>1
<1>. QED
  BY <1>1, <1>3, <1>4, HeldAre, NoThreadAssumption

(* Swapped, after a step that neither comes to nor leaves the swap. *)
LEMMA SameSwapped ==
  ASSUME NEW t \in Threads, OnlyAt(t, pc, pc'), pc[t] # "install", pc'[t] # "install"
  PROVE  Swapped' = Swapped
<1>1. \A u \in Threads : pc'[u] = "install" <=> pc[u] = "install"
  BY DEF OnlyAt
<1>. QED
  BY <1>1 DEF Swapped

(* A step that leaves the table and its locks' marks alone. *)
LEMMA SameData ==
  ASSUME DInv, NEW t \in Threads, OnlyAt(t, pc, pc'), pc[t] # "install", pc'[t] # "install",
         UNCHANGED <<containers, is_migrated, num_remaining>>,
         DOMAIN elem_counter' = DOMAIN elem_counter
  PROVE  /\ DataInv'
         /\ \A l \in LockIds : is_migrated[l] => is_migrated'[l]
<1>1. Swapped' = Swapped
  BY SameSwapped
<1>2. /\ buckets' = buckets /\ hashpower' = hashpower /\ old' = old
      /\ old_hashpower' = old_hashpower /\ is_migrated' = is_migrated
      /\ num_remaining' = num_remaining
  BY DEF containers
<1>. QED
  BY <1>1, <1>2 DEF DInv, DataInv

(* A step of a thread that changes the buckets only. *)
LEMMA EditedData ==
  ASSUME DInv, NEW t \in Threads, OnlyAt(t, pc, pc'), ~ Swapped, pc'[t] # "install", Kept,
         DOMAIN elem_counter' = DOMAIN elem_counter,
         GoodTable(hashpower, buckets'), Apart(buckets', old, Live(old, is_migrated))
  PROVE  /\ DataInv'
         /\ \A l \in LockIds : is_migrated[l] => is_migrated'[l]
<1>1. ~ Swapped' /\ pc[t] # "install"
  BY SameSwapped DEF Swapped
<1>2. TableOK(buckets, hashpower, old, old_hashpower, is_migrated, num_remaining)
  BY DEF DInv, DataInv
<1>3. /\ hashpower' = hashpower /\ old' = old /\ old_hashpower' = old_hashpower
      /\ is_migrated' = is_migrated /\ num_remaining' = num_remaining
  BY DEF Kept
<1>4. TableOK(buckets', hashpower, old, old_hashpower, is_migrated, num_remaining)
  BY <1>2, EditedTable
<1>. QED
  BY <1>1, <1>3, <1>4 DEF DInv, DataInv

(* A step that rehashes some locks. *)
LEMMA MigrateData ==
  ASSUME DInv, NEW t \in Threads, OnlyAt(t, pc, pc'), ~ Swapped, pc'[t] # "install",
         elem_counter' = elem_counter, NEW ls \in SUBSET LockIds, Migrate(ls)
  PROVE  /\ DataInv'
         /\ \A l \in LockIds : is_migrated[l] => is_migrated'[l]
         /\ \A l \in ls : is_migrated'[l]
         /\ GoodTable(hashpower', buckets') /\ hashpower' = hashpower
<1>1. ~ Swapped' /\ pc[t] # "install"
  BY SameSwapped DEF Swapped
<1>2. TableOK(buckets, hashpower, old, old_hashpower, is_migrated, num_remaining)
  BY DEF DInv, DataInv
<1>. DEFINE todo == {l \in ls : ~ is_migrated[l]}
<1>3. /\ buckets' = move_buckets(old, old_hashpower, buckets,
                                 UNION {BucketsOf(old, l) : l \in todo})
      /\ is_migrated' = [l \in DOMAIN is_migrated |-> is_migrated[l] \/ l \in ls]
      /\ num_remaining' = num_remaining - Cardinality(todo)
      /\ old' = IF todo # {} /\ num_remaining' = 0 THEN NoOld ELSE old
      /\ hashpower' = hashpower /\ old_hashpower' = old_hashpower
  BY DEF Migrate
<1>4. TableOK(buckets', hashpower, old', old_hashpower, is_migrated', num_remaining')
  BY <1>2, <1>3, MigratedTable
<1>5. DOMAIN is_migrated = LockIds
  BY <1>2 DEF TableOK
<1>. HIDE DEF todo
<1>. QED
  BY <1>1, <1>3, <1>4, <1>5 DEF DInv, DataInv, TableOK

(* A step after which the table is not being rehashed. *)
LEMMA FreshData ==
  ASSUME DInv, NEW t \in Threads, OnlyAt(t, pc, pc'), pc'[t] # "install",
         \A u \in Threads \ {t} : pc[u] # "install",
         LoneTable(hashpower', buckets'), old' = NoOld, old_hashpower' \in Nat,
         num_remaining' = 0, is_migrated' = [l \in LockIds |-> TRUE],
         DOMAIN elem_counter' = LockIds
  PROVE  DataInv'
<1>1. ~ Swapped'
  BY DEF OnlyAt, Swapped
<1>2. is_migrated' \in [LockIds -> BOOLEAN] /\ Unmigrated(is_migrated') = {}
  BY DEF Unmigrated
<1>3. TableOK(buckets', hashpower', NoOld, old_hashpower', is_migrated', 0)
  BY <1>2, FreshTable
<1>. QED
  BY <1>1, <1>3 DEF DataInv

(* The empty frame, between calls and at the start of one. *)
LEMMA EmptyFrameOK ==
  /\ EmptyFrame.hp = 0 /\ EmptyFrame.path = <<>> /\ EmptyFrame.depth = -1
  /\ \A c : c \in Calls \cup {NoCall} => FrameOK("idle", EmptyFrame, c)
  /\ \A c : c \in Calls => FrameOK("snapshot", EmptyFrame, c)
<1>1. EmptyFrame.hp = 0 /\ EmptyFrame.path = <<>> /\ EmptyFrame.depth = -1
  BY DEF EmptyFrame
<1>2. \A key : PathOK(0, key, <<>>)
  BY DEF PathOK
<1>3. MAX_BFS_PATH_LEN \in Nat
  BY TableAssumption
<1>. QED
  BY <1>1, <1>2, <1>3 DEF FrameOK

(* The end of a call. *)
LEMMA EndedData ==
  ASSUME DInv, NEW t \in Threads, Return(t, ret'[t]) \/ \E r : Return(t, r)
  PROVE  /\ OnlyAt(t, pc, pc') /\ OnlyAt(t, frame, frame') /\ OnlyAt(t, call, call')
         /\ pc'[t] = "idle" /\ ThreadData(t)'
<1>1. PICK r : Return(t, r)
  OBVIOUS
<1>2. OnlyAt(t, pc, pc') /\ pc'[t] = "idle"
  BY <1>1, Going DEF Return, DInv
<1>3. OnlyAt(t, call, call') /\ call'[t] = NoCall
  BY <1>1, Shapes DEF Return, OfThreads, OnlyAt, DInv
<1>4. OnlyAt(t, frame, frame') /\ frame'[t] = EmptyFrame
  BY <1>1, Shapes DEF Return, OfThreads, OnlyAt, DInv
<1>5. FrameOK(pc[t], frame[t], call[t])'
  BY <1>2, <1>3, <1>4, EmptyFrameOK
<1>. QED
  BY <1>2, <1>3, <1>4, <1>5 DEF ThreadData, Rehashed

(* A call starts over. *)
LEMMA StartedOverData ==
  ASSUME DInv, NEW t \in Threads, StartOver(t), pc[t] # "idle"
  PROVE  /\ OnlyAt(t, pc, pc') /\ OnlyAt(t, frame, frame') /\ OnlyAt(t, call, call')
         /\ pc'[t] = "snapshot" /\ ThreadData(t)'
<1>1. OnlyAt(t, pc, pc') /\ pc'[t] = "snapshot"
  BY Going DEF StartOver, DInv
<1>2. OnlyAt(t, call, call') /\ call'[t] = call[t]
  BY Continuing DEF StartOver, DInv
<1>3. OnlyAt(t, frame, frame') /\ frame'[t] = EmptyFrame
  BY Shapes DEF StartOver, OfThreads, OnlyAt, DInv
<1>4. call[t] \in Calls
  BY DEF DInv, ThreadData, FrameOK
<1>5. FrameOK(pc[t], frame[t], call[t])'
  BY <1>1, <1>2, <1>3, <1>4, EmptyFrameOK
<1>. QED
  BY <1>1, <1>2, <1>3, <1>5 DEF ThreadData, Rehashed

-----------------------------------------------------------------------------
(* Steps that leave the data alone *)

(* A step of t, with the parts of DataStep that concern the data. *)
LEMMA SameDataStep ==
  ASSUME DInv, NEW t \in Threads, OnlyAt(t, pc, pc'), OnlyAt(t, frame, frame'),
         OnlyAt(t, call, call'), \A u \in Threads \ {t} : Held(u, 1)' = Held(u, 1),
         pc[t] # "install", pc'[t] # "install",
         UNCHANGED <<containers, is_migrated, num_remaining>>,
         DOMAIN elem_counter' = DOMAIN elem_counter, ThreadData(t)'
  PROVE  DataStep(t)
  BY SameData DEF DataStep

(* A call that ends. *)
LEMMA ReturnStep ==
  ASSUME DInv, NEW t \in Threads, NEW r, Return(t, r), locks' = Unlocked(t) \/ locks' = locks,
         DataInv',
         Held(t, 1) = LockIds \/ \A l \in LockIds : is_migrated[l] => is_migrated'[l]
  PROVE  DataStep(t)
<1>1. \A u \in Threads \ {t} : Held(u, 1)' = Held(u, 1)
  BY Unlocking, SameLocks, Shapes DEF DInv
<1>. QED
  BY <1>1, EndedData DEF DataStep

(* A call that starts over. *)
LEMMA StartOverStep ==
  ASSUME DInv, NEW t \in Threads, StartOver(t), locks' = Unlocked(t) \/ locks' = locks,
         pc[t] # "idle", DataInv',
         Held(t, 1) = LockIds \/ \A l \in LockIds : is_migrated[l] => is_migrated'[l]
  PROVE  DataStep(t)
<1>1. \A u \in Threads \ {t} : Held(u, 1)' = Held(u, 1)
  BY Unlocking, SameLocks, Shapes DEF DInv
<1>. QED
  BY <1>1, StartedOverData DEF DataStep

(* A call that ends, or starts over, and has changed nothing. *)
LEMMA SameEnd ==
  ASSUME DInv, NEW t \in Threads, pc[t] # "idle", pc[t] # "install",
         (\E r : Return(t, r)) \/ StartOver(t),
         locks' = Unlocked(t) \/ locks' = locks,
         UNCHANGED <<containers, is_migrated, num_remaining>>,
         DOMAIN elem_counter' = DOMAIN elem_counter
  PROVE  DataStep(t)
<1>1. OnlyAt(t, pc, pc') /\ pc'[t] # "install"
  BY EndedData, StartedOverData
<1>2. DataInv' /\ \A l \in LockIds : is_migrated[l] => is_migrated'[l]
  BY <1>1, SameData
<1>. QED
  BY <1>2, ReturnStep, StartOverStep

(* The frame of a thread is replaced. *)
LEMMA NewFrame ==
  ASSUME DInv, NEW t \in Threads, NEW g, frame' = [frame EXCEPT ![t] = g]
  PROVE  OnlyAt(t, frame, frame') /\ frame'[t] = g
  BY Shapes DEF OfThreads, OnlyAt, DInv

(* The frame of a thread stays as it is. *)
LEMMA OldFrame ==
  ASSUME DInv, NEW t \in Threads, frame' = frame
  PROVE  OnlyAt(t, frame, frame') /\ frame'[t] = frame[t]
  BY Unchanged, Shapes DEF DInv

(* What is known of a thread. *)
LEMMA OfThread ==
  ASSUME DInv, NEW t \in Threads
  PROVE  /\ FrameTyped(frame[t]) /\ FrameOK(pc[t], frame[t], call[t]) /\ Rehashed(t)
         /\ ThreadInv(t) /\ IInv /\ OneContainer
         /\ pc[t] # "idle" => /\ call[t] \in Calls /\ call[t].key \in Keys
                              /\ call[t].val \in Vals /\ call[t].n \in Nat
  BY CallsAssumption DEF DInv, IInv, Typed, ThreadData, FrameOK

(* The hashpower is a number. *)
LEMMA HashpowerNat ==
  ASSUME DInv
  PROVE  hashpower \in Nat /\ is_migrated \in [LockIds -> BOOLEAN]
  BY DEF DInv, DataInv, TableOK, SwappedOK, GoodTable

(* The locks of buckets. *)
LEMMA LocksOfBuckets ==
  ASSUME NEW hp \in Nat, NEW S \in SUBSET Buckets(hp)
  PROVE  LocksOf(S) \subseteq LockIds
<1>1. \A i \in S : i \in Nat
  BY SizeSteps DEF Buckets
<1>. QED
  BY <1>1, LockIndex DEF LocksOf

(* No path is known. *)
LEMMA NoPath == \A hp, key : PathOK(hp, key, <<>>)
  BY DEF PathOK

(* A call begins. *)
LEMMA InvokeData ==
  ASSUME DInv, NEW t \in Threads, Invoke(t)
  PROVE  DataStep(t)
<1>1. PICK c \in left[t].calls :
        /\ call' = [call EXCEPT ![t] = c]
        /\ \E label \in {"lock_all", "rehash", "snapshot"} : Goto(t, label)
  BY DEF Invoke
<1>2. OnlyAt(t, pc, pc') /\ pc'[t] \in {"lock_all", "rehash", "snapshot"} /\ pc[t] = "idle"
  BY <1>1, Going DEF DInv, Invoke
<1>3. OnlyAt(t, call, call') /\ call'[t] = c
  BY <1>1, Shapes DEF OfThreads, OnlyAt, DInv
<1>4. OnlyAt(t, frame, frame') /\ frame'[t] = frame[t]
  BY OldFrame DEF Invoke
<1>5. c \in Calls
  BY DEF DInv, Planned
<1>6. FrameOK("idle", frame[t], call[t])
  BY <1>2, OfThread
<1>7. FrameOK(pc'[t], frame[t], c)
  BY <1>2, <1>5, <1>6, NoPath DEF FrameOK
<1>8. ThreadData(t)'
  BY <1>2, <1>3, <1>4, <1>7 DEF ThreadData, Rehashed
<1>9. \A u \in Threads : Held(u, 1)' = Held(u, 1)
  BY SameLocks DEF Invoke, lockVars, DInv
<1>. QED
  BY <1>2, <1>3, <1>4, <1>8, <1>9, SameDataStep DEF Invoke, lockVars

(* The locks of the key's buckets are wanted. *)
LEMMA SnapshotData ==
  ASSUME DInv, NEW t \in Threads, Snapshot(t)
  PROVE  DataStep(t)
<1>. DEFINE want == LocksOf(TwoBuckets(hashpower, call[t].key))
            g    == [frame[t] EXCEPT !.hp = hashpower, !.want = want]
            f    == frame[t]
<1>1. FrameTyped(f) /\ FrameOK("snapshot", f, call[t]) /\ pc[t] = "snapshot"
      /\ call[t] \in Calls /\ call[t].key \in Keys
  BY OfThread DEF Snapshot
<1>2. frame' = [frame EXCEPT ![t] = g]
  BY Shapes DEF Snapshot, OfThreads, DInv
<1>3. g = AFrame(hashpower, f.cont, want, f.queue, f.target, f.path, f.depth, f.cursor)
  BY <1>1, SetSnapshot
<1>4. want \subseteq LockIds /\ hashpower \in Nat
  BY <1>1, HashpowerNat, KeyBuckets, LocksOfBuckets
<1>5. FrameOK("get_locks", g, call[t])
  <2>. HIDE DEF g, f, want
  <2>. QED
    BY <1>1, <1>3, <1>4, NoPath DEF FrameOK, AFrame
<1>6. /\ OnlyAt(t, pc, pc') /\ pc'[t] = "get_locks"
      /\ OnlyAt(t, call, call') /\ call'[t] = call[t]
  BY Going, Continuing DEF Snapshot, DInv
<1>7. OnlyAt(t, frame, frame') /\ frame'[t] = g
  <2>. HIDE DEF g
  <2>. QED
    BY <1>2, NewFrame
<1>8. ThreadData(t)'
  <2>. HIDE DEF g
  <2>. QED
    BY <1>5, <1>6, <1>7 DEF ThreadData, Rehashed
<1>9. \A u \in Threads : Held(u, 1)' = Held(u, 1)
  BY SameLocks DEF Snapshot, lockVars, DInv
<1>. QED
  <2>. HIDE DEF g, f, want
  <2>. QED
    BY <1>1, <1>6, <1>7, <1>8, <1>9, SameDataStep DEF Snapshot, lockVars

(* The container of locks is chosen. *)
LEMMA GetLocksData ==
  ASSUME DInv, NEW t \in Threads, GetLocks(t)
  PROVE  DataStep(t)
<1>. DEFINE g == [frame[t] EXCEPT !.cont = current]
            f == frame[t]
<1>1. FrameTyped(f) /\ FrameOK("get_locks", f, call[t]) /\ pc[t] = "get_locks"
  BY OfThread DEF GetLocks
<1>2. frame' = [frame EXCEPT ![t] = g]
  BY Shapes DEF GetLocks, OfThreads, DInv
<1>3. g = AFrame(f.hp, current, f.want, f.queue, f.target, f.path, f.depth, f.cursor)
  BY <1>1, SetCont
<1>5. FrameOK("lock", g, call[t])
  <2>. HIDE DEF g, f
  <2>. QED
    BY <1>1, <1>3 DEF FrameOK, AFrame
<1>6. /\ OnlyAt(t, pc, pc') /\ pc'[t] = "lock"
      /\ OnlyAt(t, call, call') /\ call'[t] = call[t]
  BY Going, Continuing DEF GetLocks, DInv
<1>7. OnlyAt(t, frame, frame') /\ frame'[t] = g
  <2>. HIDE DEF g
  <2>. QED
    BY <1>2, NewFrame
<1>8. ThreadData(t)'
  <2>. HIDE DEF g
  <2>. QED
    BY <1>5, <1>6, <1>7 DEF ThreadData, Rehashed
<1>9. \A u \in Threads : Held(u, 1)' = Held(u, 1)
  BY SameLocks DEF GetLocks, lockVars, DInv
<1>. QED
  <2>. HIDE DEF g, f
  <2>. QED
    BY <1>1, <1>6, <1>7, <1>8, <1>9, SameDataStep DEF GetLocks, lockVars

(* The labels at which nothing more is known of a frame. *)
AnyFrame == {"rehash", "lock_all", "lock_each", "body", "move", "double", "swap",
             "install", "expand", "clear", "take_table", "table"}

(* A call goes on with its hashpower, its path and its place in it. *)
LEMMA FramePasses ==
  ASSUME NEW p, p # "idle", NEW f, NEW c, FrameOK(p, f, c), NEW q \in AnyFrame
  PROVE  /\ FrameOK(q, f, c)
         /\ \A cont, want, queue, target, cursr :
              FrameOK(q, AFrame(f.hp, cont, want, queue, target, f.path, f.depth, cursr), c)
  BY DEF FrameOK, AFrame, AnyFrame

(* A call goes on with another frame. *)
LEMMA PassOn ==
  ASSUME DInv, NEW t \in Threads, pc[t] \notin {"idle", "install"},
         OnlyAt(t, pc, pc'), pc'[t] \in AnyFrame \ {"body", "move", "install", "swap", "table"},
         OnlyAt(t, frame, frame'), OnlyAt(t, call, call'), call'[t] = call[t],
         \/ frame'[t] = frame[t]
         \/ \E cont, want, queue, target, cursr :
              frame'[t] = AFrame(frame[t].hp, cont, want, queue, target,
                                 frame[t].path, frame[t].depth, cursr),
         \A u \in Threads \ {t} : Held(u, 1)' = Held(u, 1),
         UNCHANGED <<containers, is_migrated, num_remaining>>,
         DOMAIN elem_counter' = DOMAIN elem_counter
  PROVE  DataStep(t)
<1>1. FrameOK(pc[t], frame[t], call[t])
  BY OfThread
<1>2. FrameOK(pc'[t], frame'[t], call[t])
  BY <1>1, FramePasses
<1>3. ThreadData(t)'
  BY <1>2 DEF ThreadData, Rehashed, AnyFrame
<1>4. pc'[t] # "install" /\ pc[t] # "install"
  OBVIOUS
<1>. QED
  BY <1>3, <1>4, SameDataStep

(* Steps that end a call, or start it over, and change nothing else. *)
LEMMA EndsData ==
  ASSUME DInv, NEW t \in Threads,
         \/ HashpowerChanged(t) \/ Find(t) \/ DoubleRefused(t) \/ Unlock(t)
         \/ (Rehash(t) /\ Return(t, "no"))
         \/ \E i : ExpandedMeanwhile(t, i) /\ pc[t] \in {"search", "path"}
  PROVE  DataStep(t)
<1>1. /\ pc[t] # "idle" /\ pc[t] # "install"
      /\ (\E r : Return(t, r)) \/ StartOver(t)
      /\ locks' = Unlocked(t) \/ locks' = locks
      /\ UNCHANGED <<containers, is_migrated, num_remaining>>
      /\ elem_counter' = elem_counter
  <2>1. CASE HashpowerChanged(t)
    BY <2>1 DEF HashpowerChanged, lockVars
  <2>2. CASE Find(t)
    BY <2>2 DEF Find, Kept, containers
  <2>3. CASE DoubleRefused(t)
    BY <2>3 DEF DoubleRefused
  <2>4. CASE Unlock(t)
    BY <2>4 DEF Unlock
  <2>5. CASE Rehash(t) /\ Return(t, "no")
    BY <2>5 DEF Rehash, lockVars
  <2>6. CASE \E i : ExpandedMeanwhile(t, i) /\ pc[t] \in {"search", "path"}
    BY <2>6 DEF ExpandedMeanwhile, lockVars
  <2>. QED BY <2>1, <2>2, <2>3, <2>4, <2>5, <2>6
<1>. QED
  BY <1>1, SameEnd

(* On the way to all locks. *)
LEMMA StartLockAllData ==
  ASSUME DInv, NEW t \in Threads, StartLockAll(t)
  PROVE  DataStep(t)
<1>. DEFINE ls == DOMAIN locks[current]
            g  == [frame[t] EXCEPT !.cont = current, !.want = ls]
            f  == frame[t]
<1>1. FrameTyped(f) /\ pc[t] = "lock_all"
  BY OfThread DEF StartLockAll
<1>2. frame' = [frame EXCEPT ![t] = g]
  BY Shapes DEF StartLockAll, OfThreads, DInv
<1>. HIDE DEF ls
<1>3. g = AFrame(f.hp, current, ls, f.queue, f.target, f.path, f.depth, f.cursor)
  BY <1>1, SetContWant
<1>4. OnlyAt(t, frame, frame') /\ frame'[t] = g
  <2>. HIDE DEF g
  <2>. QED
    BY <1>2, NewFrame
<1>5. /\ OnlyAt(t, pc, pc') /\ pc'[t] = "lock_each"
      /\ OnlyAt(t, call, call') /\ call'[t] = call[t]
  BY Going, Continuing DEF StartLockAll, DInv
<1>6. /\ \A u \in Threads : Held(u, 1)' = Held(u, 1)
      /\ UNCHANGED <<containers, is_migrated, num_remaining, elem_counter>>
  BY SameLocks DEF StartLockAll, lockVars, DInv
<1>. QED
  <2>. HIDE DEF g
  <2>. QED
    BY <1>1, <1>3, <1>4, <1>5, <1>6, PassOn DEF AnyFrame

(* The same of the other steps without a new frame. *)
LEMMA PassesData ==
  ASSUME DInv, NEW t \in Threads,
         TableFull(t) \/ (Rehash(t) /\ ~ Return(t, "no"))
  PROVE  DataStep(t)
<1>1. /\ pc[t] \in {"search", "rehash"} /\ Goto(t, "lock_all") /\ Continue /\ frame' = frame
      /\ UNCHANGED <<containers, lockVars>>
  BY DEF TableFull, Rehash
<1>2. /\ OnlyAt(t, pc, pc') /\ pc'[t] = "lock_all"
      /\ OnlyAt(t, call, call') /\ call'[t] = call[t]
  BY <1>1, Going, Continuing DEF DInv
<1>3. OnlyAt(t, frame, frame') /\ frame'[t] = frame[t]
  BY <1>1, OldFrame
<1>4. \A u \in Threads : Held(u, 1)' = Held(u, 1)
  BY <1>1, SameLocks DEF lockVars, DInv
<1>. QED
  BY <1>1, <1>2, <1>3, <1>4, PassOn DEF AnyFrame, lockVars

(* One of all locks is taken. *)
LEMMA LockEachData ==
  ASSUME DInv, NEW t \in Threads, LockEach(t)
  PROVE  DataStep(t)
<1>. DEFINE f == frame[t]
<1>1. /\ FrameTyped(f) /\ f.cont = 1 /\ pc[t] = "lock_each" /\ current = 1
  BY OfThread DEF ThreadInv, HoldsEverything, LockEach, OneContainer, current
<1>2. PICK l \in f.want :
        /\ Ascending(t, l) /\ LockFree(t, l)
        /\ locks' = [locks EXCEPT ![1][l] = t]
        /\ \/ pc' = pc
           \/ \E label \in {"double", "expand", "clear", "take_table"} : Goto(t, label)
        /\ \E want : frame' = [frame EXCEPT ![t].want = want]
        /\ Continue
        /\ UNCHANGED <<containers, elem_counter, is_migrated, num_remaining>>
  <2>. DEFINE then == CASE call[t].op \in Inserting -> "double"
                        [] call[t].op \in Resizing -> "expand"
                        [] call[t].op = "clear" -> "clear"
                        [] OTHER -> "take_table"
  <2>5. PICK l \in frame[t].want :
          /\ Ascending(t, l) /\ LockFree(t, l)
          /\ locks' = [locks EXCEPT ![frame[t].cont][l] = t]
          /\ IF frame[t].want # {l}
             THEN frame' = [frame EXCEPT ![t].want = @ \ {l}] /\ UNCHANGED pc
             ELSE IF frame[t].cont < current
             THEN /\ frame' = [frame EXCEPT ![t].cont = frame[t].cont + 1,
                                 ![t].want = DOMAIN locks[frame[t].cont + 1]]
                  /\ UNCHANGED pc
             ELSE /\ frame' = [frame EXCEPT ![t].want = {}]
                  /\ Goto(t, then)
          /\ Continue
          /\ UNCHANGED <<containers, elem_counter, is_migrated, num_remaining>>
    BY Zenon DEF LockEach
  <2>6. ~ (frame[t].cont < current)
    BY <1>1
  <2>7. locks' = [locks EXCEPT ![1][l] = t]
    BY <1>1, <2>5
  <2>4. then \in {"double", "expand", "clear", "take_table"}
    BY Zenon
  <2>1. /\ \/ pc' = pc
           \/ Goto(t, then)
        /\ \E want : frame' = [frame EXCEPT ![t].want = want]
    <3>. HIDE DEF then
    <3>1. CASE frame[t].want # {l}
      <4>1. frame' = [frame EXCEPT ![t].want = frame[t].want \ {l}] /\ pc' = pc
        BY <2>5, <3>1
      <4>. QED BY <4>1
    <3>2. CASE frame[t].want = {l}
      <4>1. frame' = [frame EXCEPT ![t].want = {}] /\ Goto(t, then)
        BY <2>5, <2>6, <3>2, Zenon
      <4>. QED BY <4>1
    <3>. QED BY <3>1, <3>2
  <2>. HIDE DEF then
  <2>. QED
    BY <2>1, <2>4, <2>5, <2>7
<1>3. l \in LockIds /\ locks[1][l] = NoThread
  BY <1>1, <1>2, Container, OfThread DEF Ascending, LockFree
<1>4. \A u \in Threads \ {t} : Held(u, 1)' = Held(u, 1)
  BY <1>2, <1>3, Taking, OfThread
<1>5. PICK want : frame' = [frame EXCEPT ![t].want = want]
  BY <1>2
<1>. DEFINE g == [frame[t] EXCEPT !.want = want]
<1>6. frame' = [frame EXCEPT ![t] = g]
  BY <1>5, Shapes DEF OfThreads, DInv
<1>7. g = AFrame(f.hp, f.cont, want, f.queue, f.target, f.path, f.depth, f.cursor)
  BY <1>1, SetWant
<1>8. OnlyAt(t, frame, frame') /\ frame'[t] = g
  <2>. HIDE DEF g
  <2>. QED
    BY <1>6, NewFrame
<1>9. /\ OnlyAt(t, call, call') /\ call'[t] = call[t]
      /\ OnlyAt(t, pc, pc')
      /\ pc'[t] \in {"lock_each", "double", "expand", "clear", "take_table"}
  BY <1>1, <1>2, Going, Unchanged, Continuing, Shapes DEF DInv
<1>10. /\ pc[t] \notin {"idle", "install"}
       /\ pc'[t] \in AnyFrame \ {"body", "move", "install", "swap", "table"}
  BY <1>1, <1>9 DEF AnyFrame
<1>11. \E cont, w, queue, target, cursr :
         frame'[t] = AFrame(f.hp, cont, w, queue, target, f.path, f.depth, cursr)
  <2>. HIDE DEF g, f
  <2>. QED BY <1>7, <1>8
<1>12. /\ UNCHANGED <<containers, is_migrated, num_remaining>>
       /\ DOMAIN elem_counter' = DOMAIN elem_counter
  BY <1>2
<1>. QED
  <2>. HIDE DEF g
  <2>. QED
    BY <1>4, <1>8, <1>9, <1>10, <1>11, <1>12, PassOn

(* The search begins. *)
LEMMA SearchAgainData ==
  ASSUME DInv, NEW t \in Threads, RunCuckoo(t) \/ PathInvalid(t)
  PROVE  DataStep(t)
<1>. DEFINE f == frame[t]
            q == StartQueue(At1(t), At2(t))
<1>1. /\ FrameTyped(f) /\ pc[t] \in {"body", "move"} /\ call[t] \in Calls
      /\ call[t].key \in Keys /\ f.hp \in Nat
  BY OfThread DEF RunCuckoo, PathInvalid, FrameOK
<1>2. /\ frame' = [frame EXCEPT ![t] = SearchFrame(t)] /\ Goto(t, "search") /\ Continue
      /\ locks' = Unlocked(t) /\ elem_counter' = elem_counter
      /\ UNCHANGED <<containers, is_migrated, num_remaining>>
  BY DEF RunCuckoo, PathInvalid, Kept, containers
<1>3. SearchFrame(t) = AFrame(f.hp, f.cont, {}, q, NoTarget, <<>>, -1, f.cursor)
  <2>1. FrameTyped(f)
    BY <1>1
  <2>. QED BY <2>1, SetSearch DEF SearchFrame
<1>4. q \in Seq(Nodes(f.hp))
  BY <1>1, StartNodes DEF At1, At2
<1>5. MAX_BFS_PATH_LEN \in Nat
  BY TableAssumption
<1>6. FrameOK("search", SearchFrame(t), call[t])
  <2>. HIDE DEF f, q
  <2>. QED
    BY <1>1, <1>3, <1>4, <1>5, NoPath DEF FrameOK, AFrame
<1>7. OnlyAt(t, frame, frame') /\ frame'[t] = SearchFrame(t)
  BY <1>2, NewFrame
<1>8. /\ OnlyAt(t, pc, pc') /\ pc'[t] = "search"
      /\ OnlyAt(t, call, call') /\ call'[t] = call[t]
  BY <1>2, Going, Continuing DEF DInv
<1>9. ThreadData(t)'
  BY <1>6, <1>7, <1>8 DEF ThreadData, Rehashed
<1>10. \A u \in Threads \ {t} : Held(u, 1)' = Held(u, 1)
  BY <1>2, Unlocking, OfThread
<1>. QED
  BY <1>1, <1>2, <1>7, <1>8, <1>9, <1>10, SameDataStep

-----------------------------------------------------------------------------
(* Work on the buckets of a key *)

(* What a thread that has the locks of its key's buckets relies on. *)
LEMMA AtKey ==
  ASSUME DInv, NEW t \in Threads, pc[t] \in {"body", "move", "land"}
  PROVE  /\ ~ Swapped /\ pc[t] # "install" /\ pc[t] # "idle"
         /\ TableOK(buckets, hashpower, old, old_hashpower, is_migrated, num_remaining)
         /\ GoodTable(hashpower, buckets) /\ hashpower \in Nat
         /\ Apart(buckets, old, Live(old, is_migrated))
         /\ frame[t].hp = hashpower
         /\ call[t].key \in Keys /\ call[t].val \in Vals
         /\ pc[t] # "move" => /\ is_migrated[lock_ind(FirstBucket(hashpower, call[t].key))]
                              /\ is_migrated[lock_ind(SecondBucket(hashpower, call[t].key))]
<1>1. /\ ThreadInv(t) /\ Rehashed(t) /\ IInv
      /\ call[t].key \in Keys /\ call[t].val \in Vals
  BY OfThread
<1>2. Held(t, 1) # {} /\ frame[t].hp = hashpower
  BY <1>1 DEF ThreadInv, HoldsOwn, SameHashpower
<1>3. ~ Swapped
  BY <1>1, <1>2, NotSwapped
<1>4. TableOK(buckets, hashpower, old, old_hashpower, is_migrated, num_remaining)
  BY <1>3 DEF DInv, DataInv
<1>5. pc[t] # "move" => OwnLocks(t) \subseteq Held(t, 1)
  BY <1>1 DEF ThreadInv, HoldsOwn
<1>6. pc[t] # "move" => \A l \in OwnLocks(t) : is_migrated[l]
  BY <1>1, <1>5 DEF Rehashed
<1>. QED
  BY <1>1, <1>2, <1>3, <1>4, <1>6 DEF TableOK, GoodTable, OwnLocks, At1, At2

(* A call that ends when it has changed the buckets. *)
LEMMA EditReturn ==
  ASSUME DInv, NEW t \in Threads, pc[t] \in {"body", "land"},
         NEW r, Return(t, r), locks' = Unlocked(t), Kept,
         DOMAIN elem_counter' = DOMAIN elem_counter,
         GoodTable(hashpower, buckets'), Apart(buckets', old, Live(old, is_migrated))
  PROVE  DataStep(t)
<1>1. ~ Swapped
  BY AtKey
<1>2. OnlyAt(t, pc, pc') /\ pc'[t] # "install"
  BY EndedData
<1>3. DataInv' /\ \A l \in LockIds : is_migrated[l] => is_migrated'[l]
  BY <1>1, <1>2, EditedData
<1>. QED
  BY <1>3, ReturnStep

(* A new value for the key of a call. *)
LEMMA EditValue ==
  ASSUME DInv, NEW t \in Threads, pc[t] \in {"body", "land"},
         NEW p \in cuckoo_find(buckets, frame[t].hp, call[t].key),
         buckets' = AssignVal(buckets, p[1], p[2], call[t].val)
  PROVE  GoodTable(hashpower, buckets') /\ Apart(buckets', old, Live(old, is_migrated))
<1>1. /\ GoodTable(hashpower, buckets) /\ call[t].key \in Keys /\ call[t].val \in Vals
      /\ Apart(buckets, old, Live(old, is_migrated)) /\ frame[t].hp = hashpower
  BY AtKey
<1>. DEFINE i == p[1]
            s == p[2]
            v == call[t].val
            new == setKV(buckets, i, s, [key |-> buckets[i][s].key, val |-> v])
<1>2. /\ i \in Buckets(hashpower) /\ s \in Slots /\ occupied(buckets[i], s)
      /\ v \in Vals
      /\ buckets' = AssignVal(buckets, i, s, v)
  BY <1>1, FindFinds
<1>3. buckets' = new
  <2>1. GoodTable(hashpower, buckets) /\ i \in Buckets(hashpower) /\ s \in Slots
        /\ occupied(buckets[i], s)
    BY <1>1, <1>2
  <2>. HIDE DEF i, s, v
  <2>2. buckets' = setKV(buckets, i, s, [key |-> buckets[i][s].key, val |-> v])
    BY <1>2, <2>1, SetVal
  <2>. HIDE DEF new
  <2>. QED BY <2>2 DEF new, i, s, v
<1>4. GoodTable(hashpower, new) /\ Apart(new, old, Live(old, is_migrated))
  <2>. DEFINE lv == Live(old, is_migrated)
  <2>1. Apart(buckets, old, lv)
    BY <1>1
  <2>2. GoodTable(hashpower, new) /\ Apart(new, old, lv)
    <3>. HIDE DEF i, s, v, lv
    <3>. QED BY <1>1, <1>2, <2>1, SetValKeeps
  <2>. QED BY <2>2
<1>. HIDE DEF new
<1>. QED
  BY <1>3, <1>4

(* The key of a call is erased. *)
LEMMA EditErase ==
  ASSUME DInv, NEW t \in Threads, pc[t] \in {"body", "land"},
         NEW p, buckets' = eraseKV(buckets, p[1], p[2])
  PROVE  GoodTable(hashpower, buckets') /\ Apart(buckets', old, Live(old, is_migrated))
  BY AtKey, EraseKeeps

(* The key of a call is put into one of its buckets: it was in neither, and *)
(* not in the old container either, since their locks are rehashed.        *)
LEMMA EditAdd ==
  ASSUME DInv, NEW t \in Threads, pc[t] \in {"body", "land"},
         cuckoo_find(buckets, frame[t].hp, call[t].key) = {},
         NEW p, p[1] \in TwoBuckets(frame[t].hp, call[t].key), p[2] \in Slots,
         AddToBucket(t, p)
  PROVE  GoodTable(hashpower, buckets') /\ Apart(buckets', old, Live(old, is_migrated))
<1>. DEFINE kv == [key |-> call[t].key, val |-> call[t].val]
            i == p[1]
            s == p[2]
<1>1. /\ GoodTable(hashpower, buckets) /\ call[t].key \in Keys /\ call[t].val \in Vals
      /\ Apart(buckets, old, Live(old, is_migrated)) /\ frame[t].hp = hashpower
      /\ TableOK(buckets, hashpower, old, old_hashpower, is_migrated, num_remaining)
      /\ is_migrated[lock_ind(FirstBucket(hashpower, call[t].key))]
      /\ is_migrated[lock_ind(SecondBucket(hashpower, call[t].key))]
  BY AtKey
<1>2. kv \in KV /\ kv.key = call[t].key
  BY <1>1 DEF KV
<1>3. Absent(buckets, kv.key)
  BY <1>1, <1>2, FindFinds
<1>4. \A j \in Live(old, is_migrated), r \in Slots : old[j][r] # Vacant => old[j][r].key # kv.key
  BY <1>1, <1>2, NotInOld
<1>5. buckets' = setKV(buckets, i, s, kv)
  BY DEF AddToBucket
<1>6. i \in TwoBuckets(hashpower, kv.key) /\ s \in Slots
  BY <1>1, <1>2
<1>. DEFINE lv == Live(old, is_migrated)
<1>7. \A j \in lv, r \in Slots : old[j][r] # Vacant => old[j][r].key # kv.key
  BY <1>4
<1>8. Apart(buckets, old, lv)
  BY <1>1
<1>9. GoodTable(hashpower, setKV(buckets, i, s, kv)) /\ Apart(setKV(buckets, i, s, kv), old, lv)
  <2>. HIDE DEF kv, i, s, lv
  <2>. QED BY <1>1, <1>2, <1>3, <1>6, <1>7, <1>8, PutKeeps
<1>. QED
  <2>. HIDE DEF kv, i, s
  <2>. QED BY <1>5, <1>9

(* A duplicate is found by an insert. *)
LEMMA FoundData ==
  ASSUME DInv, NEW t \in Threads, pc[t] \in {"body", "land"},
         NEW p \in cuckoo_find(buckets, frame[t].hp, call[t].key), UpraseFound(t, p)
  PROVE  /\ GoodTable(hashpower, buckets') /\ Apart(buckets', old, Live(old, is_migrated))
         /\ DOMAIN elem_counter' = DOMAIN elem_counter
         /\ \E r : Return(t, r)
<1>1. /\ \/ buckets' = buckets
         \/ buckets' = AssignVal(buckets, p[1], p[2], call[t].val)
         \/ buckets' = eraseKV(buckets, p[1], p[2])
      /\ DOMAIN elem_counter' = DOMAIN elem_counter
      /\ \E r : Return(t, r)
  BY DEF UpraseFound, Counted
<1>2. GoodTable(hashpower, buckets) /\ Apart(buckets, old, Live(old, is_migrated))
  BY AtKey
<1>. QED
  BY <1>1, <1>2, EditValue, EditErase

(* The operations with the locks of their key. *)
LEMMA OperationData ==
  ASSUME DInv, NEW t \in Threads,
         Update(t) \/ Erase(t) \/ InsertInPlace(t) \/ Land(t)
  PROVE  DataStep(t)
<1>1. CASE Update(t)
  <2>1. /\ pc[t] = "body" /\ locks' = Unlocked(t) /\ Kept
        /\ elem_counter' = elem_counter
    BY <1>1 DEF Update
  <2>2. CASE \E r : Return(t, r) /\ buckets' = buckets
    BY <2>1, <2>2, SameEnd DEF Kept, containers
  <2>3. CASE \E p \in cuckoo_find(buckets, frame[t].hp, call[t].key) :
               /\ Return(t, "yes")
               /\ buckets' = AssignVal(buckets, p[1], p[2], call[t].val)
    BY <2>1, <2>3, EditValue, EditReturn
  <2>. QED
    BY <1>1, <2>2, <2>3 DEF Update
<1>2. CASE Erase(t)
  <2>1. pc[t] = "body" /\ locks' = Unlocked(t) /\ Kept
    BY <1>2 DEF Erase
  <2>2. CASE \E r : Return(t, r) /\ buckets' = buckets /\ elem_counter' = elem_counter
    BY <2>1, <2>2, SameEnd DEF Kept, containers
  <2>3. CASE \E p : /\ Return(t, "yes")
                    /\ buckets' = eraseKV(buckets, p[1], p[2])
                    /\ Counted(p, -1)
    <3>1. PICK p : /\ Return(t, "yes")
                   /\ buckets' = eraseKV(buckets, p[1], p[2])
                   /\ Counted(p, -1)
      BY <2>3
    <3>2. DOMAIN elem_counter' = DOMAIN elem_counter
      BY <3>1 DEF Counted
    <3>. QED BY <2>1, <3>1, <3>2, EditErase, EditReturn
  <2>. QED
    BY <1>2, <2>2, <2>3 DEF Erase
<1>3. ASSUME NEW p \in cuckoo_find(buckets, frame[t].hp, call[t].key), UpraseFound(t, p),
             InsertInPlace(t) \/ Land(t)
      PROVE  DataStep(t)
  <2>1. pc[t] \in {"body", "land"} /\ locks' = Unlocked(t) /\ Kept
    BY <1>3 DEF InsertInPlace, Land
  <2>. QED
    BY <1>3, <2>1, FoundData, EditReturn
<1>4. ASSUME NEW p, p[1] \in TwoBuckets(frame[t].hp, call[t].key), p[2] \in Slots,
             cuckoo_find(buckets, frame[t].hp, call[t].key) = {},
             AddToBucket(t, p), InsertInPlace(t) \/ Land(t)
      PROVE  DataStep(t)
  <2>1. pc[t] \in {"body", "land"} /\ locks' = Unlocked(t) /\ Kept
    BY <1>4 DEF InsertInPlace, Land
  <2>2. DOMAIN elem_counter' = DOMAIN elem_counter /\ Return(t, "yes")
    BY <1>4 DEF AddToBucket, Counted
  <2>. QED
    BY <1>4, <2>1, <2>2, EditAdd, EditReturn
<1>5. CASE InsertInPlace(t)
  BY <1>3, <1>4, <1>5, InsertPositionHome DEF InsertInPlace
<1>6. CASE Land(t)
  <2>1. FrameOK("land", frame[t], call[t])
    BY <1>6, OfThread DEF Land
  <2>2. PathOK(frame[t].hp, call[t].key, frame[t].path) /\ Len(frame[t].path) > 0
    BY <2>1 DEF FrameOK
  <2>3. /\ frame[t].path[1].bucket \in TwoBuckets(frame[t].hp, call[t].key)
        /\ frame[t].path[1].slot \in Slots
    <3>. DEFINE path == frame[t].path
                R == [bucket : Buckets(frame[t].hp), slot : Slots, hash : Nat \cup {NoHash}]
    <3>1. path \in Seq(R) /\ Len(path) > 0
      BY <2>2 DEF PathOK
    <3>2. path[1] \in R
      <4>. HIDE DEF path, R
      <4>. QED BY <3>1
    <3>. QED BY <2>2, <3>2 DEF PathOK
  <2>. DEFINE p == <<frame[t].path[1].bucket, frame[t].path[1].slot>>
  <2>4. p[1] \in TwoBuckets(frame[t].hp, call[t].key) /\ p[2] \in Slots
    BY <2>3
  <2>5. \/ \E q \in cuckoo_find(buckets, frame[t].hp, call[t].key) : UpraseFound(t, q)
        \/ cuckoo_find(buckets, frame[t].hp, call[t].key) = {} /\ AddToBucket(t, p)
    BY <1>6, Zenon DEF Land
  <2>. HIDE DEF p
  <2>. QED BY <1>3, <1>4, <1>6, <2>4, <2>5
<1>. QED
  BY <1>1, <1>2, <1>5, <1>6

-----------------------------------------------------------------------------
(* Moving along the path *)

(* The records of a path. *)
Records(hp) == [bucket : Buckets(hp), slot : Slots, hash : Nat \cup {NoHash}]

(* What the records of a path are, one by one. *)
LEMMA PathRecords ==
  ASSUME NEW hp, NEW key, NEW path, PathOK(hp, key, path)
  PROVE  /\ path \in Seq(Records(hp)) /\ Len(path) \in Nat
         /\ \A n \in 1 .. Len(path) : /\ path[n] \in Records(hp)
                                      /\ path[n].bucket \in Buckets(hp)
                                      /\ path[n].slot \in Slots
         /\ Len(path) > 0 => path[1].bucket \in TwoBuckets(hp, key)
         /\ \A n \in 1 .. Len(path) - 1 :
              /\ path[n].hash \in Nat
              /\ path[n + 1].bucket = alt_index(hp, partial_key(path[n].hash), path[n].bucket)
<1>1. path \in Seq(Records(hp))
  BY DEF PathOK, Records
<1>2. \A n \in 1 .. Len(path) : path[n] \in Records(hp)
  BY <1>1
<1>3. \A r \in Records(hp) : r.bucket \in Buckets(hp) /\ r.slot \in Slots
  BY DEF Records
<1>4. Len(path) \in Nat
  BY <1>1
<1>. QED
  BY <1>1, <1>2, <1>3, <1>4 DEF PathOK

(* The locks of a move. *)
LEMMA MoveLocksAre ==
  ASSUME NEW t, NEW hp \in Nat, frame[t].hp = hp, call[t].key \in Keys,
         NEW path, PathOK(hp, call[t].key, path), NEW d \in Nat, d < Len(path)
  PROVE  MoveLocks(t, path, d) \subseteq LockIds
<1>1. At1(t) \in Buckets(hp) /\ At2(t) \in Buckets(hp)
  BY KeyBuckets DEF At1, At2
<1>2. path[d + 1].bucket \in Buckets(hp) /\ (d > 0 => path[d].bucket \in Buckets(hp))
  <2>1. d + 1 \in 1 .. Len(path) /\ (d > 0 => d \in 1 .. Len(path))
    BY PathRecords
  <2>. QED BY <2>1, PathRecords
<1>. DEFINE S == IF d = 0 THEN {At1(t), At2(t)}
                 ELSE IF d = 1 THEN {At1(t), At2(t), path[d + 1].bucket}
                 ELSE {path[d].bucket, path[d + 1].bucket}
<1>3. S \in SUBSET Buckets(hp)
  BY <1>1, <1>2
<1>4. MoveLocks(t, path, d) = LocksOf(S)
  BY DEF MoveLocks
<1>. HIDE DEF S
<1>. QED
  BY <1>3, <1>4, LocksOfBuckets

(* The frame of a move. *)
LEMMA MoveFrameOK ==
  ASSUME NEW t, FrameTyped(frame[t]), NEW p, p # "idle", FrameOK(p, frame[t], call[t]),
         NEW path, PathOK(frame[t].hp, call[t].key, path), NEW d \in Nat, d < Len(path),
         d < MAX_BFS_PATH_LEN
  PROVE  FrameOK("get_locks", MoveFrame(t, path, d), call[t])
<1>. DEFINE f == frame[t]
            w == MoveLocks(t, path, d)
<1>1. MoveFrame(t, path, d)
        = AFrame(f.hp, f.cont, w, f.queue, f.target, path, d, f.cursor)
  BY SetMove DEF MoveFrame
<1>2. f.hp \in Nat /\ call[t] \in Calls /\ call[t].key \in Keys
  BY CallsAssumption DEF FrameOK
<1>3. w \subseteq LockIds
  BY <1>2, MoveLocksAre
<1>4. MAX_BFS_PATH_LEN \in Nat
  BY TableAssumption
<1>. HIDE DEF f, w
<1>5. /\ MoveFrame(t, path, d).hp = f.hp /\ MoveFrame(t, path, d).path = path
      /\ MoveFrame(t, path, d).depth = d /\ MoveFrame(t, path, d).want = w
  BY <1>1 DEF AFrame
<1>6. PathOK(f.hp, call[t].key, path)
  BY DEF f
<1>. QED
  BY <1>2, <1>3, <1>4, <1>5, <1>6 DEF FrameOK, f

(* The move of one element. *)
LEMMA MoveEdits ==
  ASSUME DInv, NEW t \in Threads, pc[t] = "move", PathHolds(t), NEW d, d = frame[t].depth,
         NEW path, path = frame[t].path,
         IF d = 0 THEN UNCHANGED buckets
         ELSE buckets' = eraseKV(setKV(buckets, path[d + 1].bucket, path[d + 1].slot,
                                       buckets[path[d].bucket][path[d].slot]),
                                 path[d].bucket, path[d].slot)
  PROVE  GoodTable(hashpower, buckets') /\ Apart(buckets', old, Live(old, is_migrated))
<1>1. /\ GoodTable(hashpower, buckets) /\ hashpower \in Nat
      /\ Apart(buckets, old, Live(old, is_migrated)) /\ frame[t].hp = hashpower
  BY AtKey
<1>2. /\ PathOK(hashpower, call[t].key, path) /\ d \in Nat /\ d < Len(path)
  <2>1. FrameOK("move", frame[t], call[t]) /\ d # -1
    BY OfThread DEF ThreadInv, HoldsOwn
  <2>2. MAX_BFS_PATH_LEN \in Nat
    BY TableAssumption
  <2>. QED BY <1>1, <2>1, <2>2 DEF FrameOK
<1>3. CASE d = 0
  BY <1>1, <1>3
<1>4. CASE d # 0
  <2>. DEFINE i  == path[d].bucket
              s  == path[d].slot
              j  == path[d + 1].bucket
              r  == path[d + 1].slot
              h  == path[d].hash
              kv == buckets[i][s]
  <2>1. /\ i \in Buckets(hashpower) /\ s \in Slots
        /\ r \in Slots
        /\ j = alt_index(hashpower, partial_key(h), i)
    <3>. DEFINE n == Len(path)
    <3>2. n \in Nat /\ d \in Nat /\ d < n /\ d # 0
      BY <1>2, <1>4, PathRecords
    <3>. HIDE DEF n
    <3>3. d \in 1 .. n /\ d + 1 \in 1 .. n /\ d \in 1 .. n - 1
      BY ONLY <3>2
    <3>1. d \in 1 .. Len(path) /\ d + 1 \in 1 .. Len(path) /\ d \in 1 .. Len(path) - 1
      BY <3>3 DEF n
    <3>4. PathOK(hashpower, call[t].key, path)
      BY <1>2
    <3>5. /\ \A m \in 1 .. Len(path) : /\ path[m].bucket \in Buckets(hashpower)
                                       /\ path[m].slot \in Slots
          /\ \A m \in 1 .. Len(path) - 1 :
               path[m + 1].bucket
                 = alt_index(hashpower, partial_key(path[m].hash), path[m].bucket)
      BY <3>4, PathRecords
    <3>. QED BY <3>1, <3>5
  <2>2. occupied(buckets[i], s) /\ Hash[kv.key] = h
    BY <1>4 DEF PathHolds
  <2>. DEFINE data == buckets
              new == buckets'
  <2>3. new = eraseKV(setKV(data, j, r, data[i][s]), i, s)
    BY <1>4
  <2>4. j = Alternate(hashpower, i, data[i][s].key)
    BY <2>1, <2>2 DEF Alternate
  <2>. DEFINE lv == Live(old, is_migrated)
  <2>5. GoodTable(hashpower, data) /\ Apart(data, old, lv) /\ occupied(data[i], s)
    BY <1>1, <2>2
  <2>6. GoodTable(hashpower, new) /\ Apart(new, old, lv)
    <3>1. i \in Buckets(hashpower) /\ s \in Slots /\ r \in Slots
      BY <2>1
    <3>2. hashpower \in Nat
      BY <1>1
    <3>. HIDE DEF i, s, j, r, h, kv, data, new, lv
    <3>. QED BY ONLY <2>3, <2>4, <2>5, <3>1, <3>2, MoveKeeps1
  <2>. QED BY <2>6
<1>. QED
  BY <1>3, <1>4

(* One element moves. *)
LEMMA MoveData ==
  ASSUME DInv, NEW t \in Threads, Move(t)
  PROVE  DataStep(t)
<1>. DEFINE f == frame[t]
            d == f.depth
<1>1. /\ FrameTyped(f) /\ pc[t] = "move" /\ f.cont = 1 /\ d # -1
      /\ FrameOK("move", f, call[t]) /\ Rehashed(t) /\ OneContainer
  BY OfThread DEF ThreadInv, HoldsOwn, Move
<1>2. /\ Continue /\ Kept /\ elem_counter' = elem_counter
      /\ \/ /\ d \in {0, 1}
            /\ locks' = [locks EXCEPT ![f.cont] = [l \in DOMAIN @ |->
                           IF @[l] = t /\ l \notin OwnLocks(t) THEN NoThread ELSE @[l]]]
            /\ frame' = [frame EXCEPT ![t].depth = 0]
            /\ Goto(t, "land")
         \/ /\ d \notin {0, 1}
            /\ locks' = Unlocked(t)
            /\ frame' = [frame EXCEPT ![t] = MoveFrame(t, f.path, d - 1)]
            /\ Goto(t, "get_locks")
  BY Zenon DEF Move, OwnLocks
<1>3. GoodTable(hashpower, buckets') /\ Apart(buckets', old, Live(old, is_migrated))
  <2>. DEFINE path == f.path
  <2>1. /\ PathHolds(t)
        /\ IF d = 0 THEN UNCHANGED buckets
           ELSE buckets' = eraseKV(setKV(buckets, path[d + 1].bucket, path[d + 1].slot,
                                         buckets[path[d].bucket][path[d].slot]),
                                   path[d].bucket, path[d].slot)
    BY Zenon DEF Move
  <2>2. d = frame[t].depth /\ path = frame[t].path
    OBVIOUS
  <2>. HIDE DEF path, d
  <2>. QED BY <1>1, <2>1, <2>2, MoveEdits
<1>4. /\ f.hp \in Nat /\ PathOK(f.hp, call[t].key, f.path) /\ call[t] \in Calls
      /\ d \in Nat /\ d < Len(f.path) /\ d < MAX_BFS_PATH_LEN /\ MAX_BFS_PATH_LEN \in Nat \ {0}
  <2>1. MAX_BFS_PATH_LEN \in Nat \ {0}
    BY TableAssumption
  <2>. QED BY <1>1, <2>1 DEF FrameOK
<1>5. ~ Swapped
  BY <1>1, AtKey
<1>6. OnlyAt(t, call, call') /\ call'[t] = call[t]
  BY <1>2, Continuing DEF DInv
<1>7. OnlyAt(t, pc, pc') /\ pc'[t] \in {"land", "get_locks"}
  BY <1>2, Going DEF DInv
<1>8. DataInv' /\ \A l \in LockIds : is_migrated[l] => is_migrated'[l]
  BY <1>2, <1>3, <1>5, <1>7, EditedData
<1>9. CASE d \in {0, 1}
  <2>. DEFINE g == [frame[t] EXCEPT !.depth = 0]
  <2>1. locks' = [locks EXCEPT ![1] = [l \in DOMAIN @ |->
                    IF @[l] = t /\ l \notin OwnLocks(t) THEN NoThread ELSE @[l]]]
    BY <1>1, <1>2, <1>9
  <2>2. /\ Held(t, 1)' = Held(t, 1) \cap OwnLocks(t)
        /\ \A u \in Threads \ {t} : Held(u, 1)' = Held(u, 1)
    BY <1>1, <2>1, Keeping
  <2>3. frame' = [frame EXCEPT ![t] = g]
    BY <1>2, <1>9, Shapes DEF OfThreads, DInv
  <2>4. g = AFrame(f.hp, f.cont, f.want, f.queue, f.target, f.path, 0, f.cursor)
    BY <1>1, SetDepth
  <2>5. FrameOK("land", g, call[t])
    <3>. HIDE DEF g
    <3>1. g.hp = f.hp /\ g.path = f.path /\ g.depth = 0
      <4>. HIDE DEF f
      <4>. QED BY <2>4 DEF AFrame
    <3>. HIDE DEF f, d
    <3>. QED BY <1>4, <3>1 DEF FrameOK
  <2>6. OnlyAt(t, frame, frame') /\ frame'[t] = g
    <3>. HIDE DEF g
    <3>. QED
      BY <2>3, NewFrame
  <2>7. pc'[t] = "land"
    BY <1>2, <1>9, Going DEF DInv
  <2>8. Held(t, 1) \subseteq LockIds
    BY <1>1, HeldAre
  <2>9. \A l \in Held(t, 1)' : is_migrated'[l]
    BY <1>1, <1>8, <2>2, <2>8 DEF Rehashed
  <2>10. ThreadData(t)'
    <3>. HIDE DEF g
    <3>. QED
      BY <1>6, <2>5, <2>6, <2>7, <2>9 DEF ThreadData, Rehashed
  <2>. QED
    BY <1>6, <1>7, <1>8, <2>2, <2>6, <2>10 DEF DataStep
<1>10. CASE d \notin {0, 1}
  <2>1. d - 1 \in Nat /\ d - 1 < Len(f.path) /\ d - 1 < MAX_BFS_PATH_LEN
    BY <1>4, <1>10
  <2>. DEFINE e == d - 1
              path == f.path
              g == MoveFrame(t, path, e)
  <2>2. FrameOK("get_locks", g, call[t])
    <3>1. /\ e \in Nat /\ e < Len(path) /\ e < MAX_BFS_PATH_LEN
          /\ FrameTyped(frame[t]) /\ FrameOK("move", frame[t], call[t])
          /\ PathOK(frame[t].hp, call[t].key, path)
      BY <1>1, <1>4, <2>1
    <3>. HIDE DEF e, path
    <3>2. FrameOK("get_locks", MoveFrame(t, path, e), call[t])
      BY <3>1, MoveFrameOK
    <3>. QED BY <3>2 DEF g, e, path
  <2>3. frame' = [frame EXCEPT ![t] = g] /\ locks' = Unlocked(t)
    BY <1>2, <1>10
  <2>4. OnlyAt(t, frame, frame') /\ frame'[t] = g
    <3>. HIDE DEF g
    <3>. QED
      BY <2>3, NewFrame
  <2>5. pc'[t] = "get_locks"
    BY <1>2, <1>10, Going DEF DInv
  <2>6. \A u \in Threads \ {t} : Held(u, 1)' = Held(u, 1)
    BY <1>1, <2>3, Unlocking
  <2>7. ThreadData(t)'
    <3>. HIDE DEF g
    <3>. QED
      BY <1>6, <2>2, <2>4, <2>5 DEF ThreadData, Rehashed
  <2>. QED
    <3>. HIDE DEF g
    <3>. QED
      BY <1>6, <1>7, <1>8, <2>4, <2>6, <2>7 DEF DataStep
<1>. QED
  BY <1>9, <1>10

-----------------------------------------------------------------------------
(* Rehashing what is locked *)

(* A lock is taken; with the last one its buckets are rehashed. *)
LEMMA LockData ==
  ASSUME DInv, NEW t \in Threads, Lock(t)
  PROVE  DataStep(t)
<1>. DEFINE f == frame[t]
<1>1. /\ FrameTyped(f) /\ f.cont = 1 /\ pc[t] = "lock" /\ FrameOK("lock", f, call[t])
      /\ IInv /\ OneContainer
  BY OfThread DEF ThreadInv, WantsOwn, Lock
<1>2. PICK l \in f.want :
        /\ NextLock(t, l) /\ LockFree(t, l)
        /\ locks' = [locks EXCEPT ![1][l] = t]
        /\ frame' = [frame EXCEPT ![t].want = @ \ {l}]
        /\ IF f.want # {l}
           THEN UNCHANGED <<containers, is_migrated, num_remaining, pc>>
           ELSE /\ Migrate(Held(t, 1) \cup {l})
                /\ Goto(t, IF f.depth = -1 THEN "body" ELSE "move")
        /\ Continue /\ elem_counter' = elem_counter
  BY <1>1 DEF Lock
<1>. DEFINE want == f.want \ {l}
            g    == [frame[t] EXCEPT !.want = want]
<1>3. l \in LockIds /\ locks[1][l] = NoThread
  BY <1>1, <1>2, Container DEF NextLock, Ascending, LockFree
<1>4. /\ Held(t, 1)' = Held(t, 1) \cup {l}
      /\ \A u \in Threads \ {t} : Held(u, 1)' = Held(u, 1)
  BY <1>1, <1>2, <1>3, Taking
<1>5. frame' = [frame EXCEPT ![t] = g]
  BY <1>2, Shapes DEF OfThreads, DInv
<1>6. g = AFrame(f.hp, f.cont, want, f.queue, f.target, f.path, f.depth, f.cursor)
  BY <1>1, SetWant
<1>7. OnlyAt(t, frame, frame') /\ frame'[t] = g
  <2>. HIDE DEF g
  <2>. QED
    BY <1>5, NewFrame
<1>8. OnlyAt(t, call, call') /\ call'[t] = call[t]
  BY <1>2, Continuing DEF DInv
<1>9. \A q \in {"lock", "body", "move"} : FrameOK(q, g, call[t])
  <2>1. want \subseteq LockIds
    BY <1>1 DEF FrameOK
  <2>. HIDE DEF g, f, want
  <2>. QED BY <1>1, <1>6, <2>1 DEF FrameOK, AFrame
<1>10. CASE f.want # {l}
  <2>1. /\ OnlyAt(t, pc, pc') /\ pc'[t] = "lock"
        /\ UNCHANGED <<containers, is_migrated, num_remaining>>
    BY <1>1, <1>2, <1>10, Unchanged, Shapes
  <2>2. ThreadData(t)'
    <3>. HIDE DEF g
    <3>. QED BY <1>7, <1>8, <1>9, <2>1 DEF ThreadData, Rehashed
  <2>. QED
    <3>. HIDE DEF g
    <3>. QED BY <1>1, <1>2, <1>4, <1>7, <1>8, <2>1, <2>2, SameDataStep
<1>11. CASE f.want = {l}
  <2>. DEFINE ls == Held(t, 1) \cup {l}
  <2>1. Migrate(ls) /\ OnlyAt(t, pc, pc') /\ pc'[t] \in {"body", "move"}
    BY <1>2, <1>11, Going DEF DInv
  <2>2. ls \in SUBSET LockIds
    BY <1>1, <1>3, HeldAre
  <2>3. ~ Swapped
    BY <1>1, <1>3, NotSwapped
  <2>4. /\ DataInv' /\ \A m \in LockIds : is_migrated[m] => is_migrated'[m]
        /\ \A m \in ls : is_migrated'[m]
    <3>. HIDE DEF ls
    <3>. QED BY <1>2, <2>1, <2>2, <2>3, MigrateData
  <2>5. ThreadData(t)'
    <3>. HIDE DEF g
    <3>. QED BY <1>4, <1>7, <1>8, <1>9, <2>1, <2>4 DEF ThreadData, Rehashed
  <2>. QED
    <3>. HIDE DEF g
    <3>. QED BY <1>4, <1>7, <1>8, <2>1, <2>4, <2>5 DEF DataStep
<1>. QED
  BY <1>10, <1>11

(* A section of lock_one. *)
LEMMA ReadsOneData ==
  ASSUME DInv, NEW t \in Threads, NEW i, i \in Nat, ReadsOne(t, i),
         pc[t] \in {"search", "path"}, OnlyAt(t, pc, pc'), pc'[t] # "install"
  PROVE  /\ DataInv' /\ \A l \in LockIds : is_migrated[l] => is_migrated'[l]
         /\ GoodTable(hashpower, buckets') /\ hashpower = frame[t].hp
         /\ OnlyAt(t, call, call') /\ call'[t] = call[t]
         /\ \A u \in Threads : Held(u, 1)' = Held(u, 1)
<1>1. IInv /\ OneContainer
  BY OfThread
<1>. DEFINE ls == {lock_ind(i)}
<1>2. ls \in SUBSET LockIds
  BY LockIndex
<1>3. current = 1 /\ Len(locks) = 1
  BY <1>1 DEF OneContainer, current
<1>4. locks[1][lock_ind(i)] = NoThread
  BY <1>3 DEF ReadsOne, LockOneFree
<1>5. ~ Swapped
  BY <1>1, <1>2, <1>4, NotSwapped
<1>6. Migrate(ls) /\ elem_counter' = elem_counter /\ hashpower = frame[t].hp
  BY DEF ReadsOne
<1>7. OnlyAt(t, call, call') /\ call'[t] = call[t]
  BY <1>1, Continuing DEF ReadsOne
<1>8. \A u \in Threads : Held(u, 1)' = Held(u, 1)
  BY <1>1, SameLocks DEF ReadsOne
<1>. HIDE DEF ls
<1>. QED
  BY <1>2, <1>5, <1>6, <1>7, <1>8, MigrateData

(* The search looks at one bucket. *)
LEMMA SearchData ==
  ASSUME DInv, NEW t \in Threads, Search(t)
  PROVE  DataStep(t)
<1>. DEFINE f == frame[t]
            x == Head(f.queue)
            e == Explore(f.hp, buckets'[x.bucket], x)
<1>1. /\ FrameTyped(f) /\ pc[t] = "search" /\ FrameOK("search", f, call[t])
      /\ f.queue # <<>> /\ f.queue \in Seq(Nodes(f.hp)) /\ f.hp \in Nat
  BY OfThread DEF Search, FrameOK
<1>2. x \in Nodes(f.hp) /\ Tail(f.queue) \in Seq(Nodes(f.hp))
  <2>. DEFINE q == f.queue
              S == Nodes(f.hp)
  <2>1. q \in Seq(S) /\ q # <<>>
    BY <1>1
  <2>. HIDE DEF q, S
  <2>2. Head(q) \in S /\ Tail(q) \in Seq(S)
    BY <2>1
  <2>. QED BY <2>2 DEF q, S
<1>3. x.bucket \in Buckets(f.hp) /\ x.bucket \in Nat
  <2>1. \A hp \in Nat : \A y \in Nodes(hp) : y.bucket \in Buckets(hp) /\ y.bucket \in Nat
    BY SizeSteps DEF Nodes, Buckets
  <2>. HIDE DEF x
  <2>. QED BY <1>1, <1>2, <2>1
<1>4. CASE ExpandedMeanwhile(t, x.bucket)
  BY <1>1, <1>4, EndsData
<1>5. ASSUME ReadsOne(t, x.bucket), OnlyAt(t, pc, pc'), pc'[t] \in {"search", "path"},
             NEW g, frame' = [frame EXCEPT ![t] = g], FrameOK(pc'[t], g, call[t])
      PROVE  DataStep(t)
  <2>1. /\ DataInv' /\ \A l \in LockIds : is_migrated[l] => is_migrated'[l]
        /\ OnlyAt(t, call, call') /\ call'[t] = call[t]
        /\ \A u \in Threads : Held(u, 1)' = Held(u, 1)
    <3>. HIDE DEF x
    <3>. QED BY <1>1, <1>3, <1>5, ReadsOneData
  <2>2. OnlyAt(t, frame, frame') /\ frame'[t] = g
    BY <1>5, NewFrame
  <2>3. ThreadData(t)'
    BY <1>5, <2>1, <2>2 DEF ThreadData, Rehashed
  <2>. QED
    BY <1>5, <2>1, <2>2, <2>3 DEF DataStep
<1>6. ASSUME ReadsOne(t, x.bucket), OnlyAt(t, pc, pc'), pc'[t] \in {"search", "path"}
      PROVE  e.found \subseteq Nodes(f.hp) /\ e.more \in Seq(Nodes(f.hp))
  <2>. HIDE DEF x
  <2>1. GoodTable(f.hp, buckets')
    BY <1>1, <1>3, <1>6, ReadsOneData
  <2>. DEFINE hp == f.hp
              data == buckets'
  <2>2. Explore(hp, data[x.bucket], x).found \subseteq Nodes(hp)
        /\ Explore(hp, data[x.bucket], x).more \in Seq(Nodes(hp))
    <3>. HIDE DEF data, hp
    <3>. QED BY <1>2, <2>1, ExploreNodes DEF data, hp
  <2>. QED BY <2>2
<1>. HIDE DEF e
<1>7. CASE /\ ReadsOne(t, x.bucket)
           /\ frame' = [frame EXCEPT ![t].queue = Tail(f.queue) \o e.more] /\ pc' = pc
  <2>. DEFINE q == Tail(f.queue) \o e.more
              g == [frame[t] EXCEPT !.queue = q]
  <2>1. OnlyAt(t, pc, pc') /\ pc'[t] = "search"
    BY <1>1, <1>7, Unchanged, Shapes DEF DInv
  <2>2. q \in Seq(Nodes(f.hp))
    BY <1>2, <1>6, <1>7, <2>1
  <2>. HIDE DEF q
  <2>3. frame' = [frame EXCEPT ![t] = g]
    BY <1>7, Shapes DEF OfThreads, DInv, q
  <2>4. g = AFrame(f.hp, f.cont, f.want, q, f.target, f.path, f.depth, f.cursor)
    BY <1>1, SetQueue
  <2>5. FrameOK("search", g, call[t])
    <3>. HIDE DEF g, f
    <3>. QED BY <1>1, <2>2, <2>4 DEF FrameOK, AFrame
  <2>. HIDE DEF g
  <2>. QED BY <1>5, <1>7, <2>1, <2>3, <2>5
<1>8. ASSUME ReadsOne(t, x.bucket), NEW y \in e.found, Goto(t, "path"),
             frame' = [frame EXCEPT ![t].queue = <<>>, ![t].target = y]
      PROVE  DataStep(t)
  <2>. DEFINE g == [frame[t] EXCEPT !.queue = <<>>, !.target = y]
  <2>1. OnlyAt(t, pc, pc') /\ pc'[t] = "path"
    BY <1>8, Going DEF DInv
  <2>2. y \in Nodes(f.hp)
    BY <1>6, <1>8, <2>1
  <2>3. frame' = [frame EXCEPT ![t] = g]
    BY <1>8, Shapes DEF OfThreads, DInv
  <2>4. g = AFrame(f.hp, f.cont, f.want, <<>>, y, f.path, f.depth, f.cursor)
    BY <1>1, SetTarget
  <2>5. y.depth \in Nat
    BY <2>2, TableAssumption DEF Nodes
  <2>6. f.path = <<>> /\ f.depth = -1
    BY <1>1 DEF FrameOK
  <2>7. FrameOK("path", g, call[t])
    <3>. HIDE DEF g, f
    <3>1. g.hp = f.hp /\ g.path = <<>> /\ g.depth = -1 /\ g.target = y
      BY <2>4, <2>6 DEF AFrame
    <3>. QED BY <1>1, <2>2, <2>5, <2>6, <3>1 DEF FrameOK
  <2>. HIDE DEF g
  <2>. QED BY <1>5, <1>8, <2>1, <2>3, <2>7
<1>. QED
  <2>1. \/ ExpandedMeanwhile(t, x.bucket)
        \/ /\ ReadsOne(t, x.bucket)
           /\ frame' = [frame EXCEPT ![t].queue = Tail(f.queue) \o e.more] /\ pc' = pc
        \/ /\ ReadsOne(t, x.bucket)
           /\ \E y \in e.found : /\ frame' = [frame EXCEPT ![t].queue = <<>>, ![t].target = y]
                                 /\ Goto(t, "path")
    <3>1. \/ ExpandedMeanwhile(t, x.bucket)
          \/ /\ ReadsOne(t, x.bucket)
             /\ \/ /\ e.found = {}
                   /\ frame' = [frame EXCEPT ![t].queue = Tail(@) \o e.more]
                   /\ UNCHANGED pc
                \/ \E y \in e.found :
                     /\ frame' = [frame EXCEPT ![t].queue = <<>>, ![t].target = y]
                     /\ Goto(t, "path")
      BY Zenon DEF Search, e
    <3>. HIDE DEF x
    <3>. QED BY <3>1
  <2>. QED
    BY <1>4, <1>7, <1>8, <2>1

(* The path grows by a record of the bucket that comes next. *)
LEMMA LongerPathOK ==
  ASSUME NEW hp, NEW key, NEW path, PathOK(hp, key, path),
         \A n \in 1 .. Len(path) : path[n].hash \in Nat,
         NEW r \in Records(hp),
         path = <<>> => r.bucket \in TwoBuckets(hp, key),
         path # <<>> => r.bucket = alt_index(hp, partial_key(path[Len(path)].hash),
                                             path[Len(path)].bucket)
  PROVE  PathOK(hp, key, Append(path, r)) /\ Len(Append(path, r)) = Len(path) + 1
<1>. DEFINE R == Records(hp)
            new == Append(path, r)
            k == Len(path)
<1>1. path \in Seq(R) /\ r \in R /\ k \in Nat
  BY PathRecords
<1>2. /\ new \in Seq(R) /\ Len(new) = k + 1 /\ new[k + 1] = r
      /\ \A n \in 1 .. k : new[n] = path[n]
  <2>. HIDE DEF R
  <2>. QED BY <1>1
<1>. HIDE DEF new
<1>3. new[1].bucket \in TwoBuckets(hp, key)
  <2>1. CASE k = 0
    <3>1. path = <<>>
      <4>. HIDE DEF R
      <4>. QED BY <1>1, <2>1
    <3>. QED BY <1>2, <2>1, <3>1
  <2>2. CASE k # 0
    <3>1. 1 \in 1 .. k
      BY <1>1, <2>2
    <3>. QED BY <1>1, <1>2, <2>2, <3>1 DEF PathOK
  <2>. QED BY <2>1, <2>2
<1>4. ASSUME NEW n \in 1 .. k
      PROVE  /\ new[n].hash \in Nat
             /\ new[n + 1].bucket = alt_index(hp, partial_key(new[n].hash), new[n].bucket)
  <2>1. new[n] = path[n] /\ new[n].hash \in Nat
    BY <1>2
  <2>2. CASE n = k
    <3>1. path # <<>>
      <4>1. k > 0
        BY <1>1
      <4>. QED BY <4>1
    <3>. QED BY <1>2, <2>1, <2>2, <3>1
  <2>3. CASE n # k
    <3>1. n \in 1 .. k - 1 /\ n + 1 \in 1 .. k
      BY <1>1, <2>3
    <3>2. path[n + 1].bucket = alt_index(hp, partial_key(path[n].hash), path[n].bucket)
      BY <3>1 DEF PathOK
    <3>. QED BY <1>2, <2>1, <3>1, <3>2
  <2>. QED BY <2>2, <2>3
<1>5. (k + 1) - 1 = k
  BY <1>1
<1>6. PathOK(hp, key, new)
  BY <1>2, <1>3, <1>4, <1>5 DEF PathOK, Records
<1>. QED
  BY <1>2, <1>6 DEF new

(* The bucket that comes next. *)
LEMMA NextBucketIs ==
  ASSUME NEW f, NEW hp \in Nat, f.hp = hp, NEW key \in Keys, PathOK(hp, key, f.path),
         \A n \in 1 .. Len(f.path) : f.path[n].hash \in Nat,
         NEW b, b = NextBucket(f, FirstBucket(hp, key), SecondBucket(hp, key))
  PROVE  /\ b \in Buckets(hp) /\ b \in Nat
         /\ f.path = <<>> => b \in TwoBuckets(hp, key)
         /\ f.path # <<>> => b = alt_index(hp, partial_key(f.path[Len(f.path)].hash),
                                           f.path[Len(f.path)].bucket)
<1>1. \A i \in Buckets(hp) : i \in Nat
  BY SizeSteps DEF Buckets
<1>2. CASE f.path = <<>>
  <2>1. b \in TwoBuckets(hp, key)
    BY <1>2 DEF NextBucket, TwoBuckets
  <2>. QED BY <1>1, <1>2, <2>1, KeyBuckets
<1>3. CASE f.path # <<>>
  <2>. DEFINE path == f.path
              k == Len(path)
              R == Records(hp)
  <2>1. b = alt_index(hp, partial_key(path[k].hash), path[k].bucket)
    BY <1>3 DEF NextBucket, Last
  <2>2. k \in 1 .. Len(path)
    <3>1. path \in Seq(R) /\ path # <<>>
      BY <1>3, PathRecords
    <3>. HIDE DEF path, R
    <3>. QED BY <3>1
  <2>3. path[k].bucket \in Buckets(hp)
    BY <2>2, PathRecords
  <2>4. partial_key(path[k].hash) \in Nat
    BY <2>2, PartialKey
  <2>. HIDE DEF k
  <2>5. b \in Buckets(hp)
    <3>. DEFINE index == path[k].bucket
                partial == partial_key(path[k].hash)
    <3>1. /\ index \in Nat /\ partial \in Nat
          /\ b = alt_index(hp, partial, index)
      BY <1>1, <2>1, <2>3, <2>4
    <3>. HIDE DEF index, partial, path
    <3>. QED BY <3>1, AltIndex
  <2>. QED BY <1>1, <1>3, <2>1, <2>5 DEF k
<1>. QED
  BY <1>2, <1>3

(* A record of the path is made; at its end the moves begin. *)
LEMMA PathData ==
  ASSUME DInv, NEW t \in Threads, Path(t)
  PROVE  DataStep(t)
<1>. DEFINE f      == frame[t]
            key    == call[t].key
            i      == Len(f.path)
            bucket == NextBucket(f, At1(t), At2(t))
            slot   == PathSlot(f.target, i)
            here   == buckets'[bucket][slot]
            r      == [bucket |-> bucket, slot |-> slot,
                       hash |-> IF here = Vacant THEN NoHash ELSE Hash[here.key]]
            path   == Append(f.path, r)
<1>1. /\ FrameTyped(f) /\ pc[t] = "path" /\ FrameOK("path", f, call[t])
      /\ f.hp \in Nat /\ key \in Keys /\ call[t] \in Calls
  BY OfThread DEF Path, FrameOK
<1>2. /\ PathOK(f.hp, key, f.path) /\ f.target \in Nodes(f.hp)
      /\ i <= f.target.depth /\ f.depth = -1
      /\ \A n \in 1 .. Len(f.path) : f.path[n].hash \in Nat
  BY <1>1 DEF FrameOK
<1>3. i \in Nat /\ f.target.depth \in Nat /\ f.target.depth < MAX_BFS_PATH_LEN
      /\ MAX_BFS_PATH_LEN \in Nat
  <2>1. i \in Nat
    BY <1>2, PathRecords
  <2>2. MAX_BFS_PATH_LEN \in Nat \ {0}
    BY TableAssumption
  <2>3. \A hp, y : y \in Nodes(hp) => y.depth \in Nat /\ y.depth < MAX_BFS_PATH_LEN
    BY <2>2 DEF Nodes
  <2>. QED BY <1>2, <2>1, <2>2, <2>3
<1>4. slot \in Slots
  <2>1. i \in 0 .. f.target.depth
    BY <1>2, <1>3
  <2>. DEFINE x == f.target
  <2>2. i \in 0 .. x.depth /\ x \in Nodes(f.hp)
    BY <1>2, <2>1
  <2>3. PathSlot(x, i) \in Slots
    <3>. HIDE DEF x, i
    <3>. QED BY <2>2, PathSlots
  <2>. QED BY <2>3
<1>5. /\ bucket \in Buckets(f.hp) /\ bucket \in Nat
      /\ f.path = <<>> => bucket \in TwoBuckets(f.hp, key)
      /\ f.path # <<>> => bucket = alt_index(f.hp, partial_key(f.path[Len(f.path)].hash),
                                             f.path[Len(f.path)].bucket)
  <2>. DEFINE b == bucket
              hp == f.hp
  <2>1. /\ b = NextBucket(f, FirstBucket(hp, key), SecondBucket(hp, key)) /\ hp \in Nat
        /\ f.hp = hp /\ PathOK(hp, key, f.path) /\ key \in Keys
    BY <1>1, <1>2 DEF At1, At2
  <2>2. /\ b \in Buckets(hp) /\ b \in Nat
        /\ f.path = <<>> => b \in TwoBuckets(hp, key)
        /\ f.path # <<>> => b = alt_index(hp, partial_key(f.path[Len(f.path)].hash),
                                          f.path[Len(f.path)].bucket)
    <3>. HIDE DEF b, hp, key, f
    <3>. QED BY <1>2, <2>1, NextBucketIs
  <2>. QED BY <2>2
<1>6. CASE ExpandedMeanwhile(t, bucket)
  BY <1>1, <1>6, EndsData
<1>7. ASSUME ReadsOne(t, bucket), OnlyAt(t, pc, pc'), pc'[t] \in {"path", "get_locks"},
             NEW g, frame' = [frame EXCEPT ![t] = g], FrameOK(pc'[t], g, call[t])
      PROVE  DataStep(t)
  <2>1. /\ DataInv' /\ \A l \in LockIds : is_migrated[l] => is_migrated'[l]
        /\ OnlyAt(t, call, call') /\ call'[t] = call[t]
        /\ \A u \in Threads : Held(u, 1)' = Held(u, 1)
    <3>. HIDE DEF bucket
    <3>. QED BY <1>1, <1>5, <1>7, ReadsOneData
  <2>2. OnlyAt(t, frame, frame') /\ frame'[t] = g
    BY <1>7, NewFrame
  <2>3. ThreadData(t)'
    BY <1>7, <2>1, <2>2 DEF ThreadData, Rehashed
  <2>. QED
    BY <1>7, <2>1, <2>2, <2>3 DEF DataStep
<1>8. ASSUME ReadsOne(t, bucket), OnlyAt(t, pc, pc'), pc'[t] \in {"path", "get_locks"}
      PROVE  /\ PathOK(f.hp, key, path) /\ Len(path) = i + 1
             /\ here # Vacant => r.hash \in Nat
             /\ \A n \in 1 .. i : path[n] = f.path[n]
             /\ path[i + 1] = r
  <2>1. GoodTable(f.hp, buckets')
    <3>. HIDE DEF bucket
    <3>. QED BY <1>1, <1>5, <1>8, ReadsOneData
  <2>2. here \in KV \cup {Vacant}
    <3>. DEFINE data == buckets'
                b == bucket
                s == slot
    <3>1. GoodTable(f.hp, data) /\ b \in Buckets(f.hp) /\ s \in Slots
      BY <1>4, <1>5, <2>1
    <3>2. data[b][s] \in KV \cup {Vacant}
      <4>. HIDE DEF data, b, s
      <4>. QED BY <3>1, GoodCell
    <3>. QED BY <3>2
  <2>3. here # Vacant => Hash[here.key] \in Nat
    <3>. HIDE DEF here
    <3>. QED BY <2>2, TableAssumption DEF KV
  <2>4. r \in Records(f.hp) /\ r.bucket = bucket /\ (here # Vacant => r.hash \in Nat)
    <3>. HIDE DEF here, slot, bucket
    <3>. QED BY <1>4, <1>5, <2>3 DEF Records, slot, bucket
  <2>5. PathOK(f.hp, key, path) /\ Len(path) = i + 1
    <3>. DEFINE p == f.path
                hp == f.hp
    <3>1. /\ PathOK(hp, key, p) /\ \A n \in 1 .. Len(p) : p[n].hash \in Nat
          /\ r \in Records(hp)
          /\ p = <<>> => r.bucket \in TwoBuckets(hp, key)
          /\ p # <<>> => r.bucket = alt_index(hp, partial_key(p[Len(p)].hash),
                                              p[Len(p)].bucket)
      <4>. HIDE DEF r, bucket
      <4>. QED BY <1>2, <1>5, <2>4
    <3>2. PathOK(hp, key, Append(p, r)) /\ Len(Append(p, r)) = Len(p) + 1
      <4>. HIDE DEF p, hp, r, key
      <4>. QED BY <3>1, LongerPathOK
    <3>. QED BY <3>2
  <2>6. /\ \A n \in 1 .. i : path[n] = f.path[n]
        /\ path[i + 1] = r
    <3>. DEFINE p == f.path
                R == Records(f.hp)
    <3>1. p \in Seq(R) /\ r \in R
      <4>1. r \in R
        BY <2>4
      <4>. HIDE DEF r
      <4>. QED BY <1>2, <4>1, PathRecords
    <3>2. /\ \A n \in 1 .. Len(p) : Append(p, r)[n] = p[n]
          /\ Append(p, r)[Len(p) + 1] = r
      <4>. HIDE DEF p, R, r
      <4>. QED BY <3>1
    <3>. QED BY <3>2
  <2>. QED BY <2>4, <2>5, <2>6
<1>. HIDE DEF r
<1>9. ASSUME ReadsOne(t, bucket), Goto(t, "get_locks"),
             frame' = [frame EXCEPT ![t] = MoveFrame(t, path, i)]
      PROVE  DataStep(t)
  <2>1. OnlyAt(t, pc, pc') /\ pc'[t] = "get_locks"
    BY <1>9, Going DEF DInv
  <2>2. PathOK(f.hp, key, path) /\ Len(path) = i + 1
    BY <1>8, <1>9, <2>1
  <2>. DEFINE q == path
              d == i
  <2>3. /\ FrameTyped(frame[t]) /\ FrameOK("path", frame[t], call[t])
        /\ PathOK(frame[t].hp, call[t].key, q) /\ d \in Nat /\ d < Len(q)
        /\ d < MAX_BFS_PATH_LEN
    <3>1. d \in Nat /\ d < MAX_BFS_PATH_LEN
      BY <1>1, <1>2, <1>3
    <3>2. d < Len(q)
      BY <2>2, <3>1
    <3>3. FrameTyped(frame[t]) /\ FrameOK("path", frame[t], call[t])
      BY <1>1, <1>2, <1>3
    <3>. QED BY <2>2, <3>1, <3>2, <3>3
  <2>4. FrameOK("get_locks", MoveFrame(t, q, d), call[t])
    <3>. HIDE DEF q, d
    <3>. QED BY ONLY <2>3, MoveFrameOK
  <2>. DEFINE g == MoveFrame(t, q, d)
  <2>5. frame' = [frame EXCEPT ![t] = g] /\ FrameOK("get_locks", g, call[t])
    BY <1>9, <2>4
  <2>. HIDE DEF g, bucket
  <2>. QED BY <1>7, <1>9, <2>1, <2>5
<1>10. ASSUME ReadsOne(t, bucket), here # Vacant, i # f.target.depth, pc' = pc,
              frame' = [frame EXCEPT ![t].path = path]
       PROVE  DataStep(t)
  <2>1. OnlyAt(t, pc, pc') /\ pc'[t] = "path"
    BY <1>1, <1>10, Unchanged, Shapes DEF DInv
  <2>2. /\ PathOK(f.hp, key, path) /\ Len(path) = i + 1 /\ r.hash \in Nat
        /\ \A n \in 1 .. i : path[n] = f.path[n]
        /\ path[i + 1] = r
    BY <1>8, <1>10, <2>1
  <2>. DEFINE q == path
              g == [frame[t] EXCEPT !.path = q]
  <2>3. \A n \in 1 .. Len(q) : q[n].hash \in Nat
    <3>. HIDE DEF q
    <3>1. \A n \in 1 .. i + 1 : n \in 1 .. i \/ n = i + 1
      BY <1>3
    <3>2. /\ Len(q) = i + 1 /\ \A n \in 1 .. i : q[n] = f.path[n] /\ q[i + 1] = r
          /\ q[i + 1] = r
      BY <2>2 DEF q
    <3>. HIDE DEF i
    <3>. QED BY <1>2, <2>2, <3>1, <3>2 DEF i
  <2>4. Len(q) <= f.target.depth
    <3>1. i + 1 <= f.target.depth
      BY <1>2, <1>3, <1>10
    <3>. QED BY <2>2, <3>1
  <2>5. PathOK(f.hp, key, q)
    BY <2>2
  <2>. HIDE DEF q
  <2>6. frame' = [frame EXCEPT ![t] = g]
    BY <1>10, Shapes DEF OfThreads, DInv, q
  <2>7. g = AFrame(f.hp, f.cont, f.want, f.queue, f.target, q, f.depth, f.cursor)
    BY <1>1, SetPath
  <2>8. FrameOK("path", g, call[t])
    <3>. HIDE DEF g
    <3>1. g.hp = f.hp /\ g.path = q /\ g.depth = f.depth /\ g.target = f.target
      <4>. HIDE DEF f
      <4>. QED BY <2>7 DEF AFrame
    <3>. QED BY <1>1, <1>2, <1>3, <2>3, <2>4, <2>5, <3>1 DEF FrameOK
  <2>. HIDE DEF g, bucket
  <2>. QED BY <1>7, <1>10, <2>1, <2>6, <2>8
<1>. QED
  <2>1. \/ ExpandedMeanwhile(t, bucket)
        \/ /\ ReadsOne(t, bucket)
           /\ IF here = Vacant \/ i = f.target.depth
              THEN /\ frame' = [frame EXCEPT ![t] = MoveFrame(t, path, i)]
                   /\ Goto(t, "get_locks")
              ELSE /\ frame' = [frame EXCEPT ![t].path = path]
                   /\ pc' = pc
    BY Zenon DEF Path, r
  <2>. HIDE DEF bucket, here, i, path
  <2>. QED
    BY <1>6, <1>9, <1>10, <2>1, Zenon

-----------------------------------------------------------------------------
(* Steps that own the whole table *)

(* A table has more buckets than its hashpower. *)
LEMMA EnoughBuckets == \A n \in Nat : hashsize(n) > n
<1>. DEFINE N == {n \in Nat : hashsize(n) > n}
<1>1. 0 \in N
  BY SizeSteps
<1>2. ASSUME NEW n \in Nat, n \in N PROVE n + 1 \in N
  <2>1. hashsize(n + 1) = 2 * hashsize(n) /\ hashsize(n) \in Nat /\ hashsize(n) > n
    BY <1>2, SizeSteps
  <2>. QED BY <2>1
<1>3. \A n \in Nat : n \in N
  <2>. HIDE DEF N
  <2>. QED BY <1>1, <1>2, NatSetInduction
<1>. QED
  BY <1>3

(* The loop of reserve_calc ends. *)
LEMMA ReserveCalc ==
  ASSUME NEW n \in Nat
  PROVE  reserve_calc(n) \in Nat
<1>. DEFINE S      == SLOT_PER_BUCKET
            a      == n + S - 1
            needed == a \div S
            Enough == {hp \in Nat : hashsize(hp) >= needed}
            Calculated(hp) == /\ hashsize(hp) >= needed
                              /\ \A q \in 0 .. hp - 1 : hashsize(q) < needed
<1>1. S \in Nat \ {0} /\ a \in Nat
  BY TableAssumption
<1>2. needed \in Nat /\ needed <= n
  <2>1. needed \in Nat /\ needed * S <= a
    BY <1>1, Quotient
  <2>2. ASSUME needed > n PROVE FALSE
    <3>. HIDE DEF needed
    <3>1. n + 1 \in Nat /\ n + 1 <= needed
      BY <2>1, <2>2
    <3>2. (n + 1) * S <= needed * S /\ needed * S \in Nat /\ (n + 1) * S \in Nat
      <4>. HIDE DEF S
      <4>. QED BY <1>1, <2>1, <3>1, ProductMonotonic
    <3>3. (n + 1) * S = n * S + S /\ n * S >= n /\ n * S \in Nat
      <4>1. n * 1 <= n * S
        <5>. HIDE DEF S
        <5>1. 1 \in Nat /\ 1 <= S /\ S \in Nat
          BY <1>1
        <5>2. 1 * n <= S * n
          BY <5>1, ProductMonotonic
        <5>. QED BY <1>1, <5>2
      <4>. HIDE DEF S
      <4>. QED BY <1>1, <4>1
    <3>. HIDE DEF S
    <3>4. needed * S <= n + S - 1
      BY <2>1 DEF a
    <3>. QED BY <1>1, <2>1, <3>2, <3>3, <3>4
  <2>. HIDE DEF needed
  <2>. QED BY <2>1, <2>2
<1>. HIDE DEF needed
<1>3. n \in Enough
  BY <1>2, EnoughBuckets, SizeSteps
<1>4. PICK m \in Enough : \A hp \in Enough : m <= hp
  BY <1>3, LeastElement
<1>5. m \in 0 .. n /\ Calculated(m)
  <2>1. m \in Nat /\ m <= n /\ hashsize(m) >= needed
    BY <1>3, <1>4
  <2>2. ASSUME NEW q \in 0 .. m - 1 PROVE hashsize(q) < needed
    <3>1. q \in Nat /\ q < m /\ hashsize(q) \in Nat
      BY <2>1, SizeSteps
    <3>2. q \notin Enough
      BY <1>4, <2>1, <3>1
    <3>. QED BY <1>2, <3>1, <3>2
  <2>. QED BY <2>1, <2>2
<1>6. reserve_calc(n) = CHOOSE hp \in 0 .. n : Calculated(hp)
  BY DEF reserve_calc, needed
<1>. HIDE DEF Calculated
<1>7. reserve_calc(n) \in 0 .. n
  BY <1>5, <1>6
<1>. QED
  BY <1>7

(* The hashpower asked for is a number. *)
LEMMA WantedNat == \A c \in Calls : WantedHashpower(c) \in Nat
  BY CallsAssumption, ReserveCalc DEF WantedHashpower

(* With all locks. *)
WithAll == {"double", "swap", "install", "expand", "clear", "take_table", "table"}

(* What a thread with all locks finds. *)
LEMMA AllLocks ==
  ASSUME DInv, NEW t \in Threads, pc[t] \in WithAll
  PROVE  /\ Held(t, 1) = LockIds
         /\ \A u \in Threads \ {t} : pc[u] # "install"
         /\ pc[t] = "install" =>
              SwappedOK(buckets, hashpower, old, old_hashpower, is_migrated, num_remaining)
         /\ pc[t] # "install" =>
              /\ ~ Swapped
              /\ TableOK(buckets, hashpower, old, old_hashpower, is_migrated, num_remaining)
              /\ GoodTable(hashpower, buckets) /\ hashpower \in Nat /\ old_hashpower \in Nat
         /\ DOMAIN is_migrated = LockIds /\ DOMAIN elem_counter = LockIds
         /\ call[t] \in Calls /\ pc[t] # "idle"
<1>1. Held(t, 1) = LockIds /\ OneContainer /\ call[t] \in Calls /\ pc[t] # "idle"
  BY OfThread DEF ThreadInv, HoldsEverything, WithAll
<1>2. \A u \in Threads \ {t} : pc[u] # "install"
  <2>. SUFFICES ASSUME NEW u \in Threads \ {t}, pc[u] = "install" PROVE FALSE
    OBVIOUS
  <2>1. Held(u, 1) = LockIds
    BY OfThread DEF ThreadInv, HoldsEverything
  <2>. QED BY <1>1, <2>1, OneHolder, LocksFinite
<1>3. Swapped <=> pc[t] = "install"
  BY <1>2 DEF Swapped
<1>. QED
  BY <1>1, <1>2, <1>3 DEF DInv, DataInv, SwappedOK, TableOK, GoodTable

(* A step to a table that is not being rehashed. *)
LEMMA FreshStep ==
  ASSUME DInv, NEW t \in Threads, pc[t] \in WithAll,
         OnlyAt(t, pc, pc'), OnlyAt(t, frame, frame'), OnlyAt(t, call, call'),
         \A u \in Threads \ {t} : Held(u, 1)' = Held(u, 1),
         pc'[t] # "install", FrameOK(pc[t], frame[t], call[t])',
         pc'[t] \notin {"body", "move", "land"},
         LoneTable(hashpower', buckets'), old' = NoOld, old_hashpower' \in Nat,
         num_remaining' = 0, is_migrated' = Marked(LockIds, TRUE),
         DOMAIN elem_counter' = LockIds
  PROVE  DataStep(t)
<1>1. Held(t, 1) = LockIds /\ \A u \in Threads \ {t} : pc[u] # "install"
  BY AllLocks
<1>2. is_migrated' = [l \in LockIds |-> TRUE]
  BY DEF Marked
<1>3. DataInv'
  BY <1>1, <1>2, FreshData
<1>4. Unmigrated(is_migrated') = {}
  BY <1>2 DEF Unmigrated
<1>5. ThreadData(t)'
  BY <1>4 DEF ThreadData, Rehashed
<1>. QED
  BY <1>1, <1>3, <1>5 DEF DataStep

(* The same, when the call ends. *)
LEMMA FreshEnd ==
  ASSUME DInv, NEW t \in Threads, pc[t] \in WithAll,
         (\E r : Return(t, r)) \/ StartOver(t), locks' = Unlocked(t),
         LoneTable(hashpower', buckets'), old' = NoOld, old_hashpower' \in Nat,
         num_remaining' = 0, is_migrated' = Marked(LockIds, TRUE),
         DOMAIN elem_counter' = LockIds
  PROVE  DataStep(t)
<1>1. /\ OnlyAt(t, pc, pc') /\ OnlyAt(t, frame, frame') /\ OnlyAt(t, call, call')
      /\ pc'[t] \in {"idle", "snapshot"} /\ ThreadData(t)'
  BY AllLocks, EndedData, StartedOverData
<1>2. \A u \in Threads \ {t} : Held(u, 1)' = Held(u, 1)
  BY Unlocking, Shapes DEF DInv
<1>3. FrameOK(pc[t], frame[t], call[t])'
  BY <1>1 DEF ThreadData
<1>. QED
  BY <1>1, <1>2, <1>3, FreshStep

(* The old container is moved into the new one. *)
LEMMA AllMigratedLone ==
  ASSUME DInv, NEW t \in Threads, pc[t] \in WithAll, pc[t] # "install"
  PROVE  LoneTable(hashpower, AllMigrated)
  BY AllLocks, AllMigratedTable DEF AllMigrated

(* A doubling, and the constructor of a locked table, rehash what is left. *)
LEMMA DoubleData ==
  ASSUME DInv, NEW t \in Threads, Double(t) \/ TakeTable(t)
  PROVE  DataStep(t)
<1>1. /\ pc[t] \in {"double", "take_table"} /\ pc[t] \in WithAll /\ pc[t] # "install"
      /\ buckets' = AllMigrated /\ old' = NoOld /\ num_remaining' = 0
      /\ hashpower' = hashpower /\ old_hashpower' = old_hashpower /\ frame' = frame
      /\ Continue
  BY DEF Double, TakeTable, WithAll
<1>2. elem_counter' = elem_counter /\ locks' = locks
      /\ is_migrated' = Marked(LockIds, TRUE)
  <2>1. DOMAIN is_migrated = LockIds /\ DOMAIN elem_counter = LockIds
    BY <1>1, AllLocks
  <2>2. CASE Double(t)
    <3>1. ResizedCounters(hashpower + 1) = elem_counter
      BY NoNewLocks DEF ResizedCounters, DInv
    <3>2. locks' = locks
      BY <2>2, NoNewLocks DEF Double, DInv
    <3>. QED BY <2>1, <2>2, <3>1, <3>2 DEF Double
  <2>3. CASE TakeTable(t)
    BY <2>1, <2>3 DEF TakeTable
  <2>. QED BY <2>2, <2>3
<1>3. PICK q \in {"swap", "table"} : Goto(t, q)
  BY DEF Double, TakeTable
<1>4. /\ OnlyAt(t, pc, pc') /\ pc'[t] = q
      /\ OnlyAt(t, frame, frame') /\ frame'[t] = frame[t]
      /\ OnlyAt(t, call, call') /\ call'[t] = call[t]
  BY <1>1, <1>3, Going, OldFrame, Continuing DEF DInv
<1>5. FrameOK(pc'[t], frame'[t], call'[t])
  <2>1. FrameOK(pc[t], frame[t], call[t]) /\ pc[t] # "idle" /\ q \in AnyFrame
    BY <1>1, OfThread DEF AnyFrame
  <2>. QED BY <1>4, <2>1, FramePasses
<1>6. \A u \in Threads : Held(u, 1)' = Held(u, 1)
  BY <1>2, SameLocks DEF DInv
<1>7. LoneTable(hashpower', buckets') /\ old_hashpower' \in Nat
  BY <1>1, AllMigratedLone, AllLocks
<1>8. DOMAIN elem_counter' = LockIds
  BY <1>1, <1>2, AllLocks
<1>. QED
  BY <1>1, <1>2, <1>4, <1>5, <1>6, <1>7, <1>8, FreshStep

(* The two containers change places. *)
LEMMA SwapData ==
  ASSUME DInv, NEW t \in Threads, Swap(t)
  PROVE  DataStep(t)
<1>1. /\ pc[t] = "swap" /\ pc[t] \in WithAll /\ pc[t] # "install"
      /\ buckets' = old /\ hashpower' = old_hashpower
      /\ old' = buckets /\ old_hashpower' = hashpower
      /\ locks' = locks /\ elem_counter' = elem_counter /\ is_migrated' = is_migrated
      /\ num_remaining' = num_remaining /\ frame' = frame /\ Continue
  BY DEF Swap, WithAll, lockVars
<1>2. /\ OnlyAt(t, pc, pc') /\ pc'[t] = "install"
      /\ OnlyAt(t, frame, frame') /\ frame'[t] = frame[t]
      /\ OnlyAt(t, call, call') /\ call'[t] = call[t]
  BY <1>1, Going, OldFrame, Continuing DEF DInv, Swap
<1>3. FrameOK(pc'[t], frame'[t], call'[t])
  <2>1. FrameOK(pc[t], frame[t], call[t]) /\ pc[t] # "idle" /\ "install" \in AnyFrame
    BY <1>1, OfThread DEF AnyFrame
  <2>. QED BY <1>2, <2>1, FramePasses
<1>4. \A u \in Threads : Held(u, 1)' = Held(u, 1)
  BY <1>1, SameLocks DEF DInv
<1>5. /\ TableOK(buckets, hashpower, old, old_hashpower, is_migrated, num_remaining)
      /\ Unmigrated(is_migrated) = {} /\ Held(t, 1) = LockIds
  BY <1>1, AllLocks, OfThread DEF Rehashed
<1>6. LoneTable(hashpower, buckets) /\ old = NoOld /\ num_remaining = 0
  BY <1>5, RehashedTable
<1>7. SwappedOK(buckets', hashpower', old', old_hashpower', is_migrated', num_remaining')
  BY <1>1, <1>5, <1>6 DEF SwappedOK, TableOK
<1>8. Swapped'
  BY <1>2 DEF Swapped
<1>9. DataInv'
  BY <1>1, <1>7, <1>8 DEF DInv, DataInv
<1>10. ThreadData(t)'
  BY <1>2, <1>3 DEF ThreadData, Rehashed
<1>. QED
  BY <1>2, <1>4, <1>5, <1>9, <1>10 DEF DataStep

(* The container of the doubling, with all elements or with none. *)
LEMMA InstallData ==
  ASSUME DInv, NEW t \in Threads, Install(t)
  PROVE  DataStep(t)
<1>1. /\ pc[t] = "install" /\ pc[t] \in WithAll
      /\ hashpower' = old_hashpower + 1 /\ old_hashpower' = old_hashpower
      /\ locks' = Unlocked(t) /\ StartOver(t) /\ elem_counter' = elem_counter
  BY DEF Install, WithAll
<1>2. /\ Held(t, 1) = LockIds /\ DOMAIN elem_counter = LockIds
      /\ SwappedOK(buckets, hashpower, old, old_hashpower, is_migrated, num_remaining)
      /\ \A u \in Threads \ {t} : pc[u] # "install"
  BY <1>1, AllLocks
<1>3. /\ LoneTable(old_hashpower, old) /\ old_hashpower \in Nat
      /\ is_migrated \in [LockIds -> BOOLEAN] /\ Unmigrated(is_migrated) = {}
      /\ num_remaining = 0
  BY <1>2 DEF SwappedOK, LoneTable, GoodTable
<1>4. CASE hashsize(old_hashpower) < kMaxNumLocks
  <2>1. /\ buckets' = Doubled(table(old_hashpower, old)).data /\ old' = NoOld
        /\ is_migrated' = is_migrated /\ num_remaining' = num_remaining
    BY <1>4 DEF Install
  <2>2. LoneTable(hashpower', buckets')
    BY <1>1, <1>3, <2>1, DoubledGood
  <2>3. is_migrated' = Marked(LockIds, TRUE)
    BY <1>3, <2>1 DEF Unmigrated, Marked
  <2>. QED
    BY <1>1, <1>2, <1>3, <2>1, <2>2, <2>3, FreshEnd
<1>5. CASE ~ (hashsize(old_hashpower) < kMaxNumLocks)
  <2>1. /\ buckets' = bucket_container(old_hashpower + 1) /\ old' = old
        /\ is_migrated' = [l \in LockIds |-> FALSE]
        /\ num_remaining' = kMaxNumLocks
    BY <1>3, <1>5, LocksFinite DEF Install, Marked
  <2>2. hashsize(old_hashpower) >= kMaxNumLocks
    BY <1>3, <1>5, SizeSteps, TableAssumption
  <2>3. TableOK(buckets', hashpower', old', old_hashpower', is_migrated', num_remaining')
    BY <1>1, <1>3, <2>1, <2>2, LazyTable
  <2>4. OnlyAt(t, pc, pc') /\ pc'[t] = "snapshot"
    BY <1>1, StartedOverData
  <2>5. ~ Swapped'
    BY <1>2, <2>4 DEF Swapped, OnlyAt
  <2>6. DataInv'
    BY <1>1, <1>2, <2>3, <2>5 DEF DataInv
  <2>. QED
    BY <1>1, <1>2, <2>6, StartOverStep
<1>. QED
  BY <1>4, <1>5

(* A new table with all elements of this one. *)
LEMMA RebuildData ==
  ASSUME DInv, NEW t \in Threads, pc[t] \in WithAll, pc[t] # "install",
         NEW hp \in Nat, NEW unlocked, unlocked \in {locks, Unlocked(t)}, NEW holder,
         Rebuild(hp, unlocked, holder)
  PROVE  /\ LoneTable(hashpower', buckets') /\ old' = NoOld /\ old_hashpower' \in Nat
         /\ num_remaining' = 0 /\ is_migrated' = Marked(LockIds, TRUE)
         /\ DOMAIN elem_counter' = LockIds
         /\ locks' = unlocked
<1>. DEFINE new == Rebuilt(AllMigrated, hp)
<1>1. LoneTab(new)
  <2>1. GoodTable(hashpower, AllMigrated)
    BY AllMigratedLone DEF LoneTable
  <2>. QED BY <2>1, RebuiltGood
<1>2. /\ buckets' = new.data /\ hashpower' = new.hp /\ old' = NoOld /\ num_remaining' = 0
      /\ elem_counter' = ResizedCounters(new.hp)
      /\ is_migrated' = Marked(DOMAIN elem_counter', TRUE)
      /\ locks' = ResizedLocks(unlocked, new.hp, holder)
      /\ old_hashpower' = old_hashpower
  BY DEF Rebuild
<1>. HIDE DEF new
<1>3. LoneTable(hashpower', buckets')
  BY <1>1, <1>2 DEF LoneTab
<1>4. elem_counter' = elem_counter
  BY <1>2, NoNewLocks DEF ResizedCounters, DInv
<1>5. locks' = unlocked
  <2>1. unlocked \in Seq([LockIds -> Threads \cup {NoThread}]) /\ Len(unlocked) = 1
    BY Unlocking, Shapes DEF OneContainer, DInv
  <2>. QED BY <1>2, <2>1, NoMoreLocks
<1>. QED
  BY <1>2, <1>3, <1>4, <1>5, AllLocks

(* A resize, or its exception. *)
LEMMA ExpandSimpleData ==
  ASSUME DInv, NEW t \in Threads, ExpandSimple(t)
  PROVE  DataStep(t)
<1>1. pc[t] = "expand" /\ pc[t] \in WithAll /\ pc[t] # "install" /\ pc[t] # "idle"
  BY DEF ExpandSimple, WithAll
<1>2. CASE WantedHashpower(call[t]) > MaxHashpower
  <2>1. /\ Return(t, "threw") /\ locks' = Unlocked(t)
        /\ UNCHANGED <<containers, is_migrated, num_remaining>>
        /\ elem_counter' = elem_counter
    BY <1>2 DEF ExpandSimple
  <2>. QED BY <1>1, <2>1, SameEnd
<1>3. CASE ~ (WantedHashpower(call[t]) > MaxHashpower)
  <2>. DEFINE hp == WantedHashpower(call[t])
  <2>1. hp \in Nat
    BY <1>1, AllLocks, WantedNat
  <2>2. Return(t, "yes") /\ Rebuild(hp, Unlocked(t), NoThread)
    BY <1>3 DEF ExpandSimple
  <2>. HIDE DEF hp
  <2>3. /\ LoneTable(hashpower', buckets') /\ old' = NoOld /\ old_hashpower' \in Nat
        /\ num_remaining' = 0 /\ is_migrated' = Marked(LockIds, TRUE)
        /\ DOMAIN elem_counter' = LockIds
        /\ locks' = Unlocked(t)
    BY <1>1, <2>1, <2>2, RebuildData
  <2>. QED BY <1>1, <2>2, <2>3, FreshEnd
<1>. QED
  BY <1>2, <1>3

(* The table is emptied. *)
LEMMA EmptiedData ==
  ASSUME DInv, NEW t \in Threads, pc[t] \in WithAll, pc[t] # "install", Emptied
  PROVE  /\ LoneTable(hashpower', buckets') /\ old' = NoOld /\ old_hashpower' \in Nat
         /\ num_remaining' = 0 /\ is_migrated' = Marked(LockIds, TRUE)
         /\ DOMAIN elem_counter' = LockIds
<1>1. /\ buckets' = bucket_container(hashpower) /\ old' = NoOld /\ num_remaining' = 0
      /\ elem_counter' = Marked(DOMAIN elem_counter, 0)
      /\ is_migrated' = Marked(DOMAIN is_migrated, TRUE)
      /\ hashpower' = hashpower /\ old_hashpower' = old_hashpower
  BY DEF Emptied
<1>2. LoneTable(hashpower, bucket_container(hashpower))
  BY AllLocks, EmptyTable DEF LoneTable
<1>. QED
  BY <1>1, <1>2, AllLocks DEF Marked

(* cuckoo_clear *)
LEMMA ClearData ==
  ASSUME DInv, NEW t \in Threads, Clear(t)
  PROVE  DataStep(t)
<1>1. /\ pc[t] = "clear" /\ pc[t] \in WithAll /\ pc[t] # "install" /\ Emptied
      /\ locks' = Unlocked(t) /\ Return(t, "done")
  BY DEF Clear, WithAll
<1>. QED
  BY <1>1, EmptiedData, FreshEnd

-----------------------------------------------------------------------------
(* The owner of the table *)

(* The owner of the table has the whole of it. *)
LEMMA OwnersTable ==
  ASSUME DInv, NEW t \in Threads, pc[t] = "table"
  PROVE  /\ LoneTable(hashpower, buckets) /\ GoodTable(hashpower, buckets)
         /\ hashpower \in Nat /\ old_hashpower \in Nat
         /\ old = NoOld /\ num_remaining = 0 /\ is_migrated = Marked(LockIds, TRUE)
         /\ DOMAIN elem_counter = LockIds /\ DOMAIN is_migrated = LockIds
<1>1. pc[t] \in WithAll /\ pc[t] # "install"
  BY DEF WithAll
<1>2. TableOK(buckets, hashpower, old, old_hashpower, is_migrated, num_remaining)
  BY <1>1, AllLocks
<1>3. Unmigrated(is_migrated) = {}
  BY OfThread DEF Rehashed
<1>4. LoneTable(hashpower, buckets) /\ old = NoOld /\ num_remaining = 0
  BY <1>2, <1>3, RehashedTable
<1>5. is_migrated = Marked(LockIds, TRUE)
  BY <1>2, <1>3 DEF TableOK, Unmigrated, Marked
<1>. QED
  BY <1>1, <1>4, <1>5, AllLocks

(* The owner changes at most its iterator. *)
OwnerFrame(t) ==
  /\ pc' = pc /\ call' = call
  /\ frame' = frame \/ \E to : SetCursor(t, to)

(* It stays the owner, and its call the same. *)
LEMMA OwnersFrame ==
  ASSUME DInv, NEW t \in Threads, pc[t] = "table", OwnerFrame(t)
  PROVE  /\ OnlyAt(t, pc, pc') /\ pc'[t] = "table" /\ OnlyAt(t, call, call')
         /\ OnlyAt(t, frame, frame') /\ FrameOK(pc[t], frame[t], call[t])'
<1>1. OnlyAt(t, pc, pc') /\ pc'[t] = "table" /\ OnlyAt(t, call, call') /\ call'[t] = call[t]
  BY Unchanged, Shapes DEF OwnerFrame, DInv
<1>2. FrameTyped(frame[t]) /\ FrameOK("table", frame[t], call[t]) /\ "table" \in AnyFrame
  BY OfThread DEF AnyFrame
<1>3. CASE frame' = frame
  BY <1>1, <1>2, <1>3, OldFrame
<1>4. ASSUME NEW to, SetCursor(t, to)
      PROVE  OnlyAt(t, frame, frame') /\ FrameOK("table", frame'[t], call[t])
  <2>. DEFINE f == frame[t]
              g == [frame[t] EXCEPT !.cursor = to]
  <2>1. frame' = [frame EXCEPT ![t] = g]
    BY <1>4, Shapes DEF SetCursor, OfThreads, DInv
  <2>2. g = AFrame(f.hp, f.cont, f.want, f.queue, f.target, f.path, f.depth, to)
    BY <1>2, SetCursorOf
  <2>3. FrameOK("table", g, call[t])
    <3>. HIDE DEF g
    <3>. QED BY <1>2, <2>2, FramePasses
  <2>4. OnlyAt(t, frame, frame') /\ frame'[t] = g
    <3>. HIDE DEF g
    <3>. QED BY <2>1, NewFrame
  <2>. HIDE DEF g
  <2>. QED BY <2>3, <2>4
<1>. QED
  BY <1>1, <1>3, <1>4 DEF OwnerFrame

(* It only looks. *)
LEMMA OwnerLooks ==
  ASSUME DInv, NEW t \in Threads, pc[t] = "table", OwnerFrame(t),
         UNCHANGED <<containers, lockVars>>
  PROVE  DataStep(t)
<1>1. /\ OnlyAt(t, pc, pc') /\ pc'[t] = "table" /\ OnlyAt(t, call, call')
      /\ OnlyAt(t, frame, frame') /\ FrameOK(pc[t], frame[t], call[t])'
  BY OwnersFrame
<1>2. /\ locks' = locks /\ elem_counter' = elem_counter /\ is_migrated' = is_migrated
      /\ num_remaining' = num_remaining /\ containers' = containers
  BY DEF lockVars
<1>3. \A u \in Threads : Held(u, 1)' = Held(u, 1)
  BY <1>2, SameLocks DEF DInv
<1>4. Unmigrated(is_migrated) = {}
  BY OfThread DEF Rehashed
<1>5. ThreadData(t)'
  BY <1>1, <1>2, <1>4 DEF ThreadData, Rehashed
<1>. QED
  BY <1>1, <1>2, <1>3, <1>5, SameDataStep

(* It changes the table. *)
LEMMA OwnerChanges ==
  ASSUME DInv, NEW t \in Threads, pc[t] = "table", OwnerFrame(t), locks' = locks,
         LoneTable(hashpower', buckets'), old' = NoOld, old_hashpower' \in Nat,
         num_remaining' = 0, is_migrated' = Marked(LockIds, TRUE),
         DOMAIN elem_counter' = LockIds
  PROVE  DataStep(t)
<1>1. /\ OnlyAt(t, pc, pc') /\ pc'[t] = "table" /\ OnlyAt(t, call, call')
      /\ OnlyAt(t, frame, frame') /\ FrameOK(pc[t], frame[t], call[t])'
  BY OwnersFrame
<1>2. \A u \in Threads : Held(u, 1)' = Held(u, 1)
  BY SameLocks DEF DInv
<1>3. pc[t] \in WithAll
  BY DEF WithAll
<1>. QED
  BY <1>1, <1>2, <1>3, FreshStep

(* find, and the iterators. *)
LEMMA LooksData ==
  ASSUME DInv, NEW t \in Threads, TableFind(t) \/ Begin(t) \/ Forward(t) \/ Back(t)
  PROVE  DataStep(t)
<1>1. pc[t] = "table" /\ OwnerFrame(t) /\ UNCHANGED <<containers, lockVars>>
  <2>1. pc[t] = "table" /\ pc' = pc /\ call' = call /\ UNCHANGED <<containers, lockVars>>
    BY DEF TableFind, Begin, Forward, Back, Moves
  <2>2. frame' = frame \/ \E to : SetCursor(t, to)
    BY Zenon DEF TableFind, Begin, Forward, Back
  <2>. QED BY <2>1, <2>2 DEF OwnerFrame
<1>. QED
  BY <1>1, OwnerLooks

(* del_from_bucket *)
LEMMA DelData ==
  ASSUME DInv, NEW t \in Threads, pc[t] = "table", OwnerFrame(t), NEW p, DelFromBucket(p)
  PROVE  DataStep(t)
<1>1. /\ buckets' = eraseKV(buckets, p[1], p[2]) /\ locks' = locks
      /\ hashpower' = hashpower /\ old' = old /\ old_hashpower' = old_hashpower
      /\ is_migrated' = is_migrated /\ num_remaining' = num_remaining
      /\ DOMAIN elem_counter' = DOMAIN elem_counter
  BY DEF DelFromBucket, Kept, Counted
<1>2. LoneTable(hashpower, buckets')
  BY <1>1, OwnersTable, EraseKeeps DEF LoneTable, Single
<1>. QED
  BY <1>1, <1>2, OwnersTable, OwnerChanges

(* erase, of a key or at an iterator. *)
LEMMA TableEraseData ==
  ASSUME DInv, NEW t \in Threads, TableErase(t) \/ EraseAt(t)
  PROVE  DataStep(t)
<1>1. /\ pc[t] = "table" /\ pc' = pc /\ call' = call
      /\ frame' = frame \/ \E to : SetCursor(t, to)
      /\ UNCHANGED <<containers, lockVars>> \/ \E p : DelFromBucket(p)
  BY Zenon DEF TableErase, EraseAt, Modifies
<1>2. OwnerFrame(t)
  BY <1>1 DEF OwnerFrame
<1>. QED
  BY <1>1, <1>2, OwnerLooks, DelData

(* clear *)
LEMMA TableClearData ==
  ASSUME DInv, NEW t \in Threads, TableClear(t)
  PROVE  DataStep(t)
<1>1. pc[t] = "table" /\ OwnerFrame(t) /\ Emptied /\ locks' = locks
  BY DEF TableClear, Modifies, OwnerFrame
<1>2. pc[t] \in WithAll /\ pc[t] # "install"
  BY <1>1 DEF WithAll
<1>. QED
  BY <1>1, <1>2, EmptiedData, OwnerChanges

(* rehash and reserve, with all elements in a new table. *)
LEMMA TableResizeData ==
  ASSUME DInv, NEW t \in Threads, TableResize(t)
  PROVE  DataStep(t)
<1>1. PICK c \in Calls :
        /\ pc[t] = "table" /\ pc' = pc /\ call' = call
        /\ \/ UNCHANGED <<containers, lockVars, frame>>
           \/ Rebuild(WantedHashpower(c), locks, t) /\ SetCursor(t, NoCursor)
  <2>1. \A c : c \in Asked(t, Resizing) => c \in Calls
    BY DEF Asked, DInv, Planned
  <2>. QED BY <2>1, Zenon DEF TableResize, Modifies
<1>2. OwnerFrame(t) /\ pc[t] \in WithAll /\ pc[t] # "install"
  BY <1>1 DEF OwnerFrame, WithAll
<1>3. CASE UNCHANGED <<containers, lockVars, frame>>
  BY <1>1, <1>2, <1>3, OwnerLooks
<1>4. CASE Rebuild(WantedHashpower(c), locks, t)
  <2>. DEFINE hp == WantedHashpower(c)
  <2>1. hp \in Nat /\ Rebuild(hp, locks, t)
    BY <1>4, WantedNat
  <2>. HIDE DEF hp
  <2>2. /\ LoneTable(hashpower', buckets') /\ old' = NoOld /\ old_hashpower' \in Nat
        /\ num_remaining' = 0 /\ is_migrated' = Marked(LockIds, TRUE)
        /\ DOMAIN elem_counter' = LockIds
        /\ locks' = locks
    BY <1>2, <2>1, RebuildData
  <2>. QED BY <1>1, <1>2, <2>2, OwnerChanges
<1>. QED
  BY <1>1, <1>3, <1>4

(* insert, in a table that may have been doubled for it. *)
LEMMA TableInsertData ==
  ASSUME DInv, NEW t \in Threads, TableInsert(t)
  PROVE  DataStep(t)
<1>1. PICK c \in Asked(t, {"insert"}) :
        LET kv    == [key |-> c.key, val |-> c.val]
            r     == InsertGrowing(Owned, kv, MaxHashpower)
            new   == r.tbl.hp
            count == ResizedCounters(new)
        IN  /\ Modifies(t)
            /\ SetCursor(t, NoCursor)
            /\ \/ UNCHANGED <<containers, lockVars>>
               \/ /\ cuckoo_find(buckets, hashpower, c.key) = {}
                  /\ buckets' = r.tbl.data
                  /\ hashpower' = new
                  /\ old_hashpower' = IF new = hashpower THEN old_hashpower ELSE new - 1
                  /\ locks' = GrownLocks(t, hashpower, new)
                  /\ elem_counter' =
                       [l \in DOMAIN count |->
                          count[l] + Cardinality({p \in cuckoo_find(buckets', new, c.key) :
                                                    lock_ind(p[1]) = l})]
                  /\ is_migrated' = Marked(DOMAIN count, TRUE)
                  /\ UNCHANGED <<old, num_remaining>>
  BY Zenon DEF TableInsert
<1>. DEFINE kv  == [key |-> c.key, val |-> c.val]
            tbl == Owned
            new == InsertGrowing(tbl, kv, MaxHashpower).tbl
<1>2. pc[t] = "table" /\ OwnerFrame(t)
  BY <1>1 DEF Modifies, OwnerFrame
<1>3. CASE UNCHANGED <<containers, lockVars>>
  BY <1>2, <1>3, OwnerLooks
<1>4. CASE /\ cuckoo_find(buckets, hashpower, c.key) = {}
           /\ buckets' = new.data
           /\ hashpower' = new.hp
           /\ old_hashpower' = IF new.hp = hashpower THEN old_hashpower ELSE new.hp - 1
           /\ locks' = GrownLocks(t, hashpower, new.hp)
           /\ \E count, more : /\ count = ResizedCounters(new.hp)
                               /\ elem_counter' = [l \in DOMAIN count |-> count[l] + more[l]]
                               /\ is_migrated' = Marked(DOMAIN count, TRUE)
           /\ UNCHANGED <<old, num_remaining>>
  <2>1. c \in Calls /\ kv \in KV /\ kv.key = c.key /\ c.key \in Keys
    BY CallsAssumption DEF Asked, DInv, Planned, KV
  <2>2. /\ LoneTable(hashpower, buckets) /\ hashpower \in Nat /\ old_hashpower \in Nat
        /\ GoodTable(hashpower, buckets)
    BY <1>2, OwnersTable
  <2>3. LoneTab(tbl) /\ tbl.data = buckets /\ tbl.hp = hashpower
    BY <2>2 DEF Owned, table, LoneTab
  <2>4. Absent(tbl.data, kv.key)
    BY <1>4, <2>1, <2>2, <2>3, FindFinds
  <2>5. LoneTab(new) /\ hashpower <= new.hp
    <3>. HIDE DEF tbl, kv
    <3>1. FALSE \in BOOLEAN /\ MaxHashpower \in Nat
      BY CallsAssumption
    <3>2. GrowingResult(InsertGrowing(tbl, kv, MaxHashpower), kv, MaxHashpower, FALSE,
                        tbl.hp, Contents(tbl.data))
      BY <2>1, <2>3, <2>4, <3>1, InsertGrowingGood
    <3>. QED BY <2>3, <3>2 DEF GrowingResult
  <2>. HIDE DEF new, tbl, kv
  <2>6. LoneTable(hashpower', buckets') /\ new.hp \in Nat
    BY <1>4, <2>5 DEF LoneTab, LoneTable, GoodTable
  <2>7. old_hashpower' \in Nat
    BY <1>4, <2>2, <2>5, <2>6
  <2>8. ResizedCounters(new.hp) = elem_counter /\ locks' = locks
    BY <1>4, NoNewLocks DEF ResizedCounters, GrownLocks, DInv
  <2>9. DOMAIN elem_counter' = LockIds /\ is_migrated' = Marked(LockIds, TRUE)
    BY <1>2, <1>4, <2>8, OwnersTable
  <2>10. old' = NoOld /\ num_remaining' = 0
    BY <1>2, <1>4, OwnersTable
  <2>. QED
    BY <1>2, <2>6, <2>7, <2>8, <2>9, <2>10, OwnerChanges
<1>. QED
  <2>1. \/ UNCHANGED <<containers, lockVars>>
        \/ LET count == ResizedCounters(new.hp)
               more  == [l \in DOMAIN count |->
                           Cardinality({p \in cuckoo_find(buckets', new.hp, c.key) :
                                          lock_ind(p[1]) = l})]
           IN  /\ cuckoo_find(buckets, hashpower, c.key) = {}
               /\ buckets' = new.data
               /\ hashpower' = new.hp
               /\ old_hashpower' = IF new.hp = hashpower THEN old_hashpower ELSE new.hp - 1
               /\ locks' = GrownLocks(t, hashpower, new.hp)
               /\ elem_counter' = [l \in DOMAIN count |-> count[l] + more[l]]
               /\ is_migrated' = Marked(DOMAIN count, TRUE)
               /\ UNCHANGED <<old, num_remaining>>
    <3>. HIDE DEF new
    <3>. QED BY <1>1 DEF new
  <2>. HIDE DEF new
  <2>. QED BY <1>3, <1>4, <2>1

(* All that the owner does. *)
LEMMA SessionData ==
  ASSUME DInv, NEW t \in Threads, Session(t)
  PROVE  DataStep(t)
  BY LooksData, TableInsertData, TableEraseData, TableClearData, TableResizeData DEF Session

-----------------------------------------------------------------------------
(* The inductive invariant *)

(* A planned call is begun. *)
LEMMA PlannedLess ==
  ASSUME Planned, NEW t \in Threads, left[t].n > 0, left' = [left EXCEPT ![t].n = @ - 1]
  PROVE  Planned'
<1>. DEFINE P == [calls : SUBSET Calls, n : Nat]
            p == [left[t] EXCEPT !.n = @ - 1]
<1>1. left \in [Threads -> P] /\ left[t] \in P
  BY DEF Planned
<1>2. p = [calls |-> left[t].calls, n |-> left[t].n - 1]
  BY <1>1
<1>3. p \in P
  BY <1>1, <1>2
<1>4. left' = [left EXCEPT ![t] = p]
  OBVIOUS
<1>. HIDE DEF P, p
<1>5. left' \in [Threads -> P]
  BY <1>1, <1>3, <1>4
<1>. QED
  BY <1>5 DEF Planned, P

(* The other steps leave the plans alone. *)
LEMMA LeftAlone ==
  ASSUME NEW t \in Threads, Proceed(t) \/ Unlock(t)
  PROVE  left' = left
<1>1. CASE TakeLocks(t)
  <2>1. Continue \/ StartOver(t)
    BY <1>1, Zenon DEF TakeLocks, Snapshot, GetLocks, HashpowerChanged, Lock, StartLockAll,
                       LockEach
  <2>. QED BY <2>1 DEF Continue, StartOver
<1>2. CASE Operate(t)
  <2>1. Continue \/ StartOver(t) \/ \E r : Return(t, r)
    BY <1>2, Zenon DEF Operate, Find, Update, Erase, InsertInPlace, RunCuckoo, Search,
                       TableFull, Path, PathInvalid, Move, Land, UpraseFound, AddToBucket,
                       ReadsOne, ExpandedMeanwhile
  <2>. QED BY <2>1 DEF Continue, StartOver, Return
<1>3. CASE Resize(t)
  <2>1. Continue \/ StartOver(t) \/ \E r : Return(t, r)
    BY <1>3, Zenon DEF Resize, DoubleRefused, Double, Swap, Install, Rehash, ExpandSimple,
                       Clear, TakeTable
  <2>. QED BY <2>1 DEF Continue, StartOver, Return
<1>4. CASE Unlock(t)
  BY <1>4 DEF Unlock, Return
<1>. QED
  BY <1>1, <1>2, <1>3, <1>4 DEF Proceed

(* What the owner changes counts as one of its calls. *)
LEMMA SessionPlanned ==
  ASSUME Planned, NEW t \in Threads, Session(t)
  PROVE  Planned'
<1>1. left' = left \/ (left[t].n > 0 /\ left' = [left EXCEPT ![t].n = @ - 1])
  BY Zenon DEF Session, TableFind, TableInsert, TableErase, TableClear, TableResize,
               Begin, Forward, Back, EraseAt, Modifies, Moves
<1>. QED
  BY <1>1, PlannedLess DEF Planned

(* The plans keep their shape. *)
LEMMA StepPlanned ==
  ASSUME Planned, [TableStep]_vars
  PROVE  Planned'
<1>1. CASE UNCHANGED vars
  BY <1>1 DEF vars, threadVars, Planned
<1>2. ASSUME NEW t \in Threads, Invoke(t) PROVE Planned'
  BY <1>2, PlannedLess DEF Invoke
<1>3. ASSUME NEW t \in Threads, Proceed(t) \/ Unlock(t) PROVE Planned'
  BY <1>3, LeftAlone DEF Planned
<1>. QED
  BY <1>1, <1>2, <1>3, SessionPlanned DEF TableStep, Next

(* The invariant holds initially. *)
LEMMA InitDInv ==
  ASSUME StartsWithAllLocks, Init
  PROVE  DInv
<1>1. PICK start \in Starts :
        LET hp   == start.hashpower
            data == Filled(hp, start.elements).data
            ls   == 0 .. NumLocks(hp) - 1
        IN  /\ buckets = data /\ hashpower = hp /\ old = NoOld /\ old_hashpower = 0
            /\ elem_counter = [l \in ls |-> Cardinality({p \in Positions(data) :
                                                           lock_ind(p[1]) = l})]
            /\ is_migrated = Marked(ls, TRUE)
            /\ num_remaining = 0
            /\ left = start.plan
  BY Zenon DEF Init
<1>. DEFINE hp  == start.hashpower
            tbl == Filled(hp, start.elements)
<1>2. 0 .. NumLocks(hp) - 1 = LockIds
  BY DEF StartsWithAllLocks, LockIds
<1>3. /\ start.hashpower \in 0 .. MaxHashpower /\ start.elements \in Seq(KV)
      /\ start.plan \in [Threads -> [calls : SUBSET Calls, n : Nat]]
  BY StartsAssumption DEF KV
<1>4. hp \in Nat
  BY <1>3, CallsAssumption
<1>5. LoneTab(tbl) /\ tbl.hp = hp
  BY <1>3, <1>4, FilledGood
<1>6. /\ buckets = tbl.data /\ hashpower = hp /\ old = NoOld /\ old_hashpower = 0
      /\ is_migrated = Marked(LockIds, TRUE) /\ num_remaining = 0 /\ left = start.plan
      /\ DOMAIN elem_counter = LockIds
  BY <1>1, <1>2
<1>. HIDE DEF tbl, hp
<1>7. /\ LoneTable(hashpower, buckets) /\ old_hashpower \in Nat
      /\ is_migrated \in [LockIds -> BOOLEAN] /\ Unmigrated(is_migrated) = {}
  BY <1>5, <1>6 DEF LoneTab, Marked, Unmigrated
<1>8. TableOK(buckets, hashpower, old, old_hashpower, is_migrated, num_remaining)
  BY <1>6, <1>7, FreshTable
<1>9. \A u \in Threads : pc[u] = "idle" /\ frame[u] = EmptyFrame /\ call[u] = NoCall
  BY DEF Init
<1>10. DataInv
  BY <1>6, <1>8, <1>9 DEF DataInv, Swapped
<1>11. \A u \in Threads : ThreadData(u)
  BY <1>9, EmptyFrameOK DEF ThreadData, Rehashed
<1>. QED
  BY <1>3, <1>6, <1>10, <1>11, InitIInv DEF DInv, Planned

(* Every step keeps the data in order. *)
LEMMA StepData ==
  ASSUME DInv, NEW t \in Threads, Invoke(t) \/ Proceed(t) \/ Unlock(t) \/ Session(t)
  PROVE  DataStep(t)
<1>1. CASE TakeLocks(t)
  BY <1>1, SnapshotData, GetLocksData, EndsData, LockData, StartLockAllData, LockEachData
     DEF TakeLocks
<1>2. CASE Operate(t)
  BY <1>2, EndsData, OperationData, SearchAgainData, SearchData, PassesData, PathData,
     MoveData DEF Operate
<1>3. CASE Resize(t)
  <2>1. CASE Rehash(t)
    BY <2>1, EndsData, PassesData
  <2>2. CASE Resize(t) /\ ~ Rehash(t)
    BY <2>2, EndsData, DoubleData, SwapData, InstallData, ExpandSimpleData, ClearData
       DEF Resize
  <2>. QED BY <1>3, <2>1, <2>2
<1>4. CASE Invoke(t) \/ Unlock(t) \/ Session(t)
  BY <1>4, InvokeData, EndsData, SessionData
<1>. QED
  BY <1>1, <1>2, <1>3, <1>4 DEF Proceed

(* Every step keeps the invariant of the elements. *)
LEMMA StepDInv == DInv /\ [TableStep]_vars => DInv'
<1>. SUFFICES ASSUME DInv, [TableStep]_vars
              PROVE  DInv'
  OBVIOUS
<1>1. IInv' /\ Planned'
  BY StepIInv, StepPlanned DEF DInv
<1>2. ASSUME NEW t \in Threads, Invoke(t) \/ Proceed(t) \/ Unlock(t) \/ Session(t)
      PROVE  DInv'
  BY <1>1, <1>2, StepData, DataStepKeeps
<1>3. CASE UNCHANGED vars
  <2>1. DataInv'
    BY <1>3 DEF vars, containers, lockVars, threadVars, DInv, DataInv, Swapped
  <2>2. ASSUME NEW u \in Threads PROVE ThreadData(u)'
    <3>1. ThreadData(u)
      BY DEF DInv
    <3>. QED
      BY <1>3, <3>1 DEF vars, containers, lockVars, threadVars, ThreadData, Rehashed, Held
  <2>. QED BY <1>1, <2>1, <2>2 DEF DInv
<1>. QED
  BY <1>2, <1>3 DEF TableStep, Next

-----------------------------------------------------------------------------
(* What the invariant says of the elements *)

(* The one container of locks. *)
LEMMA CurrentLocks ==
  ASSUME DInv
  PROVE  /\ current = 1 /\ DOMAIN locks = {1} /\ DOMAIN locks[1] = LockIds
         /\ \A l \in LockIds : locks[1][l] \in Threads \cup {NoThread}
<1>1. OneContainer
  BY Shapes DEF DInv
<1>2. current = 1
  BY <1>1 DEF OneContainer, current
<1>. QED
  BY <1>1, <1>2, Container

(* The occupied positions that count, and what is in them. *)
LEMMA PositionsAre ==
  ASSUME DInv
  PROVE  \E lv :
           /\ Apart(buckets, old, lv)
           /\ \A p \in LivePositions(buckets, FALSE) :
                /\ p \in (DOMAIN buckets) \X Slots /\ p[1] \in Nat
                /\ At(buckets, p) # Vacant /\ At(buckets, p) \in KV
                /\ GoodTable(hashpower, buckets)
                /\ p[1] \in TwoBuckets(hashpower, At(buckets, p).key)
           /\ \A p \in LivePositions(old, TRUE) :
                /\ p \in (DOMAIN old) \X Slots /\ p[1] \in Nat /\ p[1] \in lv
                /\ At(old, p) # Vacant /\ At(old, p) \in KV
                /\ GoodTable(old_hashpower, old)
                /\ p[1] \in TwoBuckets(old_hashpower, At(old, p).key)
           /\ IsFiniteSet(LivePositions(buckets, FALSE))
           /\ IsFiniteSet(LivePositions(old, TRUE))
<1>. DEFINE A == LivePositions(buckets, FALSE)
            B == LivePositions(old, TRUE)
<1>1. /\ \A p \in A : p \in (DOMAIN buckets) \X Slots /\ occupied(buckets[p[1]], p[2])
      /\ \A p \in B : /\ p \in (DOMAIN old) \X Slots /\ occupied(old[p[1]], p[2])
                      /\ Swapped \/ ~ is_migrated[lock_ind(p[1])]
  BY DEF LivePositions, Positions
<1>2. ASSUME NEW hp, NEW data, GoodTable(hp, data), NEW p \in (DOMAIN data) \X Slots,
             occupied(data[p[1]], p[2])
      PROVE  /\ p[1] \in Nat /\ At(data, p) # Vacant /\ At(data, p) \in KV
             /\ p[1] \in TwoBuckets(hp, At(data, p).key)
  <2>1. p[1] \in Buckets(hp) /\ p[2] \in Slots
    BY <1>2 DEF GoodTable, Containers
  <2>. QED BY <1>2, <2>1, GoodCell DEF At, occupied
<1>3. ASSUME NEW hp, NEW data, GoodTable(hp, data), NEW P, P \subseteq (DOMAIN data) \X Slots
      PROVE  IsFiniteSet(P)
  <2>. DEFINE b == hashsize(hp) - 1
              c == SLOT_PER_BUCKET - 1
  <2>1. hp \in Nat /\ DOMAIN data = 0 .. b /\ Slots = 0 .. c
    BY <1>3 DEF GoodTable, Containers, Buckets, Slots
  <2>2. b \in Int /\ c \in Int
    <3>1. hashsize(hp) \in Nat /\ SLOT_PER_BUCKET \in Nat
      BY <2>1, SizeSteps, TableAssumption
    <3>. QED BY <3>1
  <2>. HIDE DEF b, c
  <2>3. IsFiniteSet(0 .. b) /\ IsFiniteSet(0 .. c)
    BY <2>2, FS_Interval
  <2>4. IsFiniteSet((0 .. b) \X (0 .. c))
    BY <2>3, FS_Product
  <2>. QED BY <1>3, <2>1, <2>4, FS_Subset
<1>. HIDE DEF A, B
<1>0. DOMAIN NoOld = {}
  BY DEF NoOld
<1>4. CASE Swapped
  <2>1. buckets = NoOld /\ LoneTable(old_hashpower, old)
    BY <1>4 DEF DInv, DataInv, SwappedOK
  <2>2. DOMAIN buckets = {} /\ A = {}
    BY <1>0, <1>1, <2>1
  <2>. DEFINE lv == Buckets(old_hashpower)
  <2>3. GoodTable(old_hashpower, old) /\ Single(old)
    BY <2>1 DEF LoneTable
  <2>4. \A i \in DOMAIN buckets, s \in Slots : buckets[i][s] = Vacant
    BY <2>2
  <2>5. Apart(buckets, old, lv)
    BY <2>3, <2>4, ApartBehind
  <2>6. \A p \in B : p[1] \in lv
    BY <1>1, <2>3 DEF GoodTable, Containers
  <2>7. IsFiniteSet(A) /\ IsFiniteSet(B)
    <3>1. B \subseteq (DOMAIN old) \X Slots
      BY <1>1
    <3>. HIDE DEF A, B
    <3>. QED BY <1>3, <2>2, <2>3, <3>1, FS_EmptySet
  <2>8. \A p \in B : /\ p[1] \in Nat /\ At(old, p) # Vacant /\ At(old, p) \in KV
                     /\ p[1] \in TwoBuckets(old_hashpower, At(old, p).key)
    <3>. HIDE DEF B
    <3>. QED BY <1>1, <1>2, <2>3
  <2>. HIDE DEF lv, A, B
  <2>. QED BY <1>1, <2>2, <2>3, <2>5, <2>6, <2>7, <2>8 DEF A, B
<1>5. CASE ~ Swapped
  <2>. DEFINE lv == Live(old, is_migrated)
  <2>1. TableOK(buckets, hashpower, old, old_hashpower, is_migrated, num_remaining)
    BY <1>5 DEF DInv, DataInv
  <2>2. GoodTable(hashpower, buckets) /\ Apart(buckets, old, lv)
    BY <2>1 DEF TableOK
  <2>3. \A p \in B : p[1] \in lv
    BY <1>1, <1>5 DEF Live
  <2>4. B # {} => GoodTable(old_hashpower, old)
    <3>1. CASE old = NoOld
      BY <1>0, <1>1, <3>1
    <3>2. CASE old # NoOld
      BY <2>1, <3>2 DEF TableOK
    <3>. QED BY <3>1, <3>2
  <2>5. IsFiniteSet(A)
    <3>1. A \subseteq (DOMAIN buckets) \X Slots
      BY <1>1
    <3>. HIDE DEF A
    <3>. QED BY <1>3, <2>2, <3>1
  <2>6. IsFiniteSet(B)
    <3>1. B \subseteq (DOMAIN old) \X Slots
      BY <1>1
    <3>. HIDE DEF B
    <3>. QED BY <1>3, <2>4, <3>1, FS_EmptySet
  <2>7. \A p \in A : /\ p[1] \in Nat /\ At(buckets, p) # Vacant /\ At(buckets, p) \in KV
                     /\ p[1] \in TwoBuckets(hashpower, At(buckets, p).key)
    <3>. HIDE DEF A
    <3>. QED BY <1>1, <1>2, <2>2
  <2>8. \A p \in B : /\ p[1] \in Nat /\ At(old, p) # Vacant /\ At(old, p) \in KV
                     /\ p[1] \in TwoBuckets(old_hashpower, At(old, p).key)
                     /\ GoodTable(old_hashpower, old)
    <3>. HIDE DEF B
    <3>. QED BY <1>1, <1>2, <2>4
  <2>. HIDE DEF lv, A, B
  <2>. QED BY <1>1, <2>2, <2>3, <2>5, <2>6, <2>7, <2>8 DEF A, B
<1>. QED
  BY <1>4, <1>5

(* What counts under distinct keys is as much as there are keys. *)
LEMMA KeyCount ==
  ASSUME NEW P, IsFiniteSet(P), NEW f, \A p, q \in P : f[p] = f[q] => p = q
  PROVE  /\ IsFiniteSet({f[p] : p \in P})
         /\ Cardinality({f[p] : p \in P}) = Cardinality(P)
<1>. DEFINE T == {f[p] : p \in P}
            g == [p \in P |-> f[p]]
<1>1. g \in Bijection(P, T)
  BY DEF Bijection, Injection, Surjection, IsInjective
<1>. HIDE DEF T
<1>2. ExistsBijection(P, T)
  BY <1>1 DEF ExistsBijection
<1>. QED
  BY <1>2, FS_Bijection DEF T

(* As no key is in two cells, there are as many elements as keys. *)
LEMMA DInvNoDuplicates == DInv => NoDuplicates
<1>. SUFFICES ASSUME DInv PROVE NoDuplicates
  OBVIOUS
<1>. DEFINE A  == LivePositions(buckets, FALSE)
            B  == LivePositions(old, TRUE)
            fA == [p \in A |-> At(buckets, p).key]
            fB == [p \in B |-> At(old, p).key]
            KA == {fA[p] : p \in A}
            KB == {fB[p] : p \in B}
<1>1. PICK lv :
        /\ Apart(buckets, old, lv)
        /\ \A p \in A : /\ p \in (DOMAIN buckets) \X Slots /\ p[1] \in Nat
                        /\ At(buckets, p) # Vacant
        /\ \A p \in B : /\ p \in (DOMAIN old) \X Slots /\ p[1] \in Nat /\ p[1] \in lv
                        /\ At(old, p) # Vacant
        /\ IsFiniteSet(A) /\ IsFiniteSet(B)
  BY PositionsAre
<1>. HIDE DEF A, B
<1>. DEFINE cell(x) == Cell(buckets, old, lv, x)
<1>2. ASSUME NEW p \in A
      PROVE  /\ <<1, p[1], p[2]>> \in Cells /\ cell(<<1, p[1], p[2]>>) # Vacant
             /\ cell(<<1, p[1], p[2]>>).key = fA[p] /\ p = <<p[1], p[2]>>
  BY <1>1 DEF Cells, Cell, At
<1>3. ASSUME NEW p \in B
      PROVE  /\ <<2, p[1], p[2]>> \in Cells /\ cell(<<2, p[1], p[2]>>) # Vacant
             /\ cell(<<2, p[1], p[2]>>).key = fB[p] /\ p = <<p[1], p[2]>>
  BY <1>1 DEF Cells, Cell, At
<1>4. \A x, y \in Cells :
        cell(x) # Vacant /\ cell(y) # Vacant /\ cell(x).key = cell(y).key => x = y
  BY <1>1 DEF Apart
<1>. HIDE DEF cell, fA, fB
<1>5. ASSUME NEW p \in A, NEW q \in A, fA[p] = fA[q] PROVE p = q
  <2>. DEFINE x == <<1, p[1], p[2]>>
              y == <<1, q[1], q[2]>>
  <2>1. /\ x \in Cells /\ cell(x) # Vacant /\ cell(x).key = fA[p] /\ p = <<p[1], p[2]>>
        /\ y \in Cells /\ cell(y) # Vacant /\ cell(y).key = fA[q] /\ q = <<q[1], q[2]>>
    BY <1>2
  <2>2. x = y
    <3>. HIDE DEF x, y
    <3>. QED BY <1>4, <1>5, <2>1
  <2>3. p[1] = q[1] /\ p[2] = q[2]
    BY <2>2
  <2>. QED BY <2>1, <2>3
<1>6. ASSUME NEW p \in B, NEW q \in B, fB[p] = fB[q] PROVE p = q
  <2>. DEFINE x == <<2, p[1], p[2]>>
              y == <<2, q[1], q[2]>>
  <2>1. /\ x \in Cells /\ cell(x) # Vacant /\ cell(x).key = fB[p] /\ p = <<p[1], p[2]>>
        /\ y \in Cells /\ cell(y) # Vacant /\ cell(y).key = fB[q] /\ q = <<q[1], q[2]>>
    BY <1>3
  <2>2. x = y
    <3>. HIDE DEF x, y
    <3>. QED BY <1>4, <1>6, <2>1
  <2>3. p[1] = q[1] /\ p[2] = q[2]
    BY <2>2
  <2>. QED BY <2>1, <2>3
<1>7. ASSUME NEW p \in A, NEW q \in B, fA[p] = fB[q] PROVE FALSE
  <2>. DEFINE x == <<1, p[1], p[2]>>
              y == <<2, q[1], q[2]>>
  <2>1. /\ x \in Cells /\ cell(x) # Vacant /\ cell(x).key = fA[p]
        /\ y \in Cells /\ cell(y) # Vacant /\ cell(y).key = fB[q]
    BY <1>2, <1>3
  <2>2. x = y
    <3>. HIDE DEF x, y
    <3>. QED BY <1>4, <1>7, <2>1
  <2>. QED BY <2>2
<1>8. /\ IsFiniteSet(KA) /\ Cardinality(KA) = Cardinality(A)
      /\ IsFiniteSet(KB) /\ Cardinality(KB) = Cardinality(B)
  BY <1>1, <1>5, <1>6, KeyCount
<1>9. KA \cap KB = {}
  BY <1>7
<1>10. Cardinality(KA \cup KB) = Cardinality(A) + Cardinality(B)
  <2>. HIDE DEF KA, KB
  <2>1. Cardinality(KA \cup KB) = Cardinality(KA) + Cardinality(KB) - Cardinality({})
    BY <1>8, <1>9, FS_Union
  <2>2. Cardinality(A) \in Nat /\ Cardinality(B) \in Nat /\ Cardinality({}) = 0
    BY <1>1, FS_CardinalityType, FS_EmptySet
  <2>. QED BY <1>8, <2>1, <2>2
<1>11. {kv.key : kv \in Elements} = KA \cup KB
  BY DEF Elements, A, B, fA, fB
<1>. QED
  BY <1>10, <1>11 DEF NoDuplicates, Count, A, B

(* The elements are at home. *)
LEMMA DInvHomes == DInv => Homes
  BY PositionsAre DEF Homes

(* The old container is there for the locks that are not rehashed. *)
LEMMA DInvLazyRehash == DInv => LazyRehashAccounted
<1>. SUFFICES ASSUME DInv, ~ Swapped
              PROVE  /\ num_remaining = Cardinality({l \in DOMAIN is_migrated : ~ is_migrated[l]})
                     /\ old # NoOld <=> num_remaining > 0
                     /\ num_remaining > 0 =>
                          /\ old_hashpower + 1 = hashpower
                          /\ Cardinality(DOMAIN locks[current]) = kMaxNumLocks
  BY DEF LazyRehashAccounted
<1>1. TableOK(buckets, hashpower, old, old_hashpower, is_migrated, num_remaining)
  BY DEF DInv, DataInv
<1>. DEFINE un == Unmigrated(is_migrated)
<1>2. /\ num_remaining = Cardinality(un) /\ IsFiniteSet(un) /\ Cardinality(un) \in Nat
      /\ un = {l \in DOMAIN is_migrated : ~ is_migrated[l]}
  BY <1>1, LocksFinite DEF TableOK, Unmigrated
<1>3. num_remaining > 0 <=> un # {}
  <2>. HIDE DEF un
  <2>. QED BY <1>2, FS_EmptySet
<1>4. un # {} => old # NoOld
  <2>. SUFFICES ASSUME un # {}, old = NoOld PROVE FALSE
    OBVIOUS
  <2>1. DOMAIN old = Buckets(old_hashpower) /\ old_hashpower \in Nat
    BY <1>1 DEF TableOK, GoodTable, Containers
  <2>2. 0 \in Buckets(old_hashpower)
    <3>1. hashsize(old_hashpower) \in Nat \ {0}
      BY <2>1, SizeSteps
    <3>. QED BY <3>1 DEF Buckets
  <2>. QED BY <2>1, <2>2 DEF NoOld
<1>5. un # {} => hashpower = old_hashpower + 1
  BY <1>1 DEF TableOK
<1>6. un = {} => old = NoOld
  BY <1>1 DEF TableOK
<1>7. Cardinality(DOMAIN locks[current]) = kMaxNumLocks
  BY CurrentLocks, LocksFinite
<1>. HIDE DEF un
<1>. QED
  BY <1>2, <1>3, <1>4, <1>5, <1>6, <1>7 DEF un

(* The invariant has the types. *)
LEMMA DInvTypeOK == DInv => TypeOK
<1>. SUFFICES ASSUME DInv PROVE TypeOK
  OBVIOUS
<1>1. hashpower \in Nat /\ old_hashpower \in Nat
      /\ is_migrated \in [LockIds -> BOOLEAN] /\ DOMAIN elem_counter = LockIds
  BY DEF DInv, DataInv, SwappedOK, TableOK, LoneTable, GoodTable
<1>2. Elements \subseteq [key : Keys, val : Vals]
  BY PositionsAre DEF Elements, KV
<1>3. call \in [Threads -> Calls \cup {NoCall}]
  <2>1. \A u \in Threads : call[u] \in Calls \cup {NoCall}
    BY OfThread DEF FrameOK
  <2>. QED BY <2>1, Shapes DEF OfThreads, DInv
<1>4. ASSUME NEW t \in Threads
      PROVE  /\ frame[t].depth \in -1 .. MAX_BFS_PATH_LEN - 1
             /\ pc[t] = "lock" => frame[t].want \subseteq DOMAIN locks[frame[t].cont]
  <2>1. FrameOK(pc[t], frame[t], call[t]) /\ ThreadInv(t)
    BY OfThread
  <2>2. pc[t] = "lock" => frame[t].want \subseteq LockIds /\ frame[t].cont = 1
    BY <2>1 DEF FrameOK, ThreadInv, WantsOwn
  <2>. QED BY <2>1, <2>2, CurrentLocks DEF FrameOK
<1>. QED
  BY <1>1, <1>2, <1>3, <1>4, CurrentLocks DEF TypeOK

-----------------------------------------------------------------------------
(* The theorems about the elements *)

(* No key is in the table twice: two inserts of one key that give their    *)
(* locks up for a cuckoo path (the race that run_cuckoo names) never both  *)
(* add it, and no key is at once in buckets_ and in the part of            *)
(* old_buckets_ that is not yet rehashed.                                  *)
THEOREM NeverDuplicates == StartsWithAllLocks => (TableSpec => []NoDuplicates)
<1>. SUFFICES ASSUME StartsWithAllLocks
              PROVE  TableSpec => []NoDuplicates
  OBVIOUS
<1>1. Init => DInv
  BY InitDInv
<1>. QED
  BY <1>1, TableSteps, StepDInv, DInvNoDuplicates, PTL DEF TableSpec, TableInit

(* Every element is where find looks for it, after any mixture of moves    *)
(* along cuckoo paths, doublings, lazy rehashes and rebuilds.              *)
THEOREM AlwaysHome == StartsWithAllLocks => (TableSpec => []Homes)
<1>. SUFFICES ASSUME StartsWithAllLocks
              PROVE  TableSpec => []Homes
  OBVIOUS
<1>1. Init => DInv
  BY InitDInv
<1>. QED
  BY <1>1, TableSteps, StepDInv, DInvHomes, PTL DEF TableSpec, TableInit

(* old_buckets_ has memory exactly while a lock is left whose buckets were *)
(* not moved, and num_remaining_lazy_rehash_locks_ is their number.        *)
THEOREM LazyRehashCorrect == StartsWithAllLocks => (TableSpec => []LazyRehashAccounted)
<1>. SUFFICES ASSUME StartsWithAllLocks
              PROVE  TableSpec => []LazyRehashAccounted
  OBVIOUS
<1>1. Init => DInv
  BY InitDInv
<1>. QED
  BY <1>1, TableSteps, StepDInv, DInvLazyRehash, PTL DEF TableSpec, TableInit

(* The types: hashpowers are numbers, elements are keys with values, locks *)
(* have holders, and a cuckoo path is no longer than MAX_BFS_PATH_LEN.     *)
THEOREM TypesCorrect == StartsWithAllLocks => (TableSpec => []TypeOK)
<1>. SUFFICES ASSUME StartsWithAllLocks
              PROVE  TableSpec => []TypeOK
  OBVIOUS
<1>1. Init => DInv
  BY InitDInv
<1>. QED
  BY <1>1, TableSteps, StepDInv, DInvTypeOK, PTL DEF TableSpec, TableInit

-----------------------------------------------------------------------------
(* The iterator of a locked table *)

(* Where an iterator is, and what it has passed. *)
WalkAt(data, c) ==
  /\ c.pos \in Positions(data) \cup {end_pos(data)}
  /\ c.passed = {At(data, q).key : q \in BeforeIn(data, c.pos)}

(* Only the owner of the table has one. *)
Walking(u) ==
  /\ \E pos, passed, valid : cursor(u) = [pos |-> pos, passed |-> passed, valid |-> valid]
  /\ cursor(u).valid => pc[u] = "table" /\ WalkAt(buckets, cursor(u))

WInv == DInv /\ \A u \in Threads : Walking(u)

(* The iterator does not depend on the rest of the frame. *)
LEMMA CursorStays ==
  ASSUME DInv, NEW t \in Threads, NEW a, NEW b,
         \/ frame' = [frame EXCEPT ![t].hp = a, ![t].want = b]
         \/ frame' = [frame EXCEPT ![t].cont = a]
         \/ frame' = [frame EXCEPT ![t].want = a]
         \/ frame' = [frame EXCEPT ![t].cont = a, ![t].want = b]
         \/ frame' = [frame EXCEPT ![t].queue = a]
         \/ frame' = [frame EXCEPT ![t].queue = a, ![t].target = b]
         \/ frame' = [frame EXCEPT ![t].path = a]
         \/ frame' = [frame EXCEPT ![t].depth = a]
         \/ frame' = frame
  PROVE  cursor(t)' = cursor(t)
<1>. DEFINE f == frame[t]
<1>1. /\ f = [hp |-> f.hp, cont |-> f.cont, want |-> f.want, queue |-> f.queue,
              target |-> f.target, path |-> f.path, depth |-> f.depth,
              cursor |-> f.cursor]
      /\ DOMAIN frame = Threads
  BY OfThread, Shapes DEF FrameTyped, OfThreads, DInv
<1>2. "cursor" \in DOMAIN frame[t]
  BY <1>1
<1>. QED
  BY <1>1, <1>2 DEF cursor

(* So of the frames of a search and of a move. *)
LEMMA CursorStaysToo ==
  ASSUME DInv, NEW t \in Threads, NEW path, NEW d,
         \/ frame' = [frame EXCEPT ![t] = SearchFrame(t)]
         \/ frame' = [frame EXCEPT ![t] = MoveFrame(t, path, d)]
  PROVE  cursor(t)' = cursor(t)
<1>. DEFINE f == frame[t]
<1>1. FrameTyped(f)
  BY OfThread
<1>2. SearchFrame(t) = AFrame(f.hp, f.cont, {}, StartQueue(At1(t), At2(t)), NoTarget,
                              <<>>, -1, f.cursor)
  <2>. DEFINE g == SearchFrame(t)
              q == StartQueue(At1(t), At2(t))
  <2>1. g = [f EXCEPT !.queue = q, !.want = {}, !.target = NoTarget, !.path = <<>>,
                      !.depth = -1]
    BY DEF SearchFrame
  <2>. HIDE DEF f, g, q
  <2>2. g = AFrame(f.hp, f.cont, {}, q, NoTarget, <<>>, -1, f.cursor)
    BY ONLY <1>1, <2>1, SetSearch
  <2>. QED BY <2>2 DEF g, q
<1>3. MoveFrame(t, path, d) = AFrame(f.hp, f.cont, MoveLocks(t, path, d), f.queue, f.target,
                                     path, d, f.cursor)
  BY <1>1, SetMove DEF MoveFrame
<1>. DEFINE s == SearchFrame(t)
            m == MoveFrame(t, path, d)
<1>a. \A hp, cont, want, queue, target, p, depth, c :
        AFrame(hp, cont, want, queue, target, p, depth, c).cursor = c
  BY DEF AFrame
<1>4. s.cursor = f.cursor /\ m.cursor = f.cursor
  <2>. HIDE DEF s, m, f
  <2>. QED BY <1>2, <1>3, <1>a DEF s, m
<1>. QED
  BY <1>4, NewFrame DEF cursor

(* A call that ends, or starts over, has no iterator. *)
LEMMA CursorGone ==
  ASSUME DInv, NEW t \in Threads, StartOver(t) \/ \E r : Return(t, r)
  PROVE  cursor(t)' = NoCursor
<1>1. frame' = [frame EXCEPT ![t] = EmptyFrame]
  BY DEF StartOver, Return
<1>2. EmptyFrame.cursor = NoCursor
  BY DEF EmptyFrame
<1>. QED
  BY <1>1, <1>2, NewFrame DEF cursor

(* No step of a call touches the iterator. *)
LEMMA CallsCursor ==
  ASSUME DInv, NEW t \in Threads, Invoke(t) \/ Proceed(t) \/ Unlock(t)
  PROVE  cursor(t)' = NoCursor \/ (cursor(t)' = cursor(t) /\ pc[t] # "table")
<1>1. CASE TakeLocks(t)
  <2>1. CASE Snapshot(t)
    BY <2>1, CursorStays DEF Snapshot
  <2>2. CASE GetLocks(t)
    BY <2>2, CursorStays DEF GetLocks
  <2>3. CASE HashpowerChanged(t)
    BY <2>3, CursorGone DEF HashpowerChanged
  <2>4. CASE Lock(t)
    <3>1. PICK a : frame' = [frame EXCEPT ![t].want = a]
      BY <2>4 DEF Lock
    <3>. QED BY <2>4, <3>1, CursorStays DEF Lock
  <2>5. CASE StartLockAll(t)
    BY <2>5, CursorStays DEF StartLockAll
  <2>6. CASE LockEach(t)
    <3>1. /\ pc[t] = "lock_each"
          /\ \E a, b : \/ frame' = [frame EXCEPT ![t].want = a]
                       \/ frame' = [frame EXCEPT ![t].cont = a, ![t].want = b]
      BY <2>6, Zenon DEF LockEach
    <3>. QED BY <3>1, CursorStays
  <2>. QED
    BY <1>1, <2>1, <2>2, <2>3, <2>4, <2>5, <2>6 DEF TakeLocks
<1>2. CASE Operate(t)
  <2>1. CASE Find(t) \/ Update(t) \/ Erase(t) \/ InsertInPlace(t) \/ Land(t)
    <3>1. \E r : Return(t, r)
      BY <2>1, Zenon DEF Find, Update, Erase, InsertInPlace, Land, UpraseFound, AddToBucket
    <3>. QED BY <3>1, CursorGone
  <2>2. CASE RunCuckoo(t) \/ PathInvalid(t)
    BY <2>2, CursorStaysToo DEF RunCuckoo, PathInvalid
  <2>3. CASE Search(t)
    <3>1. /\ pc[t] = "search"
          /\ \/ StartOver(t)
             \/ \E a, b : \/ frame' = [frame EXCEPT ![t].queue = a]
                          \/ frame' = [frame EXCEPT ![t].queue = a, ![t].target = b]
      <4>1. pc[t] = "search"
        BY <2>3 DEF Search
      <4>2. CASE ExpandedMeanwhile(t, Head(frame[t].queue).bucket)
        BY <4>1, <4>2 DEF ExpandedMeanwhile
      <4>3. CASE ~ ExpandedMeanwhile(t, Head(frame[t].queue).bucket)
        BY <2>3, <4>1, <4>3, Zenon DEF Search
      <4>. QED BY <4>2, <4>3
    <3>. QED BY <3>1, CursorStays, CursorGone
  <2>4. CASE TableFull(t)
    BY <2>4, CursorStays DEF TableFull
  <2>5. CASE Path(t)
    <3>. DEFINE bucket == NextBucket(frame[t], At1(t), At2(t))
    <3>1. /\ pc[t] = "path"
          /\ \/ StartOver(t)
             \/ \E p, d : \/ frame' = [frame EXCEPT ![t] = MoveFrame(t, p, d)]
                          \/ frame' = [frame EXCEPT ![t].path = p]
      <4>1. pc[t] = "path"
        BY <2>5 DEF Path
      <4>2. CASE ExpandedMeanwhile(t, bucket)
        BY <4>1, <4>2 DEF ExpandedMeanwhile
      <4>3. CASE ~ ExpandedMeanwhile(t, bucket)
        BY <2>5, <4>1, <4>3, Zenon DEF Path
      <4>. QED BY <4>2, <4>3
    <3>. QED BY <3>1, CursorStays, CursorStaysToo, CursorGone
  <2>6. CASE Move(t)
    <3>1. /\ pc[t] = "move"
          /\ \E p, d : \/ frame' = [frame EXCEPT ![t] = MoveFrame(t, p, d)]
                       \/ frame' = [frame EXCEPT ![t].depth = d]
      BY <2>6, Zenon DEF Move
    <3>. QED BY <3>1, CursorStays, CursorStaysToo
  <2>. QED
    BY <1>2, <2>1, <2>2, <2>3, <2>4, <2>5, <2>6 DEF Operate
<1>3. CASE Resize(t)
  <2>1. CASE Rehash(t)
    <3>1. pc[t] = "rehash" /\ (frame' = frame \/ \E r : Return(t, r))
      BY <2>1, Zenon DEF Rehash
    <3>. QED BY <3>1, CursorStays, CursorGone
  <2>2. CASE DoubleRefused(t) \/ Install(t) \/ ExpandSimple(t) \/ Clear(t)
    <3>1. StartOver(t) \/ \E r : Return(t, r)
      BY <2>2, Zenon DEF DoubleRefused, Install, ExpandSimple, Clear
    <3>. QED BY <3>1, CursorGone
  <2>3. CASE Double(t) \/ Swap(t) \/ TakeTable(t)
    <3>1. pc[t] # "table" /\ frame' = frame
      BY <2>3 DEF Double, Swap, TakeTable
    <3>. QED BY <3>1, CursorStays
  <2>. QED
    BY <1>3, <2>1, <2>2, <2>3 DEF Resize
<1>4. CASE Invoke(t)
  BY <1>4, CursorStays DEF Invoke
<1>5. CASE Unlock(t)
  BY <1>5, CursorGone DEF Unlock
<1>. QED
  BY <1>1, <1>2, <1>3, <1>4, <1>5 DEF Proceed

(* While a thread owns the table, no step of another one changes it. *)
LEMMA OthersWait ==
  ASSUME DInv, NEW u \in Threads, pc[u] = "table", NEW t \in Threads \ {u},
         Invoke(t) \/ Proceed(t) \/ Unlock(t) \/ Session(t)
  PROVE  buckets' = buckets
<1>1. /\ Held(u, 1) = LockIds /\ OneContainer /\ LockIds # {}
      /\ Held(t, 1) = {} /\ ThreadInv(t) /\ FrameOK(pc[t], frame[t], call[t])
  <2>1. Held(u, 1) = LockIds /\ OneContainer
    BY OfThread DEF ThreadInv, HoldsEverything
  <2>. QED BY <2>1, OneHolder, OfThread, LocksFinite
<1>2. pc[t] \notin {"body", "move", "land", "double", "swap", "install", "expand", "clear",
                    "take_table", "table"}
  BY <1>1 DEF ThreadInv, HoldsOwn, HoldsEverything
<1>3. current = 1 /\ DOMAIN locks[1] = LockIds /\ \A l \in LockIds : locks[1][l] # NoThread
  <2>1. \A l \in LockIds : locks[1][l] = u
    BY <1>1, HeldAre
  <2>. QED BY <2>1, CurrentLocks, NoThreadAssumption
<1>4. ~ Lock(t)
  <2>1. pc[t] = "lock" => frame[t].cont = 1
    BY <1>1 DEF ThreadInv, WantsOwn
  <2>. QED BY <1>3, <2>1 DEF Lock, NextLock, Ascending, LockFree
<1>5. \A i \in Nat : ~ LockOneFree(i)
  BY <1>3, LockIndex DEF LockOneFree
<1>6. ~ Search(t)
  <2>. DEFINE f == frame[t]
              x == Head(f.queue)
  <2>1. SUFFICES ASSUME Search(t) PROVE FALSE
    OBVIOUS
  <2>2. pc[t] = "search" /\ f.queue # <<>> /\ LockOneFree(x.bucket)
    BY <2>1, Zenon DEF Search, ExpandedMeanwhile, ReadsOne
  <2>3. f.queue \in Seq(Nodes(f.hp)) /\ f.hp \in Nat
    BY <1>1, <2>2 DEF FrameOK
  <2>4. x \in Nodes(f.hp)
    <3>. DEFINE q == f.queue
                S == Nodes(f.hp)
    <3>1. q \in Seq(S) /\ q # <<>>
      BY <2>2, <2>3
    <3>. HIDE DEF q, S
    <3>2. Head(q) \in S
      BY <3>1
    <3>. QED BY <3>2 DEF q, S
  <2>5. x.bucket \in Nat
    <3>1. \A hp \in Nat : \A y \in Nodes(hp) : y.bucket \in Nat
      BY SizeSteps DEF Nodes, Buckets
    <3>. HIDE DEF x
    <3>. QED BY <2>3, <2>4, <3>1
  <2>. QED BY <1>5, <2>2, <2>5
<1>7. ~ Path(t)
  <2>. DEFINE f == frame[t]
              b == NextBucket(f, At1(t), At2(t))
  <2>1. SUFFICES ASSUME Path(t) PROVE FALSE
    OBVIOUS
  <2>2. pc[t] = "path" /\ LockOneFree(b)
    BY <2>1, Zenon DEF Path, ExpandedMeanwhile, ReadsOne
  <2>3. /\ PathOK(f.hp, call[t].key, f.path) /\ f.hp \in Nat
        /\ \A n \in 1 .. Len(f.path) : f.path[n].hash \in Nat
        /\ call[t].key \in Keys
    BY <1>1, <2>2, OfThread DEF FrameOK
  <2>4. b \in Nat
    <3>. DEFINE hp == f.hp
                key == call[t].key
    <3>1. b = NextBucket(f, FirstBucket(hp, key), SecondBucket(hp, key))
      BY DEF At1, At2
    <3>2. f.hp = hp /\ hp \in Nat /\ key \in Keys
      BY <2>3
    <3>3. PathOK(hp, key, f.path) /\ \A n \in 1 .. Len(f.path) : f.path[n].hash \in Nat
      BY <2>3
    <3>. HIDE DEF f, b, hp, key
    <3>. QED BY <3>1, <3>2, <3>3, NextBucketIs
  <2>. QED BY <1>5, <2>2, <2>4
<1>8. CASE TakeLocks(t)
  BY <1>4, <1>8, Zenon
     DEF TakeLocks, Snapshot, GetLocks, HashpowerChanged, StartLockAll, LockEach, containers
<1>9. CASE Operate(t)
  BY <1>2, <1>6, <1>7, <1>9, Zenon
     DEF Operate, Find, Update, Erase, InsertInPlace, RunCuckoo, TableFull, PathInvalid,
         Move, Land, containers
<1>10. CASE Resize(t)
  BY <1>2, <1>10, Zenon
     DEF Resize, DoubleRefused, Double, Swap, Install, Rehash, ExpandSimple, Clear,
         TakeTable, containers
<1>11. CASE Session(t)
  <2>1. pc[t] = "table"
    BY <1>11, Zenon DEF Session, TableFind, TableInsert, TableErase, TableClear, TableResize,
                        Begin, Forward, Back, EraseAt, Modifies, Moves
  <2>. QED BY <1>2, <2>1
<1>12. CASE Invoke(t) \/ Unlock(t)
  BY <1>12 DEF Invoke, Unlock, containers
<1>. QED
  BY <1>8, <1>9, <1>10, <1>11, <1>12 DEF Proceed

-----------------------------------------------------------------------------
(* The walk *)

(* Both an iterator and none are written out. *)
LEMMA CursorRecord ==
  /\ NoCursor = [pos |-> NoCursor.pos, passed |-> NoCursor.passed, valid |-> NoCursor.valid]
  /\ NoCursor.valid = FALSE
  /\ \A p, k : /\ CursorAt(p, k).pos = p /\ CursorAt(p, k).passed = k
               /\ CursorAt(p, k) = [pos |-> p, passed |-> k, valid |-> TRUE]
  BY DEF NoCursor, CursorAt

(* begin() *)
LEMMA BeginWalk ==
  ASSUME NEW hp, NEW data, GoodTable(hp, data)
  PROVE  WalkAt(data, CursorAt(Settle(data, begin_pos), {}))
<1>1. begin_pos \in Nat \X Nat
  BY DEF begin_pos
<1>2. BeforeIn(data, begin_pos) = {}
  <2>1. \A q \in Positions(data) : q[1] \in Nat /\ q[2] \in Nat
    BY TablePositions
  <2>. QED BY <2>1 DEF BeforeIn, Before, begin_pos
<1>. QED
  BY <1>1, <1>2, SettleIs, CursorRecord DEF WalkAt

(* operator++ *)
LEMMA ForwardWalk ==
  ASSUME NEW hp, NEW data, GoodTable(hp, data), NEW c, WalkAt(data, c),
         c.pos # end_pos(data)
  PROVE  WalkAt(data, CursorAt(Succ(data, c.pos), c.passed \cup {At(data, c.pos).key}))
<1>1. c.pos \in Positions(data) /\ c.passed = {At(data, q).key : q \in BeforeIn(data, c.pos)}
  BY DEF WalkAt
<1>2. /\ Succ(data, c.pos) \in Positions(data) \cup {end_pos(data)}
      /\ BeforeIn(data, Succ(data, c.pos)) = BeforeIn(data, c.pos) \cup {c.pos}
  BY <1>1, SuccIs
<1>. QED
  BY <1>1, <1>2, CursorRecord DEF WalkAt

(* Keys are taken from a set of positions. *)
LEMMA KeysLess ==
  ASSUME NEW hp, NEW data, LoneTable(hp, data), NEW P \in SUBSET Positions(data),
         NEW p \in Positions(data)
  PROVE  {At(data, q).key : q \in P \ {p}} = {At(data, q).key : q \in P} \ {At(data, p).key}
  BY KeysApart

(* operator-- *)
LEMMA BackWalk ==
  ASSUME NEW hp, NEW data, LoneTable(hp, data), NEW c, WalkAt(data, c), c.passed # {},
         NEW p, p = Pred(data, c.pos)
  PROVE  WalkAt(data, CursorAt(p, c.passed \ {At(data, p).key}))
<1>1. /\ GoodTable(hp, data) /\ BeforeIn(data, c.pos) # {}
      /\ c.passed = {At(data, q).key : q \in BeforeIn(data, c.pos)}
      /\ BeforeIn(data, c.pos) \in SUBSET Positions(data)
  BY DEF WalkAt, LoneTable, BeforeIn
<1>2. c.pos \in Nat \X Nat
  <2>1. c.pos \in Positions(data) \cup {end_pos(data)}
    BY DEF WalkAt
  <2>. QED BY <1>1, <2>1, TablePositions
<1>3. p \in Positions(data) /\ BeforeIn(data, p) = BeforeIn(data, c.pos) \ {p}
  BY <1>1, <1>2, PredIs
<1>4. {At(data, q).key : q \in BeforeIn(data, p)} = c.passed \ {At(data, p).key}
  BY <1>1, <1>3, KeysLess
<1>. QED
  BY <1>3, <1>4, CursorRecord DEF WalkAt

(* erase of an iterator: it goes on to what follows. *)
LEMMA EraseAtWalk ==
  ASSUME NEW hp, NEW data, LoneTable(hp, data), NEW c, WalkAt(data, c),
         c.pos # end_pos(data), NEW new, new = eraseKV(data, c.pos[1], c.pos[2]),
         NEW d, d.pos = Settle(new, c.pos), d.passed = c.passed
  PROVE  WalkAt(new, d)
<1>1. /\ c.pos \in Positions(data) /\ GoodTable(hp, data)
      /\ c.passed = {At(data, q).key : q \in BeforeIn(data, c.pos)}
  BY DEF WalkAt, LoneTable
<1>2. GoodTable(hp, new)
  BY <1>1, EraseKeeps
<1>3. /\ Positions(new) = Positions(data) \ {c.pos}
      /\ \A q \in Positions(new) : At(new, q) = At(data, q)
      /\ BeforeIn(new, c.pos) = BeforeIn(data, c.pos) \ {c.pos}
      /\ c.pos \in Nat \X Nat
  BY <1>1, PositionsLess, TablePositions
<1>4. c.pos \notin BeforeIn(data, c.pos)
  BY <1>3 DEF BeforeIn, Before
<1>5. BeforeIn(new, c.pos) = BeforeIn(data, c.pos)
  BY <1>3, <1>4
<1>6. /\ d.pos \in Positions(new) \cup {end_pos(new)}
      /\ BeforeIn(new, d.pos) = BeforeIn(data, c.pos)
  BY <1>2, <1>3, <1>5, SettleIs
<1>7. BeforeIn(data, c.pos) \subseteq Positions(new)
  BY <1>5 DEF BeforeIn
<1>8. {At(new, q).key : q \in BeforeIn(data, c.pos)} = c.passed
  BY <1>1, <1>3, <1>7
<1>. QED
  BY <1>6, <1>8 DEF WalkAt

(* erase of another element. *)
LEMMA EraseWalk ==
  ASSUME NEW hp, NEW data, LoneTable(hp, data), NEW c, WalkAt(data, c),
         NEW p \in Positions(data), c.pos # p, NEW new, new = eraseKV(data, p[1], p[2]),
         NEW d, d.pos = c.pos, d.passed = c.passed \ {At(data, p).key}
  PROVE  WalkAt(new, d)
<1>1. /\ c.pos \in Positions(data) \cup {end_pos(data)} /\ GoodTable(hp, data)
      /\ c.passed = {At(data, q).key : q \in BeforeIn(data, c.pos)}
      /\ BeforeIn(data, c.pos) \in SUBSET Positions(data)
  BY DEF WalkAt, LoneTable, BeforeIn
<1>2. /\ Positions(new) = Positions(data) \ {p}
      /\ \A q \in Positions(new) : At(new, q) = At(data, q)
      /\ end_pos(new) = end_pos(data)
      /\ BeforeIn(new, c.pos) = BeforeIn(data, c.pos) \ {p}
  BY <1>1, PositionsLess
<1>3. c.pos \in Positions(new) \cup {end_pos(new)}
  BY <1>1, <1>2
<1>4. {At(data, q).key : q \in BeforeIn(data, c.pos) \ {p}} = c.passed \ {At(data, p).key}
  <2>. DEFINE P == BeforeIn(data, c.pos)
  <2>1. P \in SUBSET Positions(data) /\ c.passed = {At(data, q).key : q \in P}
    BY <1>1
  <2>. HIDE DEF P
  <2>2. {At(data, q).key : q \in P \ {p}} = {At(data, q).key : q \in P} \ {At(data, p).key}
    BY <2>1, KeysLess
  <2>3. {At(data, q).key : q \in P \ {p}} = c.passed \ {At(data, p).key}
    BY <2>1, <2>2
  <2>. QED BY <2>3 DEF P
<1>5. BeforeIn(new, c.pos) \subseteq Positions(new)
  BY DEF BeforeIn
<1>6. {At(new, q).key : q \in BeforeIn(new, c.pos)}
        = {At(data, q).key : q \in BeforeIn(data, c.pos) \ {p}}
  BY <1>2, <1>5
<1>. QED
  BY <1>3, <1>4, <1>6 DEF WalkAt

(* The iterator that a step of the owner sets. *)
LEMMA CursorSet ==
  ASSUME DInv, NEW t \in Threads, NEW to, SetCursor(t, to)
  PROVE  cursor(t)' = to
<1>. DEFINE f == frame[t]
            g == [frame[t] EXCEPT !.cursor = to]
<1>1. frame' = [frame EXCEPT ![t] = g]
  BY Shapes DEF SetCursor, OfThreads, DInv
<1>2. FrameTyped(f)
  BY OfThread
<1>3. g = AFrame(f.hp, f.cont, f.want, f.queue, f.target, f.path, f.depth, to)
  BY <1>2, SetCursorOf
<1>4. g.cursor = to
  <2>. HIDE DEF g
  <2>. QED BY <1>3 DEF AFrame
<1>. HIDE DEF g
<1>. QED
  BY <1>1, <1>4, NewFrame DEF cursor

(* What a step of the owner has to show. *)
LEMMA OwnerWalks ==
  ASSUME DInv, NEW t \in Threads, pc[t] = "table", pc' = pc,
         NEW to, SetCursor(t, to),
         to = [pos |-> to.pos, passed |-> to.passed, valid |-> to.valid],
         to.valid => WalkAt(buckets', to)
  PROVE  Walking(t)'
<1>1. cursor(t)' = to
  BY CursorSet
<1>. QED
  BY <1>1 DEF Walking

(* Every step of the owner. *)
LEMMA SessionWalks ==
  ASSUME WInv, NEW t \in Threads, Session(t)
  PROVE  Walking(t)'
<1>. DEFINE c == cursor(t)
<1>1. pc[t] = "table" /\ pc' = pc
  BY Zenon DEF Session, TableFind, TableInsert, TableErase, TableClear, TableResize,
               Begin, Forward, Back, EraseAt, Modifies, Moves
<1>2. /\ DInv /\ Walking(t)
      /\ LoneTable(hashpower, buckets) /\ GoodTable(hashpower, buckets)
  BY <1>1, OwnersTable DEF WInv
<1>3. /\ c = [pos |-> c.pos, passed |-> c.passed, valid |-> c.valid]
      /\ c.valid => WalkAt(buckets, c)
  BY <1>2 DEF Walking
<1>4. CASE frame' = frame /\ buckets' = buckets
  <2>1. cursor(t)' = c
    BY <1>4 DEF cursor
  <2>. QED BY <1>1, <1>2, <1>4, <2>1 DEF Walking
<1>5. CASE SetCursor(t, NoCursor)
  BY <1>1, <1>2, <1>5, CursorRecord, OwnerWalks
<1>6. CASE Begin(t)
  <2>. DEFINE to == CursorAt(Settle(buckets, begin_pos), {})
  <2>1. SetCursor(t, to) /\ buckets' = buckets
    BY <1>6 DEF Begin, Moves, containers
  <2>2. WalkAt(buckets, to)
    BY <1>2, BeginWalk
  <2>3. to = [pos |-> to.pos, passed |-> to.passed, valid |-> to.valid]
    BY CursorRecord
  <2>. HIDE DEF to
  <2>. QED BY <1>1, <1>2, <2>1, <2>2, <2>3, OwnerWalks
<1>7. CASE Forward(t)
  <2>. DEFINE to == CursorAt(Succ(buckets, c.pos), c.passed \cup {At(buckets, c.pos).key})
  <2>1. SetCursor(t, to) /\ buckets' = buckets /\ c.valid /\ c.pos # end_pos(buckets)
    BY <1>7 DEF Forward, Moves, containers, KeyAt
  <2>2. WalkAt(buckets, to)
    <3>. HIDE DEF c
    <3>. QED BY <1>2, <1>3, <2>1, ForwardWalk
  <2>3. to = [pos |-> to.pos, passed |-> to.passed, valid |-> to.valid]
    BY CursorRecord
  <2>. HIDE DEF to
  <2>. QED BY <1>1, <1>2, <2>1, <2>2, <2>3, OwnerWalks
<1>8. CASE Back(t)
  <2>. DEFINE p == Pred(buckets, c.pos)
              to == CursorAt(p, c.passed \ {At(buckets, p).key})
  <2>1. SetCursor(t, to) /\ buckets' = buckets /\ c.valid /\ c.passed # {}
    BY <1>8 DEF Back, Moves, containers, KeyAt
  <2>2. WalkAt(buckets, to)
    <3>. HIDE DEF c
    <3>. QED BY <1>2, <1>3, <2>1, BackWalk
  <2>3. to = [pos |-> to.pos, passed |-> to.passed, valid |-> to.valid]
    BY CursorRecord
  <2>. HIDE DEF to
  <2>. QED BY <1>1, <1>2, <2>1, <2>2, <2>3, OwnerWalks
<1>9. CASE EraseAt(t)
  <2>. DEFINE new == eraseKV(buckets, c.pos[1], c.pos[2])
              to == [c EXCEPT !.pos = Settle(new, @)]
  <2>1. /\ SetCursor(t, [c EXCEPT !.pos = Settle(buckets', @)]) /\ buckets' = new
        /\ c.valid /\ c.pos # end_pos(buckets)
    BY <1>9 DEF EraseAt, DelFromBucket
  <2>2. SetCursor(t, to)
    BY <2>1
  <2>3. to = [pos |-> Settle(new, c.pos), passed |-> c.passed, valid |-> c.valid]
    BY <1>3
  <2>4. to = [pos |-> to.pos, passed |-> to.passed, valid |-> to.valid]
        /\ to.pos = Settle(new, c.pos) /\ to.passed = c.passed
    <3>. HIDE DEF to
    <3>. QED BY <2>3
  <2>5. WalkAt(new, to)
    <3>1. new = eraseKV(buckets, c.pos[1], c.pos[2])
      OBVIOUS
    <3>. HIDE DEF c, new, to
    <3>. QED BY <1>2, <1>3, <2>1, <2>4, <3>1, EraseAtWalk
  <2>. HIDE DEF to
  <2>. QED BY <1>1, <1>2, <2>1, <2>2, <2>4, <2>5, OwnerWalks
<1>10. ASSUME NEW key \in Keys, NEW p \in cuckoo_find(buckets, hashpower, key),
              DelFromBucket(p), c.pos # p, SetCursor(t, [c EXCEPT !.passed = @ \ {key}])
       PROVE  Walking(t)'
  <2>. DEFINE new == eraseKV(buckets, p[1], p[2])
              to == [c EXCEPT !.passed = @ \ {key}]
  <2>1. buckets' = new
    BY <1>10 DEF DelFromBucket
  <2>2. p \in Positions(buckets) /\ At(buckets, p).key = key
    <3>1. /\ p[1] \in Buckets(hashpower) /\ p[2] \in Slots
          /\ occupied(buckets[p[1]], p[2]) /\ At(buckets, p).key = key
      BY <1>2, <1>10, FindFinds
    <3>2. \E i, s : p = <<i, s>>
      BY <1>10, Zenon DEF cuckoo_find
    <3>3. p = <<p[1], p[2]>>
      BY <3>2
    <3>. QED BY <1>2, <3>1, <3>3 DEF Positions, GoodTable, Containers
  <2>3. to = [pos |-> c.pos, passed |-> c.passed \ {key}, valid |-> c.valid]
    BY <1>3
  <2>4. to = [pos |-> to.pos, passed |-> to.passed, valid |-> to.valid]
        /\ to.pos = c.pos /\ to.passed = c.passed \ {key} /\ to.valid = c.valid
    <3>. HIDE DEF to
    <3>. QED BY <2>3
  <2>5. c.valid => WalkAt(new, to)
    <3>1. new = eraseKV(buckets, p[1], p[2])
      OBVIOUS
    <3>. HIDE DEF c, new, to
    <3>. QED BY <1>2, <1>3, <1>10, <2>2, <2>4, <3>1, EraseWalk
  <2>6. SetCursor(t, to)
    BY <1>10
  <2>. HIDE DEF to
  <2>. QED BY <1>1, <1>2, <2>1, <2>4, <2>5, <2>6, OwnerWalks
<1>11. CASE TableFind(t) \/ TableInsert(t) \/ TableClear(t) \/ TableResize(t)
  <2>1. (frame' = frame /\ buckets' = buckets) \/ SetCursor(t, NoCursor)
    BY <1>11, Zenon DEF TableFind, TableInsert, TableClear, TableResize, containers
  <2>. QED BY <1>4, <1>5, <2>1
<1>12. CASE TableErase(t)
  <2>1. PICK e \in Asked(t, {"erase"}) :
          \/ UNCHANGED <<containers, lockVars, frame>>
          \/ \E p \in cuckoo_find(buckets, hashpower, e.key) :
               /\ DelFromBucket(p)
               /\ SetCursor(t, IF c.pos = p THEN NoCursor
                               ELSE [c EXCEPT !.passed = @ \ {e.key}])
    BY <1>12, Zenon DEF TableErase
  <2>2. e.key \in Keys
    <3>1. e \in Calls
      BY <1>2 DEF Asked, DInv, Planned
    <3>. QED BY <3>1, CallsAssumption
  <2>3. CASE UNCHANGED <<containers, lockVars, frame>>
    BY <1>4, <2>3 DEF containers
  <2>4. ASSUME NEW p \in cuckoo_find(buckets, hashpower, e.key), DelFromBucket(p),
               SetCursor(t, IF c.pos = p THEN NoCursor
                            ELSE [c EXCEPT !.passed = @ \ {e.key}])
        PROVE  Walking(t)'
    <3>1. CASE c.pos = p
      BY <1>5, <2>4, <3>1
    <3>2. CASE c.pos # p
      BY <1>10, <2>2, <2>4, <3>2
    <3>. QED BY <3>1, <3>2
  <2>. QED BY <2>1, <2>3, <2>4
<1>. QED
  BY <1>6, <1>7, <1>8, <1>9, <1>11, <1>12 DEF Session

(* At the start nobody has an iterator. *)
LEMMA InitWInv == StartsWithAllLocks /\ Init => WInv
<1>. SUFFICES ASSUME StartsWithAllLocks, Init PROVE WInv
  OBVIOUS
<1>1. DInv
  BY InitDInv
<1>2. \A u \in Threads : cursor(u) = NoCursor
  <2>1. EmptyFrame.cursor = NoCursor
    BY DEF EmptyFrame
  <2>2. frame = [t \in Threads |-> EmptyFrame]
    BY DEF Init
  <2>. QED BY <2>1, <2>2 DEF cursor
<1>. QED
  BY <1>1, <1>2, CursorRecord DEF WInv, Walking

(* Every step keeps the invariant of the walk. *)
LEMMA StepWInv == WInv /\ [TableStep]_vars => WInv'
<1>. SUFFICES ASSUME WInv, [TableStep]_vars
              PROVE  WInv'
  OBVIOUS
<1>1. DInv /\ DInv' /\ \A u \in Threads : Walking(u)
  BY StepDInv DEF WInv
<1>2. ASSUME NEW t \in Threads, Invoke(t) \/ Proceed(t) \/ Unlock(t) \/ Session(t)
      PROVE  \A u \in Threads : Walking(u)'
  <2>1. Walking(t)'
    <3>1. CASE Session(t)
      BY <3>1, SessionWalks
    <3>2. CASE Invoke(t) \/ Proceed(t) \/ Unlock(t)
      <4>1. CASE cursor(t)' = NoCursor
        BY <4>1, CursorRecord DEF Walking
      <4>2. CASE cursor(t)' = cursor(t) /\ pc[t] # "table"
        BY <1>1, <4>2 DEF Walking
      <4>. QED BY <1>1, <3>2, <4>1, <4>2, CallsCursor
    <3>. QED BY <1>2, <3>1, <3>2
  <2>2. ASSUME NEW u \in Threads \ {t}
        PROVE  Walking(u)'
    <3>1. pc'[u] = pc[u] /\ frame'[u] = frame[u] /\ Walking(u)
      BY <1>1, <1>2, StepData DEF DataStep, OnlyAt
    <3>2. pc[u] = "table" => buckets' = buckets
      BY <1>1, <1>2, OthersWait
    <3>3. cursor(u)' = cursor(u)
      BY <3>1 DEF cursor
    <3>. QED BY <3>1, <3>2, <3>3 DEF Walking
  <2>. QED BY <2>1, <2>2
<1>3. CASE UNCHANGED vars
  <2>1. pc' = pc /\ frame' = frame /\ buckets' = buckets
    BY <1>3 DEF vars, containers, threadVars
  <2>2. ASSUME NEW u \in Threads PROVE Walking(u)'
    <3>1. cursor(u)' = cursor(u)
      BY <2>1 DEF cursor
    <3>. QED BY <1>1, <2>1, <3>1 DEF Walking
  <2>. QED BY <1>1, <2>2 DEF WInv
<1>. QED
  BY <1>1, <1>2, <1>3 DEF TableStep, Next, WInv

(* What lies before the end is everything. *)
LEMMA WInvWalkSeesAll == WInv => WalkSeesAll
<1>. SUFFICES ASSUME WInv, NEW t \in Threads, cursor(t).valid
              PROVE  LET before == {q \in Positions(buckets) : Before(q, cursor(t).pos)}
                     IN  /\ cursor(t).passed = {KeyAt(q) : q \in before}
                         /\ cursor(t).pos = end_pos(buckets)
                              => cursor(t).passed = {kv.key : kv \in Elements}
                         /\ cursor(t).pos # end_pos(buckets)
                              => cursor(t).pos \in Positions(buckets)
  BY DEF WalkSeesAll
<1>. DEFINE c == cursor(t)
<1>1. /\ DInv /\ pc[t] = "table"
      /\ c.pos \in Positions(buckets) \cup {end_pos(buckets)}
      /\ c.passed = {At(buckets, q).key : q \in BeforeIn(buckets, c.pos)}
  BY DEF WInv, Walking, WalkAt
<1>2. c.passed = {KeyAt(q) : q \in {q \in Positions(buckets) : Before(q, c.pos)}}
  BY <1>1 DEF BeforeIn, KeyAt
<1>3. /\ GoodTable(hashpower, buckets) /\ old = NoOld /\ is_migrated = Marked(LockIds, TRUE)
  BY <1>1, OwnersTable
<1>4. ASSUME c.pos = end_pos(buckets)
      PROVE  c.passed = {kv.key : kv \in Elements}
  <2>1. BeforeIn(buckets, c.pos) = Positions(buckets)
    BY <1>3, <1>4, TablePositions DEF BeforeIn
  <2>2. LivePositions(old, TRUE) = {} /\ LivePositions(buckets, FALSE) = Positions(buckets)
    BY <1>3 DEF LivePositions, Positions, NoOld
  <2>3. Elements = {At(buckets, q) : q \in Positions(buckets)}
    BY <2>2 DEF Elements
  <2>. QED BY <1>1, <2>1, <2>3
<1>. QED
  BY <1>1, <1>2, <1>4

(* A walk over a locked table meets every element exactly once, whatever    *)
(* its owner erases on the way and however it turns round, and whatever    *)
(* other threads wait for.                                                 *)
THEOREM WalkCorrect == StartsWithAllLocks => (TableSpec => []WalkSeesAll)
<1>. SUFFICES ASSUME StartsWithAllLocks
              PROVE  TableSpec => []WalkSeesAll
  OBVIOUS
<1>1. Init => WInv
  BY InitWInv
<1>. QED
  BY <1>1, TableSteps, StepWInv, WInvWalkSeesAll, PTL DEF TableSpec, TableInit
=============================================================================
