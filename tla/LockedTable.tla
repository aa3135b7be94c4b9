----------------------------- MODULE LockedTable -----------------------------
(***************************************************************************)
(* The locked_table of a cuckoohash_map (cuckoohash_map.hh:2131): a thread *)
(* that holds every lock works on the table in locked_table_mode, where no *)
(* operation takes a lock and a doubling is never lazy, while other        *)
(* threads wait in the steps of Cuckoo.  It also walks over the elements   *)
(* with an iterator, the only way to see them all.                         *)
(***************************************************************************)
EXTENDS Cuckoo

VARIABLE lost         \* a resize has thrown and lost elements

-----------------------------------------------------------------------------
(* The operations of the owner *)

Owned == table(hashpower, buckets)

(* The owner's operations are among the calls of its plan, and (a bound)   *)
(* one that may change the table counts as one of them.                    *)
Asked(t, ops) == {c \in left[t].calls : c.op \in ops}

Modifies(t) ==
  /\ pc[t] = "table"
  /\ left[t].n > 0
  /\ left' = [left EXCEPT ![t].n = @ - 1]
  /\ UNCHANGED <<pc, call>>

cursor(t) == frame[t].cursor

SetCursor(t, to) == frame' = [frame EXCEPT ![t].cursor = to]

Answer(t, r) == ret' = [ret EXCEPT ![t] = r]

TableFind(t) ==
  \E c \in Asked(t, {"find"}) :
    LET pos == cuckoo_find(buckets, hashpower, c.key)
    IN  /\ pc[t] = "table"
        /\ Answer(t, IF pos = {} THEN None
                     ELSE CHOOSE v \in Vals : \E p \in pos : v = At(buckets, p).val)
        /\ UNCHANGED <<containers, lockVars, pc, frame, call, left>>

(* maybe_resize_locks at every doubling from hashpower hp up to the new    *)
(* one, all new locks held by t; none if the last one needs none.          *)
GrownLocks(t, hp, new) ==
  IF ~ MoreLocks(locks, new) THEN locks
  ELSE FoldLeft(LAMBDA all, h : ResizedLocks(all, h, t), locks,
                [n \in 1 .. new - hp |-> hp + n])

(* insert: a new element, if need be in a table that has been doubled; an  *)
(* exception leaves the doublings behind that came before it.              *)
TableInsert(t) ==
  \E c \in Asked(t, {"insert"}) :
    LET kv    == [key |-> c.key, val |-> c.val]
        r     == InsertGrowing(Owned, kv, MaxHashpower)
        new   == r.tbl.hp
        count == ResizedCounters(new)
    IN  /\ Modifies(t)
        /\ SetCursor(t, NoCursor)
        /\ \/ /\ cuckoo_find(buckets, hashpower, c.key) # {}
              /\ Answer(t, "no")
              /\ UNCHANGED <<containers, lockVars>>
           \/ /\ cuckoo_find(buckets, hashpower, c.key) = {}
              /\ Answer(t, IF r.thrown THEN "threw" ELSE "yes")
              /\ buckets' = r.tbl.data
              /\ hashpower' = new
              /\ old_hashpower' = IF new = hashpower THEN old_hashpower ELSE new - 1
              /\ locks' = GrownLocks(t, hashpower, new)
              /\ elem_counter' =
                   [l \in DOMAIN count |->
                      count[l] + Cardinality({p \in cuckoo_find(buckets', new, c.key) :
                                                lock_ind(p[1]) = l})]
              /\ is_migrated' = Marked(DOMAIN count, TRUE)
              /\ UNCHANGED <<old, num_remaining>>

(* del_from_bucket *)
DelFromBucket(p) ==
  /\ buckets' = eraseKV(buckets, p[1], p[2])
  /\ Counted(p, -1)
  /\ Kept
  /\ UNCHANGED locks

(* erase(key): an iterator at another element stays as it is.              *)
TableErase(t) ==
  \E c \in Asked(t, {"erase"}) :
    LET pos == cuckoo_find(buckets, hashpower, c.key)
    IN  /\ Modifies(t)
        /\ \/ /\ pos = {}
              /\ Answer(t, "no")
              /\ UNCHANGED <<containers, lockVars, frame>>
           \/ \E p \in pos :
                /\ DelFromBucket(p)
                /\ Answer(t, "yes")
                /\ SetCursor(t, IF cursor(t).pos = p THEN NoCursor
                                ELSE [cursor(t) EXCEPT !.passed = @ \ {c.key}])

TableClear(t) ==
  /\ Asked(t, {"clear"}) # {}
  /\ Modifies(t)
  /\ Emptied
  /\ Answer(t, "done")
  /\ SetCursor(t, NoCursor)
  /\ UNCHANGED locks

(* rehash and reserve: they answer nothing, but may throw.                 *)
TableResize(t) ==
  \E c \in Asked(t, Resizing) :
    /\ WantedHashpower(c) # hashpower
    /\ Modifies(t)
    /\ \/ /\ WantedHashpower(c) > MaxHashpower
          /\ Answer(t, "threw")
          /\ UNCHANGED <<containers, lockVars, frame>>
       \/ /\ WantedHashpower(c) <= MaxHashpower
          /\ Rebuild(WantedHashpower(c), locks, t)
          /\ SetCursor(t, NoCursor)
          /\ UNCHANGED ret

-----------------------------------------------------------------------------
(* Iterators *)

Moves(t) ==
  /\ pc[t] = "table"
  /\ UNCHANGED <<containers, lockVars, pc, call, ret, left>>

CursorAt(pos, passed) == [pos |-> pos, passed |-> passed, valid |-> TRUE]

Begin(t) ==
  /\ Moves(t)
  /\ SetCursor(t, CursorAt(Settle(buckets, begin_pos), {}))

KeyAt(p) == At(buckets, p).key

Forward(t) ==
  /\ Moves(t)
  /\ cursor(t).valid
  /\ cursor(t).pos # end_pos(buckets)
  /\ SetCursor(t, CursorAt(Succ(buckets, cursor(t).pos),
                           cursor(t).passed \cup {KeyAt(cursor(t).pos)}))

(* Undefined, and not done by the owner, at the first element.             *)
Back(t) ==
  /\ Moves(t)
  /\ cursor(t).valid
  /\ cursor(t).passed # {}
  /\ LET p == Pred(buckets, cursor(t).pos)
     IN  SetCursor(t, CursorAt(p, cursor(t).passed \ {KeyAt(p)}))

(* erase(it) returns an iterator created at the position that is free now. *)
EraseAt(t) ==
  /\ Modifies(t)
  /\ cursor(t).valid
  /\ cursor(t).pos # end_pos(buckets)
  /\ DelFromBucket(cursor(t).pos)
  /\ SetCursor(t, [cursor(t) EXCEPT !.pos = Settle(buckets', @)])
  /\ Answer(t, "yes")

-----------------------------------------------------------------------------
(* Specification *)

Session(t) ==
  \/ TableFind(t) \/ TableInsert(t) \/ TableErase(t) \/ TableClear(t)
  \/ TableResize(t) \/ Begin(t) \/ Forward(t) \/ Back(t) \/ EraseAt(t)

TableStep == Next \/ \E t \in Threads : Session(t)

(* The resizes of which the thread, with all locks held, may make one. *)
NextResizes(t) ==
  CASE pc[t] = "expand" -> {call[t]}
    [] pc[t] = "table" /\ left[t].n > 0 ->
         {c \in Asked(t, Resizing) : WantedHashpower(c) # hashpower}
    [] OTHER -> {}

(* The new map of cuckoo_expand_simple throws after elements were moved    *)
(* into it: the exception goes through the call, and where the elements    *)
(* were the table keeps slots with keys that are moved from.  Nothing      *)
(* under src/ catches it and goes on with the table, nor does the model.   *)
RebuildThrows(t) ==
  /\ \E c \in NextResizes(t) :
       /\ WantedHashpower(c) <= MaxHashpower
       /\ RebuildRefused(AllMigrated, WantedHashpower(c))
  /\ lost' = TRUE
  /\ UNCHANGED vars

TableNext ==
  /\ ~ lost
  /\ \/ TableStep /\ UNCHANGED lost
     \/ \E t \in Threads : RebuildThrows(t)

TableInit == Init /\ lost = FALSE

TableSpec == TableInit /\ [][TableNext]_<<vars, lost>>

(* Weak fairness of every thread's calls, with the states in which a call  *)
(* cannot go on (nor throw) written out, and of giving the table back.     *)
Fairness ==
  \A t \in Threads :
    /\ []<>(lost \/ Waits(t)) \/ []<><<Proceed(t)>>_vars
    /\ WF_vars(~ lost /\ Unlock(t))

TableFairSpec == TableSpec /\ Fairness

-----------------------------------------------------------------------------
(* Properties *)

(* Every call returns, unless a resize throws: no two threads wait for     *)
(* each other's locks, and no insert searches and moves forever.  It       *)
(* assumes that every thread keeps running, and that the others make       *)
(* finitely many calls (a spinlock that is taken again and again may       *)
(* starve a waiter).                                                       *)
EveryCallReturns ==
  \A t \in Threads : call[t] # NoCall ~> (call[t] = NoCall \/ lost)


(* A walk of the owner sees every element exactly once, whatever it erases *)
(* on the way and however it turns round: what it has passed is what lies  *)
(* before the iterator, and at the end that is everything.                 *)
WalkSeesAll ==
  \A t \in Threads :
    cursor(t).valid =>
      LET before == {q \in Positions(buckets) : Before(q, cursor(t).pos)}
      IN  /\ cursor(t).passed = {KeyAt(q) : q \in before}
          /\ cursor(t).pos = end_pos(buckets)
               => cursor(t).passed = {kv.key : kv \in Elements}
          /\ cursor(t).pos # end_pos(buckets)
               => cursor(t).pos \in Positions(buckets)
=============================================================================
