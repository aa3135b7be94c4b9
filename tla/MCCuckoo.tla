------------------------------- MODULE MCCuckoo -------------------------------
(***************************************************************************)
(* Small instances of LockedTable for TLC: buckets of two slots, two locks *)
(* and at most eight buckets.                                              *)
(***************************************************************************)
EXTENDS LockedTable, TLC

CONSTANTS
  kp, kq, kr, ks, kx, ky, \* keys
  v1, v2,                 \* values
  t1, t2                  \* threads

(* In a table of two buckets kp and kr may be in either, kq, kx and ky in  *)
(* the first and ks in the second only.  In one of four kp goes to bucket  *)
(* 0 or 1 and kr to 1 or 2, the others to one: when all of kp, kq, kr, ks  *)
(* are in their first buckets, 0 and 1 are full and kx needs a path of two *)
(* moves.  Of eight buckets kx and ky have two each, 0 and another one.    *)
MCHash ==
  kp :> 0 @@ kq :> 772 @@ kr :> 769 @@ ks :> 513 @@ kx :> 768 @@ ky :> 776

On(op, keys, vals) == [op : {op}, key : keys, val : vals, n : {0}]
To(op, ns) == [op : {op}, key : {kp}, val : {v1}, n : ns]
Whole(op) == To(op, {0})

Plan(n, calls) == [n |-> n, calls |-> calls]

Start(hp, keys, plan1, plan2) ==
  [hashpower |-> hp,
   elements  |-> [i \in DOMAIN keys |-> [key |-> keys[i], val |-> v1]],
   plan      |-> t1 :> plan1 @@ t2 :> plan2]

(* Two inserts meet in a full table, or one of them meets other calls.     *)
FullTable ==
  Start(1, <<kp, kq, kr, ks>>,
        Plan(1, On("insert", {kx}, {v1})),
        Plan(2, On("insert_or_assign", {kx}, {v2}) \cup On("find", {kp}, {v1})
                  \cup On("erase", {kp, kq}, {v1})))

(* A table that is resized, emptied or locked as a whole during a call,    *)
(* which may find nothing to do.                                           *)
Resized ==
  Start(1, <<kp, kq, kr>>,
        Plan(2, To("rehash", {0, 2, 4}) \cup Whole("clear") \cup Whole("lock_table")),
        Plan(1, On("insert", {kx}, {v2}) \cup On("uprase", {kp}, {v2})
                  \cup On("update", {kq}, {v2}) \cup To("rehash", {1})))

(* One thread that owns a table which grows from one bucket and one lock.  *)
OneOwner ==
  Start(0, <<kp, kq>>,
        Plan(4, Whole("lock_table") \cup On("insert", {kx, ky, kr}, {v1})
                  \cup On("erase", {kq}, {v1}) \cup On("find", {kp}, {v1})
                  \cup To("reserve", {3, 8})),
        Plan(0, {}))

(* Three elements that eight buckets hold and four do not: with three      *)
(* slots for an element the new map of rehash(2) is not doubled.           *)
Sparse ==
  Start(3, <<kq, kx, ky>>,
        Plan(2, To("rehash", {2, 3}) \cup Whole("lock_table")),
        Plan(1, On("find", {ky}, {v1}) \cup On("erase", {kq}, {v1})))

(* A table that is emptied while a lazy rehash is left to do.              *)
Emptying ==
  Start(1, <<kp, kq, kr, ks>>,
        Plan(2, On("insert", {kx}, {v1}) \cup On("find", {kp}, {v1})),
        Plan(1, Whole("clear")))

(* Two threads on a table that starts with fewer than kMaxNumLocks locks.  *)
SmallTable ==
  Start(0, <<kp, kq>>, Plan(2, On("insert", {kx, ky}, {v1})),
                       Plan(1, On("find", {kp}, {v1})))

MCStarts == {FullTable, Resized, OneOwner, Sparse, Emptying}

SmallStarts == {SmallTable}

MCCalls ==
  UNION {start.plan[t].calls : start \in MCStarts \cup SmallStarts, t \in {t1, t2}}
===============================================================================
