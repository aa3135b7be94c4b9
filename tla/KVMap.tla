-------------------------------- MODULE KVMap --------------------------------
(***************************************************************************)
(* What a concurrent hash map promises its users: every call takes effect  *)
(* at one instant between its invocation and its return, as on a           *)
(* dictionary, and while a thread owns the table (lock_table) no call of   *)
(* another thread changes it or reads it.  Cuckoo and LockedTable          *)
(* implement it.                                                           *)
(* It is the promise of the code in src/libcuckoo/cuckoohash_map.hh,       *)
(* stated without buckets, slots, locks and expansions.                    *)
(***************************************************************************)
CONSTANTS
  Threads,
  NoThread,
  Keys,
  Vals,
  None,               \* the value of a key that is not in the map
  NoCall,
  Calls               \* the calls that the threads make

VARIABLES
  dict,               \* the value of every key
  call,               \* the call that each thread has in progress
  ret,                \* what the last operation of each thread returned
  owner               \* the thread that has locked the table, if any

kvVars == <<dict, call, ret, owner>>

(* A call has an operation, and the key and the value that it is given. *)
Inserting == {"insert", "insert_or_assign", "uprase"}

Resizing == {"rehash", "reserve"}

KVInit ==
  /\ dict \in [Keys -> Vals \cup {None}]
  /\ call = [t \in Threads |-> NoCall]
  /\ ret = [t \in Threads |-> None]
  /\ owner = NoThread

Returns(t, r) == ret' = [ret EXCEPT ![t] = r]

Bind(k, v) == dict' = [dict EXCEPT ![k] = v]

Present(k) == dict[k] # None

(* Answers are strings; "threw" stands for an exception, which leaves the   *)
(* map as it was.                                                           *)
IfPresent(k) == IF Present(k) THEN "yes" ELSE "no"

IfAbsent(k) == IF Present(k) THEN "no" ELSE "yes"

Effect(t, op, k, v) ==
  \/ /\ op = "find"
     /\ Returns(t, dict[k])
     /\ UNCHANGED dict
  \/ /\ op = "update"
     /\ Returns(t, IfPresent(k))
     /\ IF Present(k) THEN Bind(k, v) ELSE UNCHANGED dict
  \/ /\ op = "erase"
     /\ Returns(t, IfPresent(k))
     /\ Bind(k, None)
  \/ /\ op = "insert"
     /\ Returns(t, IfAbsent(k))
     /\ IF Present(k) THEN UNCHANGED dict ELSE Bind(k, v)
  \/ /\ op = "insert_or_assign"
     /\ Returns(t, IfAbsent(k))
     /\ Bind(k, v)
  \/ /\ op = "uprase"
     /\ Returns(t, IfAbsent(k))
     /\ Bind(k, IF Present(k) THEN None ELSE v)
  \/ /\ op = "clear"
     /\ Returns(t, "done")
     /\ dict' = [j \in Keys |-> None]
  \/ /\ op \in Resizing
     /\ \E r \in {"yes", "no"} : Returns(t, r)
     /\ UNCHANGED dict
  \/ /\ op \in Inserting \cup Resizing
     /\ Returns(t, "threw")
     /\ UNCHANGED dict

Invoke(t) ==
  /\ call[t] = NoCall
  /\ \E c \in Calls : call' = [call EXCEPT ![t] = c]
  /\ UNCHANGED <<dict, ret, owner>>

TakeEffect(t) ==
  /\ call[t] # NoCall
  /\ owner = NoThread
  /\ Effect(t, call[t].op, call[t].key, call[t].val)
  /\ call' = [call EXCEPT ![t] = NoCall]
  /\ UNCHANGED owner

(* A resize may find nothing to do, without waiting for an owner. *)
FindNothingToDo(t) ==
  /\ call[t] # NoCall
  /\ call[t].op \in Resizing
  /\ call' = [call EXCEPT ![t] = NoCall]
  /\ Returns(t, "no")
  /\ UNCHANGED <<dict, owner>>

Own(t) ==
  /\ call[t] # NoCall
  /\ call[t].op = "lock_table"
  /\ owner = NoThread
  /\ owner' = t
  /\ UNCHANGED <<dict, call, ret>>

(* An operation of the owner; moving an iterator changes nothing here. *)
OwnerOperation(t) ==
  /\ owner = t
  /\ \E op \in Inserting \cup Resizing \cup {"find", "erase", "clear"},
        k \in Keys, v \in Vals : Effect(t, op, k, v)
  /\ UNCHANGED <<call, owner>>

Disown(t) ==
  /\ owner = t
  /\ owner' = NoThread
  /\ call' = [call EXCEPT ![t] = NoCall]
  /\ Returns(t, "done")
  /\ UNCHANGED dict

KVNext ==
  \E t \in Threads :
    \/ Invoke(t) \/ TakeEffect(t) \/ FindNothingToDo(t)
    \/ Own(t) \/ OwnerOperation(t) \/ Disown(t)

KVSpec == KVInit /\ [][KVNext]_kvVars
=============================================================================
