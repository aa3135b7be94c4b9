--------------------------- MODULE RequestStream ---------------------------
(***************************************************************************)
(* What one connection of the key/value server promises its client: the    *)
(* requests of the stream are executed one at a time, each exactly once,   *)
(* in the order sent; a SET stores its value, a GET is answered from the   *)
(* store as it is at that moment, anything else changes no data.  Other    *)
(* connections store into the same table between any two requests.        *)
(*                                                                         *)
(* Connection.tla is shown to implement this specification.  A value is    *)
(* represented by its length, 0 standing for "no such key".                *)
(***************************************************************************)
EXTENDS Integers, Sequences

CONSTANTS
  Keys,         \* the keys of the table
  Vals,         \* lengths of the values this connection stores
  OtherVals,    \* lengths of the values other connections store
  NotFoundLen,  \* length of the text answered for an absent key
  Programs      \* the request sequences a client may send

VARIABLES
  reqs,         \* the requests of this client, fixed at the start
  pos,          \* how many of them have taken effect
  store,        \* the shared table
  answers       \* the answers composed so far, oldest first

vars == <<reqs, pos, store, answers>>

Answer(i, k, st) ==
  [req  |-> i,
   hit  |-> st[k] # 0,
   body |-> IF st[k] # 0 THEN st[k] ELSE NotFoundLen]

Init ==
  /\ reqs \in Programs
  /\ pos = 0
  /\ store = [k \in Keys |-> 0]
  /\ answers = <<>>

Upcoming == reqs[pos + 1]

Set ==
  /\ pos < Len(reqs) /\ Upcoming.op = "SET"
  /\ pos' = pos + 1
  /\ store' = [store EXCEPT ![Upcoming.key] = Upcoming.val]
  /\ UNCHANGED <<reqs, answers>>

Get ==
  /\ pos < Len(reqs) /\ Upcoming.op = "GET"
  /\ pos' = pos + 1
  /\ answers' = Append(answers, Answer(pos + 1, Upcoming.key, store))
  /\ UNCHANGED <<reqs, store>>

\* A batch head or a request the server rejects.
Skip ==
  /\ pos < Len(reqs) /\ Upcoming.op \notin {"SET", "GET"}
  /\ pos' = pos + 1
  /\ UNCHANGED <<reqs, store, answers>>

OtherConnection ==
  /\ \E k \in Keys, v \in OtherVals : store' = [store EXCEPT ![k] = v]
  /\ UNCHANGED <<reqs, pos, answers>>

Next == Set \/ Get \/ Skip \/ OtherConnection

Spec == Init /\ [][Next]_vars
=============================================================================
