---------------------------- MODULE BatchDatabase ----------------------------
(***************************************************************************)
(* What the clients get_batch and double_buf_get send: con_database puts   *)
(* the keys of an array in the order of the array into batches of GETs,    *)
(* one list of batches for each port; every thread sends its share of a    *)
(* list, ROUND_SET times, on its connection to the port.  The two programs *)
(* have the same text for all of it.                                       *)
(***************************************************************************)
EXTENDS Integers, Sequences, SequencesExt

CONSTANTS
  BatchNum,  \* BATCH_NUM, the GETs of a batch
  PortNum,   \* port_num
  ThreadNum, \* thread_num
  RoundSet,  \* ROUND_SET
  PreHash,   \* hash_func of every key, modulo port_num
  Arrays     \* the arrays of keys that the generator may have drawn

ASSUME DatabaseAssumption ==
  /\ {BatchNum, PortNum, ThreadNum, RoundSet} \subseteq Nat \ {0}
  /\ PreHash \in [DOMAIN PreHash -> 0 .. PortNum - 1]
  /\ Arrays \subseteq Seq(DOMAIN PreHash)

Ports == 0 .. PortNum - 1

-----------------------------------------------------------------------------
(* con_database *)

\* The head that announces a batch; no key follows it.
BatchHead ==
  [op |-> "BATCH", key |-> CHOOSE k \in DOMAIN PreHash : TRUE, val |-> 0,
   num |-> BatchNum]

Package(key, num) == [op |-> "GET", key |-> key, val |-> 0, num |-> num]

\* batchobj->num, before the package is added.
IsFull(num) == num >= BatchNum - 1

\* One iteration of the loop: database is the list of every port, open the
\* batch that is being filled for it.
AddPackage(db, key) ==
  LET port   == PreHash[key]
      num    == Len(db.open[port]) - 1
      filled == Append(db.open[port], Package(key, num))
  IN  IF IsFull(num)
      THEN [db EXCEPT !.database[port] = Append(@, filled),
                      !.open[port] = <<BatchHead>>]
      ELSE [db EXCEPT !.open[port] = filled]

NoPackages ==
  [database |-> [i \in Ports |-> <<>>], open |-> [i \in Ports |-> <<BatchHead>>]]

\* The batches that are not full at the end are discarded.
con_database(array) ==
  LET db[i \in 0..Len(array)] ==
        IF i = 0 THEN NoPackages ELSE AddPackage(db[i - 1], array[i])
  IN  db[Len(array)].database

-----------------------------------------------------------------------------
(* The shares of the threads *)

\* What the division leaves is sent by nobody.
thread_work_len(database, port) == Len(database[port]) \div ThreadNum

\* One round of a thread on its connection to a port.
Share(database, tid, port) ==
  LET len == thread_work_len(database, port)
  IN  FlattenSeq(SubSeq(database[port], tid * len + 1, (tid + 1) * len))

Stream(database, tid, port) ==
  FlattenSeq([k \in 1..RoundSet |-> Share(database, tid, port)])

\* The streams of a database with a batch for every thread; a thread whose
\* share is empty reads past its end in the code.
BatchStreams ==
  {Stream(con_database(c[1]), c[2], c[3]) :
     c \in {d \in Arrays \X (0 .. ThreadNum - 1) \X Ports :
              thread_work_len(con_database(d[1]), d[3]) > 0}}
=============================================================================
