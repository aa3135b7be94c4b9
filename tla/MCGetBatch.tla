----------------------------- MODULE MCGetBatch -----------------------------
(***************************************************************************)
(* Small instances for TLC of clients that stay until they are answered:   *)
(* the get_batch client of GetBatch with one to three batches, and any     *)
(* other client with the programs of MCConnection, that never closes.      *)
(***************************************************************************)
EXTENDS MCConnection, GetBatch, TLC

MCPreHash == k1 :> 0 @@ k2 :> 1

\* Two batches of k1 and three of k2 at most, and keys that fill none.
MCArrays ==
  { <<k1, k1, k2, k1, k2, k2, k1, k1, k2, k1, k2>>,
    <<k2, k1, k2, k2, k2, k2, k2, k1, k2, k2, k2, k1>> }

StayingPrograms == ServedPrograms \cup BatchStreams

AnyInit ==
  /\ Init
  /\ caller = IF reqs \in BatchStreams THEN "write" ELSE "other"

AnySend == caller = "other" /\ ClientSend /\ UNCHANGED caller
AnyRecv == caller = "other" /\ ClientRecv /\ UNCHANGED caller

AnySpec ==
  /\ AnyInit /\ [][GetBatchNext \/ AnySend \/ AnyRecv]_callVars
  /\ GetBatchFairness
  /\ WF_callVars(AnySend) /\ WF_callVars(AnyRecv)
=============================================================================
