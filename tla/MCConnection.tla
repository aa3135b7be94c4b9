---------------------------- MODULE MCConnection ----------------------------
(***************************************************************************)
(* Small instances of Connection for TLC.  A header has 2 bytes, a key 1,  *)
(* "NOTFOUND" 1 and a value 1 or 2: a reply has 4 or 5 bytes, a GET 3.  A  *)
(* value of 8 is one that does not fit read_buf with its key.              *)
(***************************************************************************)
EXTENDS Connection

CONSTANTS k1, k2

SetReq(k, v) == [op |-> "SET", key |-> k, val |-> v, num |-> 0]
GetReq(k, i) == [op |-> "GET", key |-> k, val |-> 0, num |-> i]
BatchReq(n)  == [op |-> "BATCH", key |-> k1, val |-> 0, num |-> n]
BatchBody(n) == [op |-> "BATCH", key |-> k1, val |-> 1, num |-> n]
Short(n)     == [op |-> "SHORT", key |-> k1, val |-> n, num |-> 0]
Reject(n)    == [op |-> "REJECT", key |-> k1, val |-> n, num |-> 0]

MCKeys == {k1, k2}
MCVals == {1, 2, 8}
NoVals == {}
MCOtherVals == {2}

\* Plain requests, hits and misses; batches whose replies need one buffer or
\* more; the requests the server refuses.
MixedPrograms ==
  { <<SetReq(k1, 2), GetReq(k1, 0), GetReq(k2, 0), SetReq(k2, 1)>>,
    <<GetReq(k2, 0), GetReq(k1, 0)>>,
    <<BatchReq(2), GetReq(k1, 0), GetReq(k2, 1), GetReq(k1, 0)>>,
    <<SetReq(k1, 1), BatchReq(2), GetReq(k1, 0), GetReq(k2, 1), GetReq(k1, 0)>>,
    <<SetReq(k1, 2), BatchReq(3), GetReq(k1, 0), GetReq(k1, 1), GetReq(k1, 2)>>,
    <<BatchReq(3), GetReq(k1, 0), GetReq(k1, 1), GetReq(k2, 2)>>,
    <<BatchReq(2), GetReq(k1, 0), BatchReq(1), GetReq(k2, 0)>>,
    <<BatchReq(2), GetReq(k1, 1)>>,
    <<BatchReq(0), SetReq(k1, 1), BatchReq(0), GetReq(k1, 0), GetReq(k1, 1)>>,
    <<BatchBody(1), GetReq(k1, 0)>>,
    <<GetReq(k1, 0), SetReq(k2, 8), GetReq(k2, 0)>>,
    <<SetReq(k1, 1), Short(1), GetReq(k1, 0)>>,
    <<Reject(0), GetReq(k1, 0)>>,
    <<Reject(2), SetReq(k1, 1)>> }

\* For the client that closes: stores only, and stores among queries; a store
\* that does not fit read_buf; a batch announced with no requests.
ClosePrograms ==
  { <<SetReq(k1, 1), SetReq(k2, 2), SetReq(k1, 2)>>,
    <<GetReq(k1, 0), SetReq(k1, 1), GetReq(k1, 0)>>,
    <<BatchReq(2), GetReq(k1, 0), GetReq(k2, 1)>>,
    <<SetReq(k1, 8), GetReq(k1, 0)>>,
    <<BatchReq(0), GetReq(k1, 0), SetReq(k1, 1)>>,
    <<Reject(1), GetReq(k1, 0)>>,
    <<Short(1), GetReq(k1, 0)>> }

\* For the client that stays: valid requests only.
ServedPrograms ==
  { <<SetReq(k1, 1), GetReq(k1, 0), SetReq(k1, 2), GetReq(k1, 0)>>,
    <<GetReq(k2, 0), GetReq(k2, 0), SetReq(k1, 2)>>,
    <<BatchReq(3), GetReq(k1, 0), GetReq(k2, 1), GetReq(k1, 2)>>,
    <<SetReq(k1, 2), BatchReq(2), GetReq(k1, 0), GetReq(k2, 1)>> }

OneBatch == { <<BatchReq(3), GetReq(k1, 0), GetReq(k1, 1), GetReq(k1, 2)>> }
TwoGets  == { <<GetReq(k1, 0), GetReq(k1, 0)>> }
OneStore == { <<SetReq(k1, 2), GetReq(k1, 0)>> }
=============================================================================
