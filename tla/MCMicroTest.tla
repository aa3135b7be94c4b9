---------------------------- MODULE MCMicroTest ----------------------------
(***************************************************************************)
(* A small instance of MicroTest for TLC: two ports, chunks of four        *)
(* packages out of six, so that there is a tail, and buffers of two that a *)
(* chunk leaves half filled.                                               *)
(***************************************************************************)
EXTENDS MicroTest, TLC

CONSTANTS t1, t2, t3, p1, p2

MCThreads == {t1, t2, t3}
MCPorts   == {p1, p2}
MCPreHash == [k \in 0..5 |-> IF k \in {1, 4, 5} THEN p2 ELSE p1]
=============================================================================
