----------------------------- MODULE MCDispatch -----------------------------
(***************************************************************************)
(* Small instances of Dispatch for TLC: two ports, clients on both.        *)
(* Clients come back, so that descriptors are reused.                      *)
(***************************************************************************)
EXTENDS Dispatch, TLC

CONSTANTS t1, t2, c1, c2, c3, c4

MCThreads    == {t1, t2}
FourClients  == {c1, c2, c3, c4}
FourPortOf   == (c1 :> t1) @@ (c2 :> t1) @@ (c3 :> t1) @@ (c4 :> t2)
OneThread    == {t1}
ThreeClients == {c1, c2, c3}
OnePortOf    == [c \in ThreeClients |-> t1]
ThreeFds     == {1, 2, 3}
=============================================================================
