--------------------------- MODULE MCDoubleBufGet ---------------------------
(***************************************************************************)
(* Small instances of DoubleBufGet for TLC: two threads, and batches of 3. *)
(* As in settings.h, read_buf holds more GETs than ROUND_NUM and less than *)
(* a batch, and a batch's answers fit one batch buffer.                    *)
(***************************************************************************)
EXTENDS DoubleBufGet, TLC

CONSTANTS k1, k2

MCKeys == {k1, k2}
NoVals == {}

MCPreHash == k1 :> 0 @@ k2 :> 1

\* Five batches of k1, so two for each thread, and six of k2, so three; the
\* fifth batch and a key that is left over of k1 are not sent.
MCArrays == { [i \in 1..35 |-> IF i <= 32 /\ i % 2 = 0 THEN k1 ELSE k2] }
=============================================================================
