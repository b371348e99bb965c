-------------------------- MODULE MCPlanoSnapshots --------------------------
(* An instance of PlanoSnapshots for TLC. *)
EXTENDS PlanoSnapshots, TLC

CONSTANTS l1, l2

(* A batch with lines before and after the effective date, and one that    *)
(* asks again about the later date.                                        *)
TwoBatches == l1 :> {1, 2} @@ l2 :> {2}
=============================================================================
