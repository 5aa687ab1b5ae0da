--------------------------- MODULE MCTssSession ---------------------------
(***************************************************************************)
(* Finite instances of TssSession with a key bound to PCR 14.              *)
(***************************************************************************)
EXTENDS TssSession

CONSTANTS v1, v2

OnlyPcr14 == {14}
PolicyOn14 == <<14, v1>>
=============================================================================
