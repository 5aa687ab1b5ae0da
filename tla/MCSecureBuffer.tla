--------------------------- MODULE MCSecureBuffer ---------------------------
(***************************************************************************)
(* Finite instances of SecureBuffer: blocks that share pages, one of them  *)
(* across a page boundary.                                                 *)
(***************************************************************************)
EXTENDS SecureBuffer, TLC

CONSTANTS b1, b2, b3, p1, p2

SharedPages == (b1 :> {p1}) @@ (b2 :> {p1, p2}) @@ (b3 :> {p2})

Symmetry == Permutations(Objects)
=============================================================================
