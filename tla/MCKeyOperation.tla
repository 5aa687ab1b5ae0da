--------------------------- MODULE MCKeyOperation ---------------------------
(***************************************************************************)
(* Finite instances of KeyOperation: two threads that share pages.         *)
(***************************************************************************)
EXTENDS KeyOperation, TLC

CONSTANTS t1, t2, p1, p2
=============================================================================
