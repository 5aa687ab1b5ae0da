--------------------------- MODULE MCProvisioning ---------------------------
(***************************************************************************)
(* Finite instances of Provisioning: one production PCR and the debug PCR. *)
(***************************************************************************)
EXTENDS Provisioning, TLC

CONSTANTS h1, alice, s1, s2

LockedPcrs == {14}
DebugPcrs == {16}
NoPcrs == {}

Administrators == Permutations(Scripts)
=============================================================================
