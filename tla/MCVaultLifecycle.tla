-------------------------- MODULE MCVaultLifecycle --------------------------
(***************************************************************************)
(* A finite instance of VaultLifecycle: one administrator, one vault, two  *)
(* handles that share keys/.                                               *)
(***************************************************************************)
EXTENDS VaultLifecycle, TLC

CONSTANTS h1, h2, alice, s1, v1

DebugPcrs == {16}
NoPcrs == {}

SameHandles == Permutations(Handles)
=============================================================================
