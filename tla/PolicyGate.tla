----------------------------- MODULE PolicyGate -----------------------------
(***************************************************************************)
(* What the vault promises of a key bound to a PCR, without sessions,      *)
(* digests or the order of TPM commands (PCR_POLICY.md, "Customer Device   *)
(* Boot"): a plaintext is released only to a call during which the PCR was *)
(* found to hold the key's value, and, for a PCR whose changes the TPM     *)
(* counts, only while it still does.                                       *)
(***************************************************************************)
CONSTANTS Clients, Pcrs, Counted, PcrValues, KeyPolicy, NoPolicy

VARIABLES
    vault,   \* what each vault object is doing
    pcr      \* current PCR contents

vars == <<vault, pcr>>

Holds == pcr[KeyPolicy[1]] = KeyPolicy[2]

Init ==
    /\ vault = [c \in Clients |-> "closed"]
    /\ pcr \in [Pcrs -> PcrValues]

Become(c, from, to) ==
    /\ vault[c] \in from
    /\ vault' = [vault EXCEPT ![c] = to]
    /\ UNCHANGED pcr

Open(c) == Become(c, {"closed"}, "open")

\* A call of decrypt; every call must be vouched for anew.
Ask(c) == Become(c, {"open", "granted"}, "asked")

Vouch(c) == KeyPolicy # NoPolicy /\ Holds /\ Become(c, {"asked"}, "vouched")

Grant(c) ==
    \/ KeyPolicy = NoPolicy /\ Become(c, {"asked"}, "granted")
    \/ /\ KeyPolicy # NoPolicy
       /\ KeyPolicy[1] \in Counted => Holds
       /\ Become(c, {"vouched"}, "granted")

Deny(c) == Become(c, {"asked", "vouched"}, "open")

Close(c) == Become(c, {"open", "asked", "vouched", "granted"}, "closed")

Measure == pcr' \in [Pcrs -> PcrValues] /\ UNCHANGED vault

Next ==
    \/ \E c \in Clients : Open(c) \/ Ask(c) \/ Vouch(c) \/ Grant(c) \/ Deny(c) \/ Close(c)
    \/ Measure

Spec == Init /\ [][Next]_vars
=============================================================================
