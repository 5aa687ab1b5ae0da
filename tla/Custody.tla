------------------------------ MODULE Custody ------------------------------
(***************************************************************************)
(* What SecureBuffer promises of secrets, without pointers, sizes or page  *)
(* locks (key_vault.h, class SecureBuffer): a secret has one custodian at  *)
(* a time, passes whole from one to the next, and goes only by being       *)
(* erased.                                                                 *)
(***************************************************************************)
CONSTANTS
    Holders,  \* who can be responsible for a secret
    Secrets,
    Nobody

VARIABLE custodian  \* of each secret; Nobody: there is no such secret now

Free(h) == \A s \in Secrets : custodian[s] # h

Init == custodian = [s \in Secrets |-> Nobody]

Receive(s, h) ==
    /\ custodian[s] = Nobody
    /\ Free(h)
    /\ custodian' = [custodian EXCEPT ![s] = h]

HandOver(s, h) ==
    /\ custodian[s] \in Holders
    /\ Free(h)
    /\ custodian' = [custodian EXCEPT ![s] = h]

Erase(s) ==
    /\ custodian[s] \in Holders
    /\ custodian' = [custodian EXCEPT ![s] = Nobody]

Next ==
    \E s \in Secrets :
        \/ \E h \in Holders : Receive(s, h) \/ HandOver(s, h)
        \/ Erase(s)

Spec == Init /\ [][Next]_custodian
=============================================================================
