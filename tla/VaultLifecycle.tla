--------------------------- MODULE VaultLifecycle ---------------------------
(***************************************************************************)
(* KeyVault objects (src/source/key_vault.cpp, key_vault.h) beside the     *)
(* scripts of Provisioning, over the same TPM and the same keys/.          *)
(*                                                                         *)
(* A vault reads pcr_policy and the key at its handle once, when it is     *)
(* constructed, and the public key file at every protect; the scripts      *)
(* change all three at any time, and each exit of init.sh may flush the    *)
(* session of a running vault.                                             *)
(*                                                                         *)
(* Covered: construction, protect, recovery of a passphrase (the step all  *)
(* of load, sign and decrypt begin with), destruction, against every step  *)
(* of every script, reboots and loss of the TPM session.                   *)
(* Not covered: the steps inside a call, which TssSession and KeyOperation *)
(* model; a TPM out of session slots (TssSession); a pcr_policy written by *)
(* hand.                                                                   *)
(***************************************************************************)
EXTENDS Provisioning

CONSTANT Vaults

VARIABLES
    vault,      \* each vault's Impl; None: not constructed
    stored,     \* keys for which the application stores protected passphrases
    \* history
    completed,  \* handle of a completed init.sh since which none and no clear.sh began
    unfinished  \* the last init.sh or clear.sh to change anything was cut short,
                \* or had another script beside it

vaultVars     == <<vault, stored, completed, unfinished>>
lifecycleVars == <<vars, vaultVars>>

\* key: the name Esys_TR_FromTPMPublic keeps; 0: the constructor has not come that
\* far.  spoiled: the digest of the policy session holds an assertion of a call
\* that threw.  settled is history: constructed after a run of init.sh for the
\* handle had written pcr_policy, and neither init.sh nor clear.sh begun since.
VaultRecord == [tpm_handle : Handles, pcr_index : PolicyPcrs \union {None},
                key : 0..MaxKeys, session : BOOLEAN, spoiled : BOOLEAN, settled : BOOLEAN]

ASSUME LifecycleAssumption == None \notin VaultRecord

LifecycleTypeOK ==
    /\ vault \in [Vaults -> VaultRecord \union {None}]
    /\ stored \subseteq 1..MaxKeys
    /\ completed \in Handles \union {None}
    /\ unfinished \in BOOLEAN
    /\ \A v \in Vaults : vault[v] # None /\ vault[v].session => vault[v].key \in 1..created

LifecycleInit ==
    /\ Init
    /\ vault = [v \in Vaults |-> None]
    /\ stored = {}
    /\ completed = None
    /\ unfinished = FALSE

Constructed(v) == vault[v] # None /\ vault[v].key # 0

-----------------------------------------------------------------------------
(***************************************************************************)
(* The vault.                                                              *)
(***************************************************************************)
\* read_pcr_policy: of an empty file nothing is extracted, pcr_index stays -1.
read_pcr_policy == IF policyFile = Empty THEN None ELSE policyFile

\* After pcr_policy is written, or left as it is, a run comes to the new key.
PolicyWritten == {"openvalue", "savevalue", "createek", "createkey", "persist", "export", "verify"}

Prepared(h) ==
    \/ completed = h
    \/ \E s \in Scripts : pc[s] \in PolicyWritten /\ args[s].handle = h /\ ~Overlapped(s)

\* Slip: >> is taken to store 0 for a file with nothing in it.
ReadPolicyEmptyIsFirst(v, h) ==
    /\ vault[v] = None
    /\ vault' = [vault EXCEPT ![v] =
                   [tpm_handle |-> h, pcr_index |-> policyFile, key |-> 0,
                    session |-> FALSE, spoiled |-> FALSE, settled |-> Prepared(h)]]
    /\ UNCHANGED <<vars, stored, completed, unfinished>>

ReadPolicy(v, h) ==
    /\ vault[v] = None
    /\ vault' = [vault EXCEPT ![v] =
                   [tpm_handle |-> h, pcr_index |-> read_pcr_policy, key |-> 0,
                    session |-> FALSE, spoiled |-> FALSE, settled |-> Prepared(h)]]
    /\ UNCHANGED <<vars, stored, completed, unfinished>>

\* TssSession takes the key that is at the handle now.  The file ek.ctx is not read.
OpenSession(v) ==
    /\ vault[v] # None /\ vault[v].key = 0
    /\ Occupied(vault[v].tpm_handle)
    /\ vault' = [vault EXCEPT ![v].key = nv[vault[v].tpm_handle].id, ![v].session = TRUE]
    /\ UNCHANGED <<vars, stored, completed, unfinished>>

\* The destructor, or a constructor that throws.
Close(v) ==
    /\ vault[v] # None
    /\ vault' = [vault EXCEPT ![v] = None]
    /\ UNCHANGED <<vars, stored, completed, unfinished>>

\* encrypt_passphrase opens the public key file; it does not ask the TPM.
Protect(v) ==
    /\ Constructed(v)
    /\ pem # 0
    /\ stored' = stored \union {pem}
    /\ UNCHANGED <<vars, vault, completed, unfinished>>

\* The session authorises the key: a session without policy if it has none, one
\* that asserts the PCR the key is bound to if it has one.
Authorised(v) ==
    LET k == nv[vault[v].tpm_handle]
    IN  IF k.policy = None THEN vault[v].pcr_index = None
        ELSE /\ vault[v].pcr_index = k.policy[1]
             /\ pcr[k.policy[1]] = k.policy[2]
             /\ ~vault[v].spoiled

Works(v) ==
    /\ Constructed(v)
    /\ vault[v].session
    /\ Occupied(vault[v].tpm_handle)
    /\ nv[vault[v].tpm_handle].id = vault[v].key
    /\ Authorised(v)

\* decrypt_passphrase of what protect made for key k; a call that throws for the
\* wrong key or the wrong session has sent its PolicyPCR by then.
Recover(v, k) ==
    /\ Constructed(v)
    /\ k \in stored
    /\ vault' = [vault EXCEPT ![v].spoiled =
                   @ \/ /\ vault[v].pcr_index # None /\ vault[v].session
                        /\ ~(Works(v) /\ k = vault[v].key)]
    /\ UNCHANGED <<vars, stored, completed, unfinished>>

\* decrypt_passphrase throws after PolicyPCR whatever the vault is worth: the
\* ciphertext is too long or damaged, or the TPM fails.
RecoverFails(v) ==
    /\ Constructed(v)
    /\ vault' = [vault EXCEPT ![v].spoiled =
                   @ \/ (vault[v].pcr_index # None /\ vault[v].session)]
    /\ UNCHANGED <<vars, stored, completed, unfinished>>

\* Sessions of a set of vaults are gone, and their digests; the objects do not notice.
LoseSessions(lost) ==
    vault' = [v \in Vaults |->
                IF v \in lost /\ vault[v] # None
                THEN [vault[v] EXCEPT !.session = FALSE, !.spoiled = FALSE] ELSE vault[v]]

ResourceManagerRestart ==
    /\ LoseSessions(Vaults)
    /\ UNCHANGED <<vars, stored, completed, unfinished>>

VaultStep(v) ==
    \/ \E h \in Handles : ReadPolicy(v, h)
    \/ OpenSession(v) \/ Close(v) \/ Protect(v)
    \/ \E k \in stored : Recover(v, k)
    \/ RecoverFails(v)

-----------------------------------------------------------------------------
(***************************************************************************)
(* The scripts, and what their steps mean for the vaults.                  *)
(***************************************************************************)
Begins(s) == pc[s] = "idle" /\ pc'[s] \in {"check", "clearcheck"}
Ends(s)   == pc[s] # "idle" /\ pc'[s] = "idle"

\* If the run ends here the key or the files have been touched and the rest was to
\* come, or another script has been at them meanwhile.
CutShort(s) ==
    \/ pc[s] \in (InitSteps \union ClearSteps) \ {"check", "clearcheck", "verify", "rmvalue"}
    \/ pc[s] \in {"verify", "rmvalue"} /\ Overlapped(s)

Completes(s) == Ends(s) /\ pc[s] = "verify" /\ ~Overlapped(s)

Remember ==
    /\ completed' = IF \E s \in Scripts : Begins(s) THEN None
                    ELSE IF \E s \in Scripts : Completes(s)
                    THEN args[CHOOSE s \in Scripts : Completes(s)].handle
                    ELSE completed
    /\ unfinished' = IF \E s \in Scripts : Ends(s) /\ CutShort(s) THEN TRUE
                     ELSE IF \E s \in Scripts : Ends(s) /\ pc[s] \in {"verify", "rmvalue"}
                     THEN FALSE ELSE unfinished

Unsettle == vault' = [v \in Vaults |-> IF vault[v] = None THEN None
                                       ELSE [vault[v] EXCEPT !.settled = FALSE]]

\* On every exit of init.sh its trap runs tpm2_flushcontext -s, which flushes the
\* saved sessions it can see; whether it sees those of the vaults is up to the
\* resource manager.  A script that is killed does not run it.
ScriptStep(s) ==
    /\ Start(s) \/ InitStep(s) \/ ClearStep(s) \/ BootStep(s) \/ Abort(s)
    /\ Remember
    /\ IF Begins(s) THEN Unsettle
       ELSE IF Ends(s) /\ pc[s] \in InitSteps THEN \E lost \in SUBSET Vaults : LoseSessions(lost)
       ELSE UNCHANGED vault
    /\ UNCHANGED stored

OtherApplication ==
    /\ \E h \in Handles, profile \in {"vault", "other"} : ForeignPersist(h, profile)
    /\ UNCHANGED vaultVars

Restart ==
    /\ Reboot
    /\ Remember
    /\ vault' = [v \in Vaults |-> None]
    /\ UNCHANGED stored

LifecycleNext ==
    \/ \E s \in Scripts : ScriptStep(s)
    \/ \E v \in Vaults : VaultStep(v)
    \/ OtherApplication \/ Restart \/ ResourceManagerRestart

LifecycleSpec == LifecycleInit /\ [][LifecycleNext]_lifecycleVars

-----------------------------------------------------------------------------
(***************************************************************************)
(* Properties.                                                             *)
(***************************************************************************)
\* When a run of init.sh has completed, and no script has begun since, a vault fits
\* the key if its constructor has read pcr_policy after the run had written it,
\* wherever between the steps of the run it did so and opened the key: what it
\* protects is for the key it opened, that key is still there, and its session
\* is of the kind the key wants.  An empty pcr_policy that a run before left does
\* no harm then; the exception is one with a number, beside a key without a
\* policy.
CompletedRunServes ==
    \A v \in Vaults :
        LET h == vault[v].tpm_handle
        IN  /\ Constructed(v) /\ vault[v].settled /\ completed = h
            /\ policyFile \in PolicyPcrs => nv[h].policy # None
            =>
              /\ Occupied(h) /\ nv[h].id = vault[v].key
              /\ pem = vault[v].key
              /\ vault[v].pcr_index = IF nv[h].policy = None THEN None ELSE nv[h].policy[1]

\* protect does not ask whether the key of its file still exists.  It does, as
\* long as the last script that changed anything ran to its end, and alone: a
\* vault never hands out a passphrase that no key can recover.
ProtectedForLiveKey ==
    [][\A v \in Vaults :
          /\ Protect(v)
          /\ Running = {} /\ ~unfinished
          => \E h \in Handles : Occupied(h) /\ nv[h].id = pem]_lifecycleVars

\* The script step that just ran removes the key at h, and was asked to.
RemovalAt(h) ==
    \E s \in Scripts : /\ args[s].handle = h
                       /\ \/ pc[s] = "clearremove"
                          \/ pc[s] = "remove" /\ args[s].force

\* A vault that works goes on working whatever happens to the files, to other
\* keys and to other PCRs.  It stops when it is closed; when its own key is
\* cleared or replaced with --force; when its own PCR changes; when its session is
\* flushed, by the resource manager or by the trap of any init.sh, even one that
\* finds all provisioned; by a call with a passphrase of another key; and by any
\* call that throws after PolicyPCR, if only for a damaged passphrase.
WorkingVaultKept ==
    [][\A v \in Vaults : Works(v) /\ ~Works(v)' =>
          LET r == vault[v]
          IN  \/ Close(v) \/ Restart \/ ResourceManagerRestart
              \/ \E s \in Scripts : Ends(s) /\ pc[s] \in InitSteps
              \/ RemovalAt(r.tpm_handle)
              \/ r.pcr_index # None /\ pcr'[r.pcr_index] # pcr[r.pcr_index]
              \/ \E k \in stored : k # r.key /\ Recover(v, k)
              \/ r.pcr_index # None /\ RecoverFails(v)]_lifecycleVars
=============================================================================
