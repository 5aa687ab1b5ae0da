---------------------------- MODULE Provisioning ----------------------------
(***************************************************************************)
(* The provisioning scripts (src/scripts): init.sh with its library        *)
(* tpm_lib.sh, clear.sh and pcr.sh, the persistent keys and PCRs of the    *)
(* TPM they change, and the files under keys/ that the vault reads.        *)
(*                                                                         *)
(* Each command of a script that changes the TPM or a file is one step.  A *)
(* script can stop after any of them: a command fails (set -e), the user   *)
(* interrupts it, or the machine reboots.                                  *)
(*                                                                         *)
(* Covered: every exit of init.sh, clear.sh and pcr.sh boot, extend and    *)
(* reset; scripts that run at the same time; another application taking a  *)
(* free handle; reboots.  init.sh --check, which changes nothing but runs  *)
(* the EXIT trap, is a run that stops at once (Abort).                     *)
(* Not covered: argument syntax, pcr.sh read, the temporary files of a run *)
(* beyond the policy digest and the key they hold, verify_key_operations   *)
(* (it only prints).                                                       *)
(***************************************************************************)
EXTENDS Naturals, Sequences

CONSTANTS
    Scripts,     \* script processes that can run at the same time
    Handles,     \* persistent handles
    Locked,      \* PCRs that only a reboot resets: 14, 15
    Debug,       \* PCRs that software may reset: 16
    Identities,  \* values given with --pcr-value
    MaxKeys,     \* bound: keys ever created
    MaxExtends,  \* bound: extends of a PCR since its reset
    ReadCanFail, \* tpm2_readpublic can fail although there is a key
    None,        \* no key, no file, no policy
    Empty        \* a file that was truncated and not written yet

PolicyPcrs == Locked \union Debug

\* A PCR's contents: what it has been extended with since it was zero.
PcrContents == UNION {[1..n -> Identities] : n \in 0..MaxExtends}
Zero == <<>>

Policies == (PolicyPcrs \X PcrContents) \union {None}

\* profile: what is_keyvault_key makes of the public area.  The last four fields
\* are history: who made the key, whether --force waived the zero check of its
\* PCR, whether no other script was running, and the identity it was made for.
KeyRecord == [id : 1..MaxKeys, policy : Policies, profile : {"vault", "other"},
              maker : {"init", "foreign"}, waived : BOOLEAN,
              alone : BOOLEAN, identity : Identities \union {None}]

ASSUME ProvisioningAssumption ==
    /\ Locked \intersect Debug = {}
    /\ MaxKeys \in Nat
    /\ MaxExtends \in Nat
    /\ ReadCanFail \in BOOLEAN
    /\ None \notin Handles \union PolicyPcrs \union Identities
    /\ Empty \notin {None} \union PolicyPcrs \union Identities
    /\ None \notin PolicyPcrs \X PcrContents
    /\ None \notin KeyRecord

VARIABLES
    \* the TPM
    nv,          \* persistent key at each handle
    pcr,         \* PCR contents
    \* files under KEY_DIR
    pem,         \* tpm_rsa_pub.pem: id of the key whose public part it holds
    ek,          \* ek.ctx and ek.pub exist
    policyFile,  \* pcr_policy: PCR number
    valueFile,   \* pcr_value: identity
    \* running scripts
    pc,          \* next command of each script
    args,        \* command line of each script
    digest,      \* POLICY_DIGEST of each run of init.sh
    blob,        \* KEY_PUB and KEY_PRIV of each run of init.sh
    \* history
    notes,       \* of each run: was it overlapped by another script, did its
                 \* tpm2_readpublic fail on an occupied handle
    created      \* number of keys created so far

tpm   == <<nv, pcr>>
files == <<pem, ek, policyFile, valueFile>>
run   == <<digest, blob, notes>>
vars  == <<tpm, files, pc, args, run, created>>

NoArgs == [handle |-> None, force |-> FALSE, num |-> None, value |-> None]

ArgRecord == [handle : Handles \union {None}, force : BOOLEAN,
              num : PolicyPcrs \union {None, Empty},
              value : Identities \union {None, Empty}]

InitSteps  == {"check", "remove", "preparepcr", "extend", "policy", "openpolicy",
               "savepolicy", "openvalue", "savevalue", "createek",
               "createkey", "persist", "export", "verify"}
ClearSteps == {"clearcheck", "clearremove", "rmpem", "rmek", "rmpolicy", "rmvalue"}
BootSteps  == {"bootreset", "bootextend", "bootdone"}

TypeOK ==
    /\ nv \in [Handles -> KeyRecord \union {None}]
    /\ pcr \in [PolicyPcrs -> PcrContents]
    /\ pem \in 0..MaxKeys
    /\ ek \in BOOLEAN
    /\ policyFile \in PolicyPcrs \union {None, Empty}
    /\ valueFile \in Identities \union {None, Empty}
    /\ pc \in [Scripts -> {"idle"} \union InitSteps \union ClearSteps \union BootSteps]
    /\ args \in [Scripts -> ArgRecord]
    /\ digest \in [Scripts -> Policies]
    /\ blob \in [Scripts -> KeyRecord \union {None}]
    /\ created \in 0..MaxKeys
    /\ notes \in [Scripts -> SUBSET {"overlapped", "misread"}]

Init ==
    /\ nv = [h \in Handles |-> None]
    /\ pcr = [n \in PolicyPcrs |-> Zero]
    /\ pem = 0
    /\ ek = FALSE
    /\ policyFile = None
    /\ valueFile = None
    /\ pc = [s \in Scripts |-> "idle"]
    /\ args = [s \in Scripts |-> NoArgs]
    /\ digest = [s \in Scripts |-> None]
    /\ blob = [s \in Scripts |-> None]
    /\ created = 0
    /\ notes = [s \in Scripts |-> {}]

Goto(s, l) == pc' = [pc EXCEPT ![s] = l]

\* The process ends, whatever its exit code; the EXIT trap tpm_cleanup removes
\* the temporary files.
Exit(s) ==
    /\ Goto(s, "idle")
    /\ args' = [args EXCEPT ![s] = NoArgs]
    /\ digest' = [digest EXCEPT ![s] = None]
    /\ blob' = [blob EXCEPT ![s] = None]
    /\ notes' = [notes EXCEPT ![s] = {}]

Running == {s \in Scripts : pc[s] # "idle"}

\* A script begins: it overlaps the runs going on, and they overlap it.
Overlap(starting) ==
    notes' = [t \in Scripts |->
                IF t \in Running \/ (t \in starting /\ Running # {})
                THEN notes[t] \union {"overlapped"} ELSE notes[t]]

Overlapped(s) == "overlapped" \in notes[s]

Continue(s, l) == Goto(s, l) /\ UNCHANGED <<args, run>>

Occupied(h) == nv[h] # None
LooksOurs(h) == Occupied(h) /\ nv[h].profile = "vault"

ExtendPcr(n, v) ==
    /\ Len(pcr[n]) < MaxExtends
    /\ pcr' = [pcr EXCEPT ![n] = Append(@, v)]

ResetPcr(n) == pcr' = [pcr EXCEPT ![n] = Zero]

PcrIsZero(n) == pcr[n] = Zero

-----------------------------------------------------------------------------
(***************************************************************************)
(* init.sh [--force] [--handle h] [--pcr n --pcr-value v]                  *)
(***************************************************************************)
StartInit(s, h, f, n, v) ==
    /\ pc[s] = "idle"
    /\ n = None <=> v = None
    /\ args' = [args EXCEPT ![s] = [handle |-> h, force |-> f, num |-> n, value |-> v]]
    /\ Goto(s, "check")
    /\ Overlap({s})
    /\ UNCHANGED <<tpm, files, digest, blob, created>>

AfterRemoval(s) == IF args[s].num = None THEN "createek" ELSE "preparepcr"

\* check_existing_key takes any failure of tpm2_readpublic for a free handle.
HandleFree(s) ==
    /\ pc[s] = "check"
    /\ ~Occupied(args[s].handle) \/ ReadCanFail
    /\ notes' = [notes EXCEPT ![s] =
                   IF Occupied(args[s].handle) THEN @ \union {"misread"} ELSE @]
    /\ Goto(s, AfterRemoval(s))
    /\ UNCHANGED <<tpm, files, args, digest, blob, created>>

\* Slip: --force is not asked for a key of our own.
OverwriteOurs(s) ==
    /\ pc[s] = "check"
    /\ Occupied(args[s].handle) /\ (args[s].force \/ LooksOurs(args[s].handle))
    /\ Continue(s, "remove")
    /\ UNCHANGED <<tpm, files, created>>

OverwriteForced(s) ==
    /\ pc[s] = "check"
    /\ Occupied(args[s].handle) /\ args[s].force
    /\ Continue(s, "remove")
    /\ UNCHANGED <<tpm, files, created>>

\* Without --force an occupied handle ends the run: with exit 0 if the key looks
\* like ours ("already provisioned"), with exit 1 if not.
AlreadyProvisioned(s) ==
    /\ pc[s] = "check"
    /\ LooksOurs(args[s].handle) /\ ~args[s].force
    /\ Exit(s)
    /\ UNCHANGED <<tpm, files, created>>

HandleTaken(s) ==
    /\ pc[s] = "check"
    /\ Occupied(args[s].handle) /\ ~LooksOurs(args[s].handle) /\ ~args[s].force
    /\ Exit(s)
    /\ UNCHANGED <<tpm, files, created>>

RemoveKey(s) ==
    /\ pc[s] = "remove"
    /\ Occupied(args[s].handle)
    /\ nv' = [nv EXCEPT ![args[s].handle] = None]
    /\ Continue(s, AfterRemoval(s))
    /\ UNCHANGED <<pcr, files, created>>

\* Slip: the extend goes onto whatever the PCR holds.
PreparePcrUnchecked(s) ==
    /\ pc[s] = "preparepcr"
    /\ Continue(s, "extend")
    /\ UNCHANGED <<tpm, files, created>>

\* setup_pcr_policy, first half: the debug PCR is reset, any other must be zero
\* unless --force was given; the run exits if it is not.
PreparePcr(s) ==
    /\ pc[s] = "preparepcr"
    /\ \/ args[s].num \in Debug /\ ResetPcr(args[s].num)
       \/ /\ args[s].num \in Locked
          /\ PcrIsZero(args[s].num) \/ args[s].force
          /\ UNCHANGED pcr
    /\ Continue(s, "extend")
    /\ UNCHANGED <<nv, files, created>>

ExtendIdentity(s) ==
    /\ pc[s] = "extend"
    /\ ExtendPcr(args[s].num, args[s].value)
    /\ Continue(s, "policy")
    /\ UNCHANGED <<nv, files, created>>

\* tpm2_policypcr takes the PCR's current contents into the digest.
CreatePolicy(s) ==
    /\ pc[s] = "policy"
    /\ digest' = [digest EXCEPT ![s] = <<args[s].num, pcr[args[s].num]>>]
    /\ Goto(s, "openpolicy")
    /\ UNCHANGED <<tpm, files, args, blob, notes, created>>

\* echo > file truncates the file, then writes it.
OpenPolicyFile(s) ==
    /\ pc[s] = "openpolicy"
    /\ policyFile' = Empty
    /\ Continue(s, "savepolicy")
    /\ UNCHANGED <<tpm, pem, ek, valueFile, created>>

\* Slip: the two echo lines write each other's value.
SavePolicyFileSwapped(s) ==
    /\ pc[s] = "savepolicy"
    /\ policyFile' = args[s].value
    /\ Continue(s, "openvalue")
    /\ UNCHANGED <<tpm, pem, ek, valueFile, created>>

SavePolicyFile(s) ==
    /\ pc[s] = "savepolicy"
    /\ policyFile' = args[s].num
    /\ Continue(s, "openvalue")
    /\ UNCHANGED <<tpm, pem, ek, valueFile, created>>

OpenValueFile(s) ==
    /\ pc[s] = "openvalue"
    /\ valueFile' = Empty
    /\ Continue(s, "savevalue")
    /\ UNCHANGED <<tpm, pem, ek, policyFile, created>>

SaveValueFile(s) ==
    /\ pc[s] = "savevalue"
    /\ valueFile' = args[s].value
    /\ Continue(s, "createek")
    /\ UNCHANGED <<tpm, pem, ek, policyFile, created>>

CreateEk(s) ==
    /\ pc[s] = "createek"
    /\ ek' = TRUE
    /\ Continue(s, "createkey")
    /\ UNCHANGED <<tpm, pem, policyFile, valueFile, created>>

\* create_primary_key and create_rsa_key: the key takes the policy digest of this
\* run, if there is one.
CreateRsaKey(s) ==
    /\ pc[s] = "createkey"
    /\ created < MaxKeys
    /\ created' = created + 1
    /\ blob' = [blob EXCEPT ![s] =
                  [id |-> created + 1, policy |-> digest[s], profile |-> "vault",
                   maker |-> "init", waived |-> args[s].force /\ args[s].num \in Locked,
                   alone |-> ~Overlapped(s), identity |-> args[s].value]]
    /\ Goto(s, "persist")
    /\ UNCHANGED <<tpm, files, args, digest, notes>>

\* Slip: a failing tpm2_evictcontrol does not stop the run.
PersistKeyIgnored(s) ==
    /\ pc[s] = "persist"
    /\ nv' = [nv EXCEPT ![args[s].handle] = IF Occupied(args[s].handle) THEN @ ELSE blob[s]]
    /\ Continue(s, "export")
    /\ UNCHANGED <<pcr, files, created>>

\* The TPM refuses to persist at a handle in use.
PersistKey(s) ==
    /\ pc[s] = "persist"
    /\ ~Occupied(args[s].handle)
    /\ nv' = [nv EXCEPT ![args[s].handle] = blob[s]]
    /\ Continue(s, "export")
    /\ UNCHANGED <<pcr, files, created>>

\* Slip: a public key file that is there is kept.
ExportPublicKeyOnce(s) ==
    /\ pc[s] = "export"
    /\ Occupied(args[s].handle)
    /\ pem' = IF pem = 0 THEN nv[args[s].handle].id ELSE pem
    /\ Continue(s, "verify")
    /\ UNCHANGED <<tpm, ek, policyFile, valueFile, created>>

ExportPublicKey(s) ==
    /\ pc[s] = "export"
    /\ Occupied(args[s].handle)
    /\ pem' = nv[args[s].handle].id
    /\ Continue(s, "verify")
    /\ UNCHANGED <<tpm, ek, policyFile, valueFile, created>>

\* verify_key_operations and the summary: "Provisioning complete!"
Complete(s) ==
    /\ pc[s] = "verify"
    /\ Exit(s)
    /\ UNCHANGED <<tpm, files, created>>

InitStep(s) ==
    \/ HandleFree(s) \/ OverwriteForced(s) \/ AlreadyProvisioned(s) \/ HandleTaken(s)
    \/ RemoveKey(s)
    \/ PreparePcr(s) \/ ExtendIdentity(s) \/ CreatePolicy(s)
    \/ OpenPolicyFile(s) \/ SavePolicyFile(s) \/ OpenValueFile(s) \/ SaveValueFile(s)
    \/ CreateEk(s) \/ CreateRsaKey(s) \/ PersistKey(s) \/ ExportPublicKey(s) \/ Complete(s)

-----------------------------------------------------------------------------
(***************************************************************************)
(* clear.sh [--force] [--handle h]                                         *)
(***************************************************************************)
StartClear(s, h, f) ==
    /\ pc[s] = "idle"
    /\ args' = [args EXCEPT ![s] = [NoArgs EXCEPT !.handle = h, !.force = f]]
    /\ Goto(s, "clearcheck")
    /\ Overlap({s})
    /\ UNCHANGED <<tpm, files, digest, blob, created>>

\* Slip: clear.sh without its safety check.
ClearCheckExistence(s) ==
    /\ pc[s] = "clearcheck"
    /\ IF Occupied(args[s].handle) THEN Continue(s, "clearremove") ELSE Exit(s)
    /\ UNCHANGED <<tpm, files, created>>

\* Exits when there is no key, or one that does not look like ours.
ClearCheck(s) ==
    /\ pc[s] = "clearcheck"
    /\ IF Occupied(args[s].handle) /\ (args[s].force \/ LooksOurs(args[s].handle))
       THEN Continue(s, "clearremove")
       ELSE Exit(s)
    /\ UNCHANGED <<tpm, files, created>>

ClearRemove(s) ==
    /\ pc[s] = "clearremove"
    /\ Occupied(args[s].handle)
    /\ nv' = [nv EXCEPT ![args[s].handle] = None]
    /\ Continue(s, "rmpem")
    /\ UNCHANGED <<pcr, files, created>>

\* Slip: the public key file is left.
RemoveOtherFiles(s) ==
    \/ /\ pc[s] = "rmpem" /\ ek' = FALSE /\ Continue(s, "rmpolicy")
       /\ UNCHANGED <<tpm, pem, policyFile, valueFile, created>>
    \/ /\ pc[s] = "rmpolicy" /\ policyFile' = None /\ Continue(s, "rmvalue")
       /\ UNCHANGED <<tpm, pem, ek, valueFile, created>>
    \/ /\ pc[s] = "rmvalue" /\ valueFile' = None /\ Exit(s)
       /\ UNCHANGED <<tpm, pem, ek, policyFile, created>>

\* The loop over the files, in its order; ek.ctx and ek.pub count as one.
RemoveFiles(s) ==
    \/ /\ pc[s] = "rmpem" /\ pem' = 0 /\ Continue(s, "rmek")
       /\ UNCHANGED <<tpm, ek, policyFile, valueFile, created>>
    \/ /\ pc[s] = "rmek" /\ ek' = FALSE /\ Continue(s, "rmpolicy")
       /\ UNCHANGED <<tpm, pem, policyFile, valueFile, created>>
    \/ /\ pc[s] = "rmpolicy" /\ policyFile' = None /\ Continue(s, "rmvalue")
       /\ UNCHANGED <<tpm, pem, ek, valueFile, created>>
    \/ /\ pc[s] = "rmvalue" /\ valueFile' = None /\ Exit(s)
       /\ UNCHANGED <<tpm, pem, ek, policyFile, created>>

ClearStep(s) == ClearCheck(s) \/ ClearRemove(s) \/ RemoveFiles(s)

-----------------------------------------------------------------------------
(***************************************************************************)
(* pcr.sh boot | extend n v | reset n                                      *)
(***************************************************************************)
\* cmd_boot needs both files and reads them once; empty ones will do.
StartBoot(s) ==
    /\ pc[s] = "idle"
    /\ policyFile # None /\ valueFile # None
    /\ args' = [args EXCEPT ![s] = [NoArgs EXCEPT !.num = policyFile, !.value = valueFile]]
    /\ Goto(s, IF policyFile \in Debug THEN "bootreset" ELSE "bootextend")
    /\ Overlap({s})
    /\ UNCHANGED <<tpm, files, digest, blob, created>>

BootReset(s) ==
    /\ pc[s] = "bootreset"
    /\ ResetPcr(args[s].num)
    /\ Continue(s, "bootextend")

\* Slip: a failing extend goes unnoticed.
BootExtendUnchecked(s) ==
    /\ pc[s] = "bootextend"
    /\ ExtendPcr(args[s].num, args[s].value) \/ UNCHANGED pcr
    /\ Continue(s, "bootdone")

\* pcr_extend fails for an empty number or value.
BootExtend(s) ==
    /\ pc[s] = "bootextend"
    /\ args[s].num # Empty /\ args[s].value # Empty
    /\ ExtendPcr(args[s].num, args[s].value)
    /\ Continue(s, "bootdone")

\* "PCR $pcr ready for KeyVault"
BootDone(s) ==
    /\ pc[s] = "bootdone"
    /\ Exit(s)
    /\ UNCHANGED pcr

BootStep(s) ==
    /\ BootReset(s) \/ BootExtend(s) \/ BootDone(s)
    /\ UNCHANGED <<nv, files, created>>

\* cmd_extend and cmd_reset are one TPM command each.
PcrCommand(s) ==
    /\ pc[s] = "idle"
    /\ \/ \E n \in PolicyPcrs, v \in Identities : ExtendPcr(n, v)
       \/ \E n \in Debug : ResetPcr(n)
    /\ Overlap({})
    /\ UNCHANGED <<nv, files, pc, args, digest, blob, created>>

-----------------------------------------------------------------------------
\* A command of the script fails, or the script is interrupted.
Abort(s) ==
    /\ pc[s] # "idle"
    /\ Exit(s)
    /\ UNCHANGED <<tpm, files, created>>

\* Another application persists a key of its own at a free handle.
ForeignPersist(h, profile) ==
    /\ ~Occupied(h)
    /\ created < MaxKeys
    /\ created' = created + 1
    /\ nv' = [nv EXCEPT ![h] =
                [id |-> created + 1, policy |-> None, profile |-> profile,
                 maker |-> "foreign", waived |-> FALSE, alone |-> FALSE,
                 identity |-> None]]
    /\ UNCHANGED <<pcr, files, pc, args, run>>

Reboot ==
    /\ pcr' = [n \in PolicyPcrs |-> Zero]
    /\ pc' = [s \in Scripts |-> "idle"]
    /\ args' = [s \in Scripts |-> NoArgs]
    /\ digest' = [s \in Scripts |-> None]
    /\ blob' = [s \in Scripts |-> None]
    /\ notes' = [s \in Scripts |-> {}]
    /\ UNCHANGED <<nv, files, created>>

Start(s) ==
    \/ \E h \in Handles, f \in BOOLEAN, n \in PolicyPcrs \union {None},
          v \in Identities \union {None} : StartInit(s, h, f, n, v)
    \/ \E h \in Handles, f \in BOOLEAN : StartClear(s, h, f)
    \/ StartBoot(s)
    \/ PcrCommand(s)

Next ==
    \/ \E s \in Scripts : Start(s) \/ InitStep(s) \/ ClearStep(s) \/ BootStep(s) \/ Abort(s)
    \/ \E h \in Handles, profile \in {"vault", "other"} : ForeignPersist(h, profile)
    \/ Reboot

Spec == Init /\ [][Next]_vars
-----------------------------------------------------------------------------
(***************************************************************************)
(* Properties.  They are about runs during which no other script runs;     *)
(* what two scripts at once can do to each other is the exception of each. *)
(***************************************************************************)
\* pcr_policy and pcr_value are those the key at h was made with.
FilesBelong(h) ==
    /\ Occupied(h) /\ nv[h].policy # None
    /\ policyFile = nv[h].policy[1] /\ valueFile = nv[h].identity

\* Everything a vault for h reads fits the key at h.
WorkingSet(h) ==
    /\ Occupied(h) /\ nv[h].maker = "init"
    /\ pem = nv[h].id /\ ek
    /\ IF nv[h].policy = None THEN policyFile = None ELSE FilesBelong(h)

\* The step is one of s.
Acts(s) == pc'[s] # pc[s]

\* A run of init.sh that gets to "Provisioning complete!" has exported the key it
\* persisted, and with --pcr the saved number and identity are that key's and the
\* PCR is as its policy wants it, whatever earlier runs of any script left behind
\* and wherever they stopped.
CompletedRunConsistent ==
    \A s \in Scripts : pc[s] = "verify" /\ ~Overlapped(s) =>
        LET h == args[s].handle
        IN  /\ Occupied(h) /\ nv[h].maker = "init"
            /\ pem = nv[h].id /\ ek
            /\ args[s].num # None =>
                  /\ FilesBelong(h)
                  /\ nv[h].policy = <<args[s].num, pcr[args[s].num]>>
                  /\ nv[h].identity = args[s].value

\* The policy of a key is reproducible, one extend of a zero PCR with its
\* identity, unless it was made with --force for a PCR that software cannot
\* reset, or while another script ran: the zero check (or the reset) protects
\* every other run.
PolicyReproducible ==
    \A h \in Handles :
        Occupied(h) /\ nv[h].policy # None /\ nv[h].alone /\ ~nv[h].waived
        => nv[h].policy[2] = <<nv[h].identity>>

MayRemove(s) ==
    \/ args[s].force
    \/ pc[s] = "clearremove" /\ LooksOurs(args[s].handle)
    \/ Overlapped(s)

\* A key leaves the TPM only through a run that was given --force for its handle,
\* or, if it looks like a vault key (whoever made it), through clear.sh; or through
\* a run that found another key there before a second script ran.
KeyKept ==
    [][\A h \in Handles :
          Occupied(h) /\ nv'[h] # nv[h] =>
             \E s \in Scripts : Acts(s) /\ args[s].handle = h /\ MayRemove(s)]_vars

BootExtends(s) == pc[s] = "bootextend" /\ pc'[s] = "bootdone"

\* pcr.sh boot restores the PCR of a key whose files are in place: always for the
\* debug PCR, which it resets, and for the others right after a reboot if
\* --force did not waive the zero check; here for a key that was made, and a boot that
\* runs, with no other script at work.
BootRestores ==
    [][\A s \in Scripts, h \in Handles :
          /\ BootExtends(s) /\ FilesBelong(h)
          /\ nv[h].alone /\ ~Overlapped(s)
          /\ \/ policyFile \in Debug
             \/ pcr[policyFile] = Zero /\ ~nv[h].waived
          => pcr'[policyFile] = nv[h].policy[2]]_vars

\* A working key stops working only through clear.sh, through init.sh --force for
\* its handle, or through init.sh for another handle, which shares keys/, or that
\* could not read the key; an interrupted or repeated init.sh does no harm.
WorkingSetKept ==
    [][\A h \in Handles : WorkingSet(h) /\ ~WorkingSet(h)' =>
          \E s \in Scripts :
             /\ Acts(s)
             /\ \/ pc[s] \in ClearSteps
                \/ args[s].handle = h /\ args[s].force
                \/ args[s].handle \in Handles \ {h}
                \/ notes[s] # {}]_vars

-----------------------------------------------------------------------------
(***************************************************************************)
(* What the scripts and documents say, and the code does not do.           *)
(***************************************************************************)
\* TPM.md: the vault picks the session type by the policy file.  It fits the key
\* only if the file is there exactly for a key with a policy.
CompletedRunOpens ==
    \A s \in Scripts : pc[s] = "verify" =>
        (policyFile # None <=> nv[args[s].handle].policy # None)

\* pcr.sh boot prints that the PCR is ready for KeyVault; here for a key for
\* which --force waived no check.
ReadyMeansMatching ==
    \A s \in Scripts, h \in Handles :
        pc[s] = "bootdone" /\ FilesBelong(h) /\ ~nv[h].waived =>
            pcr[policyFile] = nv[h].policy[2]
=============================================================================
