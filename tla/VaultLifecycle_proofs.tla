----------------------- MODULE VaultLifecycle_proofs -----------------------
(***************************************************************************)
(* Proofs about VaultLifecycle, for any vaults and scripts at the same     *)
(* time, any handles, PCRs, identities and bounds.                         *)
(*                                                                         *)
(* A life of vaults and scripts is first of all a life of the scripts, so  *)
(* all of Provisioning_proofs holds in it; what is added here says how the *)
(* vaults and the history follow the scripts.                              *)
(***************************************************************************)
EXTENDS VaultLifecycle, Provisioning_proofs

-----------------------------------------------------------------------------
(***************************************************************************)
(* More about the scripts.                                                 *)
(***************************************************************************)
\* Ids are those of keys that were created.
IdsUsed ==
    /\ \A h \in Handles : Occupied(h) => nv[h].id \in 1..created
    /\ \A s \in Scripts : pc[s] \in WithKey => blob[s].id \in 1..created

\* A clear.sh that is past the public key file, and was alone, has left none.
Cleared(s) ==
    pc[s] \in {"rmek", "rmpolicy", "rmvalue"} /\ ~Overlapped(s) => pem = 0

ScriptInv == IdsUsed /\ \A s \in Scripts : Cleared(s)

-----------------------------------------------------------------------------
(***************************************************************************)
(* The invariant of the composition.                                       *)
(***************************************************************************)
Provisioners == InitSteps \union ClearSteps

\* Since the last completed run no init.sh or clear.sh has begun, and the key and
\* the files are as it left them.
Quiet == completed # None => \A s \in Scripts : pc[s] \notin Provisioners

Serving ==
    completed # None =>
        /\ Occupied(completed)
        /\ pem = nv[completed].id
        /\ nv[completed].policy # None => policyFile = nv[completed].policy[1]

\* A vault that was constructed since, or while that run was past pcr_policy, has
\* read what is there now, and only that run goes on.
Settled(v) ==
    vault[v] # None /\ vault[v].settled =>
        LET h == vault[v].tpm_handle
        IN  /\ completed \in {None, h}
            /\ vault[v].pcr_index = read_pcr_policy
            /\ vault[v].key # 0 => Occupied(h) /\ nv[h].id = vault[v].key
            /\ \A s \in Scripts : pc[s] \in Provisioners =>
                  pc[s] \in PolicyWritten /\ args[s].handle = h

\* The public key file is of a key that is there.
PemLive == pem # 0 => \E h \in Handles : Occupied(h) /\ nv[h].id = pem

\* A run that may have removed the key, and has not come to the file yet; or that
\* another run interferes with.
Pending(s) ==
    \/ pc[s] \in {"createek", "createkey", "persist", "export", "rmpem"} \union PcrSteps
    \/ pc[s] \in Provisioners \ {"check", "clearcheck"} /\ Overlapped(s)

PemAccounted == PemLive \/ unfinished \/ \E s \in Scripts : Pending(s)

History == Quiet /\ Serving /\ PemAccounted /\ \A v \in Vaults : Settled(v)

-----------------------------------------------------------------------------
(***************************************************************************)
(* The composition is a Provisioning: every step of it is one of a script, *)
(* of another application or of the machine, or leaves both alone.         *)
(***************************************************************************)
\* VaultLifecycle implements Provisioning: vaults change neither the TPM nor the
\* files, nor what the scripts do.
THEOREM ImplementsProvisioning == LifecycleSpec => Spec
<1>1. LifecycleInit => Init
  BY DEF LifecycleInit
<1>2. [LifecycleNext]_lifecycleVars => [Next]_vars
  <2> SUFFICES ASSUME [LifecycleNext]_lifecycleVars
               PROVE  [Next]_vars
    OBVIOUS
  <2>1. ASSUME NEW s \in Scripts, ScriptStep(s)
        PROVE  Next
    BY <2>1 DEF ScriptStep, Next
  <2>2. ASSUME NEW v \in Vaults, VaultStep(v)
        PROVE  UNCHANGED vars
    BY <2>2 DEF VaultStep, ReadPolicy, OpenSession, Close, Protect, Recover, RecoverFails
  <2>3. OtherApplication \/ Restart => Next
    BY DEF OtherApplication, Restart, Next
  <2>4. ResourceManagerRestart \/ UNCHANGED lifecycleVars => UNCHANGED vars
    BY DEF ResourceManagerRestart, lifecycleVars
  <2> QED
    BY <2>1, <2>2, <2>3, <2>4 DEF LifecycleNext
<1> QED
  BY <1>1, <1>2, PTL DEF LifecycleSpec, Spec

-----------------------------------------------------------------------------
(***************************************************************************)
(* What a step of a script does, as far as the rest asks.                  *)
(***************************************************************************)
ScriptMoves(s) == Start(s) \/ InitStep(s) \/ ClearStep(s) \/ BootStep(s) \/ Abort(s)

\* The steps that change no key and no file.
Reads(s) ==
    \/ Start(s) \/ BootStep(s) \/ Abort(s) \/ ClearCheck(s) \/ Complete(s)
    \/ HandleFree(s) \/ OverwriteForced(s) \/ AlreadyProvisioned(s) \/ HandleTaken(s)
    \/ PreparePcr(s) \/ ExtendIdentity(s) \/ CreatePolicy(s)

\* Those that change files other than the public key.
Writes(s) ==
    OpenPolicyFile(s) \/ SavePolicyFile(s) \/ OpenValueFile(s) \/ SaveValueFile(s) \/ CreateEk(s)

LEMMA Kinds ==
    ASSUME NEW s \in Scripts, ScriptMoves(s)
    PROVE  \/ Reads(s) \/ Writes(s) \/ CreateRsaKey(s) \/ PersistKey(s) \/ ExportPublicKey(s)
           \/ RemoveKey(s) \/ ClearRemove(s) \/ RemoveFiles(s)
BY DEF ScriptMoves, Reads, Writes, InitStep, ClearStep

\* The other scripts stay where they are, and are overlapped if one begins.
LEMMA Framed ==
    ASSUME TypeOK, NEW s \in Scripts, ScriptMoves(s)
    PROVE  Frame(s)
<1>1. CASE \E l \in Labels : Continue(s, l)
  BY <1>1, Continuing
<1>2. CASE Exit(s)
  BY <1>2 DEF Exit, Goto, Frame, TypeOK
<1>3. CASE Start(s)
  <2>1. CASE PcrCommand(s)
    BY <2>1 DEF PcrCommand, Overlap, Frame, TypeOK
  <2>2. CASE StartBoot(s)
    BY <2>2 DEF StartBoot, Goto, Overlap, Frame, TypeOK
  <2>3. CASE \E h \in Handles, f \in BOOLEAN : StartClear(s, h, f)
    BY <2>3 DEF StartClear, Goto, Overlap, Frame, TypeOK
  <2>4. CASE \E h \in Handles, f \in BOOLEAN, n \in PolicyPcrs \union {None},
                v \in Identities \union {None} : StartInit(s, h, f, n, v)
    BY <2>4 DEF StartInit, Goto, Overlap, Frame, TypeOK
  <2> QED
    BY <1>3, <2>1, <2>2, <2>3, <2>4 DEF Start
<1>4. CASE HandleFree(s)
  BY <1>4 DEF HandleFree, Goto, Frame, TypeOK
<1>5. CASE CreatePolicy(s)
  BY <1>5 DEF CreatePolicy, Goto, Frame, TypeOK
<1>6. CASE CreateRsaKey(s)
  BY <1>6 DEF CreateRsaKey, Goto, Frame, TypeOK
<1>7. CASE InitStep(s)
  <2>1. CASE OverwriteForced(s) \/ RemoveKey(s) \/ PreparePcr(s) \/ ExtendIdentity(s)
    BY <2>1, <1>1 DEF OverwriteForced, RemoveKey, PreparePcr, ExtendIdentity, AfterRemoval,
       Labels, InitSteps
  <2>2. CASE Writes(s) \/ PersistKey(s) \/ ExportPublicKey(s)
    BY <2>2, <1>1 DEF Writes, OpenPolicyFile, SavePolicyFile, OpenValueFile, SaveValueFile,
       CreateEk, PersistKey, ExportPublicKey, Labels, InitSteps
  <2>3. CASE AlreadyProvisioned(s) \/ HandleTaken(s) \/ Complete(s)
    BY <2>3, <1>2 DEF AlreadyProvisioned, HandleTaken, Complete
  <2> QED
    BY <1>4, <1>5, <1>6, <1>7, <2>1, <2>2, <2>3 DEF InitStep, Writes
<1>8. CASE ClearStep(s)
  BY <1>8, <1>1, <1>2 DEF ClearStep, ClearCheck, ClearRemove, RemoveFiles, Labels, ClearSteps
<1>9. CASE BootStep(s) \/ Abort(s)
  BY <1>9, <1>1, <1>2 DEF BootStep, BootReset, BootExtend, BootDone, Abort, Labels, BootSteps
<1> QED
  BY <1>3, <1>7, <1>8, <1>9 DEF ScriptMoves

\* Reading steps go to no place where the run has a key; those of init.sh and
\* clear.sh begin them, end them, or go on towards the removal of the key.
LEMMA ReadsChangeNothing ==
    ASSUME TypeOK, NEW s \in Scripts, Reads(s)
    PROVE  /\ UNCHANGED <<nv, pem, ek, policyFile, valueFile, created>>
           /\ pc'[s] \notin WithKey \union {"rmek", "rmpolicy", "rmvalue", "rmpem"}
<1>1. UNCHANGED <<nv, pem, ek, policyFile, valueFile, created>>
  BY DEF Reads, Start, StartInit, StartClear, StartBoot, PcrCommand, BootStep, Abort, ClearCheck,
     Complete, HandleFree, OverwriteForced, AlreadyProvisioned, HandleTaken, PreparePcr,
     ExtendIdentity, CreatePolicy, tpm, files
<1>2. pc'[s] \in {"idle", "check", "clearcheck", "bootreset", "bootextend", "bootdone", "remove",
                  "createek", "preparepcr", "extend", "policy", "openpolicy", "clearremove"}
  <2>1. CASE Start(s)
    BY <2>1 DEF Start, StartInit, StartClear, StartBoot, PcrCommand, Goto, TypeOK
  <2>2. CASE BootStep(s)
    BY <2>2 DEF BootStep, BootReset, BootExtend, BootDone, Continue, Exit, Goto, TypeOK
  <2>3. CASE Abort(s) \/ Complete(s) \/ AlreadyProvisioned(s) \/ HandleTaken(s)
    BY <2>3 DEF Abort, Complete, AlreadyProvisioned, HandleTaken, Exit, Goto, TypeOK
  <2>4. CASE ClearCheck(s)
    BY <2>4 DEF ClearCheck, Continue, Exit, Goto, TypeOK
  <2>5. CASE HandleFree(s)
    BY <2>5 DEF HandleFree, AfterRemoval, Goto, TypeOK
  <2>6. CASE OverwriteForced(s) \/ PreparePcr(s) \/ ExtendIdentity(s) \/ CreatePolicy(s)
    BY <2>6 DEF OverwriteForced, PreparePcr, ExtendIdentity, CreatePolicy, Continue, Goto, TypeOK
  <2> QED
    BY <2>1, <2>2, <2>3, <2>4, <2>5, <2>6 DEF Reads
<1> QED
  BY <1>1, <1>2 DEF WithKey

\* Writing steps lie between the removal of the key and the making of the next.
LEMMA WritesChangeFiles ==
    ASSUME TypeOK, NEW s \in Scripts, Writes(s)
    PROVE  /\ UNCHANGED <<nv, pem, created>>
           /\ pc[s] \in PcrSteps \union {"createek"}
           /\ pc'[s] \in PcrSteps \union {"createek", "createkey"}
<1>1. UNCHANGED <<nv, pem, created>>
  BY DEF Writes, OpenPolicyFile, SavePolicyFile, OpenValueFile, SaveValueFile, CreateEk, tpm
<1>2. pc[s] \in PcrSteps \union {"createek"}
  BY DEF Writes, OpenPolicyFile, SavePolicyFile, OpenValueFile, SaveValueFile, CreateEk, PcrSteps
<1>3. pc'[s] \in PcrSteps \union {"createek", "createkey"}
  BY DEF Writes, OpenPolicyFile, SavePolicyFile, OpenValueFile, SaveValueFile, CreateEk,
     Continue, Goto, PcrSteps, TypeOK
<1> QED
  BY <1>1, <1>2, <1>3

-----------------------------------------------------------------------------
(***************************************************************************)
(* Ids, and the public key file during a clear.sh.                         *)
(***************************************************************************)
LEMMA IdsKept ==
    ASSUME IInv, IdsUsed, [Next]_vars
    PROVE  IdsUsed'
<1>1. TypeOK /\ created \in Nat /\ MaxKeys \in Nat
  BY ProvisioningAssumption DEF IInv, TypeOK
<1>2. ASSUME NEW s \in Scripts, ScriptMoves(s)
      PROVE  IdsUsed'
  <2>1. Frame(s)
    BY <1>1, <1>2, Framed
  <2>2. CASE Reads(s)
    BY <1>1, <2>1, <2>2, ReadsChangeNothing DEF IdsUsed, Frame, Occupied
  <2>3. CASE Writes(s)
    BY <1>1, <2>1, <2>3, WritesChangeFiles DEF IdsUsed, Frame, Occupied, WithKey, PcrSteps
  <2>4. CASE CreateRsaKey(s)
    <3>1. created' = created + 1 /\ nv' = nv /\ blob'[s].id = created + 1
      BY <1>1, <2>4 DEF CreateRsaKey, tpm, TypeOK
    <3> QED
      BY <1>1, <2>1, <3>1 DEF IdsUsed, Frame, Occupied
  <2>5. CASE PersistKey(s)
    <3>1. /\ blob' = blob /\ created' = created /\ pc[s] = "persist"
          /\ \A h \in Handles : nv'[h] = nv[h] \/ nv'[h] = blob[s]
      BY <1>1, <2>5 DEF PersistKey, Continue, run, TypeOK
    <3> QED
      BY <2>1, <3>1 DEF IdsUsed, Frame, Occupied, WithKey
  <2>6. CASE ExportPublicKey(s)
    <3>1. blob' = blob /\ created' = created /\ pc[s] = "export" /\ nv' = nv
      BY <2>6 DEF ExportPublicKey, Continue, run, tpm
    <3> QED
      BY <2>1, <3>1 DEF IdsUsed, Frame, Occupied, WithKey
  <2>7. CASE RemoveKey(s) \/ ClearRemove(s) \/ RemoveFiles(s)
    <3>1. created' = created /\ \A h \in Handles : nv'[h] = nv[h] \/ nv'[h] = None
      BY <1>1, <2>7 DEF RemoveKey, ClearRemove, RemoveFiles, tpm, TypeOK
    <3>2. pc'[s] \notin WithKey
      BY <1>1, <2>7 DEF RemoveKey, ClearRemove, RemoveFiles, AfterRemoval, Continue, Exit, Goto,
         TypeOK, WithKey
    <3> QED
      BY <2>1, <3>1, <3>2 DEF IdsUsed, Frame, Occupied
  <2> QED
    BY <1>2, Kinds, <2>2, <2>3, <2>4, <2>5, <2>6, <2>7
<1>3. ASSUME NEW g \in Handles, NEW profile \in {"vault", "other"}, ForeignPersist(g, profile)
      PROVE  IdsUsed'
  <2>1. /\ created' = created + 1 /\ pc' = pc /\ blob' = blob
        /\ \A h \in Handles : nv'[h] = nv[h] \/ nv'[h].id = created + 1
    BY <1>1, <1>3 DEF ForeignPersist, run, TypeOK
  <2> QED
    BY <1>1, <2>1 DEF IdsUsed, Occupied
<1>4. CASE Reboot
  BY <1>4 DEF Reboot, IdsUsed, Occupied, WithKey
<1>5. CASE UNCHANGED vars
  BY <1>5 DEF vars, tpm, run, IdsUsed, Occupied
<1> QED
  BY <1>2, <1>3, <1>4, <1>5 DEF Next, ScriptMoves

LEMMA ClearedKept ==
    ASSUME IInv, [Next]_vars, \A s \in Scripts : Cleared(s)
    PROVE  \A s \in Scripts : Cleared(s)'
<1>1. TypeOK /\ Exclusive
  BY DEF IInv
<1>2. ASSUME NEW s \in Scripts, ScriptMoves(s)
      PROVE  \A t \in Scripts : Cleared(t)'
  <2>1. Frame(s)
    BY <1>1, <1>2, Framed
  <2>2. CASE pem' = pem /\ (pc'[s] \notin {"rmek", "rmpolicy", "rmvalue"})
    BY <2>1, <2>2 DEF Cleared, Frame, Overlapped
  <2>3. CASE RemoveFiles(s)
    <3>1. ASSUME NEW t \in Scripts, t # s, pc[t] # "idle"
          PROVE  Overlapped(t)'
      BY <1>1, <2>1, <2>3, <3>1 DEF Exclusive, Frame, Overlapped, RemoveFiles
    <3>2. /\ pem' = pem \/ pem' = 0
          /\ pc[s] = "rmpem" => pem' = 0
          /\ pc'[s] # "idle" => notes' = notes /\ pc[s] \in {"rmpem", "rmek", "rmpolicy", "rmvalue"}
      BY <1>1, <2>3 DEF RemoveFiles, Continue, Exit, Goto, TypeOK, run
    <3> QED
      BY <2>1, <3>1, <3>2 DEF Cleared, Frame, Overlapped
  <2>4. CASE ExportPublicKey(s)
    <3>1. ASSUME NEW t \in Scripts, t # s, pc[t] # "idle"
          PROVE  Overlapped(t)'
      BY <1>1, <2>1, <2>4, <3>1 DEF Exclusive, Frame, Overlapped, ExportPublicKey
    <3>2. pc'[s] = "verify"
      BY <1>1, <2>4 DEF ExportPublicKey, Continue, Goto, TypeOK
    <3> QED
      BY <2>1, <3>1, <3>2 DEF Cleared, Frame
  <2>5. CASE CreateRsaKey(s) \/ PersistKey(s) \/ RemoveKey(s) \/ ClearRemove(s)
    <3>1. pem' = pem
      BY <2>5 DEF CreateRsaKey, PersistKey, RemoveKey, ClearRemove, files
    <3>2. pc'[s] \in {"persist", "export", "createek", "preparepcr", "rmpem"}
      BY <1>1, <2>5 DEF CreateRsaKey, PersistKey, RemoveKey, ClearRemove, AfterRemoval,
         Continue, Goto, TypeOK
    <3> QED
      BY <2>2, <3>1, <3>2
  <2>6. CASE Reads(s)
    BY <1>1, <2>2, <2>6, ReadsChangeNothing
  <2>7. CASE Writes(s)
    BY <1>1, <2>2, <2>7, WritesChangeFiles DEF PcrSteps
  <2> QED
    BY <1>2, Kinds, <2>3, <2>4, <2>5, <2>6, <2>7
<1>3. ASSUME NEW g \in Handles, NEW profile \in {"vault", "other"}, ForeignPersist(g, profile)
      PROVE  \A t \in Scripts : Cleared(t)'
  BY <1>3 DEF ForeignPersist, files, run, Cleared, Overlapped
<1>4. CASE Reboot
  BY <1>4 DEF Reboot, Cleared
<1>5. CASE UNCHANGED vars
  BY <1>5 DEF vars, files, run, Cleared, Overlapped
<1> QED
  BY <1>2, <1>3, <1>4, <1>5 DEF Next, ScriptMoves

\* Both hold in Provisioning on its own.
THEOREM ScriptsAccounted == Spec => []ScriptInv
<1>1. Init => ScriptInv
  BY DEF Init, ScriptInv, IdsUsed, Cleared, Occupied, WithKey
<1>2. IInv /\ ScriptInv /\ [Next]_vars => ScriptInv'
  BY IdsKept, ClearedKept DEF ScriptInv
<1> QED
  BY <1>1, <1>2, InvariantHolds, PTL DEF Spec

-----------------------------------------------------------------------------
(***************************************************************************)
(* The public key file is of a key that is there, or it is known why not.  *)
(***************************************************************************)
\* A run that is pending stays so until it has written or removed the file; if it
\* ends before, that is noted.
LEMMA PendingMoves ==
    ASSUME IInv, NEW s \in Scripts, ScriptMoves(s), Pending(s)
    PROVE  PemLive' \/ Pending(s)' \/ (Ends(s) /\ CutShort(s))
<1>1. TypeOK /\ Own(s)
  BY DEF IInv
<1>2. Ends(s) => CutShort(s)
  BY DEF Pending, CutShort, Provisioners, PcrSteps, InitSteps, ClearSteps
<1>3. CASE pc'[s] = "idle"
  BY <1>2, <1>3 DEF Pending, Ends, Provisioners, PcrSteps, InitSteps, ClearSteps
<1>4. CASE ExportPublicKey(s)
  <2>1. nv' = nv /\ args[s].handle \in Handles /\ Occupied(args[s].handle)
        /\ pem' = nv[args[s].handle].id
    BY <1>1, <1>4 DEF ExportPublicKey, Own, InitSteps, tpm
  <2> QED
    BY <2>1 DEF PemLive, Occupied
<1>5. CASE RemoveFiles(s) /\ pc[s] = "rmpem"
  BY <1>5 DEF RemoveFiles, PemLive
<1>6. CASE pc'[s] # "idle" /\ ~ExportPublicKey(s) /\ ~(RemoveFiles(s) /\ pc[s] = "rmpem")
  <2>1. \/ pc'[s] \in {"createek", "createkey", "persist", "export", "rmpem"} \union PcrSteps
        \/ pc'[s] \in Provisioners \ {"check", "clearcheck"} /\ pc[s] \notin PcrSteps \union
              {"createek", "createkey", "persist", "export", "rmpem"}
    <3>1. CASE Reads(s)
      <4>1. ~Start(s) /\ ~HandleFree(s) /\ ~OverwriteForced(s) /\ ~ClearCheck(s) /\ ~BootStep(s)
        BY DEF Pending, Start, StartInit, StartClear, StartBoot, PcrCommand, HandleFree,
           OverwriteForced, ClearCheck, BootStep, BootReset, BootExtend, BootDone,
           Provisioners, PcrSteps, InitSteps, ClearSteps
      <4>2. ~Abort(s) /\ ~Complete(s) /\ ~AlreadyProvisioned(s) /\ ~HandleTaken(s)
        BY <1>1, <1>6 DEF Abort, Complete, AlreadyProvisioned, HandleTaken, Exit, Goto, TypeOK
      <4> QED
        BY <1>1, <3>1, <4>1, <4>2 DEF Reads, PreparePcr, ExtendIdentity, CreatePolicy, Continue,
           Goto, TypeOK, PcrSteps
    <3>2. CASE Writes(s)
      BY <1>1, <3>2, WritesChangeFiles
    <3>3. CASE CreateRsaKey(s) \/ PersistKey(s) \/ ClearRemove(s)
      BY <1>1, <3>3 DEF CreateRsaKey, PersistKey, ClearRemove, Continue, Goto, TypeOK
    <3>4. CASE RemoveKey(s)
      BY <1>1, <3>4 DEF RemoveKey, AfterRemoval, Continue, Goto, TypeOK, PcrSteps
    <3>5. CASE RemoveFiles(s)
      BY <1>1, <1>6, <3>5 DEF RemoveFiles, Continue, Exit, Goto, TypeOK, PcrSteps, Provisioners,
         ClearSteps
    <3> QED
      BY <1>6, <3>1, <3>2, <3>3, <3>4, <3>5, Kinds
  <2>2. CASE pc'[s] \in {"createek", "createkey", "persist", "export", "rmpem"} \union PcrSteps
    BY <2>2 DEF Pending
  <2>3. CASE pc[s] \notin {"createek", "createkey", "persist", "export", "rmpem"} \union PcrSteps
             /\ pc'[s] \in Provisioners \ {"check", "clearcheck"}
    <3>1. Overlapped(s) /\ pc[s] # "idle"
      BY <2>3 DEF Pending, Provisioners, InitSteps, ClearSteps
    <3>2. notes[s] \subseteq notes'[s]
      <4>1. CASE RemoveFiles(s) \/ ClearRemove(s) \/ RemoveKey(s)
        BY <1>6, <1>1, <4>1 DEF RemoveFiles, ClearRemove, RemoveKey, Continue, Exit, Goto, run, TypeOK
      <4>2. CASE Reads(s)
        <5>1. ~Start(s)
          BY <3>1 DEF Start, StartInit, StartClear, StartBoot, PcrCommand
        <5>2. ~Abort(s) /\ ~Complete(s) /\ ~AlreadyProvisioned(s) /\ ~HandleTaken(s)
          BY <1>1, <1>6 DEF Abort, Complete, AlreadyProvisioned, HandleTaken, Exit, Goto, TypeOK
        <5> QED
          BY <1>1, <1>6, <4>2, <5>1, <5>2 DEF Reads, BootStep, BootReset, BootExtend, BootDone,
             ClearCheck, HandleFree, OverwriteForced, PreparePcr, ExtendIdentity, CreatePolicy,
             Continue, Exit, Goto, run, TypeOK
      <4>3. CASE Writes(s) \/ CreateRsaKey(s) \/ PersistKey(s)
        BY <4>3 DEF Writes, OpenPolicyFile, SavePolicyFile, OpenValueFile, SaveValueFile, CreateEk,
           CreateRsaKey, PersistKey, Continue, run
      <4> QED
        BY <1>6, <4>1, <4>2, <4>3, Kinds
    <3> QED
      BY <2>3, <3>1, <3>2 DEF Pending, Overlapped
  <2> QED
    BY <2>1, <2>2, <2>3
<1> QED
  BY <1>3, <1>4, <1>5, <1>6

\* The file loses its key only to a run that is pending then.
LEMMA PemKept ==
    ASSUME IInv, PemLive, NEW s \in Scripts, ScriptMoves(s)
    PROVE  PemLive' \/ Pending(s)'
<1>1. TypeOK /\ Own(s)
  BY DEF IInv
<1>2. CASE pem' = pem /\ \A h \in Handles : Occupied(h) => nv'[h] = nv[h]
  BY <1>2 DEF PemLive, Occupied
<1>3. CASE Reads(s)
  BY <1>1, <1>2, <1>3, ReadsChangeNothing
<1>4. CASE Writes(s)
  BY <1>1, <1>2, <1>4, WritesChangeFiles
<1>5. CASE CreateRsaKey(s) \/ PersistKey(s)
  BY <1>1, <1>2, <1>5 DEF CreateRsaKey, PersistKey, tpm, files, TypeOK, Occupied
<1>6. CASE ExportPublicKey(s)
  <2>1. nv' = nv /\ args[s].handle \in Handles /\ Occupied(args[s].handle)
        /\ pem' = nv[args[s].handle].id
    BY <1>1, <1>6 DEF ExportPublicKey, Own, InitSteps, tpm
  <2> QED
    BY <2>1 DEF PemLive, Occupied
<1>7. CASE RemoveKey(s) \/ ClearRemove(s)
  <2>1. pc'[s] \in {"createek", "preparepcr", "rmpem"}
    BY <1>1, <1>7 DEF RemoveKey, ClearRemove, AfterRemoval, Continue, Goto, TypeOK
  <2> QED
    BY <2>1 DEF Pending, PcrSteps
<1>8. CASE RemoveFiles(s)
  <2>1. nv' = nv /\ (pem' = pem \/ pem' = 0)
    BY <1>8 DEF RemoveFiles, tpm
  <2> QED
    BY <2>1 DEF PemLive, Occupied
<1> QED
  BY <1>3, <1>4, <1>5, <1>6, <1>7, <1>8, Kinds

\* A run that ends as it should, and was alone, leaves no file without a key.
LEMMA EndsLive ==
    ASSUME IInv, ScriptInv, NEW s \in Scripts, pc[s] \in {"verify", "rmvalue"}, ~Overlapped(s)
    PROVE  PemLive
<1>1. Own(s) /\ Knows(s) /\ Cleared(s)
  BY DEF IInv, Solo, ScriptInv
<1>2. CASE pc[s] = "verify"
  <2>1. args[s].handle \in Handles /\ blob[s] \in KeyRecord
    BY <1>1, <1>2 DEF Own, InitSteps, WithKey
  <2>2. nv[args[s].handle] = blob[s] /\ pem = nv[args[s].handle].id
    BY <1>1, <1>2 DEF Knows
  <2> QED
    BY <2>1, <2>2, ProvisioningAssumption DEF PemLive, Occupied
<1>3. CASE pc[s] = "rmvalue"
  BY <1>1, <1>3 DEF Cleared, PemLive
<1> QED
  BY <1>2, <1>3

LEMMA PemStaysAccounted ==
    ASSUME IInv, ScriptInv, PemAccounted, NEW s \in Scripts, ScriptMoves(s), Remember
    PROVE  PemAccounted'
<1>1. TypeOK /\ Frame(s)
  BY Framed DEF IInv
<1>2. ASSUME NEW t \in Scripts, Ends(t)
      PROVE  t = s
  BY <1>1, <1>2 DEF Ends, Frame
<1>3. CASE \E t \in Scripts : Ends(t) /\ CutShort(t)
  BY <1>3 DEF Remember, PemAccounted
<1>4. CASE ~ \E t \in Scripts : Ends(t) /\ CutShort(t)
  <2>1. unfinished /\ ~unfinished' => Ends(s) /\ pc[s] \in {"verify", "rmvalue"} /\ ~Overlapped(s)
    BY <1>2, <1>4 DEF Remember, CutShort
  <2>2. PemLive \/ unfinished' \/ \E t \in Scripts : Pending(t)
    BY <2>1, EndsLive DEF PemAccounted
  <2>3. CASE PemLive
    BY <2>3, PemKept DEF PemAccounted
  <2>4. ASSUME NEW t \in Scripts, Pending(t)
        PROVE  PemLive' \/ Pending(t)'
    <3>1. CASE t = s
      BY <1>4, <2>4, <3>1, PendingMoves
    <3>2. CASE t # s
      BY <1>1, <2>4, <3>2 DEF Frame, Pending, Overlapped
    <3> QED
      BY <3>1, <3>2
  <2> QED
    BY <2>2, <2>3, <2>4 DEF PemAccounted
<1> QED
  BY <1>3, <1>4

\* A reboot ends all runs at once.
LEMMA PemAccountedAtReboot ==
    ASSUME IInv, ScriptInv, PemAccounted, Reboot, Remember
    PROVE  PemAccounted'
<1>1. \A s \in Scripts : pc'[s] = "idle"
  BY DEF Reboot
<1>2. PemLive => PemLive'
  BY DEF Reboot, PemLive, Occupied, files
<1>3. CASE \E t \in Scripts : Ends(t) /\ CutShort(t)
  BY <1>3 DEF Remember, PemAccounted
<1>4. CASE ~ \E t \in Scripts : Ends(t) /\ CutShort(t)
  <2>1. ~ \E t \in Scripts : Pending(t)
    BY <1>1, <1>4 DEF Pending, Ends, CutShort, Provisioners, PcrSteps, InitSteps, ClearSteps
  <2>2. unfinished /\ ~unfinished' =>
           \E t \in Scripts : pc[t] \in {"verify", "rmvalue"} /\ ~Overlapped(t)
    BY <1>4 DEF Remember, CutShort
  <2> QED
    BY <1>2, <2>1, <2>2, EndsLive DEF PemAccounted
<1> QED
  BY <1>3, <1>4


-----------------------------------------------------------------------------
(***************************************************************************)
(* The vaults: their records.                                              *)
(***************************************************************************)
\* Nothing of vault v changes but that it may lose its session.
Apart(v) ==
    /\ vault'[v] = None <=> vault[v] = None
    /\ vault[v] # None => /\ vault'[v].tpm_handle = vault[v].tpm_handle
                          /\ vault'[v].pcr_index = vault[v].pcr_index
                          /\ vault'[v].key = vault[v].key
                          /\ vault'[v].session =>
                                vault[v].session /\ vault'[v].spoiled = vault[v].spoiled

VaultsTyped ==
    /\ vault \in [Vaults -> VaultRecord \union {None}]
    /\ \A v \in Vaults : vault[v] # None /\ vault[v].session => vault[v].key \in 1..created

LEMMA SessionsLost ==
    ASSUME VaultsTyped, NEW lost, LoseSessions(lost), created \in Nat, created' \in Nat, created <= created'
    PROVE  /\ VaultsTyped'
           /\ \A v \in Vaults : Apart(v) /\ (vault[v] # None => vault'[v].settled = vault[v].settled)
<1> USE LifecycleAssumption
<1>1. ASSUME NEW v \in Vaults
      PROVE  /\ vault'[v] \in VaultRecord \union {None}
             /\ Apart(v) /\ (vault[v] # None => vault'[v].settled = vault[v].settled)
  <2>1. CASE v \in lost /\ vault[v] # None
    <3>1. /\ vault'[v] = [vault[v] EXCEPT !.session = FALSE, !.spoiled = FALSE]
          /\ vault[v] \in VaultRecord
      BY <2>1 DEF LoseSessions, VaultsTyped
    <3>2. vault'[v] \in VaultRecord
      BY <3>1 DEF VaultRecord
    <3> QED
      BY <2>1, <3>1, <3>2 DEF Apart, VaultRecord
  <2>2. CASE ~(v \in lost /\ vault[v] # None)
    <3>1. vault'[v] = vault[v]
      BY <2>2 DEF LoseSessions
    <3> QED
      BY <3>1 DEF Apart, VaultsTyped
  <2> QED
    BY <2>1, <2>2
<1>2. vault' = [v \in Vaults |-> vault'[v]]
  BY DEF LoseSessions
<1>3. VaultsTyped'
  BY <1>1, <1>2 DEF VaultsTyped, Apart
<1> QED
  BY <1>1, <1>3

LEMMA Unsettled ==
    ASSUME VaultsTyped, Unsettle, created' = created
    PROVE  /\ VaultsTyped'
           /\ \A v \in Vaults :
                 /\ Apart(v)
                 /\ vault[v] # None => ~vault'[v].settled /\ vault'[v].session = vault[v].session
<1> USE LifecycleAssumption
<1>1. ASSUME NEW v \in Vaults
      PROVE  /\ vault'[v] \in VaultRecord \union {None}
             /\ Apart(v)
             /\ vault[v] # None => ~vault'[v].settled /\ vault'[v].session = vault[v].session
  <2>1. CASE vault[v] # None
    <3>1. vault'[v] = [vault[v] EXCEPT !.settled = FALSE] /\ vault[v] \in VaultRecord
      BY <2>1 DEF Unsettle, VaultsTyped
    <3>2. vault'[v] \in VaultRecord
      BY <3>1 DEF VaultRecord
    <3> QED
      BY <2>1, <3>1, <3>2 DEF Apart, VaultRecord
  <2>2. CASE vault[v] = None
    BY <2>2 DEF Unsettle, Apart
  <2> QED
    BY <2>1, <2>2
<1>2. vault' = [v \in Vaults |-> vault'[v]]
  BY DEF Unsettle
<1>3. VaultsTyped'
  BY <1>1, <1>2 DEF VaultsTyped, Apart
<1> QED
  BY <1>1, <1>3

\* A step of a vault leaves the other vaults alone, and its own record one.
LEMMA VaultMoves ==
    ASSUME TypeOK, IdsUsed, LifecycleTypeOK, NEW v \in Vaults, VaultStep(v)
    PROVE  /\ UNCHANGED <<vars, completed, unfinished>>
           /\ \A w \in Vaults \ {v} : vault'[w] = vault[w]
           /\ LifecycleTypeOK'
<1> USE LifecycleAssumption
<1>1. UNCHANGED <<vars, completed, unfinished>>
  BY DEF VaultStep, ReadPolicy, OpenSession, Close, Protect, Recover, RecoverFails
<1>2. created' = created /\ MaxKeys \in Nat /\ created \in 0..MaxKeys
  BY <1>1, ProvisioningAssumption DEF vars, TypeOK
<1> DEFINE Good == /\ stored' \subseteq 1..MaxKeys
                   /\ \A w \in Vaults \ {v} : vault'[w] = vault[w]
                   /\ vault' \in [Vaults -> VaultRecord \union {None}]
                   /\ vault'[v] # None /\ vault'[v].session => vault'[v].key \in 1..created
<1>3. Good
  <2>1. ASSUME NEW h \in Handles, ReadPolicy(v, h)
        PROVE  Good
    <3> DEFINE r == [tpm_handle |-> h, pcr_index |-> read_pcr_policy, key |-> 0,
                     session |-> FALSE, spoiled |-> FALSE, settled |-> Prepared(h)]
    <3>1. read_pcr_policy \in PolicyPcrs \union {None}
      BY DEF read_pcr_policy, TypeOK
    <3>2. r \in VaultRecord /\ r.session = FALSE
      BY <1>2, <3>1 DEF VaultRecord, Prepared
    <3>3. vault' = [vault EXCEPT ![v] = r] /\ stored' = stored
      BY <2>1 DEF ReadPolicy
    <3> HIDE DEF r
    <3> QED
      BY <3>2, <3>3 DEF LifecycleTypeOK
  <2>2. CASE OpenSession(v)
    <3> DEFINE h == vault[v].tpm_handle
               r == [[vault[v] EXCEPT !.key = nv[h].id] EXCEPT !.session = TRUE]
    <3>1. vault[v] \in VaultRecord /\ h \in Handles
      BY <2>2 DEF OpenSession, LifecycleTypeOK, VaultRecord
    <3>2. nv[h].id \in 1..created
      BY <2>2, <3>1 DEF OpenSession, IdsUsed
    <3>3. r \in VaultRecord /\ r.key = nv[h].id
      <4> DEFINE q == [vault[v] EXCEPT !.key = nv[h].id]
      <4>1. q \in VaultRecord /\ q.key = nv[h].id
        BY <1>2, <3>1, <3>2 DEF VaultRecord
      <4> HIDE DEF q
      <4>2. [q EXCEPT !.session = TRUE] \in VaultRecord /\ [q EXCEPT !.session = TRUE].key = q.key
        BY <4>1 DEF VaultRecord
      <4> QED
        BY <4>1, <4>2 DEF q
    <3>4. vault' = [vault EXCEPT ![v] = r] /\ stored' = stored
      BY <2>2 DEF OpenSession, LifecycleTypeOK
    <3> HIDE DEF r, h
    <3> QED
      BY <3>2, <3>3, <3>4 DEF LifecycleTypeOK
  <2>3. CASE Close(v)
    BY <2>3 DEF Close, LifecycleTypeOK
  <2>4. CASE Protect(v)
    BY <1>2, <2>4 DEF Protect, LifecycleTypeOK, TypeOK
  <2>5. ASSUME NEW k \in stored, Recover(v, k)
        PROVE  Good
    <3>1. vault[v] \in VaultRecord
      BY <2>5 DEF Recover, Constructed, LifecycleTypeOK
    <3>2. PICK b \in BOOLEAN : vault' = [vault EXCEPT ![v] = [vault[v] EXCEPT !.spoiled = b]]
      <4>1. vault[v].spoiled \in BOOLEAN
        BY <3>1 DEF VaultRecord
      <4> DEFINE b == vault[v].spoiled \/ /\ vault[v].pcr_index # None /\ vault[v].session
                                          /\ ~(Works(v) /\ k = vault[v].key)
      <4>2. b \in BOOLEAN
        OBVIOUS
      <4>3. vault' = [vault EXCEPT ![v] = [vault[v] EXCEPT !.spoiled = b]]
        BY <2>5 DEF Recover, LifecycleTypeOK
      <4> QED
        BY <4>2, <4>3
    <3> DEFINE r == [vault[v] EXCEPT !.spoiled = b]
    <3>3. r \in VaultRecord /\ r.key = vault[v].key /\ r.session = vault[v].session
      BY <3>1 DEF VaultRecord
    <3>4. vault' = [vault EXCEPT ![v] = r] /\ stored' = stored /\ vault[v] # None
      BY <2>5, <3>1, <3>2 DEF Recover
    <3> HIDE DEF r
    <3> QED
      BY <3>3, <3>4 DEF LifecycleTypeOK
  <2>6. CASE RecoverFails(v)
    <3>1. vault[v] \in VaultRecord
      BY <2>6 DEF RecoverFails, Constructed, LifecycleTypeOK
    <3> DEFINE b == vault[v].spoiled \/ (vault[v].pcr_index # None /\ vault[v].session)
               r == [vault[v] EXCEPT !.spoiled = b]
    <3>2. b \in BOOLEAN
      BY <3>1 DEF VaultRecord
    <3>3. vault' = [vault EXCEPT ![v] = r] /\ stored' = stored /\ vault[v] # None
      BY <2>6, <3>1 DEF RecoverFails
    <3> HIDE DEF b
    <3>4. r \in VaultRecord /\ r.key = vault[v].key /\ r.session = vault[v].session
      BY <3>1, <3>2 DEF VaultRecord
    <3> HIDE DEF r
    <3> QED
      BY <3>3, <3>4 DEF LifecycleTypeOK
  <2> QED
    BY <2>1, <2>2, <2>3, <2>4, <2>5, <2>6 DEF VaultStep
<1>4. LifecycleTypeOK'
  BY <1>1, <1>2, <1>3 DEF LifecycleTypeOK
<1> QED
  BY <1>1, <1>3, <1>4

-----------------------------------------------------------------------------
(***************************************************************************)
(* What the composition remembers of a run.                                *)
(***************************************************************************)
\* Only the script that moves begins, ends or completes.
LEMMA OneMoves ==
    ASSUME TypeOK, NEW s \in Scripts, ScriptMoves(s), NEW t \in Scripts,
           Begins(t) \/ Ends(t) \/ Completes(t)
    PROVE  t = s
BY Framed DEF Frame, Begins, Ends, Completes

\* A script that is no run of init.sh or clear.sh, and does not become one, leaves
\* the key and the files alone.
LEMMA OthersAreQuiet ==
    ASSUME TypeOK, NEW s \in Scripts, ScriptMoves(s), pc[s] \notin Provisioners, ~Begins(s)
    PROVE  pc'[s] \notin Provisioners /\ UNCHANGED <<nv, pem, policyFile>>
<1>1. Start(s) \/ BootStep(s) \/ Abort(s)
  BY DEF ScriptMoves, InitStep, HandleFree, OverwriteForced, AlreadyProvisioned, HandleTaken,
     RemoveKey, PreparePcr, ExtendIdentity, CreatePolicy, OpenPolicyFile, SavePolicyFile,
     OpenValueFile, SaveValueFile, CreateEk, CreateRsaKey, PersistKey, ExportPublicKey, Complete,
     ClearStep, ClearCheck, ClearRemove, RemoveFiles, Provisioners, InitSteps, ClearSteps
<1>2. pc'[s] \notin Provisioners
  <2>1. CASE Start(s)
    <3>1. CASE PcrCommand(s)
      BY <3>1 DEF PcrCommand
    <3>2. CASE StartBoot(s)
      BY <3>2 DEF StartBoot, Goto, TypeOK, Provisioners, InitSteps, ClearSteps
    <3>3. CASE \E h \in Handles, f \in BOOLEAN : StartClear(s, h, f)
      BY <3>3 DEF StartClear, Goto, TypeOK, Begins
    <3>4. CASE \E h \in Handles, f \in BOOLEAN, n \in PolicyPcrs \union {None},
                  v \in Identities \union {None} : StartInit(s, h, f, n, v)
      BY <3>4 DEF StartInit, Goto, TypeOK, Begins
    <3> QED
      BY <2>1, <3>1, <3>2, <3>3, <3>4 DEF Start
  <2>2. CASE BootStep(s) \/ Abort(s)
    BY <2>2 DEF BootStep, BootReset, BootExtend, BootDone, Abort, Continue, Exit, Goto, TypeOK,
       Provisioners, InitSteps, ClearSteps
  <2> QED
    BY <1>1, <2>1, <2>2
<1>3. Reads(s)
  BY <1>1 DEF Reads
<1> QED
  BY <1>2, <1>3, ReadsChangeNothing

\* completed, after a step of one script.
LEMMA Remembered ==
    ASSUME IInv, NEW s \in Scripts, ScriptMoves(s), Remember
    PROVE  /\ Begins(s) => completed' = None
           /\ ~Begins(s) /\ Completes(s) =>
                 completed' = args[s].handle /\ args[s].handle \in Handles
           /\ ~Begins(s) /\ ~Completes(s) => completed' = completed
           /\ unfinished' \in {TRUE, FALSE, unfinished}
<1>1. TypeOK /\ Own(s)
  BY DEF IInv
<1>2. \A t \in Scripts : Begins(t) \/ Completes(t) => t = s
  BY <1>1, OneMoves
<1>3. Completes(s) => /\ (CHOOSE t \in Scripts : Completes(t)) = s
                      /\ args[s].handle \in Handles
  BY <1>1, <1>2 DEF Own, Completes, InitSteps
<1> QED
  BY <1>2, <1>3 DEF Remember

\* What a completed run leaves.
LEMMA CompletedServes ==
    ASSUME IInv, NEW s \in Scripts, ScriptMoves(s), Completes(s), completed' = args[s].handle
    PROVE  Quiet' /\ Serving'
<1>1. TypeOK /\ Own(s) /\ Knows(s) /\ Exclusive /\ Frame(s) /\ pc[s] = "verify" /\ pc'[s] = "idle"
  BY Framed DEF IInv, Solo, Completes, Ends
<1>2. Quiet'
  <2>1. ASSUME NEW t \in Scripts, t # s
        PROVE  pc'[t] = "idle"
    BY <1>1, <2>1 DEF Exclusive, Frame, Completes
  <2> QED
    BY <1>1, <2>1 DEF Quiet, Provisioners, InitSteps, ClearSteps
<1>3. UNCHANGED <<nv, pem, policyFile>>
  BY <1>1 DEF ScriptMoves, Start, StartInit, StartClear, StartBoot, PcrCommand, BootStep, BootReset,
     BootExtend, BootDone, Abort, InitStep, HandleFree, OverwriteForced, AlreadyProvisioned,
     HandleTaken, RemoveKey, PreparePcr, ExtendIdentity, CreatePolicy, OpenPolicyFile,
     SavePolicyFile, OpenValueFile, SaveValueFile, CreateEk, CreateRsaKey, PersistKey,
     ExportPublicKey, Complete, ClearStep, ClearCheck, ClearRemove, RemoveFiles, tpm, files
<1> DEFINE h == args[s].handle
<1>4. /\ nv[h] = blob[s] /\ blob[s] \in KeyRecord /\ blob[s].policy = digest[s] /\ pem = nv[h].id
      /\ digest[s] # None => policyFile = digest[s][1]
  BY <1>1 DEF Own, Knows, InitSteps, WithKey, WithNumber, WithValue, WithEk
<1>5. nv[h] # None
  BY <1>4, ProvisioningAssumption
<1> QED
  BY <1>2, <1>3, <1>4, <1>5 DEF Serving, Occupied

\* The tail of a run leaves pcr_policy and the keys that are there alone.
LEMMA TailMoves ==
    ASSUME TypeOK, NEW s \in Scripts, ScriptMoves(s), pc[s] \in PolicyWritten
    PROVE  /\ policyFile' = policyFile
           /\ \A h \in Handles : Occupied(h) => nv'[h] = nv[h]
           /\ pc'[s] \in Provisioners => pc'[s] \in PolicyWritten /\ args'[s] = args[s]
<1>1. \/ OpenValueFile(s) \/ SaveValueFile(s) \/ CreateEk(s) \/ CreateRsaKey(s)
      \/ PersistKey(s) \/ ExportPublicKey(s) \/ Complete(s) \/ Abort(s)
  BY DEF ScriptMoves, Start, StartInit, StartClear, StartBoot, PcrCommand, InitStep, HandleFree,
     OverwriteForced, AlreadyProvisioned, HandleTaken, RemoveKey, PreparePcr, ExtendIdentity,
     CreatePolicy, OpenPolicyFile, SavePolicyFile, ClearStep, ClearCheck, ClearRemove, RemoveFiles,
     BootStep, BootReset, BootExtend, BootDone, PolicyWritten
<1>2. CASE OpenValueFile(s) \/ SaveValueFile(s) \/ CreateEk(s)
  BY <1>2 DEF OpenValueFile, SaveValueFile, CreateEk, Continue, Goto, tpm, TypeOK, PolicyWritten
<1>3. CASE CreateRsaKey(s)
  BY <1>3 DEF CreateRsaKey, Goto, tpm, files, TypeOK, PolicyWritten
<1>4. CASE PersistKey(s)
  BY <1>4 DEF PersistKey, Continue, Goto, files, TypeOK, PolicyWritten, Occupied
<1>5. CASE ExportPublicKey(s)
  BY <1>5 DEF ExportPublicKey, Continue, Goto, tpm, TypeOK, PolicyWritten
<1>6. CASE Complete(s) \/ Abort(s)
  BY <1>6 DEF Complete, Abort, Exit, Goto, tpm, files, TypeOK, Provisioners, InitSteps, ClearSteps
<1> QED
  BY <1>1, <1>2, <1>3, <1>4, <1>5, <1>6

\* A vault that has read what is there still has when the run goes on.
LEMMA SettledMoves ==
    ASSUME IInv, NEW s \in Scripts, ScriptMoves(s), ~Begins(s), Remember,
           NEW v \in Vaults, Settled(v), Apart(v),
           vault[v] # None => /\ vault'[v].settled = vault[v].settled
                              /\ vault[v].tpm_handle \in Handles
    PROVE  Settled(v)'
<1> SUFFICES ASSUME vault'[v] # None, vault'[v].settled
             PROVE  Settled(v)'
  BY DEF Settled
<1> DEFINE h == vault[v].tpm_handle
<1>1. /\ vault[v] # None /\ vault[v].settled /\ h \in Handles
      /\ vault'[v].tpm_handle = h /\ vault'[v].key = vault[v].key
      /\ vault'[v].pcr_index = vault[v].pcr_index
  BY DEF Apart
<1>2. /\ completed \in {None, h}
      /\ vault[v].pcr_index = read_pcr_policy
      /\ vault[v].key # 0 => Occupied(h) /\ nv[h].id = vault[v].key
      /\ \A t \in Scripts : pc[t] \in Provisioners =>
            pc[t] \in PolicyWritten /\ args[t].handle = h
  BY <1>1 DEF Settled
<1>3. completed' \in {None, h}
  <2>1. Completes(s) => args[s].handle = h
    BY <1>2 DEF Completes, Provisioners, InitSteps
  <2> QED
    BY <1>2, <2>1, Remembered
<1>4. /\ policyFile' = policyFile
      /\ Occupied(h) => nv'[h] = nv[h]
      /\ pc'[s] \in Provisioners => pc'[s] \in PolicyWritten /\ args'[s].handle = h
  <2>1. CASE pc[s] \in Provisioners
    BY <1>1, <1>2, <2>1, TailMoves DEF IInv
  <2>2. CASE pc[s] \notin Provisioners
    BY <2>2, OthersAreQuiet DEF IInv
  <2> QED
    BY <2>1, <2>2
<1>5. \A t \in Scripts : pc'[t] \in Provisioners =>
         pc'[t] \in PolicyWritten /\ args'[t].handle = h
  BY <1>2, <1>4, Framed DEF IInv, Frame
<1>6. read_pcr_policy' = read_pcr_policy
  BY <1>4 DEF read_pcr_policy
<1> QED
  BY <1>1, <1>2, <1>3, <1>4, <1>5, <1>6 DEF Settled, Occupied

-----------------------------------------------------------------------------
(***************************************************************************)
(* The invariant is kept.                                                  *)
(***************************************************************************)
LifecycleInv == LifecycleTypeOK /\ History

\* No key is made unmade.
LEMMA CreatedGrows ==
    ASSUME TypeOK, [Next]_vars
    PROVE  created \in Nat /\ created' \in Nat /\ created <= created'
<1>1. created \in Nat
  BY ProvisioningAssumption DEF TypeOK
<1>2. created' = created \/ created' = created + 1
  <2>1. ASSUME NEW s \in Scripts, ScriptMoves(s)
        PROVE  created' = created \/ created' = created + 1
    BY <2>1, Kinds, ReadsChangeNothing, WritesChangeFiles DEF CreateRsaKey, PersistKey,
       ExportPublicKey, RemoveKey, ClearRemove, RemoveFiles
  <2>2. CASE Reboot \/ UNCHANGED vars \/ \E h \in Handles, profile \in {"vault", "other"} :
                ForeignPersist(h, profile)
    BY <2>2 DEF Reboot, ForeignPersist, vars
  <2> QED
    BY <2>1, <2>2 DEF Next, ScriptMoves
<1> QED
  BY <1>1, <1>2

LEMMA ScriptStepKeeps ==
    ASSUME IInv, ScriptInv, LifecycleInv, NEW s \in Scripts, ScriptStep(s)
    PROVE  LifecycleInv'
<1>1. /\ TypeOK /\ ScriptMoves(s) /\ Remember /\ stored' = stored
      /\ created \in Nat /\ created' \in Nat /\ created <= created'
  <2>1. TypeOK /\ ScriptMoves(s) /\ Remember /\ stored' = stored /\ Next
    BY DEF IInv, ScriptStep, ScriptMoves, Next
  <2> QED
    BY <2>1, CreatedGrows
<1>2. VaultsTyped
  BY DEF LifecycleInv, LifecycleTypeOK, VaultsTyped
<1>3. PemAccounted'
  BY <1>1, PemStaysAccounted DEF LifecycleInv, History
<1>4. CASE Begins(s)
  <2>1. created' = created /\ Unsettle
    <3>1. Start(s)
      BY <1>1, <1>4 DEF Begins, ScriptMoves, InitStep, HandleFree, OverwriteForced,
         AlreadyProvisioned, HandleTaken, RemoveKey, PreparePcr, ExtendIdentity, CreatePolicy,
         OpenPolicyFile, SavePolicyFile, OpenValueFile, SaveValueFile, CreateEk, CreateRsaKey,
         PersistKey, ExportPublicKey, Complete, ClearStep, ClearCheck, ClearRemove, RemoveFiles,
         BootStep, BootReset, BootExtend, BootDone, Abort
    <3> QED
      BY <1>1, <1>4, <3>1, ReadsChangeNothing DEF ScriptStep, Reads
  <2>2. VaultsTyped' /\ \A v \in Vaults : Settled(v)'
    BY <1>2, <2>1, Unsettled DEF Settled, Apart
  <2>3. completed' = None /\ unfinished' \in BOOLEAN
    BY <1>1, <1>4, Remembered DEF LifecycleInv, LifecycleTypeOK
  <2> QED
    BY <1>1, <1>3, <2>2, <2>3 DEF LifecycleInv, LifecycleTypeOK, VaultsTyped, History, Quiet, Serving
<1>5. CASE ~Begins(s)
  <2>1. /\ VaultsTyped'
        /\ \A v \in Vaults : Apart(v) /\ (vault[v] # None => vault'[v].settled = vault[v].settled)
    <3>1. CASE UNCHANGED vault
      BY <1>1, <1>2, <3>1 DEF VaultsTyped, Apart, LifecycleTypeOK
    <3>2. CASE \E lost \in SUBSET Vaults : LoseSessions(lost)
      BY <1>1, <1>2, <3>2, SessionsLost
    <3> QED
      BY <1>5, <3>1, <3>2 DEF ScriptStep
  <2>0. \A v \in Vaults : Settled(v)'
    <3>1. \A v \in Vaults : vault[v] # None => vault[v].tpm_handle \in Handles
      BY DEF LifecycleInv, LifecycleTypeOK, VaultRecord
    <3> QED
      BY <1>1, <1>5, <2>1, <3>1, SettledMoves DEF LifecycleInv, History
  <2>2. CASE Completes(s)
    <3>3. Quiet' /\ Serving' /\ completed' \in Handles /\ unfinished' \in BOOLEAN
      BY <1>1, <1>5, <2>2, Remembered, CompletedServes DEF LifecycleInv, LifecycleTypeOK
    <3> QED
      BY <1>1, <1>3, <2>0, <2>1, <3>3 DEF LifecycleInv, LifecycleTypeOK, VaultsTyped, History
  <2>3. CASE ~Completes(s)
    <3>1. completed' = completed /\ unfinished' \in BOOLEAN
      BY <1>1, <1>5, <2>3, Remembered DEF LifecycleInv, LifecycleTypeOK
    <3>2. CASE completed = None
      BY <1>1, <1>3, <2>0, <2>1, <3>1, <3>2
      DEF LifecycleInv, LifecycleTypeOK, VaultsTyped, History, Quiet, Serving
    <3>3. CASE completed # None
      <4>1. pc[s] \notin Provisioners
        BY <3>3 DEF LifecycleInv, History, Quiet
      <4>2. pc'[s] \notin Provisioners /\ UNCHANGED <<nv, pem, policyFile>>
        BY <1>1, <1>5, <4>1, OthersAreQuiet
      <4>3. Quiet' /\ Serving'
        BY <1>1, <3>1, <4>2, Framed DEF LifecycleInv, History, Quiet, Serving, Frame, Occupied
      <4> QED
        BY <1>1, <1>3, <2>0, <2>1, <3>1, <4>3 DEF LifecycleInv, LifecycleTypeOK, VaultsTyped, History
    <3> QED
      BY <3>2, <3>3
  <2> QED
    BY <2>2, <2>3
<1> QED
  BY <1>4, <1>5

LEMMA VaultStepKeeps ==
    ASSUME IInv, ScriptInv, LifecycleInv, NEW v \in Vaults, VaultStep(v)
    PROVE  LifecycleInv'
<1>1. /\ UNCHANGED <<vars, completed, unfinished>>
      /\ \A w \in Vaults \ {v} : vault'[w] = vault[w]
      /\ LifecycleTypeOK'
  BY VaultMoves DEF IInv, ScriptInv, LifecycleInv
<1>2. UNCHANGED <<nv, pem, policyFile, pc, args, notes>>
  BY <1>1 DEF vars, tpm, files, run
<1>3. Quiet' /\ Serving' /\ PemAccounted'
  BY <1>1, <1>2 DEF LifecycleInv, History, Quiet, Serving, PemAccounted, PemLive, Pending,
     Overlapped, Occupied
<1>4. ASSUME NEW w \in Vaults, w # v
      PROVE  Settled(w)'
  BY <1>1, <1>2, <1>4 DEF LifecycleInv, History, Settled, read_pcr_policy, Occupied
<1>5. Settled(v)'
  <2>1. LifecycleTypeOK /\ Settled(v)
    BY DEF LifecycleInv, History
  <2>2. ASSUME NEW h \in Handles, ReadPolicy(v, h)
        PROVE  Settled(v)'
    <3> DEFINE r == [tpm_handle |-> h, pcr_index |-> read_pcr_policy, key |-> 0,
                     session |-> FALSE, spoiled |-> FALSE, settled |-> Prepared(h)]
    <3>1. vault'[v] = r
      BY <2>1, <2>2 DEF ReadPolicy, LifecycleTypeOK
    <3>2. ASSUME Prepared(h)
          PROVE  /\ completed \in {None, h}
                 /\ \A s \in Scripts : pc[s] \in Provisioners =>
                       pc[s] \in PolicyWritten /\ args[s].handle = h
      <4>1. CASE completed = h
        BY <4>1, ProvisioningAssumption DEF LifecycleInv, History, Quiet
      <4>2. ASSUME NEW s \in Scripts, pc[s] \in PolicyWritten, args[s].handle = h, ~Overlapped(s)
            PROVE  /\ completed = None
                   /\ \A t \in Scripts : t # s => pc[t] = "idle"
        <5>1. pc[s] \in Provisioners /\ pc[s] # "idle"
          BY <4>2 DEF PolicyWritten, Provisioners, InitSteps
        <5> QED
          BY <4>2, <5>1 DEF IInv, Exclusive, LifecycleInv, History, Quiet
      <4> QED
        BY <3>2, <4>1, <4>2 DEF Prepared, Provisioners, InitSteps, ClearSteps
    <3>3. read_pcr_policy' = read_pcr_policy
      BY <1>2 DEF read_pcr_policy
    <3> QED
      BY <1>1, <1>2, <3>1, <3>2, <3>3 DEF Settled
  <2>3. CASE OpenSession(v)
    <3>1. vault[v] \in VaultRecord /\ vault[v] # None
      BY <2>1, <2>3 DEF OpenSession, LifecycleTypeOK
    <3>2. vault'[v] = [[vault[v] EXCEPT !.key = nv[vault[v].tpm_handle].id] EXCEPT !.session = TRUE]
      BY <2>1, <2>3 DEF OpenSession, LifecycleTypeOK
    <3>3. /\ vault'[v].tpm_handle = vault[v].tpm_handle
          /\ vault'[v].pcr_index = vault[v].pcr_index
          /\ vault'[v].settled = vault[v].settled
          /\ vault'[v].key = nv[vault[v].tpm_handle].id
      BY <3>1, <3>2 DEF VaultRecord
    <3>4. nv'[vault[v].tpm_handle] # None
      BY <1>2, <2>3 DEF OpenSession, Occupied
    <3> QED
      BY <1>1, <1>2, <2>1, <3>1, <3>3, <3>4 DEF Settled, read_pcr_policy, Occupied
  <2>4. CASE Close(v)
    BY <2>1, <2>4 DEF Close, Settled, LifecycleTypeOK
  <2>5. CASE Protect(v)
    BY <1>1, <1>2, <2>1, <2>5 DEF Protect, Settled, read_pcr_policy, Occupied
  <2>6. ASSUME NEW k \in stored, Recover(v, k)
        PROVE  Settled(v)'
    <3>1. vault[v] \in VaultRecord /\ vault[v] # None
      BY <2>1, <2>6 DEF Recover, Constructed, LifecycleTypeOK
    <3>2. /\ vault'[v].tpm_handle = vault[v].tpm_handle
          /\ vault'[v].pcr_index = vault[v].pcr_index
          /\ vault'[v].settled = vault[v].settled
          /\ vault'[v].key = vault[v].key
      BY <2>1, <2>6, <3>1 DEF Recover, LifecycleTypeOK, VaultRecord
    <3> QED
      BY <1>1, <1>2, <2>1, <3>1, <3>2 DEF Settled, read_pcr_policy, Occupied
  <2>7. CASE RecoverFails(v)
    <3>1. vault[v] \in VaultRecord /\ vault[v] # None
      BY <2>1, <2>7 DEF RecoverFails, Constructed, LifecycleTypeOK
    <3>2. /\ vault'[v].tpm_handle = vault[v].tpm_handle
          /\ vault'[v].pcr_index = vault[v].pcr_index
          /\ vault'[v].settled = vault[v].settled
          /\ vault'[v].key = vault[v].key
      BY <2>1, <2>7, <3>1 DEF RecoverFails, LifecycleTypeOK, VaultRecord
    <3> QED
      BY <1>1, <1>2, <2>1, <3>1, <3>2 DEF Settled, read_pcr_policy, Occupied
  <2> QED
    BY <2>2, <2>3, <2>4, <2>5, <2>6, <2>7 DEF VaultStep
<1> QED
  BY <1>1, <1>3, <1>4, <1>5 DEF LifecycleInv, History

LEMMA OtherApplicationKeeps ==
    ASSUME IInv, LifecycleInv, OtherApplication
    PROVE  LifecycleInv'
<1>1. PICK g \in Handles, profile \in {"vault", "other"} : ForeignPersist(g, profile)
  BY DEF OtherApplication
<1>2. /\ TypeOK /\ created \in Nat /\ created' = created + 1
      /\ UNCHANGED <<pem, policyFile, pc, args, notes, vault, stored, completed, unfinished>>
      /\ \A h \in Handles : Occupied(h) => nv'[h] = nv[h]
  BY <1>1, ProvisioningAssumption DEF IInv, TypeOK, ForeignPersist, OtherApplication, files, run,
     vaultVars
<1>3. LifecycleTypeOK'
  BY <1>2 DEF LifecycleInv, LifecycleTypeOK
<1>4. Quiet' /\ PemAccounted'
  BY <1>2 DEF LifecycleInv, History, Quiet, PemAccounted, PemLive, Pending, Overlapped, Occupied
<1>5. Serving' /\ \A v \in Vaults : Settled(v)'
  <2>1. completed # None => nv'[completed] = nv[completed]
    BY <1>2 DEF LifecycleInv, LifecycleTypeOK, History, Serving
  <2>2. \A v \in Vaults : vault[v] # None => vault[v].tpm_handle \in Handles
    BY ProvisioningAssumption DEF LifecycleInv, LifecycleTypeOK, VaultRecord
  <2> QED
    BY <1>2, <2>1, <2>2 DEF LifecycleInv, History, Serving, Settled, read_pcr_policy, Occupied
<1> QED
  BY <1>3, <1>4, <1>5 DEF LifecycleInv, History

LEMMA RestartKeeps ==
    ASSUME IInv, ScriptInv, LifecycleInv, Restart
    PROVE  LifecycleInv'
<1>1. /\ \A s \in Scripts : pc'[s] = "idle"
      /\ UNCHANGED <<nv, pem, policyFile, created, stored>>
      /\ vault' = [v \in Vaults |-> None] /\ Remember
  BY DEF Restart, Reboot, files
<1>2. PemAccounted'
  BY <1>1, PemAccountedAtReboot DEF LifecycleInv, History, Restart
<1>3. Quiet'
  BY <1>1 DEF Quiet, Provisioners, InitSteps, ClearSteps
<1>4. ~ \E s \in Scripts : Begins(s)
  BY <1>1 DEF Begins
<1>5. completed' \in Handles \union {None} /\ Serving'
  <2>1. ASSUME NEW s \in Scripts, Completes(s)
        PROVE  completed' \in Handles \union {None} /\ Serving'
    <3>1. PICK t \in Scripts : Completes(t) /\ completed' = args[t].handle
      BY <1>1, <1>4, <2>1 DEF Remember
    <3>2. Own(t) /\ Knows(t) /\ pc[t] = "verify"
      BY <3>1 DEF IInv, Solo, Completes
    <3>3. /\ args[t].handle \in Handles /\ nv[args[t].handle] = blob[t] /\ blob[t] \in KeyRecord
          /\ blob[t].policy = digest[t] /\ pem = nv[args[t].handle].id
          /\ digest[t] # None => policyFile = digest[t][1]
      BY <3>2 DEF Own, Knows, InitSteps, WithKey, WithNumber, WithValue, WithEk
    <3>4. nv[args[t].handle] # None
      BY <3>3, ProvisioningAssumption
    <3> QED
      BY <1>1, <3>1, <3>3, <3>4 DEF Serving, Occupied
  <2>2. CASE ~ \E s \in Scripts : Completes(s)
    <3>1. completed' = completed
      BY <1>1, <1>4, <2>2 DEF Remember
    <3> QED
      BY <1>1, <3>1 DEF LifecycleInv, LifecycleTypeOK, History, Serving, Occupied
  <2> QED
    BY <2>1, <2>2
<1>6. unfinished' \in BOOLEAN
  BY <1>1 DEF Remember, LifecycleInv, LifecycleTypeOK
<1>7. LifecycleTypeOK' /\ \A v \in Vaults : Settled(v)'
  BY <1>1, <1>5, <1>6 DEF LifecycleInv, LifecycleTypeOK, Settled
<1> QED
  BY <1>2, <1>3, <1>5, <1>7 DEF LifecycleInv, History

LEMMA ResourceManagerRestartKeeps ==
    ASSUME IInv, LifecycleInv, ResourceManagerRestart
    PROVE  LifecycleInv'
<1>1. /\ UNCHANGED <<nv, pem, policyFile, pc, args, notes, created, stored, completed, unfinished>>
      /\ created \in Nat /\ VaultsTyped
  BY ProvisioningAssumption DEF ResourceManagerRestart, vars, tpm, files, run, IInv, TypeOK,
     LifecycleInv, LifecycleTypeOK, VaultsTyped
<1>2. /\ VaultsTyped'
      /\ \A v \in Vaults : Apart(v) /\ (vault[v] # None => vault'[v].settled = vault[v].settled)
  BY <1>1, SessionsLost DEF ResourceManagerRestart
<1>3. LifecycleTypeOK'
  BY <1>1, <1>2 DEF LifecycleInv, LifecycleTypeOK, VaultsTyped
<1>4. Quiet' /\ Serving' /\ PemAccounted'
  BY <1>1 DEF LifecycleInv, History, Quiet, Serving, PemAccounted, PemLive, Pending,
     Overlapped, Occupied
<1>5. \A v \in Vaults : Settled(v)'
  BY <1>1, <1>2 DEF LifecycleInv, History, Settled, Apart, read_pcr_policy, Occupied
<1> QED
  BY <1>3, <1>4, <1>5 DEF LifecycleInv, History

\* No vault, no key, no file.
LEMMA LifecycleInitHolds == LifecycleInit => LifecycleInv
<1> SUFFICES ASSUME LifecycleInit PROVE LifecycleInv
  OBVIOUS
<1>1. LifecycleTypeOK
  BY DEF LifecycleInit, LifecycleTypeOK
<1>2. History
  BY DEF LifecycleInit, Init, History, Quiet, Serving, PemAccounted, PemLive, Settled
<1> QED
  BY <1>1, <1>2 DEF LifecycleInv

\* The invariant of the composition, next to those of the scripts.
THEOREM LifecycleInvariantHolds == LifecycleSpec => [](IInv /\ ScriptInv /\ LifecycleInv)
<1>1. IInv /\ ScriptInv /\ LifecycleInv /\ [LifecycleNext]_lifecycleVars => LifecycleInv'
  <2> SUFFICES ASSUME IInv, ScriptInv, LifecycleInv, [LifecycleNext]_lifecycleVars
               PROVE  LifecycleInv'
    OBVIOUS
  <2>1. CASE UNCHANGED lifecycleVars
    BY <2>1 DEF lifecycleVars, vars, tpm, files, run, vaultVars, LifecycleInv, LifecycleTypeOK,
       History, Quiet, Serving, PemAccounted, PemLive, Pending, Overlapped, Settled,
       read_pcr_policy, Occupied
  <2> QED
    BY <2>1, ScriptStepKeeps, VaultStepKeeps, OtherApplicationKeeps, RestartKeeps,
       ResourceManagerRestartKeeps DEF LifecycleNext
<1> QED
  BY <1>1, LifecycleInitHolds, ImplementsProvisioning, InvariantHolds, ScriptsAccounted, PTL
  DEF LifecycleSpec

-----------------------------------------------------------------------------
(***************************************************************************)
(* The theorems.                                                           *)
(***************************************************************************)
\* Every variable of the composition keeps its type; a session is with a key that
\* was created.
THEOREM LifecycleTypeCorrect == LifecycleSpec => []LifecycleTypeOK
<1>1. LifecycleInv => LifecycleTypeOK
  BY DEF LifecycleInv
<1> QED
  BY <1>1, LifecycleInvariantHolds, PTL

\* After a completed run of init.sh, with no script since, a vault that read
\* pcr_policy when that run had written it has the policy and the key of the run,
\* and they are still there.
THEOREM CompletedRunsServe == LifecycleSpec => []CompletedRunServes
<1>1. ASSUME TypeOK, LifecycleInv
      PROVE  CompletedRunServes
  <2> DEFINE h(v) == vault[v].tpm_handle
  <2> SUFFICES ASSUME NEW v \in Vaults, Constructed(v), vault[v].settled, completed = h(v),
                      policyFile \in PolicyPcrs => nv[h(v)].policy # None
               PROVE  /\ Occupied(h(v)) /\ nv[h(v)].id = vault[v].key
                      /\ pem = vault[v].key
                      /\ vault[v].pcr_index =
                            IF nv[h(v)].policy = None THEN None ELSE nv[h(v)].policy[1]
    BY DEF CompletedRunServes
  <2>1. vault[v] # None /\ vault[v].key # 0 /\ h(v) \in Handles
    BY <1>1, LifecycleAssumption DEF Constructed, LifecycleInv, LifecycleTypeOK, VaultRecord
  <2>2. /\ completed = h(v) /\ vault[v].pcr_index = read_pcr_policy
        /\ nv[h(v)].id = vault[v].key
    BY <1>1, <2>1 DEF LifecycleInv, History, Settled
  <2>3. /\ Occupied(h(v)) /\ pem = nv[h(v)].id
        /\ nv[h(v)].policy # None => policyFile = nv[h(v)].policy[1]
    BY <1>1, <2>1, <2>2, ProvisioningAssumption DEF LifecycleInv, History, Serving
  <2>4. CASE nv[h(v)].policy = None
    BY <1>1, <2>2, <2>3, <2>4, ProvisioningAssumption DEF read_pcr_policy, TypeOK
  <2>5. CASE nv[h(v)].policy # None
    <3>1. nv[h(v)] \in KeyRecord
      BY <1>1, <2>1, <2>3 DEF TypeOK, Occupied
    <3>2. nv[h(v)].policy \in PolicyPcrs \X PcrContents
      BY <2>5, <3>1 DEF KeyRecord, Policies
    <3>3. nv[h(v)].policy[1] \in PolicyPcrs
      BY <3>2
    <3> QED
      BY <2>2, <2>3, <2>5, <3>3, ProvisioningAssumption DEF read_pcr_policy
  <2> QED
    BY <2>2, <2>3, <2>4, <2>5
<1> QED
  BY <1>1, LifecycleInvariantHolds, PTL DEF IInv

\* A vault protects for a key that is there, unless the last script that changed
\* anything was cut short or not alone.
THEOREM ProtectedForLiveKeys == LifecycleSpec => ProtectedForLiveKey
<1> DEFINE Live == \A v \in Vaults :
                      /\ Protect(v)
                      /\ Running = {} /\ ~unfinished
                      => \E h \in Handles : Occupied(h) /\ nv[h].id = pem
<1>1. LifecycleInv => Live
  <2> SUFFICES ASSUME LifecycleInv, NEW v \in Vaults, Protect(v), Running = {}, ~unfinished
               PROVE  \E h \in Handles : Occupied(h) /\ nv[h].id = pem
    OBVIOUS
  <2>1. \A s \in Scripts : ~Pending(s)
    BY DEF Running, Pending, Provisioners, InitSteps, ClearSteps, PcrSteps
  <2>2. PemLive /\ pem # 0
    BY <2>1 DEF LifecycleInv, History, PemAccounted, Protect
  <2> QED
    BY <2>2 DEF PemLive
<1>2. LifecycleInv => [Live]_lifecycleVars
  BY <1>1
<1>3. LifecycleSpec => [][Live]_lifecycleVars
  BY <1>2, LifecycleInvariantHolds, PTL
<1> QED
  BY <1>3 DEF ProtectedForLiveKey

\* A key leaves its handle only by the removals of init.sh --force and clear.sh.
LEMMA OnlyRemovals ==
    ASSUME IInv, NEW s \in Scripts, ScriptMoves(s), NEW h \in Handles, Occupied(h), nv'[h] # nv[h]
    PROVE  RemovalAt(h)
<1>1. TypeOK /\ Own(s)
  BY DEF IInv
<1>2. RemoveKey(s) \/ ClearRemove(s)
  <2>1. ~Reads(s) /\ ~Writes(s)
    BY <1>1, ReadsChangeNothing, WritesChangeFiles
  <2>2. ~CreateRsaKey(s) /\ ~ExportPublicKey(s) /\ ~RemoveFiles(s)
    BY DEF CreateRsaKey, ExportPublicKey, RemoveFiles, tpm
  <2>3. ~PersistKey(s)
    BY <1>1 DEF PersistKey, TypeOK, Occupied
  <2> QED
    BY <2>1, <2>2, <2>3, Kinds
<1>3. args[s].handle = h
  BY <1>1, <1>2 DEF RemoveKey, ClearRemove, TypeOK
<1> QED
  BY <1>1, <1>2, <1>3 DEF RemovalAt, RemoveKey, ClearRemove, Own

\* What may stop a vault that works.
StoppedBy(v) ==
    LET r == vault[v]
    IN  \/ Close(v) \/ Restart \/ ResourceManagerRestart
        \/ \E s \in Scripts : Ends(s) /\ pc[s] \in InitSteps
        \/ RemovalAt(r.tpm_handle)
        \/ r.pcr_index # None /\ pcr'[r.pcr_index] # pcr[r.pcr_index]
        \/ \E k \in stored : k # r.key /\ Recover(v, k)
        \/ r.pcr_index # None /\ RecoverFails(v)

\* A vault whose record, key and PCR stay works on.
LEMMA WorksOn ==
    ASSUME TypeOK, NEW v \in Vaults, vault[v].tpm_handle \in Handles, Works(v), Apart(v),
           vault'[v].session = vault[v].session,
           nv'[vault[v].tpm_handle] = nv[vault[v].tpm_handle],
           vault[v].pcr_index # None => pcr'[vault[v].pcr_index] = pcr[vault[v].pcr_index]
    PROVE  Works(v)'
<1>1. Constructed(v) /\ Authorised(v) /\ vault[v].session /\ Occupied(vault[v].tpm_handle)
      /\ nv[vault[v].tpm_handle].id = vault[v].key
  BY DEF Works
<1>2. Constructed(v)' /\ vault'[v].session
  BY <1>1 DEF Constructed, Apart
<1>3. vault'[v].tpm_handle = vault[v].tpm_handle /\ vault'[v].pcr_index = vault[v].pcr_index
      /\ vault'[v].key = vault[v].key /\ vault'[v].spoiled = vault[v].spoiled
  BY <1>1, <1>2 DEF Apart, Constructed
<1>4. Authorised(v)'
  <2> DEFINE k == nv[vault[v].tpm_handle]
  <2>1. k \in KeyRecord
    BY <1>1 DEF TypeOK, Occupied
  <2>2. k.policy = None \/ k.policy \in PolicyPcrs \X PcrContents
    BY <2>1 DEF KeyRecord, Policies
  <2>3. k.policy # None => k.policy[1] # None
    BY <2>2, ProvisioningAssumption
  <2> QED
    BY <1>1, <1>3, <2>3 DEF Authorised
<1> QED
  BY <1>1, <1>2, <1>3, <1>4 DEF Works, Occupied

\* A vault that works stops only by what WorkingVaultKept lists.
THEOREM WorkingVaultsKept == LifecycleSpec => WorkingVaultKept
<1>1. ASSUME IInv, ScriptInv, LifecycleInv, [LifecycleNext]_lifecycleVars,
             NEW v \in Vaults, Works(v), ~Works(v)'
      PROVE  StoppedBy(v)
  <2> DEFINE r == vault[v]
  <2>1. r # None /\ r.key # 0 /\ r.tpm_handle \in Handles /\ Occupied(r.tpm_handle) /\ VaultsTyped
    BY <1>1 DEF Works, Constructed, LifecycleInv, LifecycleTypeOK, VaultRecord, VaultsTyped
  <2>2. ASSUME NEW s \in Scripts, ScriptStep(s), ~StoppedBy(v)
        PROVE  FALSE
    <3>1. ScriptMoves(s) /\ TypeOK /\ Next
      BY <1>1, <2>2 DEF IInv, ScriptStep, ScriptMoves, Next
    <3>2. nv'[r.tpm_handle] = nv[r.tpm_handle]
      BY <1>1, <2>1, <2>2, <3>1, OnlyRemovals DEF StoppedBy
    <3>3. r.pcr_index # None => pcr'[r.pcr_index] = pcr[r.pcr_index]
      BY <2>2 DEF StoppedBy
    <3>4. ~(Ends(s) /\ pc[s] \in InitSteps)
      BY <2>2 DEF StoppedBy
    <3>5. CASE Begins(s)
      <4>1. Reads(s)
        BY <3>1, <3>5, Kinds DEF Begins, Writes, OpenPolicyFile, SavePolicyFile, OpenValueFile,
           SaveValueFile, CreateEk, CreateRsaKey, PersistKey, ExportPublicKey, RemoveKey,
           ClearRemove, RemoveFiles
      <4>2. created' = created /\ Unsettle
        BY <2>2, <3>1, <3>5, <4>1, ReadsChangeNothing DEF ScriptStep
      <4>3. Apart(v) /\ vault'[v].session = vault[v].session
        BY <2>1, <4>2, Unsettled
      <4> QED
        BY <1>1, <2>1, <3>1, <3>2, <3>3, <4>3, WorksOn
    <3>6. CASE ~Begins(s)
      <4>1. vault' = vault
        BY <2>2, <3>4, <3>6 DEF ScriptStep
      <4>2. Apart(v) /\ vault'[v].session = vault[v].session
        BY <4>1 DEF Apart
      <4> QED
        BY <1>1, <2>1, <3>1, <3>2, <3>3, <4>2, WorksOn
    <3> QED
      BY <3>5, <3>6
  <2>3. ASSUME NEW w \in Vaults, VaultStep(w), ~StoppedBy(v)
        PROVE  FALSE
    <3>1. UNCHANGED vars /\ (w # v => vault'[v] = vault[v])
      BY <1>1, <2>3, VaultMoves DEF IInv, ScriptInv, LifecycleInv
    <3>2. CASE vault'[v] = vault[v]
      <4>1. Apart(v) /\ nv' = nv /\ pcr' = pcr
        BY <3>1, <3>2 DEF Apart, vars, tpm
      <4> QED
        BY <1>1, <2>1, <3>2, <4>1, WorksOn DEF IInv
    <3>3. CASE w = v /\ vault'[v] # vault[v]
      <4>1. ~OpenSession(v) /\ ~Protect(v) /\ ~Close(v) /\ \A h \in Handles : ~ReadPolicy(v, h)
        BY <2>1, <2>3, <3>3 DEF OpenSession, Protect, ReadPolicy, StoppedBy
      <4>0. ~RecoverFails(v)
        <5>1. r \in VaultRecord
          BY <2>1 DEF VaultsTyped
        <5>2. RecoverFails(v) /\ r.pcr_index = None => vault'[v] = [r EXCEPT !.spoiled = r.spoiled]
          BY <2>1, <5>1 DEF RecoverFails, VaultsTyped, VaultRecord
        <5>3. [r EXCEPT !.spoiled = r.spoiled] = r
          BY <5>1 DEF VaultRecord
        <5> QED
          BY <2>3, <3>3, <5>2, <5>3 DEF StoppedBy
      <4>2. PICK k \in stored : Recover(v, k)
        BY <2>3, <3>3, <4>0, <4>1 DEF VaultStep
      <4>3. k = r.key
        BY <2>3, <4>2 DEF StoppedBy
      <4>4. vault'[v] = [r EXCEPT !.spoiled = @ \/ /\ r.pcr_index # None /\ r.session
                                                    /\ ~(Works(v) /\ k = r.key)]
        BY <2>1, <4>2 DEF Recover, VaultsTyped
      <4>5. r \in VaultRecord
        BY <2>1 DEF VaultsTyped
      <4>6. vault'[v] = [r EXCEPT !.spoiled = r.spoiled]
        BY <1>1, <4>3, <4>4, <4>5 DEF VaultRecord
      <4> QED
        BY <3>3, <4>5, <4>6 DEF VaultRecord
    <3> QED
      BY <3>1, <3>2, <3>3
  <2>4. ASSUME OtherApplication
        PROVE  FALSE
    <3>1. vault' = vault /\ pcr' = pcr /\ nv'[r.tpm_handle] = nv[r.tpm_handle]
      BY <1>1, <2>1, <2>4 DEF OtherApplication, ForeignPersist, vaultVars, IInv, TypeOK, Occupied
    <3>2. Apart(v)
      BY <3>1 DEF Apart
    <3> QED
      BY <1>1, <2>1, <3>1, <3>2, WorksOn DEF IInv
  <2>5. ASSUME UNCHANGED lifecycleVars
        PROVE  FALSE
    <3>1. vault' = vault /\ pcr' = pcr /\ nv' = nv
      BY <2>5 DEF lifecycleVars, vaultVars, vars, tpm
    <3>2. Apart(v)
      BY <3>1 DEF Apart
    <3> QED
      BY <1>1, <2>1, <3>1, <3>2, WorksOn DEF IInv
  <2>6. Restart \/ ResourceManagerRestart => StoppedBy(v)
    BY DEF StoppedBy
  <2> QED
    BY <1>1, <2>2, <2>3, <2>4, <2>5, <2>6 DEF LifecycleNext
<1> DEFINE Kept == \A v \in Vaults : Works(v) /\ ~Works(v)' => StoppedBy(v)
<1>2. IInv /\ ScriptInv /\ LifecycleInv /\ [LifecycleNext]_lifecycleVars => [Kept]_lifecycleVars
  BY <1>1
<1>3. LifecycleSpec => [][Kept]_lifecycleVars
  <2> HIDE DEF Kept
  <2> QED
    BY <1>2, LifecycleInvariantHolds, PTL DEF LifecycleSpec
<1> QED
  BY <1>3, PTL DEF WorkingVaultKept, StoppedBy

\* What holds of the scripts on their own holds beside any vaults.
THEOREM ScriptsUndisturbed ==
    LifecycleSpec => /\ [](CompletedRunConsistent /\ PolicyReproducible)
                     /\ KeyKept /\ BootRestores /\ WorkingSetKept
BY ImplementsProvisioning, CompletedRunsConsistent, PoliciesReproducible, KeysAreKept,
   BootsRestore, WorkingSetsKept, PTL
=============================================================================
