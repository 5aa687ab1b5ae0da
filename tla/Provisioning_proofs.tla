------------------------ MODULE Provisioning_proofs ------------------------
(***************************************************************************)
(* Proofs about Provisioning, for any scripts running at the same time,    *)
(* any handles, PCRs, identities and bounds.                               *)
(***************************************************************************)
EXTENDS Provisioning, SequenceTheorems, TLAPS

-----------------------------------------------------------------------------
(***************************************************************************)
(* PCR contents.                                                           *)
(***************************************************************************)
\* A reset PCR has contents.
LEMMA ZeroTyped == Zero \in PcrContents
<1>1. Zero \in [1..0 -> Identities]
  BY DEF Zero
<1>2. 0 \in 0..MaxExtends
  BY ProvisioningAssumption
<1> QED
  BY <1>1, <1>2 DEF PcrContents

\* An extend within the bound gives contents.
LEMMA ExtendTyped ==
    ASSUME NEW x \in PcrContents, NEW v \in Identities, Len(x) < MaxExtends
    PROVE  Append(x, v) \in PcrContents
<1>1. PICK n \in 0..MaxExtends : x \in [1..n -> Identities]
  BY DEF PcrContents
<1>2. x \in Seq(Identities) /\ Len(x) = n /\ n \in Nat /\ MaxExtends \in Nat
  BY <1>1, ProvisioningAssumption
<1>3. Append(x, v) \in Seq(Identities) /\ Len(Append(x, v)) = n + 1
  BY <1>2, AppendProperties
<1>4. Append(x, v) \in [1..n+1 -> Identities]
  BY <1>3, LenProperties
<1>5. n + 1 \in 0..MaxExtends
  BY <1>2
<1> QED
  BY <1>4, <1>5 DEF PcrContents

\* One extend of a zero PCR.
LEMMA ExtendZero == \A v : Append(Zero, v) = <<v>>
BY DEF Zero

-----------------------------------------------------------------------------
(***************************************************************************)
(* The invariant.                                                          *)
(***************************************************************************)
\* Two scripts that run overlap.
Exclusive ==
    \A s, t \in Scripts : s # t /\ pc[s] # "idle" /\ pc[t] # "idle" => Overlapped(s)

\* A key whose policy PolicyReproducible is about can be met again.
Reproducible(k) ==
    k.policy # None /\ k.alone /\ (k.policy[1] \in Debug \/ ~k.waived) =>
        k.policy[2] = <<k.identity>>

KeysGood == \A h \in Handles : Occupied(h) => Reproducible(nv[h])

PcrSteps    == {"preparepcr", "extend", "policy", "openpolicy", "savepolicy",
                "openvalue", "savevalue"}
WithKey     == {"persist", "export", "verify"}
WithEk      == {"createkey"} \union WithKey
WithValue   == {"createek"} \union WithEk
WithNumber  == {"openvalue", "savevalue"} \union WithValue
WithDigest  == {"openpolicy", "savepolicy"} \union WithNumber

\* What a run knows of itself: its command line, its digest, its key.
Own(s) ==
    /\ pc[s] \in InitSteps =>
          /\ args[s].handle \in Handles
          /\ args[s].num \in PolicyPcrs \union {None}
          /\ args[s].value \in Identities \union {None}
          /\ args[s].num = None <=> args[s].value = None
    /\ pc[s] \in ClearSteps => args[s].handle \in Handles
    /\ pc[s] \in BootSteps => args[s].num # None /\ args[s].value # None
    /\ pc[s] = "bootreset" => args[s].num \in Debug
    /\ pc[s] = "remove" => args[s].force
    /\ pc[s] \in PcrSteps => args[s].num # None
    /\ digest[s] # None =>
          pc[s] \in WithDigest /\ args[s].num # None /\ digest[s][1] = args[s].num
    /\ pc[s] \in WithKey =>
          /\ blob[s] \in KeyRecord
          /\ blob[s].policy = digest[s] /\ blob[s].identity = args[s].value
          /\ blob[s].maker = "init" /\ Reproducible(blob[s])

\* The run began with a zero PCR, or has made one.
FromZero(s) == args[s].num \in Debug \/ ~args[s].force

\* What a run knows of the TPM and the files as long as it has been alone.
Knows(s) ==
    /\ pc[s] = "extend" /\ FromZero(s) => pcr[args[s].num] = Zero
    /\ pc[s] = "policy" /\ FromZero(s) => pcr[args[s].num] = <<args[s].value>>
    /\ pc[s] \in WithDigest /\ args[s].num # None =>
          /\ digest[s] = <<args[s].num, pcr[args[s].num]>>
          /\ FromZero(s) => pcr[args[s].num] = <<args[s].value>>
    /\ pc[s] \in WithNumber /\ args[s].num # None => policyFile = args[s].num
    /\ pc[s] \in WithValue /\ args[s].num # None => valueFile = args[s].value
    /\ pc[s] \in WithEk => ek
    /\ pc[s] \in {"export", "verify"} => nv[args[s].handle] = blob[s]
    /\ pc[s] = "verify" => pem = nv[args[s].handle].id
    /\ pc[s] = "clearremove" /\ ~args[s].force => LooksOurs(args[s].handle)
    /\ pc[s] \in {"bootreset", "bootextend"} =>
          policyFile = args[s].num /\ valueFile = args[s].value
    /\ pc[s] = "bootextend" /\ args[s].num \in Debug => pcr[args[s].num] = Zero
    /\ /\ pc[s] \in InitSteps \ {"check", "export", "verify"}
       /\ ~args[s].force /\ notes[s] = {}
       => ~Occupied(args[s].handle) \/ nv[args[s].handle].maker = "foreign"

Solo(s) == pc[s] # "idle" /\ ~Overlapped(s) => Knows(s)

IInv ==
    /\ TypeOK
    /\ Exclusive
    /\ KeysGood
    /\ \A s \in Scripts : Own(s) /\ Solo(s)

\* No script runs, there is no key.
LEMMA InitHolds == Init => IInv
<1> SUFFICES ASSUME Init PROVE IInv
  OBVIOUS
<1>1. /\ NoArgs \in ArgRecord
      /\ Zero \in PcrContents
      /\ 0 \in 0..MaxKeys
  BY ZeroTyped, ProvisioningAssumption DEF NoArgs, ArgRecord
<1>2. TypeOK
  BY <1>1 DEF Init, TypeOK, Policies
<1>3. Exclusive /\ KeysGood
  BY DEF Init, Exclusive, KeysGood, Occupied
<1>4. \A s \in Scripts : Own(s) /\ Solo(s)
  BY DEF Init, Own, Solo, InitSteps, ClearSteps, BootSteps, PcrSteps, WithKey
<1> QED
  BY <1>2, <1>3, <1>4 DEF IInv

-----------------------------------------------------------------------------
(***************************************************************************)
(* One script moves.                                                       *)
(***************************************************************************)
\* The others stay where they are.
Frame(s) ==
    \A t \in Scripts : t # s =>
        /\ pc'[t] = pc[t] /\ args'[t] = args[t]
        /\ digest'[t] = digest[t] /\ blob'[t] = blob[t]
        /\ notes[t] \subseteq notes'[t]

\* What a run knows of itself does not depend on the others.
LEMMA OwnKept ==
    ASSUME NEW t \in Scripts, Own(t), pc'[t] = pc[t], args'[t] = args[t],
           digest'[t] = digest[t], blob'[t] = blob[t]
    PROVE  Own(t)'
BY DEF Own

\* A step inside a run: the others that run have been overlapped.
LEMMA Inner ==
    ASSUME IInv, NEW s \in Scripts, pc[s] # "idle", Frame(s),
           pc'[s] = "idle" \/ notes[s] \subseteq notes'[s],
           TypeOK', KeysGood', Own(s)', Solo(s)'
    PROVE  IInv'
<1>1. ASSUME NEW t \in Scripts, t # s
      PROVE  Own(t)' /\ Solo(t)'
  <2>1. Own(t)'
    BY <1>1, OwnKept DEF IInv, Frame
  <2>2. pc[t] # "idle" => Overlapped(t)
    BY <1>1 DEF IInv, Exclusive
  <2>3. pc'[t] # "idle" => Overlapped(t)'
    BY <1>1, <2>2 DEF Frame, Overlapped
  <2> QED
    BY <2>1, <2>3 DEF Solo
<1>2. Exclusive'
  <2> SUFFICES ASSUME NEW t \in Scripts, NEW u \in Scripts, t # u,
                      pc'[t] # "idle", pc'[u] # "idle"
               PROVE  Overlapped(t)'
    BY DEF Exclusive
  <2>1. pc[t] # "idle" /\ pc[u] # "idle"
    BY DEF Frame
  <2>2. Overlapped(t)
    BY <2>1 DEF IInv, Exclusive
  <2> QED
    BY <2>2 DEF Frame, Overlapped
<1> QED
  BY <1>1, <1>2 DEF IInv

\* A script that begins marks those that run, and itself if there are any.
LEMMA Begin ==
    ASSUME IInv, NEW s \in Scripts, pc[s] = "idle", Frame(s),
           Overlap({s}) \/ (Overlap({}) /\ pc'[s] = "idle"),
           TypeOK', KeysGood', Own(s)', Solo(s)'
    PROVE  IInv'
<1>1. ASSUME NEW t \in Scripts, pc[t] # "idle"
      PROVE  Overlapped(t)'
  BY <1>1 DEF Overlap, Overlapped, Running
<1>2. ASSUME NEW t \in Scripts, t # s
      PROVE  Own(t)' /\ Solo(t)'
  <2>1. Own(t)'
    BY <1>2, OwnKept DEF IInv, Frame
  <2> QED
    BY <1>1, <1>2, <2>1 DEF Solo, Frame
<1>3. Exclusive'
  <2> SUFFICES ASSUME NEW t \in Scripts, NEW u \in Scripts, t # u,
                      pc'[t] # "idle", pc'[u] # "idle"
               PROVE  Overlapped(t)'
    BY DEF Exclusive
  <2>1. CASE t # s
    BY <1>1, <2>1 DEF Frame
  <2>2. CASE t = s
    <3>1. pc[u] # "idle" /\ Overlap({s})
      BY <2>2 DEF Frame
    <3> QED
      BY <2>2, <3>1 DEF Overlap, Overlapped, Running
  <2> QED
    BY <2>1, <2>2
<1> QED
  BY <1>2, <1>3 DEF IInv

Labels == {"idle"} \union InitSteps \union ClearSteps \union BootSteps

\* A run goes on: what it and the others know has to be shown again.
LEMMA Continuing ==
    ASSUME TypeOK, NEW s \in Scripts, NEW l \in Labels, Continue(s, l)
    PROVE  /\ pc' \in [Scripts -> Labels] /\ pc'[s] = l
           /\ args' = args /\ digest' = digest /\ blob' = blob /\ notes' = notes
           /\ Frame(s)
BY DEF TypeOK, Labels, Continue, Goto, run, Frame

\* A run ends.
LEMMA Ending ==
    ASSUME IInv, NEW s \in Scripts, pc[s] # "idle", Exit(s), UNCHANGED <<nv, pcr, pem, ek, created>>,
           policyFile' = policyFile, valueFile' \in {valueFile, None}
    PROVE  IInv'
<1>1. NoArgs \in ArgRecord
  BY ProvisioningAssumption DEF NoArgs, ArgRecord
<1>2. Frame(s) /\ pc'[s] = "idle" /\ digest'[s] = None
  BY DEF IInv, TypeOK, Exit, Goto, Frame
<1>3. TypeOK'
  BY <1>1 DEF IInv, TypeOK, Exit, Goto, Policies
<1>4. Own(s)' /\ Solo(s)'
  BY <1>2 DEF Own, Solo, InitSteps, ClearSteps, BootSteps, PcrSteps, WithKey
<1>5. KeysGood'
  BY DEF IInv, KeysGood, Occupied
<1> QED
  BY <1>2, <1>3, <1>4, <1>5, Inner

-----------------------------------------------------------------------------
(***************************************************************************)
(* init.sh                                                                 *)
(***************************************************************************)
\* The sets of steps, for the cases below.
LEMMA Sets ==
    /\ InitSteps = {"check"} \union {"remove", "preparepcr", "extend", "policy"} \union WithDigest
    /\ WithDigest \intersect (ClearSteps \union BootSteps \union {"idle"}) = {}
BY DEF InitSteps, ClearSteps, BootSteps, WithDigest, WithNumber, WithValue, WithEk, WithKey

\* A run of init.sh has its command line and knows nothing yet.
LEMMA StartInitHolds ==
    ASSUME IInv, NEW s \in Scripts, NEW h \in Handles, NEW f \in BOOLEAN,
           NEW n \in PolicyPcrs \union {None}, NEW v \in Identities \union {None},
           StartInit(s, h, f, n, v)
    PROVE  IInv'
<1> DEFINE a == [handle |-> h, force |-> f, num |-> n, value |-> v]
<1>1. /\ pc[s] = "idle" /\ pc'[s] = "check" /\ args'[s] = a
      /\ UNCHANGED <<nv, pcr, pem, ek, policyFile, valueFile, digest, blob, created>>
      /\ Overlap({s}) /\ (n = None <=> v = None)
  BY DEF IInv, TypeOK, StartInit, Goto, tpm, files
<1>2. Frame(s)
  BY DEF IInv, TypeOK, StartInit, Goto, Overlap, Overlapped, Frame, Running
<1>3. a \in ArgRecord
  BY DEF ArgRecord
<1>4. notes' \in [Scripts -> SUBSET {"overlapped", "misread"}]
  BY <1>1 DEF IInv, TypeOK, Overlap
<1>5. TypeOK'
  BY <1>1, <1>3, <1>4 DEF IInv, TypeOK, StartInit, Goto, InitSteps
<1>6. digest[s] = None
  BY <1>1, Sets DEF IInv, Own
<1>7. Own(s)'
  BY <1>1, <1>6 DEF Own, InitSteps, ClearSteps, BootSteps, PcrSteps, WithKey
<1>8. Solo(s)'
  BY <1>1 DEF Solo, Knows, InitSteps, WithDigest, WithNumber, WithValue, WithEk, WithKey
<1>9. KeysGood'
  BY <1>1 DEF IInv, KeysGood, Occupied
<1> QED
  BY <1>1, <1>2, <1>5, <1>7, <1>8, <1>9, Begin

\* The first step: a run without --force goes on only past a free handle, or one
\* it could not read.
LEMMA CheckHolds ==
    ASSUME IInv, NEW s \in Scripts,
           HandleFree(s) \/ OverwriteForced(s) \/ AlreadyProvisioned(s) \/ HandleTaken(s)
    PROVE  IInv'
<1>1. CASE AlreadyProvisioned(s) \/ HandleTaken(s)
  BY <1>1, Ending DEF AlreadyProvisioned, HandleTaken, tpm, files
<1>2. CASE OverwriteForced(s)
  <2>1. /\ pc[s] = "check" /\ args[s].force /\ Continue(s, "remove")
        /\ UNCHANGED <<nv, pcr, pem, ek, policyFile, valueFile, created>>
    BY <1>2 DEF OverwriteForced, tpm, files
  <2>2. "remove" \in Labels
    BY DEF Labels, InitSteps
  <2>3. /\ pc' \in [Scripts -> Labels] /\ pc'[s] = "remove"
        /\ args' = args /\ digest' = digest /\ blob' = blob /\ notes' = notes
        /\ Frame(s)
    BY <2>1, <2>2, Continuing DEF IInv
  <2>4. TypeOK'
    BY <2>1, <2>3 DEF IInv, TypeOK, Labels
  <2>5. Own(s) /\ Solo(s)
    BY DEF IInv
  <2>6. Own(s)'
    BY <2>1, <2>3, <2>5 DEF Own, InitSteps, ClearSteps, BootSteps, PcrSteps, WithDigest,
       WithNumber, WithValue, WithEk, WithKey
  <2>7. Solo(s)'
    BY <2>1, <2>3 DEF Solo, Knows, InitSteps, WithDigest, WithNumber, WithValue, WithEk, WithKey
  <2>8. KeysGood'
    BY <2>1 DEF IInv, KeysGood, Occupied
  <2> QED
    BY <2>1, <2>3, <2>4, <2>6, <2>7, <2>8, Inner
<1>3. CASE HandleFree(s)
  <2>1. /\ pc[s] = "check" /\ pc'[s] = AfterRemoval(s)
        /\ UNCHANGED <<nv, pcr, pem, ek, policyFile, valueFile, args, digest, blob, created>>
        /\ notes'[s] = IF Occupied(args[s].handle) THEN notes[s] \union {"misread"} ELSE notes[s]
    BY <1>3 DEF IInv, TypeOK, HandleFree, Goto, tpm, files
  <2>2. Frame(s)
    BY <1>3 DEF IInv, TypeOK, HandleFree, Goto, Frame
  <2>3. AfterRemoval(s) = IF args[s].num = None THEN "createek" ELSE "preparepcr"
    BY DEF AfterRemoval
  <2>4. notes' \in [Scripts -> SUBSET {"overlapped", "misread"}] /\ pc' \in [Scripts -> Labels]
    BY <1>3, <2>3 DEF IInv, TypeOK, HandleFree, Goto, Labels, InitSteps
  <2>5. TypeOK'
    BY <2>1, <2>4 DEF IInv, TypeOK, Labels
  <2>6. Own(s) /\ Solo(s)
    BY DEF IInv
  <2>7. Own(s)'
    BY <2>1, <2>3, <2>6 DEF Own, InitSteps, ClearSteps, BootSteps, PcrSteps, WithDigest,
       WithNumber, WithValue, WithEk, WithKey
  <2>8. Solo(s)'
    BY <2>1, <2>3 DEF Solo, Knows, Occupied, InitSteps, WithDigest, WithNumber, WithValue, WithEk, WithKey
  <2>9. KeysGood'
    BY <2>1 DEF IInv, KeysGood, Occupied
  <2> QED
    BY <2>1, <2>2, <2>5, <2>7, <2>8, <2>9, Inner
<1> QED
  BY <1>1, <1>2, <1>3

\* Only a run with --force comes here.
LEMMA RemoveKeyHolds ==
    ASSUME IInv, NEW s \in Scripts, RemoveKey(s)
    PROVE  IInv'
<1>1. /\ pc[s] = "remove" /\ Continue(s, AfterRemoval(s))
      /\ UNCHANGED <<pcr, pem, ek, policyFile, valueFile, created>>
      /\ nv' = [nv EXCEPT ![args[s].handle] = None]
  BY DEF IInv, TypeOK, RemoveKey, tpm, files
<1>2. AfterRemoval(s) \in Labels
  BY DEF Labels, InitSteps, ClearSteps, BootSteps, AfterRemoval
<1>3. /\ pc' \in [Scripts -> Labels] /\ pc'[s] = AfterRemoval(s)
      /\ args' = args /\ digest' = digest /\ blob' = blob /\ notes' = notes
      /\ Frame(s)
  BY <1>1, <1>2, Continuing DEF IInv
<1>4. Own(s) /\ Solo(s)
  BY DEF IInv
<1>5. TypeOK'
  BY <1>1, <1>3 DEF IInv, TypeOK, Labels
<1>6. Own(s)'
  BY <1>1, <1>3, <1>4 DEF Own, InitSteps, ClearSteps, BootSteps, PcrSteps, WithDigest,
     WithNumber, WithValue, WithEk, WithKey, AfterRemoval
<1>7. Solo(s)'
  BY <1>1, <1>3, <1>4 DEF Solo, Knows, Own, FromZero, Overlapped, Occupied, LooksOurs,
     InitSteps, WithDigest, WithNumber, WithValue, WithEk, WithKey, AfterRemoval, TypeOK, IInv
<1>8. KeysGood'
  BY <1>1, <1>4 DEF IInv, KeysGood, Occupied, TypeOK
<1> QED
  BY <1>1, <1>3, <1>5, <1>6, <1>7, <1>8, Inner

\* Past the check the PCR is zero, or --force was given.
LEMMA PreparePcrHolds ==
    ASSUME IInv, NEW s \in Scripts, PreparePcr(s)
    PROVE  IInv'
<1>1. /\ pc[s] = "preparepcr" /\ Continue(s, "extend")
      /\ UNCHANGED <<nv, pem, ek, policyFile, valueFile, created>>
      /\ \/ args[s].num \in Debug /\ pcr' = [pcr EXCEPT ![args[s].num] = Zero]
         \/ args[s].num \in Locked /\ UNCHANGED pcr /\ (pcr[args[s].num] = Zero \/ args[s].force)
      /\ args[s].num \in PolicyPcrs
  BY DEF IInv, TypeOK, PreparePcr, tpm, files, ResetPcr, PcrIsZero, PolicyPcrs
<1>2. "extend" \in Labels
  BY DEF Labels, InitSteps, ClearSteps, BootSteps
<1>3. /\ pc' \in [Scripts -> Labels] /\ pc'[s] = "extend"
      /\ args' = args /\ digest' = digest /\ blob' = blob /\ notes' = notes
      /\ Frame(s)
  BY <1>1, <1>2, Continuing DEF IInv
<1>4. Own(s) /\ Solo(s)
  BY DEF IInv
<1>5. TypeOK'
  BY <1>1, <1>3, ZeroTyped DEF IInv, TypeOK, Labels
<1>6. Own(s)'
  BY <1>1, <1>3, <1>4 DEF Own, InitSteps, ClearSteps, BootSteps, PcrSteps, WithDigest,
     WithNumber, WithValue, WithEk, WithKey
<1>7. Solo(s)'
  <2>1. FromZero(s) => pcr'[args[s].num] = Zero
    BY <1>1, ProvisioningAssumption DEF IInv, TypeOK, FromZero
  <2> QED
    BY <1>1, <1>3, <1>4, <2>1 DEF Solo, Knows, FromZero, Overlapped, Occupied,
       InitSteps, WithDigest, WithNumber, WithValue, WithEk, WithKey
<1>8. KeysGood'
  BY <1>1 DEF IInv, KeysGood, Occupied
<1> QED
  BY <1>1, <1>3, <1>5, <1>6, <1>7, <1>8, Inner

\* The policy of a run that found zero is one extend.
LEMMA ExtendIdentityHolds ==
    ASSUME IInv, NEW s \in Scripts, ExtendIdentity(s)
    PROVE  IInv'
<1>1. /\ pc[s] = "extend" /\ Continue(s, "policy")
      /\ UNCHANGED <<nv, pem, ek, policyFile, valueFile, created>>
      /\ Len(pcr[args[s].num]) < MaxExtends
      /\ pcr' = [pcr EXCEPT ![args[s].num] = Append(pcr[args[s].num], args[s].value)]
  BY DEF IInv, TypeOK, ExtendIdentity, tpm, files, ExtendPcr
<1>2. "policy" \in Labels
  BY DEF Labels, InitSteps, ClearSteps, BootSteps
<1>3. /\ pc' \in [Scripts -> Labels] /\ pc'[s] = "policy"
      /\ args' = args /\ digest' = digest /\ blob' = blob /\ notes' = notes
      /\ Frame(s)
  BY <1>1, <1>2, Continuing DEF IInv
<1>4. Own(s) /\ Solo(s)
  BY DEF IInv
<1>5. TypeOK'
  <2>1. args[s].num \in PolicyPcrs /\ args[s].value \in Identities /\ pcr[args[s].num] \in PcrContents
    BY <1>1, <1>4 DEF IInv, TypeOK, Own, InitSteps, PcrSteps
  <2>2. Append(pcr[args[s].num], args[s].value) \in PcrContents
    BY <1>1, <2>1, ExtendTyped
  <2> QED
    BY <1>1, <1>3, <2>2 DEF IInv, TypeOK, Labels
<1>6. Own(s)'
  BY <1>1, <1>3, <1>4 DEF Own, InitSteps, ClearSteps, BootSteps, PcrSteps, WithDigest,
     WithNumber, WithValue, WithEk, WithKey
<1>7. Solo(s)'
  <2>1. args[s].num \in PolicyPcrs
    BY <1>1, <1>4 DEF Own, InitSteps, PcrSteps
  <2>2. pcr'[args[s].num] = Append(pcr[args[s].num], args[s].value)
    BY <1>1, <2>1 DEF IInv, TypeOK
  <2>3. ~Overlapped(s) /\ FromZero(s) => pcr'[args[s].num] = <<args[s].value>>
    BY <1>1, <1>4, <2>2, ExtendZero DEF Solo, Knows
  <2> QED
    BY <1>1, <1>3, <1>4, <2>3 DEF Solo, Knows, FromZero, Overlapped, Occupied,
       InitSteps, WithDigest, WithNumber, WithValue, WithEk, WithKey
<1>8. KeysGood'
  BY <1>1 DEF IInv, KeysGood, Occupied
<1> QED
  BY <1>1, <1>3, <1>5, <1>6, <1>7, <1>8, Inner

\* The digest is of the PCR as it is now.
LEMMA CreatePolicyHolds ==
    ASSUME IInv, NEW s \in Scripts, CreatePolicy(s)
    PROVE  IInv'
<1> DEFINE d == <<args[s].num, pcr[args[s].num]>>
<1>1. /\ pc[s] = "policy" /\ pc' = [pc EXCEPT ![s] = "openpolicy"]
      /\ digest' = [digest EXCEPT ![s] = d]
      /\ UNCHANGED <<nv, pcr, pem, ek, policyFile, valueFile, args, blob, notes, created>>
  BY DEF CreatePolicy, Goto, tpm, files
<1>2. Own(s) /\ Solo(s)
  BY DEF IInv
<1>3. args[s].num \in PolicyPcrs /\ pcr[args[s].num] \in PcrContents
  BY <1>1, <1>2 DEF IInv, TypeOK, Own, InitSteps, PcrSteps
<1>4. d \in Policies /\ d # None /\ d[1] = args[s].num
  BY <1>3, ProvisioningAssumption DEF Policies
<1>5. Frame(s) /\ pc'[s] = "openpolicy" /\ digest'[s] = d
  BY <1>1 DEF IInv, TypeOK, Frame
<1>6. TypeOK'
  BY <1>1, <1>4 DEF IInv, TypeOK, InitSteps
<1> HIDE DEF d
<1>7. Own(s)'
  BY <1>1, <1>2, <1>3, <1>4, <1>5, ProvisioningAssumption DEF Own, InitSteps, ClearSteps, BootSteps, PcrSteps,
     WithDigest, WithNumber, WithValue, WithEk, WithKey
<1>8. Solo(s)'
  BY <1>1, <1>2, <1>5 DEF d, Solo, Knows, FromZero, Overlapped, Occupied,
     InitSteps, WithDigest, WithNumber, WithValue, WithEk, WithKey
<1>9. KeysGood'
  BY <1>1 DEF IInv, KeysGood, Occupied
<1> QED
  BY <1>1, <1>5, <1>6, <1>7, <1>8, <1>9, Inner

\* The four steps that write the two files.
LEMMA OpenPolicyFileHolds ==
    ASSUME IInv, NEW s \in Scripts, OpenPolicyFile(s)
    PROVE  IInv'
<1>1. /\ pc[s] = "openpolicy" /\ Continue(s, "savepolicy")
      /\ UNCHANGED <<nv, pcr, pem, ek, valueFile, created>>
      /\ policyFile' = Empty
  BY DEF IInv, TypeOK, OpenPolicyFile, tpm, files
<1>2. "savepolicy" \in Labels
  BY DEF Labels, InitSteps, ClearSteps, BootSteps
<1>3. /\ pc' \in [Scripts -> Labels] /\ pc'[s] = "savepolicy"
      /\ args' = args /\ digest' = digest /\ blob' = blob /\ notes' = notes
      /\ Frame(s)
  BY <1>1, <1>2, Continuing DEF IInv
<1>4. Own(s) /\ Solo(s)
  BY DEF IInv
<1>5. TypeOK'
  BY <1>1, <1>3 DEF IInv, TypeOK, Labels
<1>6. Own(s)'
  BY <1>1, <1>3, <1>4 DEF Own, InitSteps, ClearSteps, BootSteps, PcrSteps, WithDigest,
     WithNumber, WithValue, WithEk, WithKey
<1>7. Solo(s)'
  BY <1>1, <1>3, <1>4 DEF Solo, Knows, Own, FromZero, Overlapped, Occupied, LooksOurs,
     InitSteps, WithDigest, WithNumber, WithValue, WithEk, WithKey
<1>8. KeysGood'
  BY <1>1 DEF IInv, KeysGood, Occupied
<1> QED
  BY <1>1, <1>3, <1>5, <1>6, <1>7, <1>8, Inner

\* pcr_policy.
LEMMA SavePolicyFileHolds ==
    ASSUME IInv, NEW s \in Scripts, SavePolicyFile(s)
    PROVE  IInv'
<1>1. /\ pc[s] = "savepolicy" /\ Continue(s, "openvalue")
      /\ UNCHANGED <<nv, pcr, pem, ek, valueFile, created>>
      /\ policyFile' = args[s].num
  BY DEF IInv, TypeOK, SavePolicyFile, tpm, files
<1>2. "openvalue" \in Labels
  BY DEF Labels, InitSteps, ClearSteps, BootSteps
<1>3. /\ pc' \in [Scripts -> Labels] /\ pc'[s] = "openvalue"
      /\ args' = args /\ digest' = digest /\ blob' = blob /\ notes' = notes
      /\ Frame(s)
  BY <1>1, <1>2, Continuing DEF IInv
<1>4. Own(s) /\ Solo(s)
  BY DEF IInv
<1>5. TypeOK'
  <2>1. args[s].num \in PolicyPcrs
    BY <1>1, <1>4 DEF Own, InitSteps, PcrSteps
  <2> QED
    BY <1>1, <1>3, <2>1 DEF IInv, TypeOK, Labels
<1>6. Own(s)'
  BY <1>1, <1>3, <1>4 DEF Own, InitSteps, ClearSteps, BootSteps, PcrSteps, WithDigest,
     WithNumber, WithValue, WithEk, WithKey
<1>7. Solo(s)'
  BY <1>1, <1>3, <1>4 DEF Solo, Knows, Own, FromZero, Overlapped, Occupied, LooksOurs,
     InitSteps, WithDigest, WithNumber, WithValue, WithEk, WithKey
<1>8. KeysGood'
  BY <1>1 DEF IInv, KeysGood, Occupied
<1> QED
  BY <1>1, <1>3, <1>5, <1>6, <1>7, <1>8, Inner

\* pcr_value is truncated.
LEMMA OpenValueFileHolds ==
    ASSUME IInv, NEW s \in Scripts, OpenValueFile(s)
    PROVE  IInv'
<1>1. /\ pc[s] = "openvalue" /\ Continue(s, "savevalue")
      /\ UNCHANGED <<nv, pcr, pem, ek, policyFile, created>>
      /\ valueFile' = Empty
  BY DEF IInv, TypeOK, OpenValueFile, tpm, files
<1>2. "savevalue" \in Labels
  BY DEF Labels, InitSteps, ClearSteps, BootSteps
<1>3. /\ pc' \in [Scripts -> Labels] /\ pc'[s] = "savevalue"
      /\ args' = args /\ digest' = digest /\ blob' = blob /\ notes' = notes
      /\ Frame(s)
  BY <1>1, <1>2, Continuing DEF IInv
<1>4. Own(s) /\ Solo(s)
  BY DEF IInv
<1>5. TypeOK'
  BY <1>1, <1>3 DEF IInv, TypeOK, Labels
<1>6. Own(s)'
  BY <1>1, <1>3, <1>4 DEF Own, InitSteps, ClearSteps, BootSteps, PcrSteps, WithDigest,
     WithNumber, WithValue, WithEk, WithKey
<1>7. Solo(s)'
  BY <1>1, <1>3, <1>4 DEF Solo, Knows, Own, FromZero, Overlapped, Occupied, LooksOurs,
     InitSteps, WithDigest, WithNumber, WithValue, WithEk, WithKey
<1>8. KeysGood'
  BY <1>1 DEF IInv, KeysGood, Occupied
<1> QED
  BY <1>1, <1>3, <1>5, <1>6, <1>7, <1>8, Inner

\* pcr_value.
LEMMA SaveValueFileHolds ==
    ASSUME IInv, NEW s \in Scripts, SaveValueFile(s)
    PROVE  IInv'
<1>1. /\ pc[s] = "savevalue" /\ Continue(s, "createek")
      /\ UNCHANGED <<nv, pcr, pem, ek, policyFile, created>>
      /\ valueFile' = args[s].value
  BY DEF IInv, TypeOK, SaveValueFile, tpm, files
<1>2. "createek" \in Labels
  BY DEF Labels, InitSteps, ClearSteps, BootSteps
<1>3. /\ pc' \in [Scripts -> Labels] /\ pc'[s] = "createek"
      /\ args' = args /\ digest' = digest /\ blob' = blob /\ notes' = notes
      /\ Frame(s)
  BY <1>1, <1>2, Continuing DEF IInv
<1>4. Own(s) /\ Solo(s)
  BY DEF IInv
<1>5. TypeOK'
  <2>1. args[s].value \in Identities
    BY <1>1, <1>4 DEF Own, InitSteps, PcrSteps
  <2> QED
    BY <1>1, <1>3, <2>1 DEF IInv, TypeOK, Labels
<1>6. Own(s)'
  BY <1>1, <1>3, <1>4 DEF Own, InitSteps, ClearSteps, BootSteps, PcrSteps, WithDigest,
     WithNumber, WithValue, WithEk, WithKey
<1>7. Solo(s)'
  BY <1>1, <1>3, <1>4 DEF Solo, Knows, Own, FromZero, Overlapped, Occupied, LooksOurs,
     InitSteps, WithDigest, WithNumber, WithValue, WithEk, WithKey
<1>8. KeysGood'
  BY <1>1 DEF IInv, KeysGood, Occupied
<1> QED
  BY <1>1, <1>3, <1>5, <1>6, <1>7, <1>8, Inner

\* The endorsement key files.
LEMMA CreateEkHolds ==
    ASSUME IInv, NEW s \in Scripts, CreateEk(s)
    PROVE  IInv'
<1>1. /\ pc[s] = "createek" /\ Continue(s, "createkey")
      /\ UNCHANGED <<nv, pcr, pem, policyFile, valueFile, created>>
      /\ ek' = TRUE
  BY DEF IInv, TypeOK, CreateEk, tpm, files
<1>2. "createkey" \in Labels
  BY DEF Labels, InitSteps, ClearSteps, BootSteps
<1>3. /\ pc' \in [Scripts -> Labels] /\ pc'[s] = "createkey"
      /\ args' = args /\ digest' = digest /\ blob' = blob /\ notes' = notes
      /\ Frame(s)
  BY <1>1, <1>2, Continuing DEF IInv
<1>4. Own(s) /\ Solo(s)
  BY DEF IInv
<1>5. TypeOK'
  BY <1>1, <1>3 DEF IInv, TypeOK, Labels
<1>6. Own(s)'
  BY <1>1, <1>3, <1>4 DEF Own, InitSteps, ClearSteps, BootSteps, PcrSteps, WithDigest,
     WithNumber, WithValue, WithEk, WithKey
<1>7. Solo(s)'
  BY <1>1, <1>3, <1>4 DEF Solo, Knows, Own, FromZero, Overlapped, Occupied, LooksOurs,
     InitSteps, WithDigest, WithNumber, WithValue, WithEk, WithKey
<1>8. KeysGood'
  BY <1>1 DEF IInv, KeysGood, Occupied
<1> QED
  BY <1>1, <1>3, <1>5, <1>6, <1>7, <1>8, Inner

\* The new key can be met again if the run was alone and began with a zero PCR.
LEMMA CreateRsaKeyHolds ==
    ASSUME IInv, NEW s \in Scripts, CreateRsaKey(s)
    PROVE  IInv'
<1> DEFINE k == [id |-> created + 1, policy |-> digest[s], profile |-> "vault",
                 maker |-> "init", waived |-> args[s].force /\ args[s].num \in Locked,
                 alone |-> ~Overlapped(s), identity |-> args[s].value]
<1>1. /\ pc[s] = "createkey" /\ pc' = [pc EXCEPT ![s] = "persist"]
      /\ blob' = [blob EXCEPT ![s] = k]
      /\ created < MaxKeys /\ created' = created + 1
      /\ UNCHANGED <<nv, pcr, pem, ek, policyFile, valueFile, args, digest, notes>>
  BY DEF CreateRsaKey, Goto, tpm, files
<1>2. Own(s) /\ Solo(s)
  BY DEF IInv
<1>3. created + 1 \in 1..MaxKeys
  BY <1>1, ProvisioningAssumption DEF IInv, TypeOK
<1>4. /\ digest[s] \in Policies /\ args[s].force \in BOOLEAN
      /\ args[s].value \in Identities \union {None}
  BY <1>1, <1>2 DEF IInv, TypeOK, ArgRecord, Own, InitSteps
<1>5. k \in KeyRecord
  BY <1>3, <1>4 DEF KeyRecord
<1>6. /\ k.policy = digest[s] /\ k.identity = args[s].value /\ k.maker = "init"
      /\ k.alone = ~Overlapped(s) /\ k.waived = (args[s].force /\ args[s].num \in Locked)
  OBVIOUS
<1>7. TypeOK'
  BY <1>1, <1>3, <1>5 DEF IInv, TypeOK, InitSteps
<1> HIDE DEF k
<1>8. Frame(s) /\ pc'[s] = "persist" /\ blob'[s] = k
  BY <1>1 DEF IInv, TypeOK, Frame
<1>9. Reproducible(k)
  <2> SUFFICES ASSUME digest[s] # None, ~Overlapped(s),
                      digest[s][1] \in Debug \/ ~(args[s].force /\ args[s].num \in Locked)
               PROVE  digest[s][2] = <<args[s].value>>
    BY <1>6 DEF Reproducible
  <2>1. args[s].num # None /\ digest[s][1] = args[s].num
    BY <1>2 DEF Own
  <2>2. args[s].num \in Debug \/ args[s].num \in Locked
    BY <1>1, <1>2, <2>1 DEF Own, InitSteps, PolicyPcrs
  <2>3. FromZero(s) /\ digest[s] = <<args[s].num, pcr[args[s].num]>> /\ pcr[args[s].num] = <<args[s].value>>
    BY <1>1, <1>2, <2>1, <2>2 DEF Solo, Knows, FromZero, WithDigest, WithNumber, WithValue, WithEk
  <2> QED
    BY <2>3
<1>10. Own(s)'
  BY <1>1, <1>2, <1>5, <1>6, <1>8, <1>9 DEF Own, Reproducible, InitSteps, ClearSteps, BootSteps, PcrSteps,
     WithDigest, WithNumber, WithValue, WithEk, WithKey
<1>11. Solo(s)'
  BY <1>1, <1>2, <1>8 DEF Solo, Knows, FromZero, Overlapped, Occupied,
     InitSteps, WithDigest, WithNumber, WithValue, WithEk, WithKey
<1>12. KeysGood'
  BY <1>1 DEF IInv, KeysGood, Occupied
<1> QED
  BY <1>1, <1>7, <1>8, <1>10, <1>11, <1>12, Inner

\* The key of the run is at its handle.
LEMMA PersistKeyHolds ==
    ASSUME IInv, NEW s \in Scripts, PersistKey(s)
    PROVE  IInv'
<1>1. /\ pc[s] = "persist" /\ Continue(s, "export")
      /\ UNCHANGED <<pcr, pem, ek, policyFile, valueFile, created>>
      /\ nv' = [nv EXCEPT ![args[s].handle] = blob[s]]
  BY DEF IInv, TypeOK, PersistKey, tpm, files
<1>2. "export" \in Labels
  BY DEF Labels, InitSteps, ClearSteps, BootSteps
<1>3. /\ pc' \in [Scripts -> Labels] /\ pc'[s] = "export"
      /\ args' = args /\ digest' = digest /\ blob' = blob /\ notes' = notes
      /\ Frame(s)
  BY <1>1, <1>2, Continuing DEF IInv
<1>4. Own(s) /\ Solo(s)
  BY DEF IInv
<1>5. TypeOK'
  BY <1>1, <1>3, <1>4 DEF IInv, TypeOK, Labels, Own, WithKey
<1>6. Own(s)'
  BY <1>1, <1>3, <1>4 DEF Own, InitSteps, ClearSteps, BootSteps, PcrSteps, WithDigest,
     WithNumber, WithValue, WithEk, WithKey
<1>7. Solo(s)'
  <2>1. nv'[args[s].handle] = blob[s]
    BY <1>1, <1>4 DEF IInv, TypeOK, Own, InitSteps
  <2> QED
    BY <1>1, <1>3, <1>4, <2>1 DEF Solo, Knows, FromZero, Overlapped, Occupied,
       InitSteps, WithDigest, WithNumber, WithValue, WithEk, WithKey
<1>8. KeysGood'
  BY <1>1, <1>4 DEF IInv, TypeOK, KeysGood, Occupied, Own, WithKey
<1> QED
  BY <1>1, <1>3, <1>5, <1>6, <1>7, <1>8, Inner

\* And its public half in the file.
LEMMA ExportPublicKeyHolds ==
    ASSUME IInv, NEW s \in Scripts, ExportPublicKey(s)
    PROVE  IInv'
<1>1. /\ pc[s] = "export" /\ Continue(s, "verify")
      /\ UNCHANGED <<nv, pcr, ek, policyFile, valueFile, created>>
      /\ Occupied(args[s].handle) /\ pem' = nv[args[s].handle].id
  BY DEF IInv, TypeOK, ExportPublicKey, tpm, files
<1>2. "verify" \in Labels
  BY DEF Labels, InitSteps, ClearSteps, BootSteps
<1>3. /\ pc' \in [Scripts -> Labels] /\ pc'[s] = "verify"
      /\ args' = args /\ digest' = digest /\ blob' = blob /\ notes' = notes
      /\ Frame(s)
  BY <1>1, <1>2, Continuing DEF IInv
<1>4. Own(s) /\ Solo(s)
  BY DEF IInv
<1>5. TypeOK'
  <2>1. nv[args[s].handle] \in KeyRecord
    BY <1>1, <1>4 DEF IInv, TypeOK, Occupied, Own, InitSteps
  <2>2. pem' \in 0..MaxKeys
    BY <1>1, <2>1, ProvisioningAssumption DEF KeyRecord
  <2> QED
    BY <1>1, <1>3, <2>2 DEF IInv, TypeOK, Labels
<1>6. Own(s)'
  BY <1>1, <1>3, <1>4 DEF Own, InitSteps, ClearSteps, BootSteps, PcrSteps, WithDigest,
     WithNumber, WithValue, WithEk, WithKey
<1>7. Solo(s)'
  BY <1>1, <1>3, <1>4 DEF Solo, Knows, Own, FromZero, Overlapped, Occupied, LooksOurs,
     InitSteps, WithDigest, WithNumber, WithValue, WithEk, WithKey, TypeOK
<1>8. KeysGood'
  BY <1>1 DEF IInv, KeysGood, Occupied
<1> QED
  BY <1>1, <1>3, <1>5, <1>6, <1>7, <1>8, Inner

-----------------------------------------------------------------------------
(***************************************************************************)
(* clear.sh                                                                *)
(***************************************************************************)
LEMMA StartClearHolds ==
    ASSUME IInv, NEW s \in Scripts, NEW h \in Handles, NEW f \in BOOLEAN, StartClear(s, h, f)
    PROVE  IInv'
<1> DEFINE a == [NoArgs EXCEPT !.handle = h, !.force = f]
<1>1. /\ pc[s] = "idle" /\ pc'[s] = "clearcheck" /\ args'[s] = a
      /\ UNCHANGED <<nv, pcr, pem, ek, policyFile, valueFile, digest, blob, created>>
      /\ Overlap({s})
  BY DEF IInv, TypeOK, StartClear, Goto, tpm, files
<1>2. Frame(s)
  BY DEF IInv, TypeOK, StartClear, Goto, Overlap, Overlapped, Frame, Running
<1>3. a \in ArgRecord /\ a.handle = h
  BY DEF ArgRecord, NoArgs
<1>4. notes' \in [Scripts -> SUBSET {"overlapped", "misread"}]
  BY <1>1 DEF IInv, TypeOK, Overlap
<1>5. TypeOK'
  BY <1>1, <1>3, <1>4 DEF IInv, TypeOK, StartClear, Goto, ClearSteps
<1>6. digest[s] = None
  BY <1>1, Sets DEF IInv, Own
<1>7. Own(s)'
  BY <1>1, <1>3, <1>6 DEF Own, InitSteps, ClearSteps, BootSteps, PcrSteps, WithKey
<1>8. Solo(s)'
  BY <1>1 DEF Solo, Knows, InitSteps, WithDigest, WithNumber, WithValue, WithEk, WithKey
<1>9. KeysGood'
  BY <1>1 DEF IInv, KeysGood, Occupied
<1> QED
  BY <1>1, <1>2, <1>5, <1>7, <1>8, <1>9, Begin

\* What an unforced run is about to remove looks like one of our keys.
LEMMA ClearCheckHolds ==
    ASSUME IInv, NEW s \in Scripts, ClearCheck(s)
    PROVE  IInv'
<1>1. pc[s] = "clearcheck" /\ UNCHANGED <<nv, pcr, pem, ek, policyFile, valueFile, created>>
  BY DEF ClearCheck, tpm, files
<1>2. CASE Exit(s)
  BY <1>1, <1>2, Ending
<1>3. CASE /\ Occupied(args[s].handle) /\ (args[s].force \/ LooksOurs(args[s].handle))
           /\ Continue(s, "clearremove")
  <2>1. "clearremove" \in Labels
    BY DEF Labels, ClearSteps
  <2>2. /\ pc' \in [Scripts -> Labels] /\ pc'[s] = "clearremove"
        /\ args' = args /\ digest' = digest /\ blob' = blob /\ notes' = notes
        /\ Frame(s)
    BY <1>3, <2>1, Continuing DEF IInv
  <2>3. Own(s)
    BY DEF IInv
  <2>4. TypeOK'
    BY <1>1, <2>2 DEF IInv, TypeOK, Labels
  <2>5. Own(s)'
    BY <1>1, <2>2, <2>3 DEF Own, InitSteps, ClearSteps, BootSteps, PcrSteps, WithDigest,
       WithNumber, WithValue, WithEk, WithKey
  <2>6. Solo(s)'
    BY <1>1, <1>3, <2>2 DEF Solo, Knows, LooksOurs, Occupied, InitSteps, WithDigest,
       WithNumber, WithValue, WithEk, WithKey
  <2>7. KeysGood'
    BY <1>1 DEF IInv, KeysGood, Occupied
  <2> QED
    BY <1>1, <2>2, <2>4, <2>5, <2>6, <2>7, Inner
<1> QED
  BY <1>2, <1>3 DEF ClearCheck

\* The key is removed, then the files.
LEMMA ClearRemoveHolds ==
    ASSUME IInv, NEW s \in Scripts, ClearRemove(s)
    PROVE  IInv'
<1>1. /\ pc[s] = "clearremove" /\ Continue(s, "rmpem")
      /\ UNCHANGED <<pcr, pem, ek, policyFile, valueFile, created>>
      /\ nv' = [nv EXCEPT ![args[s].handle] = None]
  BY DEF IInv, TypeOK, ClearRemove, tpm, files
<1>2. "rmpem" \in Labels
  BY DEF Labels, InitSteps, ClearSteps, BootSteps
<1>3. /\ pc' \in [Scripts -> Labels] /\ pc'[s] = "rmpem"
      /\ args' = args /\ digest' = digest /\ blob' = blob /\ notes' = notes
      /\ Frame(s)
  BY <1>1, <1>2, Continuing DEF IInv
<1>4. Own(s) /\ Solo(s)
  BY DEF IInv
<1>5. TypeOK'
  BY <1>1, <1>3 DEF IInv, TypeOK, Labels
<1>6. Own(s)'
  BY <1>1, <1>3, <1>4 DEF Own, InitSteps, ClearSteps, BootSteps, PcrSteps, WithDigest,
     WithNumber, WithValue, WithEk, WithKey
<1>7. Solo(s)'
  BY <1>1, <1>3, <1>4 DEF Solo, Knows, Own, FromZero, Overlapped, Occupied, LooksOurs,
     InitSteps, WithDigest, WithNumber, WithValue, WithEk, WithKey
<1>8. KeysGood'
  BY <1>1, <1>4 DEF IInv, KeysGood, Occupied, TypeOK
<1> QED
  BY <1>1, <1>3, <1>5, <1>6, <1>7, <1>8, Inner

\* What clear.sh does to the files is no other run's business if it is alone.
LEMMA RemoveFilesHolds ==
    ASSUME IInv, NEW s \in Scripts, RemoveFiles(s)
    PROVE  IInv'
<1>0. Own(s)
  BY DEF IInv
<1>1. CASE /\ pc[s] = "rmpem" /\ pem' = 0 /\ Continue(s, "rmek")
           /\ UNCHANGED <<tpm, ek, policyFile, valueFile, created>>
  <2>1. /\ pem' = 0 /\ Continue(s, "rmek")
        /\ UNCHANGED <<nv, pcr, ek, policyFile, valueFile, created>>
    BY <1>1 DEF tpm
  <2>2. "rmek" \in Labels
    BY DEF Labels, ClearSteps
  <2>3. /\ pc' \in [Scripts -> Labels] /\ pc'[s] = "rmek"
        /\ args' = args /\ digest' = digest /\ blob' = blob /\ notes' = notes
        /\ Frame(s)
    BY <2>1, <2>2, Continuing DEF IInv
  <2>4. TypeOK'
    BY <2>1, <2>3, ProvisioningAssumption DEF IInv, TypeOK, Labels
  <2>5. Own(s)'
    BY <1>1, <1>0, <2>3 DEF Own, InitSteps, ClearSteps, BootSteps, PcrSteps, WithDigest,
       WithNumber, WithValue, WithEk, WithKey
  <2>6. Solo(s)'
    BY <2>3 DEF Solo, Knows, InitSteps, WithDigest, WithNumber, WithValue, WithEk, WithKey
  <2>7. KeysGood'
    BY <2>1 DEF IInv, KeysGood, Occupied
  <2> QED
    BY <1>1, <2>3, <2>4, <2>5, <2>6, <2>7, Inner
<1>2. CASE /\ pc[s] = "rmek" /\ ek' = FALSE /\ Continue(s, "rmpolicy")
           /\ UNCHANGED <<tpm, pem, policyFile, valueFile, created>>
  <2>1. /\ ek' = FALSE /\ Continue(s, "rmpolicy")
        /\ UNCHANGED <<nv, pcr, pem, policyFile, valueFile, created>>
    BY <1>2 DEF tpm
  <2>2. "rmpolicy" \in Labels
    BY DEF Labels, ClearSteps
  <2>3. /\ pc' \in [Scripts -> Labels] /\ pc'[s] = "rmpolicy"
        /\ args' = args /\ digest' = digest /\ blob' = blob /\ notes' = notes
        /\ Frame(s)
    BY <2>1, <2>2, Continuing DEF IInv
  <2>4. TypeOK'
    BY <2>1, <2>3, ProvisioningAssumption DEF IInv, TypeOK, Labels
  <2>5. Own(s)'
    BY <1>2, <1>0, <2>3 DEF Own, InitSteps, ClearSteps, BootSteps, PcrSteps, WithDigest,
       WithNumber, WithValue, WithEk, WithKey
  <2>6. Solo(s)'
    BY <2>3 DEF Solo, Knows, InitSteps, WithDigest, WithNumber, WithValue, WithEk, WithKey
  <2>7. KeysGood'
    BY <2>1 DEF IInv, KeysGood, Occupied
  <2> QED
    BY <1>2, <2>3, <2>4, <2>5, <2>6, <2>7, Inner
<1>3. CASE /\ pc[s] = "rmpolicy" /\ policyFile' = None /\ Continue(s, "rmvalue")
           /\ UNCHANGED <<tpm, pem, ek, valueFile, created>>
  <2>1. /\ policyFile' = None /\ Continue(s, "rmvalue")
        /\ UNCHANGED <<nv, pcr, pem, ek, valueFile, created>>
    BY <1>3 DEF tpm
  <2>2. "rmvalue" \in Labels
    BY DEF Labels, ClearSteps
  <2>3. /\ pc' \in [Scripts -> Labels] /\ pc'[s] = "rmvalue"
        /\ args' = args /\ digest' = digest /\ blob' = blob /\ notes' = notes
        /\ Frame(s)
    BY <2>1, <2>2, Continuing DEF IInv
  <2>4. TypeOK'
    BY <2>1, <2>3, ProvisioningAssumption DEF IInv, TypeOK, Labels
  <2>5. Own(s)'
    BY <1>3, <1>0, <2>3 DEF Own, InitSteps, ClearSteps, BootSteps, PcrSteps, WithDigest,
       WithNumber, WithValue, WithEk, WithKey
  <2>6. Solo(s)'
    BY <2>3 DEF Solo, Knows, InitSteps, WithDigest, WithNumber, WithValue, WithEk, WithKey
  <2>7. KeysGood'
    BY <2>1 DEF IInv, KeysGood, Occupied
  <2> QED
    BY <1>3, <2>3, <2>4, <2>5, <2>6, <2>7, Inner
<1>4. CASE /\ pc[s] = "rmvalue" /\ valueFile' = None /\ Exit(s)
           /\ UNCHANGED <<tpm, pem, ek, policyFile, created>>
  BY <1>4, Ending DEF tpm
<1> QED
  BY <1>1, <1>2, <1>3, <1>4 DEF RemoveFiles

-----------------------------------------------------------------------------
(***************************************************************************)
(* pcr.sh                                                                  *)
(***************************************************************************)
\* cmd_boot has read both files.
LEMMA StartBootHolds ==
    ASSUME IInv, NEW s \in Scripts, StartBoot(s)
    PROVE  IInv'
<1> DEFINE a == [NoArgs EXCEPT !.num = policyFile, !.value = valueFile]
           l == IF policyFile \in Debug THEN "bootreset" ELSE "bootextend"
<1>1. /\ pc[s] = "idle" /\ policyFile # None /\ valueFile # None
      /\ pc' = [pc EXCEPT ![s] = l] /\ args' = [args EXCEPT ![s] = a]
      /\ UNCHANGED <<nv, pcr, pem, ek, policyFile, valueFile, digest, blob, created>>
      /\ Overlap({s})
  BY DEF StartBoot, Goto, tpm, files
<1>2. /\ a \in ArgRecord /\ a.num = policyFile /\ a.value = valueFile
      /\ l \in {"bootreset", "bootextend"} /\ (l = "bootreset" <=> policyFile \in Debug)
  BY <1>1 DEF IInv, TypeOK, ArgRecord, NoArgs
<1> HIDE DEF a, l
<1>3. pc'[s] = l /\ args'[s] = a
  BY <1>1 DEF IInv, TypeOK
<1>4. Frame(s)
  BY <1>1 DEF IInv, TypeOK, Overlap, Overlapped, Frame, Running
<1>5. notes' \in [Scripts -> SUBSET {"overlapped", "misread"}]
  BY <1>1 DEF IInv, TypeOK, Overlap
<1>6. TypeOK'
  BY <1>1, <1>2, <1>5 DEF IInv, TypeOK, BootSteps
<1>7. digest[s] = None
  BY <1>1, Sets DEF IInv, Own
<1>8. Own(s)'
  BY <1>1, <1>2, <1>3, <1>7 DEF Own, InitSteps, ClearSteps, BootSteps, PcrSteps, WithKey
<1>9. Solo(s)'
  BY <1>1, <1>2, <1>3 DEF Solo, Knows, InitSteps, WithDigest, WithNumber, WithValue, WithEk, WithKey
<1>10. KeysGood'
  BY <1>1 DEF IInv, KeysGood, Occupied
<1> QED
  BY <1>1, <1>3, <1>4, <1>6, <1>8, <1>9, <1>10, Begin

\* The debug PCR is reset first.
LEMMA BootResetHolds ==
    ASSUME IInv, NEW s \in Scripts, BootReset(s), UNCHANGED <<nv, files, created>>
    PROVE  IInv'
<1>1. /\ pc[s] = "bootreset" /\ Continue(s, "bootextend")
      /\ UNCHANGED <<nv, pem, ek, policyFile, valueFile, created>>
      /\ pcr' = [pcr EXCEPT ![args[s].num] = Zero]
  BY DEF IInv, TypeOK, BootReset, tpm, files, ResetPcr
<1>2. "bootextend" \in Labels
  BY DEF Labels, InitSteps, ClearSteps, BootSteps
<1>3. /\ pc' \in [Scripts -> Labels] /\ pc'[s] = "bootextend"
      /\ args' = args /\ digest' = digest /\ blob' = blob /\ notes' = notes
      /\ Frame(s)
  BY <1>1, <1>2, Continuing DEF IInv
<1>4. Own(s) /\ Solo(s)
  BY DEF IInv
<1>5. TypeOK'
  BY <1>1, <1>3, ZeroTyped DEF IInv, TypeOK, Labels
<1>6. Own(s)'
  BY <1>1, <1>3, <1>4 DEF Own, InitSteps, ClearSteps, BootSteps, PcrSteps, WithDigest,
     WithNumber, WithValue, WithEk, WithKey
<1>7. Solo(s)'
  <2>1. args[s].num \in PolicyPcrs
    BY <1>1, <1>4 DEF Own, PolicyPcrs
  <2>2. pcr'[args[s].num] = Zero
    BY <1>1, <2>1 DEF IInv, TypeOK
  <2> QED
    BY <1>1, <1>3, <1>4, <2>2 DEF Solo, Knows, FromZero, Overlapped, Occupied,
       InitSteps, WithDigest, WithNumber, WithValue, WithEk, WithKey
<1>8. KeysGood'
  BY <1>1 DEF IInv, KeysGood, Occupied
<1> QED
  BY <1>1, <1>3, <1>5, <1>6, <1>7, <1>8, Inner

\* Neither of the two was empty.
LEMMA BootExtendHolds ==
    ASSUME IInv, NEW s \in Scripts, BootExtend(s), UNCHANGED <<nv, files, created>>
    PROVE  IInv'
<1>1. /\ pc[s] = "bootextend" /\ Continue(s, "bootdone")
      /\ UNCHANGED <<nv, pem, ek, policyFile, valueFile, created>>
      /\ args[s].num # Empty /\ args[s].value # Empty
      /\ Len(pcr[args[s].num]) < MaxExtends
      /\ pcr' = [pcr EXCEPT ![args[s].num] = Append(pcr[args[s].num], args[s].value)]
  BY DEF IInv, TypeOK, BootExtend, tpm, files, ExtendPcr
<1>2. "bootdone" \in Labels
  BY DEF Labels, InitSteps, ClearSteps, BootSteps
<1>3. /\ pc' \in [Scripts -> Labels] /\ pc'[s] = "bootdone"
      /\ args' = args /\ digest' = digest /\ blob' = blob /\ notes' = notes
      /\ Frame(s)
  BY <1>1, <1>2, Continuing DEF IInv
<1>4. Own(s) /\ Solo(s)
  BY DEF IInv
<1>5. TypeOK'
  <2>1. args[s].num # None /\ args[s].value # None
    BY <1>1, <1>4 DEF Own, BootSteps
  <2>2. args[s].num \in PolicyPcrs /\ args[s].value \in Identities /\ pcr[args[s].num] \in PcrContents
    BY <1>1, <2>1 DEF IInv, TypeOK, ArgRecord
  <2>3. Append(pcr[args[s].num], args[s].value) \in PcrContents
    BY <1>1, <2>2, ExtendTyped
  <2> QED
    BY <1>1, <1>3, <2>3 DEF IInv, TypeOK, Labels
<1>6. Own(s)'
  BY <1>1, <1>3, <1>4 DEF Own, InitSteps, ClearSteps, BootSteps, PcrSteps, WithDigest,
     WithNumber, WithValue, WithEk, WithKey
<1>7. Solo(s)'
  BY <1>1, <1>3, <1>4 DEF Solo, Knows, Own, FromZero, Overlapped, Occupied, LooksOurs,
     InitSteps, WithDigest, WithNumber, WithValue, WithEk, WithKey
<1>8. KeysGood'
  BY <1>1 DEF IInv, KeysGood, Occupied
<1> QED
  BY <1>1, <1>3, <1>5, <1>6, <1>7, <1>8, Inner

\* The three commands of pcr.sh boot.
LEMMA BootStepHolds ==
    ASSUME IInv, NEW s \in Scripts, BootStep(s)
    PROVE  IInv'
<1>1. CASE BootDone(s)
  BY <1>1, Ending DEF BootDone, BootStep, files
<1>2. CASE BootReset(s) \/ BootExtend(s)
  BY <1>2, BootResetHolds, BootExtendHolds DEF BootStep
<1> QED
  BY <1>1, <1>2 DEF BootStep

\* extend and reset from the command line.
LEMMA PcrCommandHolds ==
    ASSUME IInv, NEW s \in Scripts, PcrCommand(s)
    PROVE  IInv'
<1>1. /\ pc[s] = "idle" /\ Overlap({})
      /\ UNCHANGED <<nv, pem, ek, policyFile, valueFile, pc, args, digest, blob, created>>
  BY DEF PcrCommand, files
<1>2. pcr' \in [PolicyPcrs -> PcrContents]
  <2>1. ASSUME NEW n \in PolicyPcrs, NEW v \in Identities, ExtendPcr(n, v)
        PROVE  pcr' \in [PolicyPcrs -> PcrContents]
    <3>1. pcr[n] \in PcrContents
      BY DEF IInv, TypeOK
    <3>2. Append(pcr[n], v) \in PcrContents
      BY <2>1, <3>1, ExtendTyped DEF ExtendPcr
    <3> QED
      BY <2>1, <3>2 DEF IInv, TypeOK, ExtendPcr
  <2>2. ASSUME NEW n \in Debug, ResetPcr(n)
        PROVE  pcr' \in [PolicyPcrs -> PcrContents]
    BY <2>2, ZeroTyped DEF IInv, TypeOK, ResetPcr
  <2> QED
    BY <2>1, <2>2 DEF PcrCommand
<1>3. notes' \in [Scripts -> SUBSET {"overlapped", "misread"}] /\ Frame(s)
  BY <1>1 DEF IInv, TypeOK, Overlap, Frame
<1>4. TypeOK'
  BY <1>1, <1>2, <1>3 DEF IInv, TypeOK
<1>5. Own(s)'
  BY <1>1, OwnKept DEF IInv
<1>6. Solo(s)' /\ KeysGood'
  BY <1>1 DEF IInv, Solo, KeysGood, Occupied
<1> QED
  BY <1>1, <1>3, <1>4, <1>5, <1>6, Begin

-----------------------------------------------------------------------------
(***************************************************************************)
(* The surroundings.                                                       *)
(***************************************************************************)
\* A foreign key has no policy, and goes only where no key is.
LEMMA ForeignPersistHolds ==
    ASSUME IInv, NEW h \in Handles, NEW profile \in {"vault", "other"},
           ForeignPersist(h, profile)
    PROVE  IInv'
<1> DEFINE k == [id |-> created + 1, policy |-> None, profile |-> profile,
                 maker |-> "foreign", waived |-> FALSE, alone |-> FALSE, identity |-> None]
<1>1. /\ nv[h] = None /\ nv' = [nv EXCEPT ![h] = k]
      /\ created < MaxKeys /\ created' = created + 1
      /\ UNCHANGED <<pcr, pem, ek, policyFile, valueFile, pc, args, digest, blob, notes>>
  BY DEF ForeignPersist, Occupied, files, run
<1>2. created + 1 \in 1..MaxKeys
  BY <1>1, ProvisioningAssumption DEF IInv, TypeOK
<1>3. k \in KeyRecord /\ k # None /\ k.policy = None /\ k.maker = "foreign"
  <2>1. k \in KeyRecord
    BY <1>2 DEF KeyRecord, Policies
  <2>2. k # None
    BY <2>1, ProvisioningAssumption
  <2> QED
    BY <2>1, <2>2
<1>4. TypeOK'
  BY <1>1, <1>2, <1>3 DEF IInv, TypeOK
<1> HIDE DEF k
<1>5. KeysGood'
  BY <1>1, <1>3 DEF IInv, TypeOK, KeysGood, Occupied, Reproducible
<1>6. Exclusive'
  BY <1>1 DEF IInv, Exclusive, Overlapped
<1>7. ASSUME NEW s \in Scripts
      PROVE  Own(s)' /\ Solo(s)'
  <2>1. Own(s) /\ Solo(s)
    BY DEF IInv
  <2>2. Own(s)'
    BY <1>1, <2>1, OwnKept
  <2>3. nv'[h] = k /\ \A g \in Handles : g # h => nv'[g] = nv[g]
    BY <1>1 DEF IInv, TypeOK
  <2>4. pc[s] \in InitSteps \union ClearSteps => args[s].handle \in Handles
    BY <2>1 DEF Own
  <2>5. pc[s] \in WithKey => blob[s] # None
    BY <2>1, ProvisioningAssumption DEF Own
  <2>6. ASSUME pc[s] # "idle", ~Overlapped(s)
        PROVE  Knows(s)'
    <3>1. Knows(s)
      BY <2>1, <2>6 DEF Solo
    <3>2. pc[s] \in {"export", "verify"} => args[s].handle # h
      BY <1>1, <2>5, <3>1 DEF Knows, WithKey
    <3>3. pc[s] = "clearremove" /\ ~args[s].force => args[s].handle # h
      BY <1>1, <3>1 DEF Knows, LooksOurs, Occupied
    <3>4. pc[s] \in {"export", "verify"} => nv'[args[s].handle] = nv[args[s].handle]
      BY <2>3, <2>4, <3>2 DEF InitSteps
    <3>5. pc[s] = "clearremove" /\ ~args[s].force => nv'[args[s].handle] = nv[args[s].handle]
      BY <2>3, <2>4, <3>3 DEF ClearSteps
    <3>6. /\ pc[s] \in InitSteps \ {"check", "export", "verify"} /\ ~args[s].force /\ notes[s] = {}
          => ~Occupied(args[s].handle)' \/ nv'[args[s].handle].maker = "foreign"
      BY <1>1, <1>3, <2>3, <2>4, <3>1 DEF Knows, Occupied
    <3> QED
      BY <1>1, <3>1, <3>4, <3>5, <3>6 DEF Knows, FromZero, LooksOurs, Occupied
  <2> QED
    BY <1>1, <2>2, <2>6 DEF Solo, Overlapped
<1> QED
  BY <1>4, <1>5, <1>6, <1>7 DEF IInv

\* After a reboot no script runs.
LEMMA RebootHolds ==
    ASSUME IInv, Reboot PROVE IInv'
<1>1. NoArgs \in ArgRecord /\ Zero \in PcrContents
  BY ZeroTyped, ProvisioningAssumption DEF NoArgs, ArgRecord
<1>2. TypeOK'
  BY <1>1 DEF IInv, TypeOK, Reboot, files, Policies
<1>3. Exclusive' /\ KeysGood'
  BY DEF IInv, Reboot, Exclusive, KeysGood, Occupied
<1>4. ASSUME NEW s \in Scripts PROVE Own(s)' /\ Solo(s)'
  <2>1. pc'[s] = "idle" /\ digest'[s] = None
    BY DEF Reboot
  <2> QED
    BY <2>1 DEF Own, Solo, InitSteps, ClearSteps, BootSteps, PcrSteps, WithKey
<1> QED
  BY <1>2, <1>3, <1>4 DEF IInv

\* The four ways to begin.
LEMMA StartHolds ==
    ASSUME IInv, NEW s \in Scripts, Start(s)
    PROVE  IInv'
BY StartInitHolds, StartClearHolds, StartBootHolds, PcrCommandHolds DEF Start

\* All of init.sh.
LEMMA InitStepHolds ==
    ASSUME IInv, NEW s \in Scripts, InitStep(s)
    PROVE  IInv'
<1>1. CASE Complete(s)
  BY <1>1, Ending DEF Complete, tpm, files
<1> QED
  BY <1>1, CheckHolds, RemoveKeyHolds, PreparePcrHolds, ExtendIdentityHolds, CreatePolicyHolds,
     OpenPolicyFileHolds, SavePolicyFileHolds, OpenValueFileHolds, SaveValueFileHolds,
     CreateEkHolds, CreateRsaKeyHolds, PersistKeyHolds, ExportPublicKeyHolds DEF InitStep

\* All of clear.sh.
LEMMA ClearStepHolds ==
    ASSUME IInv, NEW s \in Scripts, ClearStep(s)
    PROVE  IInv'
BY ClearCheckHolds, ClearRemoveHolds, RemoveFilesHolds DEF ClearStep

\* A run that is stopped.
LEMMA AbortHolds ==
    ASSUME IInv, NEW s \in Scripts, Abort(s)
    PROVE  IInv'
BY Ending DEF Abort, tpm, files

\* The invariant holds in every reachable state.
THEOREM InvariantHolds == Spec => []IInv
<1>1. IInv /\ [Next]_vars => IInv'
  <2> SUFFICES ASSUME IInv, [Next]_vars PROVE IInv'
    OBVIOUS
  <2>1. CASE Next
    BY <2>1, StartHolds, InitStepHolds, ClearStepHolds, BootStepHolds, AbortHolds,
       ForeignPersistHolds, RebootHolds DEF Next
  <2>2. CASE UNCHANGED vars
    <3>1. UNCHANGED <<nv, pcr, pem, ek, policyFile, valueFile, pc, args, digest, blob, notes, created>>
      BY <2>2 DEF vars, tpm, files, run
    <3>2. TypeOK' /\ Exclusive' /\ KeysGood'
      BY <3>1 DEF IInv, TypeOK, Exclusive, KeysGood, Overlapped, Occupied
    <3>3. \A s \in Scripts : Own(s)' /\ Solo(s)'
      BY <3>1 DEF IInv, Own, Solo, Knows, FromZero, Overlapped, Occupied, LooksOurs
    <3> QED
      BY <3>2, <3>3 DEF IInv
  <2> QED
    BY <2>1, <2>2
<1> QED
  BY <1>1, InitHolds, PTL DEF Spec

-----------------------------------------------------------------------------
(***************************************************************************)
(* The theorems.                                                           *)
(***************************************************************************)
\* Every variable keeps its type.
THEOREM TypeCorrect == Spec => []TypeOK
<1>1. IInv => TypeOK
  BY DEF IInv
<1> QED
  BY <1>1, InvariantHolds, PTL

\* A run of init.sh that was alone and reaches its end leaves key, files and PCR
\* that fit together.
THEOREM CompletedRunsConsistent == Spec => []CompletedRunConsistent
<1>1. ASSUME IInv, NEW s \in Scripts, pc[s] = "verify", ~Overlapped(s)
      PROVE  LET h == args[s].handle
             IN  /\ Occupied(h) /\ nv[h].maker = "init"
                 /\ pem = nv[h].id /\ ek
                 /\ args[s].num # None =>
                       /\ FilesBelong(h)
                       /\ nv[h].policy = <<args[s].num, pcr[args[s].num]>>
                       /\ nv[h].identity = args[s].value
  <2> DEFINE h == args[s].handle
  <2>1. Own(s) /\ Knows(s)
    BY <1>1 DEF IInv, Solo
  <2>2. /\ blob[s] \in KeyRecord /\ blob[s] # None
        /\ blob[s].policy = digest[s] /\ blob[s].identity = args[s].value
        /\ blob[s].maker = "init"
    BY <1>1, <2>1, ProvisioningAssumption DEF Own, WithKey
  <2>3. nv[h] = blob[s] /\ pem = nv[h].id /\ ek
    BY <1>1, <2>1 DEF Knows, WithEk, WithKey
  <2>4. ASSUME args[s].num # None
        PROVE  /\ digest[s] = <<args[s].num, pcr[args[s].num]>> /\ digest[s] # None
               /\ policyFile = args[s].num /\ valueFile = args[s].value
    <3>1. /\ digest[s] = <<args[s].num, pcr[args[s].num]>>
          /\ policyFile = args[s].num /\ valueFile = args[s].value
      BY <1>1, <2>1, <2>4 DEF Knows, WithDigest, WithNumber, WithValue, WithEk, WithKey
    <3>2. args[s].num \in PolicyPcrs
      BY <1>1, <2>1, <2>4 DEF Own, InitSteps
    <3>3. pcr[args[s].num] \in PcrContents
      BY <1>1, <3>2 DEF IInv, TypeOK
    <3> QED
      BY <3>1, <3>2, <3>3, ProvisioningAssumption
  <2> QED
    BY <2>2, <2>3, <2>4 DEF FilesBelong, Occupied
<1>2. IInv => CompletedRunConsistent
  BY <1>1 DEF CompletedRunConsistent
<1> QED
  BY <1>2, InvariantHolds, PTL

\* Every policy but one on a PCR whose zero check --force waived can be met again,
\* if the run that made it was alone.
THEOREM PoliciesReproducible == Spec => []PolicyReproducible
<1>1. IInv => PolicyReproducible
  BY DEF IInv, KeysGood, Reproducible, PolicyReproducible
<1> QED
  BY <1>1, InvariantHolds, PTL

\* A key goes only by force, by clear.sh if it looks like ours, or by two scripts.
THEOREM KeysAreKept == Spec => KeyKept
<1> DEFINE Kept == \A h \in Handles : Occupied(h) /\ nv'[h] # nv[h] =>
                      \E s \in Scripts : Acts(s) /\ args[s].handle = h /\ MayRemove(s)
<1>1. ASSUME IInv, [Next]_vars, NEW h \in Handles, Occupied(h), nv'[h] # nv[h]
      PROVE  \E s \in Scripts : Acts(s) /\ args[s].handle = h /\ MayRemove(s)
  <2>1. PICK s \in Scripts : RemoveKey(s) \/ ClearRemove(s) \/ PersistKey(s)
    <3>1. nv' # nv
      BY <1>1
    <3>2. ~ \E s \in Scripts : RemoveFiles(s) \/ ClearCheck(s) \/ BootStep(s) \/ Abort(s) \/ Start(s)
      BY <3>1 DEF RemoveFiles, ClearCheck, BootStep, Abort, Start, Continue, Exit, tpm,
         StartInit, StartClear, StartBoot, PcrCommand
    <3>3. ~Reboot /\ ~UNCHANGED vars
      BY <3>1 DEF Reboot, vars, tpm
    <3>4. ~ \E g \in Handles, profile \in {"vault", "other"} : ForeignPersist(g, profile)
      BY <1>1 DEF ForeignPersist, IInv, TypeOK, Occupied
    <3>5. ASSUME NEW s \in Scripts, InitStep(s)
          PROVE  RemoveKey(s) \/ PersistKey(s)
      BY <3>1, <3>5 DEF InitStep, HandleFree, OverwriteForced, AlreadyProvisioned, HandleTaken,
         PreparePcr, ExtendIdentity, CreatePolicy, OpenPolicyFile, SavePolicyFile, OpenValueFile,
         SaveValueFile, CreateEk, CreateRsaKey, ExportPublicKey, Complete, tpm
    <3> QED
      BY <1>1, <3>2, <3>3, <3>4, <3>5 DEF Next, ClearStep
  <2>2. Own(s) /\ Solo(s)
    BY <1>1 DEF IInv
  <2>3. CASE RemoveKey(s)
    <3>1. pc[s] = "remove" /\ args[s].handle = h /\ pc'[s] \in {"createek", "preparepcr"}
      BY <1>1, <2>3 DEF RemoveKey, Continue, Goto, AfterRemoval, IInv, TypeOK
    <3>2. args[s].force
      BY <2>2, <3>1 DEF Own
    <3> QED
      BY <3>1, <3>2 DEF Acts, MayRemove
  <2>4. CASE ClearRemove(s)
    <3>1. pc[s] = "clearremove" /\ args[s].handle = h /\ pc'[s] = "rmpem"
      BY <1>1, <2>4 DEF ClearRemove, Continue, Goto, IInv, TypeOK
    <3>2. MayRemove(s)
      BY <1>1, <2>2, <3>1 DEF Solo, Knows, MayRemove
    <3> QED
      BY <3>1, <3>2 DEF Acts
  <2>5. CASE PersistKey(s)
    BY <1>1, <2>5 DEF PersistKey, IInv, TypeOK, Occupied
  <2> QED
    BY <2>1, <2>3, <2>4, <2>5
<1>2. IInv /\ [Next]_vars => [Kept]_vars
  BY <1>1
<1>3. Spec => [][Kept]_vars
  BY <1>2, InvariantHolds, PTL DEF Spec
<1> QED
  BY <1>3 DEF KeyKept

\* A step of one script moves no other.
LEMMA OthersStay ==
    ASSUME TypeOK, NEW t \in Scripts, NEW s \in Scripts, t # s,
           Start(t) \/ InitStep(t) \/ ClearStep(t) \/ BootStep(t) \/ Abort(t)
    PROVE  pc'[s] = pc[s]
<1>1. pc' = pc \/ \E l : Goto(t, l)
  <2>1. CASE Start(t)
    BY <2>1 DEF Start, StartInit, StartClear, StartBoot, PcrCommand
  <2>2. CASE InitStep(t)
    <3>1. CASE HandleFree(t) \/ CreatePolicy(t) \/ CreateRsaKey(t)
      BY <3>1 DEF HandleFree, CreatePolicy, CreateRsaKey
    <3>2. CASE AlreadyProvisioned(t) \/ HandleTaken(t) \/ Complete(t)
      BY <3>2 DEF AlreadyProvisioned, HandleTaken, Complete, Exit
    <3>3. CASE \/ OverwriteForced(t) \/ RemoveKey(t) \/ PreparePcr(t) \/ ExtendIdentity(t)
               \/ OpenPolicyFile(t) \/ SavePolicyFile(t) \/ OpenValueFile(t)
               \/ SaveValueFile(t) \/ CreateEk(t) \/ PersistKey(t) \/ ExportPublicKey(t)
      BY <3>3 DEF OverwriteForced, RemoveKey, PreparePcr, ExtendIdentity, OpenPolicyFile,
         SavePolicyFile, OpenValueFile, SaveValueFile, CreateEk, PersistKey,
         ExportPublicKey, Continue
    <3> QED
      BY <2>2, <3>1, <3>2, <3>3 DEF InitStep
  <2>3. CASE ClearStep(t)
    BY <2>3 DEF ClearStep, ClearCheck, ClearRemove, RemoveFiles, Continue, Exit
  <2>4. CASE BootStep(t)
    BY <2>4 DEF BootStep, BootReset, BootExtend, BootDone, Continue, Exit
  <2>5. CASE Abort(t)
    BY <2>5 DEF Abort, Exit
  <2> QED
    BY <2>1, <2>2, <2>3, <2>4, <2>5
<1> QED
  BY <1>1 DEF Goto, TypeOK

\* pcr.sh boot restores the PCR of a key whose files are in place.
THEOREM BootsRestore == Spec => BootRestores
<1> DEFINE Restored == \A s \in Scripts, h \in Handles :
          /\ BootExtends(s) /\ FilesBelong(h)
          /\ nv[h].alone /\ ~Overlapped(s)
          /\ \/ policyFile \in Debug
             \/ pcr[policyFile] = Zero /\ ~nv[h].waived
          => pcr'[policyFile] = nv[h].policy[2]
<1>1. ASSUME IInv, [Next]_vars, NEW s \in Scripts, NEW h \in Handles,
             BootExtends(s), FilesBelong(h), nv[h].alone, ~Overlapped(s),
             policyFile \in Debug \/ (pcr[policyFile] = Zero /\ ~nv[h].waived)
      PROVE  pcr'[policyFile] = nv[h].policy[2]
  <2>1. pc[s] = "bootextend" /\ pc'[s] = "bootdone"
    BY <1>1 DEF BootExtends
  <2>2. Own(s) /\ Knows(s)
    BY <1>1, <2>1 DEF IInv, Solo
  <2>3. policyFile = args[s].num /\ valueFile = args[s].value /\ pcr[policyFile] = Zero
    BY <1>1, <2>1, <2>2 DEF Knows
  <2>4. policyFile \in PolicyPcrs
    <3>1. nv[h] \in KeyRecord /\ nv[h].policy # None /\ policyFile = nv[h].policy[1]
      BY <1>1 DEF FilesBelong, Occupied, IInv, TypeOK
    <3>2. nv[h].policy \in PolicyPcrs \X PcrContents
      BY <3>1 DEF KeyRecord, Policies
    <3> QED
      BY <3>1, <3>2
  <2>5. nv[h].policy[2] = <<valueFile>>
    BY <1>1 DEF FilesBelong, IInv, KeysGood, Reproducible
  <2>6. BootExtend(s)
    <3>1. ~UNCHANGED vars
      BY <2>1 DEF vars
    <3>2. ~ Reboot /\ ~ \E g \in Handles, profile \in {"vault", "other"} : ForeignPersist(g, profile)
      BY <2>1 DEF Reboot, ForeignPersist
    <3>3. PICK t \in Scripts : Start(t) \/ InitStep(t) \/ ClearStep(t) \/ BootStep(t) \/ Abort(t)
      BY <1>1, <3>1, <3>2 DEF Next
    <3>4. t = s
      BY <1>1, <2>1, <3>3, OthersStay DEF IInv
    <3>5. ~Start(s) /\ ~InitStep(s) /\ ~ClearStep(s)
      <4>1. ~Start(s)
        BY <2>1 DEF Start, StartInit, StartClear, StartBoot, PcrCommand
      <4>2. ~InitStep(s)
        BY <2>1 DEF InitStep, HandleFree, OverwriteForced, AlreadyProvisioned, HandleTaken,
           RemoveKey, PreparePcr, ExtendIdentity, CreatePolicy, OpenPolicyFile, SavePolicyFile,
           OpenValueFile, SaveValueFile, CreateEk, CreateRsaKey, PersistKey, ExportPublicKey,
           Complete
      <4>3. ~ClearStep(s)
        BY <2>1 DEF ClearStep, ClearCheck, ClearRemove, RemoveFiles
      <4> QED
        BY <4>1, <4>2, <4>3
    <3>6. ~Abort(s)
      BY <1>1, <2>1 DEF Abort, Exit, Goto, IInv, TypeOK
    <3> QED
      BY <2>1, <3>3, <3>4, <3>5, <3>6 DEF BootStep, BootReset, BootDone
  <2>7. pcr'[policyFile] = Append(Zero, valueFile)
    <3>1. pcr' = [pcr EXCEPT ![args[s].num] = Append(@, args[s].value)]
      BY <2>6 DEF BootExtend, ExtendPcr
    <3>2. DOMAIN pcr = PolicyPcrs
      BY <1>1 DEF IInv, TypeOK
    <3>3. pcr'[args[s].num] = Append(pcr[args[s].num], args[s].value)
      BY <2>3, <2>4, <3>1, <3>2
    <3> QED
      BY <2>3, <3>3
  <2> QED
    BY <2>5, <2>7, ExtendZero
<1>2. IInv /\ [Next]_vars => [Restored]_vars
  BY <1>1
<1>3. Spec => [][Restored]_vars
  BY <1>2, InvariantHolds, PTL DEF Spec
<1> QED
  BY <1>3 DEF BootRestores

\* A working key stops working only through clear.sh, through init.sh --force for
\* its handle, through init.sh for another handle, or through an init.sh that
\* could not read the key or did not run alone.
THEOREM WorkingSetsKept == Spec => WorkingSetKept
<1> DEFINE Excused(h) ==
       \E s \in Scripts :
          /\ Acts(s)
          /\ \/ pc[s] \in ClearSteps
             \/ args[s].handle = h /\ args[s].force
             \/ args[s].handle \in Handles \ {h}
             \/ notes[s] # {}
       Kept == \A h \in Handles : WorkingSet(h) /\ ~WorkingSet(h)' => Excused(h)
<1>1. ASSUME IInv, [Next]_vars, NEW h \in Handles, WorkingSet(h), ~WorkingSet(h)'
      PROVE  Excused(h)
  <2>1. ~(nv'[h] = nv[h] /\ pem' = nv[h].id /\ UNCHANGED <<ek, policyFile, valueFile>>)
    BY <1>1 DEF WorkingSet, FilesBelong, Occupied
  <2>2. ~(nv'[h] = nv[h] /\ UNCHANGED files)
    BY <1>1, <2>1 DEF files, WorkingSet
  <2>3. PICK s \in Scripts : InitStep(s) \/ ClearStep(s)
    <3>1. ~Reboot /\ ~UNCHANGED vars
      BY <2>2 DEF Reboot, vars, tpm
    <3>2. ~ \E g \in Handles, profile \in {"vault", "other"} : ForeignPersist(g, profile)
      BY <1>1, <2>2 DEF ForeignPersist, WorkingSet, Occupied, IInv, TypeOK
    <3>3. ~ \E t \in Scripts : Start(t) \/ BootStep(t) \/ Abort(t)
      BY <2>2 DEF Start, StartInit, StartClear, StartBoot, PcrCommand, BootStep, Abort, tpm
    <3> QED
      BY <1>1, <3>1, <3>2, <3>3 DEF Next
  <2>4. TypeOK /\ Own(s) /\ Solo(s)
    BY <1>1 DEF IInv
  <2>5. CASE InitStep(s)
    <3>1. ~HandleFree(s) /\ ~OverwriteForced(s) /\ ~AlreadyProvisioned(s) /\ ~HandleTaken(s)
          /\ ~PreparePcr(s) /\ ~ExtendIdentity(s) /\ ~CreatePolicy(s) /\ ~CreateRsaKey(s)
          /\ ~Complete(s)
      BY <2>2 DEF HandleFree, OverwriteForced, AlreadyProvisioned, HandleTaken, PreparePcr,
         ExtendIdentity, CreatePolicy, CreateRsaKey, Complete, tpm
    <3>2. /\ pc[s] \in {"remove", "openpolicy", "savepolicy", "openvalue", "savevalue",
                       "createek", "persist", "export"}
          /\ \E l : l # pc[s] /\ Goto(s, l)
      BY <2>5, <3>1 DEF InitStep, RemoveKey, OpenPolicyFile, SavePolicyFile, OpenValueFile,
         SaveValueFile, CreateEk, PersistKey, ExportPublicKey, Continue, AfterRemoval
    <3>3. Acts(s)
      BY <2>4, <3>2 DEF Acts, Goto, TypeOK
    <3>4. args[s].handle \in Handles
      BY <2>4, <3>2 DEF Own, InitSteps
    <3>5. CASE args[s].handle # h \/ args[s].force \/ notes[s] # {}
      BY <3>3, <3>4, <3>5
    <3>6. CASE args[s].handle = h /\ ~args[s].force /\ notes[s] = {}
      <4>1. Knows(s)
        BY <2>4, <3>2, <3>6 DEF Solo, Overlapped
      <4>2. ~(~Occupied(h) \/ nv[h].maker = "foreign")
        BY <1>1 DEF WorkingSet
      <4>3. pc[s] = "export"
        BY <3>2, <3>6, <4>1, <4>2 DEF Knows, InitSteps
      <4>4. ExportPublicKey(s)
        BY <2>5, <3>1, <4>3 DEF InitStep, RemoveKey, OpenPolicyFile, SavePolicyFile,
           OpenValueFile, SaveValueFile, CreateEk, PersistKey
      <4> QED
        BY <2>1, <3>6, <4>4 DEF ExportPublicKey, tpm
    <3> QED
      BY <3>5, <3>6
  <2>6. CASE ClearStep(s)
    <3>1. pc[s] \in ClearSteps /\ \E l : l # pc[s] /\ Goto(s, l)
      BY <2>6 DEF ClearStep, ClearCheck, ClearRemove, RemoveFiles, Continue, Exit, ClearSteps
    <3>2. Acts(s)
      BY <2>4, <3>1 DEF Acts, Goto, TypeOK
    <3> QED
      BY <3>1, <3>2
  <2> QED
    BY <2>3, <2>5, <2>6
<1>2. IInv /\ [Next]_vars => [Kept]_vars
  BY <1>1
<1>3. Spec => [][Kept]_vars
  BY <1>2, InvariantHolds, PTL DEF Spec
<1> QED
  BY <1>3 DEF WorkingSetKept
=============================================================================
