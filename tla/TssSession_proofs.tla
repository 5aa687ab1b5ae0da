------------------------- MODULE TssSession_proofs -------------------------
(***************************************************************************)
(* Theorems about TssSession, for any number of objects, PCRs and values.  *)
(* Each invariant is a conjunction of named parts proved one after the     *)
(* other, every part using the ones before it.                             *)
(***************************************************************************)
EXTENDS TssSession, TLAPS

\* Every step is one of these: what an object's caller starts, what its thread
\* does next, what the surroundings do.
LEMMA NextCases ==
    ASSUME Next
    PROVE  \/ \E c \in Clients :
                 \/ \E p \in {-1} \union Pcrs : Construct(c, p)
                 \/ EsysInitialize(c) \/ LoadKey(c) \/ CreateEk(c)
                 \/ StartAuthSession(c) \/ SetAttributes(c) \/ ConstructorThrows(c)
                 \/ \E ct \in Ciphertexts : BeginDecrypt(c, ct)
                 \/ PolicyPcr(c) \/ PolicyPcrThrows(c) \/ SizeCheck(c)
                 \/ RsaDecrypt(c) \/ RsaDecryptThrows(c)
                 \/ Destroy(c) \/ FlushSession(c) \/ FlushEk(c) \/ Finalize(c)
                 \/ Crash(c)
           \/ \E p \in Pcrs, v \in PcrValues : PcrChange(p, v)
           \/ ResourceManagerRestart
BY DEF Next, Call, Step, ConstructStep, DecryptStep, DestroyStep, Environment

-----------------------------------------------------------------------------
\* PolicyPCR is only ever called for a real PCR: without this the digest it
\* writes has no type.
PolicyIndexed == \A c \in Clients : pc[c] = "policypcr" => pcr_index[c] \in Pcrs

TypeInv == TypeOK /\ PolicyIndexed

\* Types, and a policy call only for an object that was opened for a PCR.
LEMMA TypeInvariant == Spec => []TypeInv
<1> USE DEF Constructing, Deciding, Destroying, Attributes, Outcomes, Ciphertexts,
            NoCiphertext, Digests, Goto,
            TypeInv, PolicyIndexed
<1>1. Init => TypeInv
  BY DEF Init, TypeOK
<1>2. ASSUME TypeInv, [Next]_vars
      PROVE  TypeInv'
  <2> USE <1>2
  <2>1. CASE UNCHANGED vars
    BY <2>1 DEF TypeOK, vars, implVars, tpmVars, histVars
  <2>2. ASSUME NEW c \in Clients, NEW p \in {-1} \union Pcrs, Construct(c, p)
        PROVE  TypeInv'
    BY <2>2 DEF TypeOK, Construct, tpmVars, histVars
  <2>3. ASSUME NEW c \in Clients,
               EsysInitialize(c) \/ LoadKey(c) \/ CreateEk(c) \/ ConstructorThrows(c)
        PROVE  TypeInv'
    BY <2>3 DEF TypeOK, EsysInitialize, LoadKey, CreateEk, ConstructorThrows,
                implVars, tpmVars, histVars
  <2>4. ASSUME NEW c \in Clients, StartAuthSession(c)
        PROVE  TypeInv'
    BY <2>4 DEF TypeOK, StartAuthSession
  <2>5. ASSUME NEW c \in Clients, SetAttributes(c)
        PROVE  TypeInv'
    BY <2>5 DEF TypeOK, SetAttributes, SetAttributesTo, tpmVars, histVars
  <2>6. ASSUME NEW c \in Clients, NEW ct \in Ciphertexts, BeginDecrypt(c, ct)
        PROVE  TypeInv'
    BY <2>6 DEF TypeOK, BeginDecrypt, BeginDecryptAt, implVars, tpmVars
  <2>7. ASSUME NEW c \in Clients, PolicyPcr(c)
        PROVE  TypeInv'
    <3>1. pcr_index[c] \in Pcrs /\ pcr[pcr_index[c]] \in PcrValues
      BY <2>7 DEF TypeOK, PolicyPcr, PolicyPcrOf
    <3>2. Extend(digest[c], pcr_index[c], pcr[pcr_index[c]]) \in Digests
      BY <3>1 DEF Extend
    <3>3. digest' \in [Clients -> Digests]
      BY <2>7, <3>2 DEF TypeOK, PolicyPcr, PolicyPcrOf
    <3> QED
      BY <2>7, <3>3 DEF TypeOK, PolicyPcr, PolicyPcrOf, implVars, histVars
  <2>8. ASSUME NEW c \in Clients, PolicyPcrThrows(c)
        PROVE  TypeInv'
    BY <2>8 DEF TypeOK, PolicyPcrThrows, Return, implVars, tpmVars
  <2>9. ASSUME NEW c \in Clients, SizeCheck(c)
        PROVE  TypeInv'
    BY <2>9 DEF TypeOK, SizeCheck, Return, Taint, implVars, tpmVars, histVars
  <2>10. ASSUME NEW c \in Clients, RsaDecrypt(c)
         PROVE  TypeInv'
    BY <2>10 DEF TypeOK, RsaDecrypt, Return, implVars
  <2>11. ASSUME NEW c \in Clients, RsaDecryptThrows(c)
         PROVE  TypeInv'
    BY <2>11 DEF TypeOK, RsaDecryptThrows, Return, Taint, implVars, tpmVars
  <2>12. ASSUME NEW c \in Clients, Destroy(c) \/ FlushSession(c) \/ FlushEk(c)
         PROVE  TypeInv'
    BY <2>12 DEF TypeOK, Destroy, FlushSession, FlushEk, implVars, tpmVars, histVars
  <2>13. ASSUME NEW c \in Clients, Finalize(c) \/ Crash(c)
         PROVE  TypeInv'
    <3>1. pc' \in [Clients -> {"absent", "idle"} \union Constructing \union Deciding \union Destroying]
          /\ PolicyIndexed'
      BY <2>13 DEF TypeOK, Finalize, Crash, ForgetImpl
    <3>2. digest' \in [Clients -> Digests] /\ outcome' \in [Clients -> Outcomes]
      BY <2>13 DEF TypeOK, Finalize, Crash, ForgetImpl
    <3>3. /\ ctx' \in [Clients -> BOOLEAN] /\ ek_handle' \in [Clients -> BOOLEAN]
          /\ session' \in [Clients -> BOOLEAN] /\ valid' \in [Clients -> BOOLEAN]
          /\ pcr_index' \in [Clients -> {-1} \union Pcrs]
      BY <2>13 DEF TypeOK, Finalize, Crash, ForgetImpl
    <3>4. cipher' \in [Clients -> Ciphertexts \union {NoCiphertext}]
      BY <2>13 DEF TypeOK, Finalize, Crash, ForgetImpl
    <3>5. attrs' \in [Clients -> SUBSET Attributes]
      BY <2>13 DEF TypeOK, Finalize, Crash, ForgetImpl
    <3>6. /\ snapshot' \in [Clients -> {"none", "current", "stale"}]
          /\ lost' \in [Clients -> BOOLEAN] /\ tainted' \in [Clients -> BOOLEAN]
          /\ steady' \in [Clients -> BOOLEAN]
      BY <2>13 DEF TypeOK, Finalize, Crash, ForgetImpl
    <3>7. pcr' \in [Pcrs -> PcrValues] /\ tpmEk' \subseteq Clients /\ tpmSession' \subseteq Clients
      BY <2>13 DEF TypeOK, Finalize, Crash
    <3> QED
      BY <3>1, <3>2, <3>3, <3>4, <3>5, <3>6, <3>7 DEF TypeOK
  <2>14. ASSUME NEW p \in Pcrs, NEW v \in PcrValues, PcrChange(p, v)
         PROVE  TypeInv'
    BY <2>14 DEF TypeOK, PcrChange, implVars
  <2>15. ASSUME ResourceManagerRestart
         PROVE  TypeInv'
    BY <2>15 DEF TypeOK, ResourceManagerRestart, implVars, histVars
  <2> QED
    BY NextCases, <2>1, <2>2, <2>3, <2>4, <2>5, <2>6, <2>7, <2>8, <2>9, <2>10, <2>11,
       <2>12, <2>13, <2>14, <2>15
<1> QED
  BY <1>1, <1>2, PTL DEF Spec

\* Every variable of the connection, the TPM and the history keeps its type
\* through failures, crashes and restarts.
THEOREM TypeCorrect == Spec => []TypeOK
BY TypeInvariant, PTL DEF TypeInv
-----------------------------------------------------------------------------
(***************************************************************************)
(* Nothing is orphaned.  The handles an object has noted are those of the  *)
(* calls that succeeded so far, and the destructor gives up the connection *)
(* only after both flushes.                                                *)
(***************************************************************************)
HandlesFollowCalls ==
    \A c \in Clients :
        /\ c \in tpmSession =>
              /\ ctx[c] /\ session[c]
              /\ pc[c] \in {"setattributes", "idle", "flushsession"} \union Deciding
        /\ c \in tpmEk =>
              /\ ctx[c] /\ ek_handle[c]
              /\ pc[c] \notin {"absent", "initialize", "loadkey", "createek", "finalize"}
        /\ pc[c] \in {"loadkey", "createek", "startsession", "setattributes", "idle"} \union Deciding
              => ctx[c]

\* Impl's handle fields follow the ESYS calls of init and ~Impl, and what the TPM
\* holds is noted in them.
LEMMA HandlesInvariant == Spec => []HandlesFollowCalls
<1> USE DEF Constructing, Deciding, Destroying, Goto, HandlesFollowCalls
<1>1. Init => HandlesFollowCalls
  BY DEF Init
<1>2. ASSUME TypeOK, HandlesFollowCalls, [Next]_vars
      PROVE  HandlesFollowCalls'
  <2> USE <1>2
  <2>1. CASE UNCHANGED vars
    BY <2>1 DEF vars, implVars, tpmVars
  <2>2. ASSUME NEW c \in Clients, NEW p \in {-1} \union Pcrs, Construct(c, p)
        PROVE  HandlesFollowCalls'
    BY <2>2 DEF TypeOK, Construct, tpmVars
  <2>3. ASSUME NEW c \in Clients,
               EsysInitialize(c) \/ LoadKey(c) \/ CreateEk(c) \/ ConstructorThrows(c)
        PROVE  HandlesFollowCalls'
    BY <2>3 DEF TypeOK, EsysInitialize, LoadKey, CreateEk, ConstructorThrows,
                implVars, tpmVars
  <2>4. ASSUME NEW c \in Clients, StartAuthSession(c) \/ SetAttributes(c)
        PROVE  HandlesFollowCalls'
    BY <2>4 DEF TypeOK, StartAuthSession, SetAttributes, SetAttributesTo, tpmVars
  <2>5. ASSUME NEW c \in Clients, NEW ct \in Ciphertexts, BeginDecrypt(c, ct)
        PROVE  HandlesFollowCalls'
    BY <2>5 DEF TypeOK, BeginDecrypt, BeginDecryptAt, implVars, tpmVars
  <2>6. ASSUME NEW c \in Clients,
               \/ PolicyPcr(c) \/ PolicyPcrThrows(c) \/ SizeCheck(c)
               \/ RsaDecrypt(c) \/ RsaDecryptThrows(c)
        PROVE  HandlesFollowCalls'
    BY <2>6 DEF TypeOK, PolicyPcr, PolicyPcrOf, PolicyPcrThrows, SizeCheck, RsaDecrypt,
                RsaDecryptThrows, Return, implVars, tpmVars
  <2>7. ASSUME NEW c \in Clients, Destroy(c) \/ FlushSession(c) \/ FlushEk(c)
        PROVE  HandlesFollowCalls'
    BY <2>7 DEF TypeOK, Destroy, FlushSession, FlushEk, implVars, tpmVars
  <2>8. ASSUME NEW c \in Clients, Finalize(c) \/ Crash(c)
        PROVE  HandlesFollowCalls'
    BY <2>8 DEF TypeOK, Finalize, Crash, ForgetImpl
  <2>9. ASSUME (\E p \in Pcrs, v \in PcrValues : PcrChange(p, v)) \/ ResourceManagerRestart
        PROVE  HandlesFollowCalls'
    BY <2>9 DEF PcrChange, ResourceManagerRestart, implVars
  <2> QED
    BY NextCases, <2>1, <2>2, <2>3, <2>4, <2>5, <2>6, <2>7, <2>8, <2>9
<1> QED
  BY <1>1, <1>2, TypeCorrect, PTL DEF Spec

\* No session or endorsement key outlives the object that made it, wherever the
\* constructor throws and whenever the process dies.
THEOREM NothingIsOrphaned == Spec => []NothingOrphaned
<1>1. HandlesFollowCalls => NothingOrphaned
  BY DEF HandlesFollowCalls, NothingOrphaned
<1> QED
  BY <1>1, HandlesInvariant, PTL

-----------------------------------------------------------------------------
\* Both directions of the bus are encrypted whenever a decrypt can be sent: the
\* attributes are set before the object becomes valid and never change.
THEOREM BusIsEncrypted == Spec => []BusEncrypted
<1> USE DEF Constructing, Deciding, Destroying, Goto, BusEncrypted
<1>1. Init => BusEncrypted
  BY DEF Init
<1>2. ASSUME TypeOK, BusEncrypted, [Next]_vars
      PROVE  BusEncrypted'
  <2> USE <1>2
  <2>1. CASE UNCHANGED vars
    BY <2>1 DEF vars, implVars
  <2>2. ASSUME NEW c \in Clients, NEW p \in {-1} \union Pcrs, Construct(c, p)
        PROVE  BusEncrypted'
    BY <2>2 DEF TypeOK, Construct
  <2>3. ASSUME NEW c \in Clients,
               EsysInitialize(c) \/ LoadKey(c) \/ CreateEk(c) \/ ConstructorThrows(c)
        PROVE  BusEncrypted'
    BY <2>3 DEF TypeOK, EsysInitialize, LoadKey, CreateEk, ConstructorThrows, implVars
  <2>4. ASSUME NEW c \in Clients, StartAuthSession(c) \/ SetAttributes(c)
        PROVE  BusEncrypted'
    BY <2>4 DEF TypeOK, StartAuthSession, SetAttributes, SetAttributesTo
  <2>5. ASSUME NEW c \in Clients, NEW ct \in Ciphertexts, BeginDecrypt(c, ct)
        PROVE  BusEncrypted'
    BY <2>5 DEF TypeOK, BeginDecrypt, BeginDecryptAt, implVars
  <2>6. ASSUME NEW c \in Clients,
               \/ PolicyPcr(c) \/ PolicyPcrThrows(c) \/ SizeCheck(c)
               \/ RsaDecrypt(c) \/ RsaDecryptThrows(c)
        PROVE  BusEncrypted'
    BY <2>6 DEF TypeOK, PolicyPcr, PolicyPcrOf, PolicyPcrThrows, SizeCheck, RsaDecrypt,
                RsaDecryptThrows, Return, implVars
  <2>7. ASSUME NEW c \in Clients, Destroy(c) \/ FlushSession(c) \/ FlushEk(c)
        PROVE  BusEncrypted'
    BY <2>7 DEF TypeOK, Destroy, FlushSession, FlushEk, implVars
  <2>8. ASSUME NEW c \in Clients, Finalize(c) \/ Crash(c)
        PROVE  BusEncrypted'
    BY <2>8 DEF TypeOK, Finalize, Crash, ForgetImpl
  <2>9. ASSUME (\E p \in Pcrs, v \in PcrValues : PcrChange(p, v)) \/ ResourceManagerRestart
        PROVE  BusEncrypted'
    BY <2>9 DEF PcrChange, ResourceManagerRestart, implVars
  <2> QED
    BY NextCases, <2>1, <2>2, <2>3, <2>4, <2>5, <2>6, <2>7, <2>8, <2>9
<1> QED
  BY <1>1, <1>2, TypeCorrect, PTL DEF Spec
-----------------------------------------------------------------------------
(***************************************************************************)
(* The life of a policy digest.  Untainted, it starts every call fresh and *)
(* holds this call's assertion when RSA_Decrypt is sent; tainted, it is    *)
(* beyond repair by the time RSA_Decrypt is sent.                          *)
(***************************************************************************)
DigestLife ==
    \A c \in Clients :
        /\ tainted[c] =>
              /\ pcr_index[c] >= 0
              /\ digest[c] # Fresh
              /\ pc[c] \in {"idle"} \union Deciding \union Destroying
              /\ pc[c] \in {"sizecheck", "rsadecrypt"} => digest[c] = Spoiled
        /\ ~tainted[c] /\ pc[c] \in {"setattributes", "idle", "policypcr"} =>
              digest[c] = Fresh /\ snapshot[c] = "none"
        /\ pc[c] \in {"sizecheck", "rsadecrypt"} =>
              IF pcr_index[c] >= 0
              THEN /\ digest[c] # Fresh
                   /\ ~tainted[c] /\ steady[c] =>
                         /\ digest[c] = <<pcr_index[c], pcr[pcr_index[c]]>>
                         /\ snapshot[c] = "current"
              ELSE digest[c] = Fresh /\ snapshot[c] = "none"

\* PCR numbers are natural, so -1 marks no PCR.
LEMMA IndexTypes ==
    ASSUME TypeInv, NEW c \in Clients
    PROVE  /\ pcr_index[c] \in Int
           /\ pcr_index[c] >= 0 <=> pcr_index[c] \in Pcrs
<1>1. pcr_index[c] \in {-1} \union Pcrs
  BY DEF TypeInv, TypeOK
<1>2. \A p \in Pcrs : p \in Int /\ p >= 0
  BY ConstantsAssumption
<1>3. -1 \in Int /\ ~(-1 >= 0)
  OBVIOUS
<1> QED
  BY <1>1, <1>2, <1>3

\* A single PolicyPCR assertion is a digest of its own.
LEMMA AssertionTypes ==
    ASSUME TypeInv, NEW c \in Clients, pc[c] = "policypcr"
    PROVE  LET a == <<pcr_index[c], pcr[pcr_index[c]]>>
           IN  a \in Pcrs \X PcrValues /\ a # Fresh /\ a # Spoiled
<1>1. pcr_index[c] \in Pcrs /\ pcr[pcr_index[c]] \in PcrValues
  BY DEF TypeInv, PolicyIndexed, TypeOK
<1> QED
  BY <1>1, ConstantsAssumption

\* What an authorised key operation says about the digest.
LEMMA AuthorisedDigest ==
    ASSUME TypeInv, NEW c \in Clients, Authorised(c)
    PROVE  \/ KeyPolicy = NoPolicy /\ ~(pcr_index[c] >= 0)
           \/ /\ KeyPolicy \in Pcrs \X PcrValues
              /\ digest[c] = KeyPolicy /\ snapshot[c] # "stale"
              /\ pcr_index[c] >= 0
              /\ digest[c] # Fresh /\ digest[c] # Spoiled
<1>1. CASE KeyPolicy = NoPolicy
  BY <1>1 DEF Authorised, SessionType
<1>2. CASE KeyPolicy # NoPolicy
  <2>1. KeyPolicy \in Pcrs \X PcrValues /\ KeyPolicy # Fresh /\ KeyPolicy # Spoiled
    BY <1>2, ConstantsAssumption
  <2> QED
    BY <1>2, <2>1 DEF Authorised, SessionType
<1> QED
  BY <1>1, <1>2

\* What a session's digest can be at each point of do_decrypt: fresh between calls,
\* the one assertion of the call in progress, or what an earlier throw left.
LEMMA DigestInvariant == Spec => []DigestLife
<1> USE DEF Constructing, Deciding, Destroying, Goto, DigestLife
<1>1. Init => DigestLife
  BY DEF Init
<1>2. ASSUME TypeInv, DigestLife, [Next]_vars
      PROVE  DigestLife'
  <2> USE <1>2
  <2>0. TypeOK
    BY DEF TypeInv
  <2>1. CASE UNCHANGED vars
    BY <2>1 DEF vars, implVars, tpmVars, histVars
  <2>2. ASSUME NEW c \in Clients, NEW p \in {-1} \union Pcrs, Construct(c, p)
        PROVE  DigestLife'
    BY <2>0, <2>2 DEF TypeOK, Construct, tpmVars, histVars
  <2>3. ASSUME NEW c \in Clients,
               EsysInitialize(c) \/ LoadKey(c) \/ CreateEk(c) \/ ConstructorThrows(c)
        PROVE  DigestLife'
    BY <2>0, <2>3 DEF TypeOK, EsysInitialize, LoadKey, CreateEk, ConstructorThrows,
                      implVars, tpmVars, histVars
  <2>4. ASSUME NEW c \in Clients, StartAuthSession(c) \/ SetAttributes(c)
        PROVE  DigestLife'
    BY <2>0, <2>4 DEF TypeOK, StartAuthSession, SetAttributes, SetAttributesTo, tpmVars, histVars
  <2>5. ASSUME NEW c \in Clients, NEW ct \in Ciphertexts, BeginDecrypt(c, ct)
        PROVE  DigestLife'
    BY <2>0, <2>5 DEF TypeOK, BeginDecrypt, BeginDecryptAt, implVars, tpmVars
  <2>6. ASSUME NEW c \in Clients, PolicyPcr(c)
        PROVE  DigestLife'
    <3>1. Extend(digest[c], pcr_index[c], pcr[pcr_index[c]]) # Fresh
      BY <2>6, AssertionTypes, ConstantsAssumption DEF PolicyPcr, PolicyPcrOf, Extend
    <3>2. tainted[c] => Extend(digest[c], pcr_index[c], pcr[pcr_index[c]]) = Spoiled
      BY DEF Extend
    <3>3. ~tainted[c] => Extend(digest[c], pcr_index[c], pcr[pcr_index[c]])
                           = <<pcr_index[c], pcr[pcr_index[c]]>>
      BY <2>6 DEF PolicyPcr, PolicyPcrOf, Extend
    <3>4. pcr_index[c] >= 0
      BY <2>6, IndexTypes DEF PolicyPcr, PolicyPcrOf, TypeInv, PolicyIndexed
    <3> QED
      BY <2>0, <2>6, <3>1, <3>2, <3>3, <3>4 DEF TypeOK, PolicyPcr, PolicyPcrOf, implVars, histVars
  <2>7. ASSUME NEW c \in Clients, PolicyPcrThrows(c)
        PROVE  DigestLife'
    BY <2>0, <2>7 DEF TypeOK, PolicyPcrThrows, Return, implVars, tpmVars
  <2>8. ASSUME NEW c \in Clients, SizeCheck(c)
        PROVE  DigestLife'
    <3>1. CASE cipher[c] = "oversized"
      <4>1. /\ tainted'[c] <=> tainted[c] \/ pcr_index[c] >= 0
            /\ \A d \in Clients \ {c} : tainted'[d] = tainted[d]
        BY <2>0, <2>8, <3>1 DEF TypeOK, SizeCheck, Taint
      <4>2. /\ pc[c] = "sizecheck" /\ pc' = [pc EXCEPT ![c] = "idle"]
            /\ \A d \in Clients \ {c} : steady'[d] = steady[d]
            /\ UNCHANGED <<pcr_index, pcr, digest, snapshot>>
        BY <2>0, <2>8, <3>1 DEF TypeOK, SizeCheck, Return, implVars, tpmVars
      <4> QED
        BY <2>0, <4>1, <4>2 DEF TypeOK
    <3>2. CASE cipher[c] # "oversized"
      BY <2>0, <2>8, <3>2 DEF TypeOK, SizeCheck, implVars, tpmVars, histVars
    <3> QED
      BY <3>1, <3>2
  <2>9. ASSUME NEW c \in Clients, RsaDecrypt(c)
        PROVE  DigestLife'
    <3>1. ~tainted[c]
      BY <2>9, AuthorisedDigest DEF RsaDecrypt
    <3> QED
      BY <2>0, <2>9, <3>1 DEF TypeOK, RsaDecrypt, Return, implVars
  <2>10. ASSUME NEW c \in Clients, RsaDecryptThrows(c)
         PROVE  DigestLife'
    <3>1. /\ tainted'[c] <=> tainted[c] \/ pcr_index[c] >= 0
          /\ \A d \in Clients \ {c} : tainted'[d] = tainted[d]
      BY <2>0, <2>10 DEF TypeOK, RsaDecryptThrows, Taint
    <3>2. /\ pc[c] = "rsadecrypt" /\ pc' = [pc EXCEPT ![c] = "idle"]
          /\ \A d \in Clients \ {c} : steady'[d] = steady[d]
          /\ UNCHANGED <<pcr_index, pcr, digest, snapshot>>
      BY <2>0, <2>10 DEF TypeOK, RsaDecryptThrows, Return, implVars, tpmVars
    <3> QED
      BY <2>0, <3>1, <3>2 DEF TypeOK
  <2>11. ASSUME NEW c \in Clients, Destroy(c) \/ FlushSession(c) \/ FlushEk(c)
         PROVE  DigestLife'
    BY <2>0, <2>11 DEF TypeOK, Destroy, FlushSession, FlushEk, implVars, tpmVars, histVars
  <2>12. ASSUME NEW c \in Clients, Finalize(c) \/ Crash(c)
         PROVE  DigestLife'
    BY <2>0, <2>12 DEF TypeOK, Finalize, Crash, ForgetImpl
  <2>13. ASSUME NEW p \in Pcrs, NEW v \in PcrValues, PcrChange(p, v)
         PROVE  DigestLife'
    BY <2>0, <2>13 DEF TypeOK, PcrChange, implVars
  <2>14. ASSUME ResourceManagerRestart
         PROVE  DigestLife'
    BY <2>14 DEF ResourceManagerRestart, implVars, histVars
  <2> QED
    BY NextCases, <2>1, <2>2, <2>3, <2>4, <2>5, <2>6, <2>7, <2>8, <2>9, <2>10, <2>11,
       <2>12, <2>13, <2>14
<1> QED
  BY <1>1, <1>2, TypeInvariant, PTL DEF Spec
-----------------------------------------------------------------------------
\* The steps that end a decrypt call, by how they end it.
LEMMA EndsCases ==
    ASSUME TypeInv, [Next]_vars, NEW c \in Clients, NEW o \in {"plaintext", "policyfail"},
           Ends(c, o)
    PROVE  \/ o = "policyfail" /\ pc[c] = "policypcr" /\ snapshot[c] = "stale"
           \/ o = "policyfail" /\ pc[c] = "rsadecrypt" /\ ~Authorised(c)
           \/ o = "plaintext" /\ pc[c] = "rsadecrypt" /\ Authorised(c)
<1> USE DEF Deciding, Goto, Ends
<1>0. TypeOK
  BY DEF TypeInv
<1>1. CASE UNCHANGED vars
  BY <1>1 DEF vars
<1>2. ASSUME NEW d \in Clients, d # c,
             \/ \E p \in {-1} \union Pcrs : Construct(d, p)
             \/ EsysInitialize(d) \/ LoadKey(d) \/ CreateEk(d)
             \/ StartAuthSession(d) \/ SetAttributes(d) \/ ConstructorThrows(d)
             \/ \E ct \in Ciphertexts : BeginDecrypt(d, ct)
             \/ PolicyPcr(d) \/ PolicyPcrThrows(d) \/ SizeCheck(d)
             \/ RsaDecrypt(d) \/ RsaDecryptThrows(d)
             \/ Destroy(d) \/ FlushSession(d) \/ FlushEk(d) \/ Finalize(d) \/ Crash(d)
      PROVE  pc'[c] = pc[c]
  BY <1>0, <1>2 DEF TypeOK, Construct, EsysInitialize, LoadKey, CreateEk, StartAuthSession,
        SetAttributes, SetAttributesTo, ConstructorThrows, BeginDecrypt, BeginDecryptAt, PolicyPcr, PolicyPcrOf, PolicyPcrThrows,
        SizeCheck, RsaDecrypt, RsaDecryptThrows, Return, Destroy, FlushSession, FlushEk,
        Finalize, Crash
<1>3. CASE \/ \E p \in {-1} \union Pcrs : Construct(c, p)
           \/ EsysInitialize(c) \/ LoadKey(c) \/ CreateEk(c)
           \/ StartAuthSession(c) \/ SetAttributes(c) \/ ConstructorThrows(c)
           \/ \E ct \in Ciphertexts : BeginDecrypt(c, ct)
           \/ PolicyPcr(c)
           \/ Destroy(c) \/ FlushSession(c) \/ FlushEk(c) \/ Finalize(c) \/ Crash(c)
  BY <1>0, <1>3 DEF TypeOK, Construct, EsysInitialize, LoadKey, CreateEk, StartAuthSession,
        SetAttributes, SetAttributesTo, ConstructorThrows, BeginDecrypt, BeginDecryptAt, PolicyPcr, PolicyPcrOf, Destroy, FlushSession,
        FlushEk, Finalize, Crash
<1>4. CASE PolicyPcrThrows(c)
  BY <1>0, <1>4 DEF TypeOK, PolicyPcrThrows, Return
<1>5. CASE SizeCheck(c)
  BY <1>0, <1>5 DEF TypeOK, SizeCheck, Return
<1>6. CASE RsaDecrypt(c)
  BY <1>0, <1>6 DEF TypeOK, RsaDecrypt, Return
<1>7. CASE RsaDecryptThrows(c)
  BY <1>0, <1>7 DEF TypeOK, RsaDecryptThrows, Return
<1>8. CASE (\E p \in Pcrs, v \in PcrValues : PcrChange(p, v)) \/ ResourceManagerRestart
  BY <1>8 DEF PcrChange, ResourceManagerRestart
<1> QED
  BY NextCases, <1>1, <1>2, <1>3, <1>4, <1>5, <1>6, <1>7, <1>8

\* With the right PCR contents throughout a call, a policy refusal is the after
\* -effect of an earlier throw on the same session and of nothing else.
THEOREM OnlyTaintedRefused == Spec => RefusedOnlyIfTainted
<1>1. ASSUME TypeInv, DigestLife, [Next]_vars, NEW c \in Clients,
             Ends(c, "policyfail"), steady[c], PcrMatches(c)
      PROVE  tainted[c]
  <2> USE <1>1
  <2>1. SUFFICES ASSUME ~tainted[c] PROVE FALSE
    OBVIOUS
  <2>2. KeyPolicy \in Pcrs \X PcrValues /\ pcr_index[c] \in Pcrs
        /\ KeyPolicy = <<pcr_index[c], pcr[pcr_index[c]]>>
    BY ConstantsAssumption DEF PcrMatches
  <2>3. CASE pc[c] = "policypcr" /\ snapshot[c] = "stale"
    BY <2>1, <2>3 DEF DigestLife
  <2>4. CASE pc[c] = "rsadecrypt" /\ ~Authorised(c)
    <3>1. pcr_index[c] >= 0
      BY <2>2, IndexTypes
    <3>2. digest[c] = KeyPolicy /\ snapshot[c] = "current"
      BY <2>1, <2>2, <2>4, <3>1 DEF DigestLife
    <3> QED
      BY <2>2, <2>4, <3>1, <3>2, ConstantsAssumption DEF Authorised, SessionType
  <2> QED
    BY <2>3, <2>4, EndsCases
<1>2. TypeInv /\ DigestLife /\ [Next]_vars =>
        [\A c \in Clients :
            Ends(c, "policyfail") /\ steady[c] /\ PcrMatches(c) => tainted[c]]_vars
  BY <1>1
<1> QED
  BY <1>2, TypeInvariant, DigestInvariant, PTL DEF Spec, RefusedOnlyIfTainted

\* A call that throws after its PolicyPCR costs the object every later decrypt.
THEOREM TaintIsPermanent == Spec => TaintedForGood
<1>1. ASSUME TypeInv, DigestLife, [Next]_vars, NEW c \in Clients, tainted[c],
             Ends(c, "plaintext")
      PROVE  FALSE
  <2>1. pc[c] = "rsadecrypt" /\ Authorised(c)
    BY <1>1, EndsCases
  <2>2. digest[c] = Spoiled /\ pcr_index[c] >= 0
    BY <1>1, <2>1 DEF DigestLife
  <2> QED
    BY <1>1, <2>1, <2>2, AuthorisedDigest
<1>2. TypeInv /\ DigestLife /\ [Next]_vars =>
        [\A c \in Clients : tainted[c] => ~Ends(c, "plaintext")]_vars
  BY <1>1
<1> QED
  BY <1>2, TypeInvariant, DigestInvariant, PTL DEF Spec, TaintedForGood
-----------------------------------------------------------------------------
(***************************************************************************)
(* The session lives as long as the object: decrypts keep it because they  *)
(* run with continueSession, and only the destructor flushes it.           *)
(***************************************************************************)
SessionKept ==
    \A c \in Clients :
        /\ valid[c] => pc[c] \in {"idle"} \union Deciding \union Destroying
        /\ pc[c] \in {"setattributes", "idle"} \union Deciding =>
              /\ "continuesession" \in attrs[c]
              /\ ~lost[c] => c \in tpmSession

\* From SetAttributes to the destructor the TPM keeps the session, failing and
\* succeeding decrypts included.
LEMMA SessionKeptInvariant == Spec => []SessionKept
<1> USE DEF Constructing, Deciding, Destroying, Goto, SessionKept
<1>1. Init => SessionKept
  BY DEF Init
<1>2. ASSUME TypeOK, HandlesFollowCalls, SessionKept, [Next]_vars
      PROVE  SessionKept'
  <2> USE <1>2
  <2>1. CASE UNCHANGED vars
    BY <2>1 DEF vars, implVars, tpmVars
  <2>2. ASSUME NEW c \in Clients, NEW p \in {-1} \union Pcrs, Construct(c, p)
        PROVE  SessionKept'
    BY <2>2 DEF TypeOK, Construct, tpmVars
  <2>3. ASSUME NEW c \in Clients,
               EsysInitialize(c) \/ LoadKey(c) \/ CreateEk(c) \/ ConstructorThrows(c)
        PROVE  SessionKept'
    BY <2>3 DEF TypeOK, EsysInitialize, LoadKey, CreateEk, ConstructorThrows,
                implVars, tpmVars
  <2>4. ASSUME NEW c \in Clients, StartAuthSession(c) \/ SetAttributes(c)
        PROVE  SessionKept'
    BY <2>4 DEF TypeOK, StartAuthSession, SetAttributes, SetAttributesTo, tpmVars
  <2>5. ASSUME NEW c \in Clients, NEW ct \in Ciphertexts, BeginDecrypt(c, ct)
        PROVE  SessionKept'
    BY <2>5 DEF TypeOK, BeginDecrypt, BeginDecryptAt, implVars, tpmVars
  <2>6. ASSUME NEW c \in Clients,
               \/ PolicyPcr(c) \/ PolicyPcrThrows(c) \/ SizeCheck(c) \/ RsaDecryptThrows(c)
        PROVE  SessionKept'
    BY <2>6 DEF TypeOK, PolicyPcr, PolicyPcrOf, PolicyPcrThrows, SizeCheck, RsaDecryptThrows,
                Return, implVars, tpmVars
  <2>7. ASSUME NEW c \in Clients, RsaDecrypt(c)
        PROVE  SessionKept'
    BY <2>7 DEF TypeOK, RsaDecrypt, Return, implVars
  <2>8. ASSUME NEW c \in Clients, Destroy(c) \/ FlushSession(c) \/ FlushEk(c)
        PROVE  SessionKept'
    BY <2>8 DEF TypeOK, Destroy, FlushSession, FlushEk, implVars, tpmVars
  <2>9. ASSUME NEW c \in Clients, Finalize(c) \/ Crash(c)
        PROVE  SessionKept'
    BY <2>9 DEF TypeOK, Finalize, Crash, ForgetImpl
  <2>10. CASE \E p \in Pcrs, v \in PcrValues : PcrChange(p, v)
    BY <2>10 DEF PcrChange, implVars
  <2>11. CASE ResourceManagerRestart
    BY <2>11 DEF ResourceManagerRestart, HandlesFollowCalls, implVars
  <2> QED
    BY NextCases, <2>1, <2>2, <2>3, <2>4, <2>5, <2>6, <2>7, <2>8, <2>9, <2>10, <2>11
<1> QED
  BY <1>1, <1>2, TypeCorrect, HandlesInvariant, PTL DEF Spec

\* No sequence of decrypt calls, of this object or of another, costs a valid
\* object its TPM session.
THEOREM SessionOutlivesCalls == Spec => []SessionSurvivesCalls
<1>1. SessionKept => SessionSurvivesCalls
  BY DEF SessionKept, SessionSurvivesCalls, Constructing, Deciding, Destroying
<1> QED
  BY <1>1, SessionKeptInvariant, PTL

-----------------------------------------------------------------------------
(***************************************************************************)
(* Refinement of PolicyGate.                                               *)
(***************************************************************************)
\* A digest with an assertion about a counted PCR that the TPM still takes for
\* current is about the present contents of that PCR.
SnapshotCurrent ==
    \A c \in Clients :
        /\ digest[c] # Fresh => snapshot[c] # "none"
        /\ \A p \in Counted, v \in PcrValues :
              digest[c] = <<p, v>> /\ snapshot[c] = "current" => pcr[p] = v

\* An assertion whose noted update counter is current still describes the PCR, if
\* the TPM counts its changes.
LEMMA SnapshotInvariant == Spec => []SnapshotCurrent
<1> USE DEF Goto, SnapshotCurrent
<1>1. Init => SnapshotCurrent
  BY ConstantsAssumption DEF Init
<1>2. ASSUME TypeInv, SnapshotCurrent, [Next]_vars
      PROVE  SnapshotCurrent'
  <2> USE <1>2
  <2>0. TypeOK
    BY DEF TypeInv
  <2>1. CASE UNCHANGED <<pcr, digest, snapshot>>
    BY <2>1
  <2>2. ASSUME NEW c \in Clients,
               StartAuthSession(c) \/ RsaDecrypt(c) \/ Finalize(c) \/ Crash(c)
        PROVE  SnapshotCurrent'
    <3>1. /\ digest' = [digest EXCEPT ![c] = Fresh]
          /\ snapshot' = [snapshot EXCEPT ![c] = "none"]
          /\ UNCHANGED pcr
      BY <2>2 DEF StartAuthSession, RsaDecrypt, Finalize, Crash, ForgetImpl
    <3> QED
      BY <2>0, <3>1, ConstantsAssumption DEF TypeOK
  <2>3. ASSUME NEW c \in Clients, PolicyPcr(c)
        PROVE  SnapshotCurrent'
    <3>1. /\ digest' = [digest EXCEPT ![c] = Extend(@, pcr_index[c], pcr[pcr_index[c]])]
          /\ snapshot' = [snapshot EXCEPT ![c] = "current"]
          /\ UNCHANGED pcr
      BY <2>3 DEF PolicyPcr, PolicyPcrOf
    <3>2. ASSUME NEW p \in Counted, NEW v \in PcrValues,
                 Extend(digest[c], pcr_index[c], pcr[pcr_index[c]]) = <<p, v>>
          PROVE  pcr[p] = v
      BY <3>2, ConstantsAssumption DEF Extend
    <3> QED
      BY <2>0, <3>1, <3>2 DEF TypeOK
  <2>4. ASSUME NEW p \in Pcrs, NEW v \in PcrValues, PcrChange(p, v)
        PROVE  SnapshotCurrent'
    BY <2>0, <2>4, ConstantsAssumption DEF TypeOK, PcrChange
  <2>5. ASSUME \/ UNCHANGED vars
               \/ \E c \in Clients :
                    \/ \E p \in {-1} \union Pcrs : Construct(c, p)
                    \/ EsysInitialize(c) \/ LoadKey(c) \/ CreateEk(c)
                    \/ SetAttributes(c) \/ ConstructorThrows(c)
                    \/ \E ct \in Ciphertexts : BeginDecrypt(c, ct)
                    \/ PolicyPcrThrows(c) \/ SizeCheck(c) \/ RsaDecryptThrows(c)
                    \/ Destroy(c) \/ FlushSession(c) \/ FlushEk(c)
               \/ ResourceManagerRestart
        PROVE  UNCHANGED <<pcr, digest, snapshot>>
    BY <2>5 DEF vars, tpmVars, Construct, EsysInitialize, LoadKey, CreateEk, SetAttributes, SetAttributesTo,
                ConstructorThrows, BeginDecrypt, BeginDecryptAt, PolicyPcrThrows, SizeCheck, RsaDecryptThrows,
                Destroy, FlushSession, FlushEk, ResourceManagerRestart
  <2> QED
    BY NextCases, <2>1, <2>2, <2>3, <2>4, <2>5
<1> QED
  BY <1>1, <1>2, TypeInvariant, PTL DEF Spec

\* A new object starts without a granted plaintext.
NoOutcomeYet == \A c \in Clients : pc[c] \in {"absent"} \union Constructing => outcome[c] = "none"

\* An object under construction has no decrypt behind it.
LEMMA NoOutcomeInvariant == Spec => []NoOutcomeYet
<1> USE DEF Constructing, Goto, NoOutcomeYet
<1>1. Init => NoOutcomeYet
  BY DEF Init
<1>2. ASSUME TypeOK, NoOutcomeYet, [Next]_vars
      PROVE  NoOutcomeYet'
  <2> USE <1>2
  <2>1. CASE UNCHANGED vars
    BY <2>1 DEF vars, histVars
  <2>2. ASSUME NEW c \in Clients,
               \/ \E p \in {-1} \union Pcrs : Construct(c, p)
               \/ EsysInitialize(c) \/ LoadKey(c) \/ CreateEk(c) \/ ConstructorThrows(c)
               \/ StartAuthSession(c) \/ SetAttributes(c)
        PROVE  NoOutcomeYet'
    BY <2>2 DEF TypeOK, Construct, EsysInitialize, LoadKey, CreateEk, ConstructorThrows,
                StartAuthSession, SetAttributes, SetAttributesTo, histVars
  <2>3. ASSUME NEW c \in Clients,
               \/ \E ct \in Ciphertexts : BeginDecrypt(c, ct)
               \/ PolicyPcr(c) \/ PolicyPcrThrows(c) \/ SizeCheck(c)
               \/ RsaDecrypt(c) \/ RsaDecryptThrows(c)
        PROVE  NoOutcomeYet'
    BY <2>3 DEF TypeOK, BeginDecrypt, BeginDecryptAt, PolicyPcr, PolicyPcrOf, PolicyPcrThrows, SizeCheck, RsaDecrypt,
                RsaDecryptThrows, Return, histVars
  <2>4. ASSUME NEW c \in Clients, Destroy(c) \/ FlushSession(c) \/ FlushEk(c)
        PROVE  NoOutcomeYet'
    BY <2>4 DEF TypeOK, Destroy, FlushSession, FlushEk, histVars
  <2>5. ASSUME NEW c \in Clients, Finalize(c) \/ Crash(c)
        PROVE  NoOutcomeYet'
    BY <2>5 DEF TypeOK, Finalize, Crash, ForgetImpl
  <2>6. ASSUME (\E p \in Pcrs, v \in PcrValues : PcrChange(p, v)) \/ ResourceManagerRestart
        PROVE  NoOutcomeYet'
    BY <2>6 DEF PcrChange, ResourceManagerRestart, histVars
  <2> QED
    BY NextCases, <2>1, <2>2, <2>3, <2>4, <2>5, <2>6
<1> QED
  BY <1>1, <1>2, TypeCorrect, PTL DEF Spec

states == [c \in Clients |-> vaultState(c)]

\* The abstract state depends on nothing but these variables.
LEMMA StateDepends ==
    ASSUME NEW c \in Clients, pc'[c] = pc[c], outcome'[c] = outcome[c],
           digest'[c] = digest[c]
    PROVE  vaultState(c)' = vaultState(c)
BY DEF vaultState, vouched

\* A step that leaves the other objects alone moves the abstract state of one.
LEMMA OneMoves ==
    ASSUME TypeOK, NEW c \in Clients, NEW l, NEW o, NEW d,
           \/ pc' = [pc EXCEPT ![c] = l] \/ UNCHANGED pc,
           \/ outcome' = [outcome EXCEPT ![c] = o] \/ UNCHANGED outcome,
           \/ digest' = [digest EXCEPT ![c] = d] \/ UNCHANGED digest
    PROVE  states' = [states EXCEPT ![c] = vaultState(c)']
<1>1. \A e \in Clients \ {c} : pc'[e] = pc[e] /\ outcome'[e] = outcome[e] /\ digest'[e] = digest[e]
  BY DEF TypeOK
<1>2. \A e \in Clients \ {c} : vaultState(e)' = vaultState(e)
  BY <1>1, StateDepends
<1> QED
  BY <1>2 DEF states

\* The session implements the gate: every plaintext was vouched for by a PolicyPCR
\* of the very call that returns it, and is released under a matching PCR as
\* long as the TPM counts that PCR's changes.
THEOREM ImplementsGate == Spec => GateSpec
<1> USE DEF Constructing, Deciding, Destroying, Goto
<1>1. Init => Gate!Init
  BY DEF Init, Gate!Init, vaultState
<1>2. ASSUME TypeInv, DigestLife, SnapshotCurrent, NoOutcomeYet, [Next]_vars
      PROVE  [Gate!Next]_(Gate!vars)
  <2> USE <1>2
  <2>0. TypeOK
    BY DEF TypeInv
  <2> SUFFICES \/ states' = states /\ UNCHANGED pcr
               \/ \E c \in Clients :
                     /\ UNCHANGED pcr
                     /\ states' = [states EXCEPT ![c] = vaultState(c)']
                     /\ \/ states[c] = "closed" /\ vaultState(c)' = "open"
                        \/ states[c] \in {"open", "granted"} /\ vaultState(c)' = "asked"
                        \/ /\ KeyPolicy # NoPolicy /\ Gate!Holds
                           /\ states[c] = "asked" /\ vaultState(c)' = "vouched"
                        \/ /\ KeyPolicy = NoPolicy
                           /\ states[c] = "asked" /\ vaultState(c)' = "granted"
                        \/ /\ KeyPolicy # NoPolicy /\ (KeyPolicy[1] \in Counted => Gate!Holds)
                           /\ states[c] = "vouched" /\ vaultState(c)' = "granted"
                        \/ states[c] \in {"asked", "vouched"} /\ vaultState(c)' = "open"
                        \/ /\ states[c] \in {"open", "asked", "vouched", "granted"}
                           /\ vaultState(c)' = "closed"
               \/ states' = states /\ pcr' \in [Pcrs -> PcrValues]
    BY DEF states, Gate!Next, Gate!vars, Gate!Open, Gate!Ask, Gate!Vouch, Gate!Grant,
           Gate!Deny, Gate!Close, Gate!Become, Gate!Measure
  <2>1. CASE UNCHANGED vars
    <3>1. \A c \in Clients : vaultState(c)' = vaultState(c)
      BY <2>1, StateDepends DEF vars, tpmVars, histVars
    <3> QED
      BY <2>1, <3>1 DEF states, vars, tpmVars
  <2>2. ASSUME NEW c \in Clients,
               \/ \E p \in {-1} \union Pcrs : Construct(c, p)
               \/ EsysInitialize(c) \/ LoadKey(c) \/ CreateEk(c) \/ StartAuthSession(c)
               \/ ConstructorThrows(c)
               \/ FlushSession(c) \/ FlushEk(c) \/ Finalize(c)
        PROVE  states' = states /\ UNCHANGED pcr
    <3>1. vaultState(c)' = vaultState(c)
      BY <2>0, <2>2 DEF TypeOK, Construct, EsysInitialize, LoadKey, CreateEk, StartAuthSession,
            ConstructorThrows, FlushSession, FlushEk, Finalize, ForgetImpl, vaultState
    <3>2. \A e \in Clients \ {c} :
             pc'[e] = pc[e] /\ outcome'[e] = outcome[e] /\ digest'[e] = digest[e]
      BY <2>0, <2>2 DEF TypeOK, Construct, EsysInitialize, LoadKey, CreateEk, StartAuthSession,
            ConstructorThrows, FlushSession, FlushEk, Finalize, ForgetImpl, tpmVars, histVars
    <3>3. UNCHANGED pcr
      BY <2>2 DEF Construct, EsysInitialize, LoadKey, CreateEk, StartAuthSession,
            ConstructorThrows, FlushSession, FlushEk, Finalize, tpmVars
    <3>4. \A e \in Clients : vaultState(e)' = vaultState(e)
      BY <3>1, <3>2, StateDepends
    <3> QED
      BY <3>3, <3>4 DEF states
  <2>3. ASSUME NEW c \in Clients, SetAttributes(c)
        PROVE  /\ UNCHANGED pcr /\ states' = [states EXCEPT ![c] = vaultState(c)']
               /\ states[c] = "closed" /\ vaultState(c)' = "open"
    <3>1. pc' = [pc EXCEPT ![c] = "idle"] /\ UNCHANGED <<outcome, digest, pcr>>
      BY <2>3 DEF SetAttributes, SetAttributesTo, tpmVars, histVars
    <3>2. states' = [states EXCEPT ![c] = vaultState(c)']
      BY <2>0, <3>1, OneMoves
    <3> QED
      BY <2>0, <2>3, <3>1, <3>2 DEF SetAttributes, SetAttributesTo, NoOutcomeYet, TypeOK, states, vaultState
  <2>4. ASSUME NEW c \in Clients, NEW ct \in Ciphertexts, BeginDecrypt(c, ct)
        PROVE  /\ UNCHANGED pcr /\ states' = [states EXCEPT ![c] = vaultState(c)']
               /\ states[c] \in {"open", "granted"} /\ vaultState(c)' = "asked"
    <3>1. /\ pc[c] = "idle"
          /\ pc' = [pc EXCEPT ![c] = IF pcr_index[c] >= 0 THEN "policypcr" ELSE "sizecheck"]
          /\ outcome' = [outcome EXCEPT ![c] = "none"]
          /\ UNCHANGED <<digest, pcr>>
      BY <2>4 DEF BeginDecrypt, BeginDecryptAt, tpmVars
    <3>2. states' = [states EXCEPT ![c] = vaultState(c)']
      BY <2>0, <3>1, OneMoves
    <3>3. ~(pcr_index[c] >= 0) => digest[c] # KeyPolicy
      BY <3>1, ConstantsAssumption DEF DigestLife
    <3>4. vaultState(c)' = "asked"
      BY <2>0, <3>1, <3>3 DEF TypeOK, vaultState, vouched
    <3> QED
      BY <3>1, <3>2, <3>4 DEF states, vaultState
  <2>5. ASSUME NEW c \in Clients, PolicyPcr(c)
        PROVE  /\ UNCHANGED pcr /\ states' = [states EXCEPT ![c] = vaultState(c)']
               /\ states[c] = "asked"
               /\ \/ vaultState(c)' = "asked"
                  \/ KeyPolicy # NoPolicy /\ Gate!Holds /\ vaultState(c)' = "vouched"
    <3> DEFINE d == Extend(digest[c], pcr_index[c], pcr[pcr_index[c]])
    <3>1. /\ pc[c] = "policypcr" /\ pc' = [pc EXCEPT ![c] = "sizecheck"]
          /\ digest' = [digest EXCEPT ![c] = d]
          /\ UNCHANGED <<outcome, pcr>>
      BY <2>5 DEF PolicyPcr, PolicyPcrOf, histVars
    <3>2. states' = [states EXCEPT ![c] = vaultState(c)']
      BY <2>0, <3>1, OneMoves
    <3>3. d = KeyPolicy => KeyPolicy # NoPolicy /\ Gate!Holds
      BY <3>1, AssertionTypes, ConstantsAssumption DEF Extend, Gate!Holds
    <3>4. vaultState(c)' = IF d = KeyPolicy THEN "vouched" ELSE "asked"
      BY <2>0, <3>1 DEF TypeOK, vaultState, vouched
    <3>5. states[c] = "asked"
      BY <3>1 DEF states, vaultState, vouched
    <3> QED
      BY <3>1, <3>2, <3>3, <3>4, <3>5
  <2>6. ASSUME NEW c \in Clients, NEW o \in Outcomes \ {"plaintext"},
               pc[c] \in Deciding, Return(c, o), UNCHANGED tpmVars
        PROVE  /\ UNCHANGED pcr /\ states' = [states EXCEPT ![c] = vaultState(c)']
               /\ states[c] \in {"asked", "vouched"} /\ vaultState(c)' = "open"
    <3>1. /\ pc' = [pc EXCEPT ![c] = "idle"]
          /\ outcome' = [outcome EXCEPT ![c] = o]
          /\ UNCHANGED <<digest, pcr>>
      BY <2>6 DEF Return, tpmVars
    <3>2. states' = [states EXCEPT ![c] = vaultState(c)']
      BY <2>0, <3>1, OneMoves
    <3> QED
      BY <2>0, <2>6, <3>1, <3>2 DEF TypeOK, states, vaultState
  <2>7. ASSUME NEW c \in Clients,
               PolicyPcrThrows(c) \/ RsaDecryptThrows(c) \/ (SizeCheck(c) /\ cipher[c] = "oversized")
        PROVE  \E o \in Outcomes \ {"plaintext"} :
                  pc[c] \in Deciding /\ Return(c, o) /\ UNCHANGED tpmVars
    BY <2>7 DEF PolicyPcrThrows, RsaDecryptThrows, SizeCheck, Outcomes
  <2>8. ASSUME NEW c \in Clients, SizeCheck(c), cipher[c] # "oversized"
        PROVE  states' = states /\ UNCHANGED pcr
    <3>1. /\ pc[c] = "sizecheck" /\ pc' = [pc EXCEPT ![c] = "rsadecrypt"]
          /\ UNCHANGED <<outcome, digest, pcr>>
      BY <2>8 DEF SizeCheck, tpmVars, histVars
    <3>2. states' = [states EXCEPT ![c] = vaultState(c)']
      BY <2>0, <3>1, OneMoves
    <3>3. vaultState(c)' = vaultState(c)
      BY <2>0, <3>1 DEF TypeOK, vaultState, vouched
    <3> QED
      BY <3>1, <3>2, <3>3 DEF states
  <2>9. ASSUME NEW c \in Clients, RsaDecrypt(c)
        PROVE  /\ UNCHANGED pcr /\ states' = [states EXCEPT ![c] = vaultState(c)']
               /\ vaultState(c)' = "granted"
               /\ \/ KeyPolicy = NoPolicy /\ states[c] = "asked"
                  \/ /\ KeyPolicy # NoPolicy /\ (KeyPolicy[1] \in Counted => Gate!Holds)
                     /\ states[c] = "vouched"
    <3>1. /\ pc[c] = "rsadecrypt" /\ pc' = [pc EXCEPT ![c] = "idle"]
          /\ outcome' = [outcome EXCEPT ![c] = "plaintext"]
          /\ digest' = [digest EXCEPT ![c] = Fresh]
          /\ UNCHANGED pcr /\ Authorised(c)
      BY <2>9 DEF RsaDecrypt, Return
    <3>2. states' = [states EXCEPT ![c] = vaultState(c)']
      BY <2>0, <3>1, OneMoves
    <3>3. vaultState(c)' = "granted"
      BY <2>0, <3>1 DEF TypeOK, vaultState
    <3>4. CASE KeyPolicy = NoPolicy /\ ~(pcr_index[c] >= 0)
      <4>1. digest[c] # KeyPolicy
        BY <3>1, <3>4, ConstantsAssumption DEF DigestLife
      <4> QED
        BY <3>1, <3>2, <3>3, <3>4, <4>1 DEF states, vaultState, vouched
    <3>5. CASE /\ KeyPolicy \in Pcrs \X PcrValues
               /\ digest[c] = KeyPolicy /\ snapshot[c] # "stale"
               /\ digest[c] # Fresh
      <4>1. snapshot[c] = "current"
        BY <2>0, <3>5 DEF SnapshotCurrent, TypeOK
      <4>2. KeyPolicy # NoPolicy
            /\ KeyPolicy = <<KeyPolicy[1], KeyPolicy[2]>> /\ KeyPolicy[2] \in PcrValues
        BY <3>5, ConstantsAssumption
      <4>3. KeyPolicy[1] \in Counted => Gate!Holds
        BY <3>5, <4>1, <4>2 DEF SnapshotCurrent, Gate!Holds
      <4>4. states[c] = "vouched"
        BY <3>1, <3>5 DEF states, vaultState, vouched
      <4> QED
        BY <3>1, <3>2, <3>3, <4>2, <4>3, <4>4
    <3> QED
      BY <3>1, <3>4, <3>5, AuthorisedDigest
  <2>10. ASSUME NEW c \in Clients, Destroy(c) \/ Crash(c)
         PROVE  /\ UNCHANGED pcr
                /\ \/ states' = states
                   \/ /\ states' = [states EXCEPT ![c] = vaultState(c)']
                      /\ states[c] \in {"open", "asked", "vouched", "granted"}
                      /\ vaultState(c)' = "closed"
    <3>1. UNCHANGED pcr /\ vaultState(c)' = "closed"
      BY <2>0, <2>10 DEF TypeOK, Destroy, Crash, tpmVars, vaultState
    <3>2. states' = [states EXCEPT ![c] = vaultState(c)']
      <4>1. CASE Destroy(c)
        <5>1. pc' = [pc EXCEPT ![c] = "flushsession"] /\ UNCHANGED <<outcome, digest>>
          BY <4>1 DEF Destroy, tpmVars, histVars
        <5> QED
          BY <2>0, <5>1, OneMoves
      <4>2. CASE Crash(c)
        <5>1. /\ pc' = [pc EXCEPT ![c] = "absent"]
              /\ outcome' = [outcome EXCEPT ![c] = "none"]
              /\ digest' = [digest EXCEPT ![c] = Fresh]
          BY <4>2 DEF Crash, ForgetImpl
        <5> QED
          BY <2>0, <5>1, OneMoves
      <4> QED
        BY <2>10, <4>1, <4>2
    <3>3. states[c] \in {"closed", "open", "asked", "vouched", "granted"}
      BY DEF states, vaultState
    <3>4. states[c] = "closed" => states' = states
      BY <3>1, <3>2 DEF states
    <3> QED
      BY <3>1, <3>2, <3>3, <3>4
  <2>11. ASSUME NEW p \in Pcrs, NEW v \in PcrValues, PcrChange(p, v)
         PROVE  states' = states /\ pcr' \in [Pcrs -> PcrValues]
    <3>1. \A c \in Clients : vaultState(c)' = vaultState(c)
      BY <2>11, StateDepends DEF PcrChange
    <3> QED
      BY <2>0, <2>11, <3>1 DEF TypeOK, PcrChange, states
  <2>12. ASSUME ResourceManagerRestart
         PROVE  states' = states /\ UNCHANGED pcr
    <3>1. \A c \in Clients : vaultState(c)' = vaultState(c)
      BY <2>12, StateDepends DEF ResourceManagerRestart, histVars
    <3> QED
      BY <2>12, <3>1 DEF ResourceManagerRestart, states
  <2>13. ASSUME NEW c \in Clients, vaultState(c)' = vaultState(c),
                states' = [states EXCEPT ![c] = vaultState(c)']
         PROVE  states' = states
    BY <2>13 DEF states
  <2>14. \A c \in Clients : states[c] = vaultState(c)
    BY DEF states
  <2>15. ASSUME NEW c \in Clients, PolicyPcrThrows(c) \/ RsaDecryptThrows(c) \/ SizeCheck(c)
         PROVE  /\ UNCHANGED pcr
                /\ \/ states' = states
                   \/ /\ states' = [states EXCEPT ![c] = vaultState(c)']
                      /\ states[c] \in {"asked", "vouched"} /\ vaultState(c)' = "open"
    <3>1. CASE SizeCheck(c) /\ cipher[c] # "oversized"
      BY <3>1, <2>8
    <3>2. CASE PolicyPcrThrows(c) \/ RsaDecryptThrows(c) \/ (SizeCheck(c) /\ cipher[c] = "oversized")
      <4>1. PICK o \in Outcomes \ {"plaintext"} :
               pc[c] \in Deciding /\ Return(c, o) /\ UNCHANGED tpmVars
        BY <3>2, <2>7
      <4> QED
        BY <4>1, <2>6
    <3> QED
      BY <2>15, <3>1, <3>2
  <2>16. CASE \E c \in Clients : PolicyPcr(c)
    BY <2>16, <2>5, <2>13, <2>14
  <2>17. CASE \E c \in Clients : Destroy(c) \/ Crash(c)
    BY <2>17, <2>10
  <2> QED
    BY NextCases, <2>1, <2>2, <2>3, <2>4, <2>9, <2>11, <2>12, <2>15, <2>16, <2>17
<1> QED
  BY <1>1, <1>2, TypeInvariant, DigestInvariant, SnapshotInvariant, NoOutcomeInvariant,
     PTL DEF Spec, GateSpec, Gate!Spec
=============================================================================
