----------------------------- MODULE TssSession -----------------------------
(***************************************************************************)
(* TssSession (src/source/tss_session.cpp): the ESYS connection, the       *)
(* transient endorsement key and the EK-salted session that every RSA      *)
(* decrypt of the vault goes through, and the part of the TPM they talk    *)
(* to.                                                                     *)
(*                                                                         *)
(* Several TssSession objects live side by side, one per thread or process *)
(* (the class is not thread safe, tss_session.h:69), against one TPM that  *)
(* executes one command at a time.  Every ESYS call is one step, so the    *)
(* calls of different objects, changes of the PCRs, a restart of the       *)
(* resource manager and the death of a process interleave between any two  *)
(* of them.                                                                *)
(*                                                                         *)
(* Covered: the constructor with a failure at every call, do_decrypt with  *)
(* every throw, the destructor, crashes, loss of the TPM sessions.         *)
(* Not covered: key material, cryptography, the bytes on the bus; a moved  *)
(* -from object (KeyVault never moves its session).                        *)
(***************************************************************************)
EXTENDS Integers, FiniteSets

CONSTANTS
    Clients,      \* the TssSession objects
    Pcrs,         \* PCR numbers of the sha256 bank that are of interest
    Counted,      \* those whose change bumps the TPM's PCR update counter
    PcrValues,    \* contents a PCR can have
    KeyPolicy,    \* the key's authPolicy: <<pcr, value>>, or NoPolicy
    MaxSessions,  \* authorisation sessions the TPM can hold at once
    NoPolicy, Fresh, Spoiled   \* distinct marks, see Digests

Ciphertexts == {"good", "bad", "oversized"}
NoCiphertext == "none"

\* Contents of a policy session's policyDigest: the start value, the digest of
\* exactly one PolicyPCR, or of a chain of two and more.  Digests are
\* collision free, so a longer chain equals no single assertion.
Digests == {Fresh, Spoiled} \union (Pcrs \X PcrValues)

ASSUME ConstantsAssumption ==
    /\ Pcrs \subseteq 0..23
    /\ Counted \subseteq Pcrs
    /\ KeyPolicy \in (Pcrs \X PcrValues) \union {NoPolicy}
    /\ MaxSessions \in Nat
    /\ NoPolicy \notin Pcrs \X PcrValues
    /\ Fresh \notin Pcrs \X PcrValues
    /\ Spoiled \notin Pcrs \X PcrValues
    /\ Fresh # Spoiled
    /\ NoPolicy \notin {Fresh, Spoiled}

VARIABLES
    \* TssSession::Impl and the thread that runs it
    pc,          \* the next ESYS call of each object
    ctx,         \* Impl::ctx # nullptr
    ek_handle,   \* Impl::ek_handle # ESYS_TR_NONE
    session,     \* Impl::session # ESYS_TR_NONE
    pcr_index,   \* Impl::pcr_index, -1 for no policy
    valid,       \* Impl::valid
    attrs,       \* session attributes held by ESYS for the session
    cipher,      \* the ciphertext of the decrypt call in progress
    \* the TPM, behind its resource manager
    pcr,         \* current PCR contents
    tpmEk,       \* objects whose endorsement key is loaded
    tpmSession,  \* objects whose authorisation session is alive
    digest,      \* policyDigest of each session
    snapshot,    \* PCR update counter noted by PolicyPCR: none, current, stale
    lost,        \* the resource manager dropped the object's connection
    \* history
    outcome,     \* how the last decrypt call of each object ended
    tainted,     \* an earlier call of this session threw after its PolicyPCR
    steady       \* no PCR has changed since the call in progress began

implVars == <<ctx, ek_handle, session, pcr_index, valid, attrs>>
tpmVars  == <<pcr, tpmEk, tpmSession, digest, snapshot, lost>>
histVars == <<outcome, tainted, steady>>
vars == <<pc, implVars, cipher, tpmVars, histVars>>

Constructing == {"initialize", "loadkey", "createek", "startsession", "setattributes"}
Deciding     == {"policypcr", "sizecheck", "rsadecrypt"}
Destroying   == {"flushsession", "flushek", "finalize"}
Attributes   == {"decrypt", "encrypt", "continuesession"}
Outcomes     == {"none", "plaintext", "policyfail", "cipherfail", "toolarge", "tpmerror"}

TypeOK ==
    /\ pc \in [Clients -> {"absent", "idle"} \union Constructing \union Deciding \union Destroying]
    /\ ctx \in [Clients -> BOOLEAN]
    /\ ek_handle \in [Clients -> BOOLEAN]
    /\ session \in [Clients -> BOOLEAN]
    /\ pcr_index \in [Clients -> {-1} \union Pcrs]
    /\ valid \in [Clients -> BOOLEAN]
    /\ attrs \in [Clients -> SUBSET Attributes]
    /\ cipher \in [Clients -> Ciphertexts \union {NoCiphertext}]
    /\ pcr \in [Pcrs -> PcrValues]
    /\ tpmEk \subseteq Clients
    /\ tpmSession \subseteq Clients
    /\ digest \in [Clients -> Digests]
    /\ snapshot \in [Clients -> {"none", "current", "stale"}]
    /\ lost \in [Clients -> BOOLEAN]
    /\ outcome \in [Clients -> Outcomes]
    /\ tainted \in [Clients -> BOOLEAN]
    /\ steady \in [Clients -> BOOLEAN]

Init ==
    /\ pc = [c \in Clients |-> "absent"]
    /\ ctx = [c \in Clients |-> FALSE]
    /\ ek_handle = [c \in Clients |-> FALSE]
    /\ session = [c \in Clients |-> FALSE]
    /\ pcr_index = [c \in Clients |-> -1]
    /\ valid = [c \in Clients |-> FALSE]
    /\ attrs = [c \in Clients |-> {}]
    /\ cipher = [c \in Clients |-> NoCiphertext]
    /\ pcr \in [Pcrs -> PcrValues]
    /\ tpmEk = {}
    /\ tpmSession = {}
    /\ digest = [c \in Clients |-> Fresh]
    /\ snapshot = [c \in Clients |-> "none"]
    /\ outcome = [c \in Clients |-> "none"]
    /\ tainted = [c \in Clients |-> FALSE]
    /\ steady = [c \in Clients |-> FALSE]
    /\ lost = [c \in Clients |-> FALSE]

Goto(c, l) == pc' = [pc EXCEPT ![c] = l]

-----------------------------------------------------------------------------
(***************************************************************************)
(* The constructor: Impl::init, one ESYS call per step.  A call that does  *)
(* not return TSS2_RC_SUCCESS throws; the half-built object's unique_ptr   *)
(* member is destroyed, so ~Impl runs.                                     *)
(***************************************************************************)
Construct(c, p) ==
    /\ pc[c] = "absent"
    /\ Goto(c, "initialize")
    /\ pcr_index' = [pcr_index EXCEPT ![c] = p]
    /\ UNCHANGED <<ctx, ek_handle, session, valid, attrs, cipher, tpmVars, histVars>>

EsysInitialize(c) ==
    /\ pc[c] = "initialize"
    /\ ctx' = [ctx EXCEPT ![c] = TRUE]
    /\ Goto(c, "loadkey")
    /\ UNCHANGED <<ek_handle, session, pcr_index, valid, attrs, cipher, tpmVars, histVars>>

\* From here on every call needs the connection that Esys_Initialize opened.
\* Esys_TR_FromTPMPublic reads the public area of the persistent key.  The
\* reference is local to the connection and is never flushed.
LoadKey(c) ==
    /\ pc[c] = "loadkey"
    /\ ~lost[c]
    /\ Goto(c, "createek")
    /\ UNCHANGED <<implVars, cipher, tpmVars, histVars>>

CreateEk(c) ==
    /\ pc[c] = "createek"
    /\ ~lost[c]
    /\ ek_handle' = [ek_handle EXCEPT ![c] = TRUE]
    /\ tpmEk' = tpmEk \union {c}
    /\ Goto(c, "startsession")
    /\ UNCHANGED <<ctx, session, pcr_index, valid, attrs, cipher, pcr, tpmSession,
                   digest, snapshot, lost, histVars>>

\* The salt is encrypted to the EK, so the EK must still be loaded.
StartAuthSession(c) ==
    /\ pc[c] = "startsession"
    /\ c \in tpmEk
    /\ Cardinality(tpmSession) < MaxSessions
    /\ session' = [session EXCEPT ![c] = TRUE]
    /\ attrs' = [attrs EXCEPT ![c] = {"continuesession"}]
    /\ tpmSession' = tpmSession \union {c}
    /\ digest' = [digest EXCEPT ![c] = Fresh]
    /\ snapshot' = [snapshot EXCEPT ![c] = "none"]
    /\ tainted' = [tainted EXCEPT ![c] = FALSE]
    /\ Goto(c, "setattributes")
    /\ UNCHANGED <<ctx, ek_handle, pcr_index, valid, cipher, pcr, tpmEk, lost,
                   outcome, steady>>

\* A call into ESYS only: it succeeds even if the TPM has lost the session.
SetAttributesTo(c, as) ==
    /\ pc[c] = "setattributes"
    /\ attrs' = [attrs EXCEPT ![c] = as]
    /\ valid' = [valid EXCEPT ![c] = TRUE]
    /\ Goto(c, "idle")
    /\ UNCHANGED <<ctx, ek_handle, session, pcr_index, cipher, tpmVars, histVars>>

\* Slips: TPMA_SESSION_ENCRYPT left out; a mask that clears CONTINUESESSION.
SetAttributesNoEncrypt(c) == SetAttributesTo(c, {"decrypt", "continuesession"})
SetAttributesNoContinue(c) == SetAttributesTo(c, {"decrypt", "encrypt"})

SetAttributes(c) == SetAttributesTo(c, {"decrypt", "encrypt", "continuesession"})

\* Slip: init tries again after a failed call instead of throwing.
ConstructorRetries(c) ==
    /\ pc[c] \in Constructing
    /\ Goto(c, "initialize")
    /\ UNCHANGED <<implVars, cipher, tpmVars, histVars>>

ConstructorThrows(c) ==
    /\ pc[c] \in Constructing
    /\ Goto(c, "flushsession")
    /\ UNCHANGED <<implVars, cipher, tpmVars, histVars>>

-----------------------------------------------------------------------------
(***************************************************************************)
(* The destructor ~Impl, run on destruction and on a constructor's throw.  *)
(* Return codes are ignored; flushing what the TPM has already lost has no *)
(* effect.                                                                 *)
(***************************************************************************)
Destroy(c) ==
    /\ pc[c] = "idle"
    /\ Goto(c, "flushsession")
    /\ UNCHANGED <<implVars, cipher, tpmVars, histVars>>

\* Slip: the destructor flushes only what a finished constructor left.
FlushSessionIfValid(c) ==
    /\ pc[c] = "flushsession"
    /\ tpmSession' = IF ctx[c] /\ session[c] /\ valid[c] THEN tpmSession \ {c} ELSE tpmSession
    /\ Goto(c, "flushek")
    /\ UNCHANGED <<implVars, cipher, pcr, tpmEk, digest, snapshot, lost, histVars>>

FlushSession(c) ==
    /\ pc[c] = "flushsession"
    /\ tpmSession' = IF ctx[c] /\ session[c] THEN tpmSession \ {c} ELSE tpmSession
    /\ Goto(c, "flushek")
    /\ UNCHANGED <<implVars, cipher, pcr, tpmEk, digest, snapshot, lost, histVars>>

FlushEk(c) ==
    /\ pc[c] = "flushek"
    /\ tpmEk' = IF ctx[c] /\ ek_handle[c] THEN tpmEk \ {c} ELSE tpmEk
    /\ Goto(c, "finalize")
    /\ UNCHANGED <<implVars, cipher, pcr, tpmSession, digest, snapshot, lost, histVars>>

\* The object's memory is gone: a later one in its place starts from scratch.
ForgetImpl(c) ==
    /\ ctx' = [ctx EXCEPT ![c] = FALSE]
    /\ ek_handle' = [ek_handle EXCEPT ![c] = FALSE]
    /\ session' = [session EXCEPT ![c] = FALSE]
    /\ pcr_index' = [pcr_index EXCEPT ![c] = -1]
    /\ valid' = [valid EXCEPT ![c] = FALSE]
    /\ attrs' = [attrs EXCEPT ![c] = {}]
    /\ cipher' = [cipher EXCEPT ![c] = NoCiphertext]
    /\ digest' = [digest EXCEPT ![c] = Fresh]
    /\ snapshot' = [snapshot EXCEPT ![c] = "none"]
    /\ outcome' = [outcome EXCEPT ![c] = "none"]
    /\ tainted' = [tainted EXCEPT ![c] = FALSE]
    /\ steady' = [steady EXCEPT ![c] = FALSE]
    /\ lost' = [lost EXCEPT ![c] = FALSE]

Finalize(c) ==
    /\ pc[c] = "finalize"
    /\ ForgetImpl(c)
    /\ Goto(c, "absent")
    /\ UNCHANGED <<pcr, tpmEk, tpmSession>>

-----------------------------------------------------------------------------
(***************************************************************************)
(* do_decrypt.                                                             *)
(***************************************************************************)
\* The !valid throw needs an object that no constructor returned: BusEncrypted
\* says an idle object is valid.
BeginDecryptAt(c, ct, asserts) ==
    /\ pc[c] = "idle"
    /\ valid[c]
    /\ cipher' = [cipher EXCEPT ![c] = ct]
    /\ outcome' = [outcome EXCEPT ![c] = "none"]
    /\ steady' = [steady EXCEPT ![c] = TRUE]
    /\ Goto(c, IF asserts THEN "policypcr" ELSE "sizecheck")
    /\ UNCHANGED <<implVars, tpmVars, tainted>>

\* Slips: PolicyPCR is sent only until a call succeeds; only if the session holds
\* no assertion yet.
BeginDecryptOnce(c, ct) == BeginDecryptAt(c, ct, pcr_index[c] >= 0 /\ outcome[c] # "plaintext")
BeginDecryptReusing(c, ct) == BeginDecryptAt(c, ct, pcr_index[c] >= 0 /\ digest[c] = Fresh)

BeginDecrypt(c, ct) == BeginDecryptAt(c, ct, pcr_index[c] >= 0)

\* The call ends: with the plaintext, or with an exception out of the call.
Return(c, o) ==
    /\ outcome' = [outcome EXCEPT ![c] = o]
    /\ cipher' = [cipher EXCEPT ![c] = NoCiphertext]
    /\ steady' = [steady EXCEPT ![c] = FALSE]
    /\ Goto(c, "idle")

\* Slip: the policy session is restarted before each PolicyPCR.
ExtendRestarted(d, p, v) == <<p, v>>

\* TPM2_PolicyPCR with an empty pcrDigest compares nothing: it folds the PCR's
\* current contents into the digest, whatever they are.
Extend(d, p, v) == IF d = Fresh THEN <<p, v>> ELSE Spoiled

PolicyPcrOf(c, p) ==
    /\ pc[c] = "policypcr"
    /\ c \in tpmSession
    /\ snapshot[c] # "stale"
    /\ digest' = [digest EXCEPT ![c] = Extend(@, p, pcr[pcr_index[c]])]
    /\ snapshot' = [snapshot EXCEPT ![c] = "current"]
    /\ Goto(c, "sizecheck")
    /\ UNCHANGED <<implVars, cipher, pcr, tpmEk, tpmSession, lost, histVars>>

\* Slip: the bit after pcr_index is set in pcrSelect.
PolicyPcrNextBit(c) == PolicyPcrOf(c, pcr_index[c] + 1)

PolicyPcr(c) == PolicyPcrOf(c, pcr_index[c])

\* TPM_RC_PCR_CHANGED, or the TPM cannot be reached.
PolicyPcrThrows(c) ==
    /\ pc[c] = "policypcr"
    /\ Return(c, IF c \in tpmSession /\ snapshot[c] = "stale" THEN "policyfail" ELSE "tpmerror")
    /\ UNCHANGED <<implVars, tpmVars, tainted>>

\* An exception past a successful PolicyPCR leaves its assertion in the digest.
Taint(c) == tainted' = [tainted EXCEPT ![c] = @ \/ pcr_index[c] >= 0]

SizeCheck(c) ==
    /\ pc[c] = "sizecheck"
    /\ \/ /\ cipher[c] = "oversized"
          /\ Return(c, "toolarge")
          /\ Taint(c)
       \/ /\ cipher[c] # "oversized"
          /\ Goto(c, "rsadecrypt")
          /\ UNCHANGED <<cipher, histVars>>
    /\ UNCHANGED <<implVars, tpmVars>>

SessionType(c) == IF pcr_index[c] >= 0 THEN "policy" ELSE "hmac"

\* The TPM's authorisation check for the key.  A key with an authPolicy was
\* created without userwithauth and takes only a policy session whose digest is
\* that policy and whose noted PCR update counter is current; a key without one
\* takes only an HMAC session.
Authorised(c) ==
    IF KeyPolicy = NoPolicy
    THEN SessionType(c) = "hmac"
    ELSE /\ SessionType(c) = "policy"
         /\ digest[c] = KeyPolicy
         /\ snapshot[c] # "stale"

\* A successful command starts a kept policy session afresh, and ends a session
\* that lacks continueSession.
RsaDecrypt(c) ==
    /\ pc[c] = "rsadecrypt"
    /\ c \in tpmSession
    /\ Authorised(c)
    /\ cipher[c] = "good"
    /\ Return(c, "plaintext")
    /\ tpmSession' = IF "continuesession" \in attrs[c] THEN tpmSession ELSE tpmSession \ {c}
    /\ digest' = [digest EXCEPT ![c] = Fresh]
    /\ snapshot' = [snapshot EXCEPT ![c] = "none"]
    /\ UNCHANGED <<implVars, pcr, tpmEk, lost, tainted>>

\* Refused, failed on the ciphertext, or the TPM cannot be reached.  A failed
\* command leaves the session's policy state as it was.
RsaDecryptThrows(c) ==
    /\ pc[c] = "rsadecrypt"
    /\ \E o \in {"policyfail", "cipherfail", "tpmerror"} :
          /\ o = "policyfail" => c \in tpmSession /\ ~Authorised(c)
          /\ o = "cipherfail" => c \in tpmSession /\ Authorised(c) /\ cipher[c] = "bad"
          /\ Return(c, o)
    /\ Taint(c)
    /\ UNCHANGED <<implVars, tpmVars>>

-----------------------------------------------------------------------------
(***************************************************************************)
(* The surroundings: PCR extends and resets by other programs, a restart   *)
(* of the resource manager (TPM.md, Session Errors) and process death.     *)
(***************************************************************************)
PcrChange(p, v) ==
    /\ pcr[p] # v
    /\ pcr' = [pcr EXCEPT ![p] = v]
    /\ snapshot' = IF p \in Counted
                   THEN [c \in Clients |-> IF snapshot[c] = "none" THEN "none" ELSE "stale"]
                   ELSE snapshot
    /\ steady' = [c \in Clients |-> FALSE]
    /\ UNCHANGED <<pc, implVars, cipher, tpmEk, tpmSession, digest, lost, outcome, tainted>>

ResourceManagerRestart ==
    /\ \E c \in Clients : ctx[c] /\ ~lost[c]
    /\ lost' = ctx
    /\ tpmEk' = {}
    /\ tpmSession' = {}
    /\ UNCHANGED <<pc, implVars, cipher, pcr, digest, snapshot, histVars>>

\* The resource manager reclaims what a dead process had in the TPM.
Crash(c) ==
    /\ pc[c] # "absent"
    /\ ForgetImpl(c)
    /\ Goto(c, "absent")
    /\ tpmEk' = tpmEk \ {c}
    /\ tpmSession' = tpmSession \ {c}
    /\ UNCHANGED pcr

-----------------------------------------------------------------------------
ConstructStep(c) ==
    \/ EsysInitialize(c) \/ LoadKey(c) \/ CreateEk(c) \/ StartAuthSession(c)
    \/ SetAttributes(c) \/ ConstructorThrows(c)

DecryptStep(c) ==
    \/ PolicyPcr(c) \/ PolicyPcrThrows(c) \/ SizeCheck(c)
    \/ RsaDecrypt(c) \/ RsaDecryptThrows(c)

DestroyStep(c) == FlushSession(c) \/ FlushEk(c) \/ Finalize(c)

\* What the object's own thread does once a method has been called.
Step(c) == ConstructStep(c) \/ DecryptStep(c) \/ DestroyStep(c)

Call(c) ==
    \/ \E p \in {-1} \union Pcrs : Construct(c, p)
    \/ \E ct \in Ciphertexts : BeginDecrypt(c, ct)
    \/ Destroy(c)

Environment ==
    \/ \E p \in Pcrs, v \in PcrValues : PcrChange(p, v)
    \/ ResourceManagerRestart
    \/ \E c \in Clients : Crash(c)

Next == (\E c \in Clients : Call(c) \/ Step(c)) \/ Environment

Spec == Init /\ [][Next]_vars

\* A method that was called keeps running; nothing makes a program call one, and
\* nothing makes the surroundings act.
FairSpec == Spec /\ \A c \in Clients : WF_vars(Step(c))

-----------------------------------------------------------------------------
(***************************************************************************)
(* Properties.                                                             *)
(***************************************************************************)
\* Every session and endorsement key in the TPM belongs to an object that will
\* flush it: it has an open connection and has noted the handle.  In particular
\* a constructor that throws half way leaves nothing behind, so construction
\* can be retried for ever without exhausting the TPM's sessions.
NothingOrphaned ==
    \A c \in Clients :
        /\ c \in tpmSession => ctx[c] /\ session[c]
        /\ c \in tpmEk => ctx[c] /\ ek_handle[c]

\* RSA_Decrypt goes out only on a session that encrypts both directions, so
\* neither ciphertext nor plaintext crosses the bus in the clear (init sets the
\* attributes before it sets valid, do_decrypt checks valid).
BusEncrypted ==
    \A c \in Clients :
        pc[c] \in {"idle"} \union Deciding => valid[c] /\ {"decrypt", "encrypt"} \subseteq attrs[c]

\* The session of a constructed object outlives any number of decrypt calls,
\* successful or not: only a resource manager restart takes it away.
SessionSurvivesCalls ==
    \A c \in Clients : valid[c] /\ pc[c] \notin Destroying /\ ~lost[c] => c \in tpmSession

Ends(c, o) == pc[c] \in Deciding /\ pc'[c] = "idle" /\ outcome'[c] = o

\* The PCR the object was opened for is the key's, and holds the key's value.
PcrMatches(c) == KeyPolicy # NoPolicy /\ pcr_index[c] = KeyPolicy[1] /\ pcr[KeyPolicy[1]] = KeyPolicy[2]

\* A call that runs with matching PCRs from beginning to end is refused for
\* policy only if an earlier call on the same session threw after its PolicyPCR:
\* two sessions do not disturb each other, and a session is good for any number
\* of successful calls.
RefusedOnlyIfTainted ==
    [][\A c \in Clients :
          Ends(c, "policyfail") /\ steady[c] /\ PcrMatches(c) => tainted[c]]_vars

\* Once a call has thrown after its PolicyPCR, no later call of that object
\* yields a plaintext, whatever the PCRs do: only a new object helps.
TaintedForGood ==
    [][\A c \in Clients : tainted[c] => ~Ends(c, "plaintext")]_vars

\* A method that was called comes back: a constructor returns or throws, a
\* decrypt returns or throws, a destructor ends.
CallsReturn ==
    \A c \in Clients : pc[c] \notin {"absent", "idle"} ~> pc[c] \in {"absent", "idle"}

\* What PCR_POLICY.md says of a key operation: with a matching PCR it is allowed.
\* The code does not keep this promise, see TaintedForGood.
MatchingPcrIsAllowed ==
    [][\A c \in Clients : ~(Ends(c, "policyfail") /\ steady[c] /\ PcrMatches(c))]_vars

-----------------------------------------------------------------------------
(***************************************************************************)
(* The promise the vault is built on, see PolicyGate.                      *)
(***************************************************************************)
vouched(c) == pc[c] \in {"sizecheck", "rsadecrypt"} /\ digest[c] = KeyPolicy

vaultState(c) ==
    CASE pc[c] = "idle" -> IF outcome[c] = "plaintext" THEN "granted" ELSE "open"
      [] pc[c] \in Deciding -> IF vouched(c) THEN "vouched" ELSE "asked"
      [] OTHER -> "closed"

Gate == INSTANCE PolicyGate WITH vault <- [c \in Clients |-> vaultState(c)]

GateSpec == Gate!Spec
=============================================================================
