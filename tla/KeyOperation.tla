---------------------------- MODULE KeyOperation ----------------------------
(***************************************************************************)
(* The calls of KeyVault (src/source/key_vault.cpp): protect, load, sign   *)
(* and decrypt, with every exit they have, the copies of the passphrase    *)
(* they make, the C resources they own and the page locks of SecureBuffer. *)
(*                                                                         *)
(* One vault per thread (key_vault.h, Thread Safety); the threads share    *)
(* the process's pages, and a page has one lock however often it was       *)
(* locked.  Each call into libc, OpenSSL or ESYS that can fail is a step.  *)
(*                                                                         *)
(* Covered: the failure of every such call, C++ allocations that throw,    *)
(* stack unwinding.  Not covered: bytes and lengths, the TPM commands      *)
(* behind rsadecrypt (see TssSession), buffers larger than a page.         *)
(***************************************************************************)
EXTENDS Naturals

CONSTANTS
    Threads,
    Pages,        \* memory pages that can hold a copy of a passphrase
    LockCanFail,  \* mlock can fail (no CAP_IPC_LOCK, RLIMIT_MEMLOCK)
    MaxHeld,      \* bound: loaded keys a thread has not freed
    NoPage

Operations == {"protect", "load", "sign", "decrypt"}

\* Copies of the passphrase: TPM2B_PUBLIC_KEY_RSA* plaintext of do_decrypt,
\* SecureBuffer passphrase, std::vector<char> pass_cstr.
Copies == {"esys", "buffer", "cstr"}

\* What the code must release by hand.
Resources == {"libctx", "file", "pubkey", "pkey", "ctx"}

ASSUME KeyOperationAssumption ==
    /\ NoPage \notin Pages
    /\ LockCanFail \in BOOLEAN
    /\ MaxHeld \in Nat

VARIABLES
    pc, op,    \* what each thread does next, and in which call
    where,     \* page of each copy of the passphrase
    locked,    \* pages locked in RAM
    owned,     \* resources the call in progress has to release
    output,    \* contents of the vector to be returned
    held,      \* keys from load_protected_key the caller has yet to free
    \* history
    result,    \* how the last call ended
    failed,    \* where it failed for want of memory, or in encrypt_init
    left       \* what it left behind, unreachable

vars == <<pc, op, where, locked, owned, output, held, result, failed, left>>

Encrypting == {"newlibctx", "openpub", "readpub", "encinit", "encsize", "encrypt"}
Loading    == {"rsadecrypt", "copyplain", "openpem", "copypass", "readpem", "returnkey"}
Using      == {"newctx", "prepare", "querysize", "finish", "freectx", "freekey"}
Sites      == {"none", "securebuffer", "copypass", "encinit", "output"}
Nowhere    == [k \in Copies |-> NoPage]

TypeOK ==
    /\ pc \in [Threads -> {"idle"} \union Encrypting \union Loading \union Using]
    /\ op \in [Threads -> Operations]
    /\ where \in [Threads -> [Copies -> Pages \union {NoPage}]]
    /\ locked \subseteq Pages
    /\ owned \in [Threads -> SUBSET Resources]
    /\ output \in [Threads -> {"empty", "zeroes", "genuine"}]
    /\ held \in [Threads -> 0..MaxHeld]
    /\ result \in [Threads -> {"none", "throw", "key", "empty", "zeroes", "genuine"}]
    /\ failed \in [Threads -> Sites]
    /\ left \in [Threads -> SUBSET (Resources \union Copies)]

Init ==
    /\ pc = [t \in Threads |-> "idle"]
    /\ op = [t \in Threads |-> "load"]
    /\ where = [t \in Threads |-> Nowhere]
    /\ locked \in {{}, Pages}   \* harden_process has called mlockall, or not
    /\ owned = [t \in Threads |-> {}]
    /\ output = [t \in Threads |-> "empty"]
    /\ held = [t \in Threads |-> 0]
    /\ result = [t \in Threads |-> "none"]
    /\ failed = [t \in Threads |-> "none"]
    /\ left = [t \in Threads |-> {}]

Goto(t, l) == pc' = [pc EXCEPT ![t] = l]
Own(t, rs) == owned' = [owned EXCEPT ![t] = rs]
Put(t, k, p) == where' = [where EXCEPT ![t][k] = p]

Live(t) == {k \in Copies : where[t][k] # NoPage}

-----------------------------------------------------------------------------
(***************************************************************************)
(* SecureBuffer: page locks do not nest.                                   *)
(***************************************************************************)
\* Slip: wipe calls munlockall.
UnlockedAll(p) == {}

Unlocked(p) == locked \ {p}

\* The constructor's mlock; its result is ignored.
LockedOutcomes(p) == {locked \union {p}} \union (IF LockCanFail THEN {locked} ELSE {})

\* The call ends by return or exception while rs is not released and the copies
\* ks are still there.  ~SecureBuffer wipes and unlocks; a vector is freed as it
\* is; what only a raw pointer refers to stays.
Leave(t, r, rs, ks) ==
    /\ left' = [left EXCEPT ![t] = rs \union (ks \ {"buffer"})]
    /\ locked' = Unlocked(where[t]["buffer"])
    /\ where' = [where EXCEPT ![t] = Nowhere]
    /\ result' = [result EXCEPT ![t] = r]
    /\ output' = [output EXCEPT ![t] = "empty"]
    /\ Own(t, {})
    /\ Goto(t, "idle")

\* throw after the code has released everything but rs.
Throw(t, rs) == Leave(t, "throw", rs, Live(t)) /\ UNCHANGED <<op, held, failed>>

\* std::bad_alloc: nothing but destructors runs.
BadAlloc(t, site) ==
    /\ Leave(t, "throw", owned[t], Live(t))
    /\ failed' = [failed EXCEPT ![t] = site]
    /\ UNCHANGED <<op, held>>

Begin(t, o) ==
    /\ pc[t] = "idle"
    /\ o = "load" => held[t] < MaxHeld
    /\ op' = [op EXCEPT ![t] = o]
    /\ result' = [result EXCEPT ![t] = "none"]
    /\ failed' = [failed EXCEPT ![t] = "none"]
    /\ left' = [left EXCEPT ![t] = {}]
    /\ Goto(t, IF o = "protect" THEN "newlibctx" ELSE "rsadecrypt")
    /\ UNCHANGED <<where, locked, owned, output, held>>

\* The caller's EVP_PKEY_free.
FreeLoadedKey(t) ==
    /\ pc[t] = "idle"
    /\ held[t] > 0
    /\ held' = [held EXCEPT ![t] = @ - 1]
    /\ UNCHANGED <<pc, op, where, locked, owned, output, result, failed, left>>

\* A step inside a call that does not end it.
Advance(t, l) == Goto(t, l) /\ UNCHANGED <<op, held, result, failed, left>>

-----------------------------------------------------------------------------
(***************************************************************************)
(* protect: encrypt_passphrase.  The caller keeps the plaintext.           *)
(***************************************************************************)
NewLibCtx(t) ==
    /\ pc[t] = "newlibctx"
    /\ Own(t, {"libctx"})
    /\ Advance(t, "openpub")
    /\ UNCHANGED <<where, locked, output>>

OpenPub(t) ==
    /\ pc[t] = "openpub"
    /\ \/ Throw(t, {})
       \/ Own(t, {"libctx", "file"}) /\ Advance(t, "readpub") /\ UNCHANGED <<where, locked, output>>

ReadPub(t) ==
    /\ pc[t] = "readpub"
    /\ \/ Throw(t, {})
       \/ Own(t, {"libctx", "pubkey"}) /\ Advance(t, "encinit") /\ UNCHANGED <<where, locked, output>>

\* The three conditions of one if; when encrypt_init or set_rsa_padding fails,
\* the context that was made is not freed.
EncInit(t) ==
    /\ pc[t] = "encinit"
    /\ \/ Throw(t, {})
       \/ /\ Leave(t, "throw", {"ctx"}, {})
          /\ failed' = [failed EXCEPT ![t] = "encinit"]
          /\ UNCHANGED <<op, held>>
       \/ Own(t, {"libctx", "pubkey", "ctx"}) /\ Advance(t, "encsize") /\ UNCHANGED <<where, locked, output>>

\* resize value-initialises the vector.
EncSize(t) ==
    /\ pc[t] = "encsize"
    /\ \/ Throw(t, {})
       \/ BadAlloc(t, "output")
       \/ /\ output' = [output EXCEPT ![t] = "zeroes"]
          /\ Advance(t, "encrypt")
          /\ UNCHANGED <<where, locked, owned>>

Encrypt(t) ==
    /\ pc[t] = "encrypt"
    /\ \/ Throw(t, {})
       \/ Leave(t, "genuine", {}, {}) /\ UNCHANGED <<op, held, failed>>

Protect(t) ==
    NewLibCtx(t) \/ OpenPub(t) \/ ReadPub(t) \/ EncInit(t) \/ EncSize(t) \/ Encrypt(t)

-----------------------------------------------------------------------------
(***************************************************************************)
(* load_protected_key: decrypt_passphrase, then load_encrypted_pem.        *)
(***************************************************************************)
RsaDecrypt(t) ==
    /\ pc[t] = "rsadecrypt"
    /\ \/ Throw(t, {})
       \/ /\ \E p \in Pages : Put(t, "esys", p)
          /\ Advance(t, "copyplain")
          /\ UNCHANGED <<locked, owned, output>>

\* The copy into a SecureBuffer, which locks its page, then wipe and free of the
\* ESYS buffer.
CopyPlain(t) ==
    /\ pc[t] = "copyplain"
    /\ \/ BadAlloc(t, "securebuffer")
       \/ \E p \in Pages :
             /\ where' = [where EXCEPT ![t]["buffer"] = p, ![t]["esys"] = NoPage]
             /\ locked' \in LockedOutcomes(p)
             /\ Advance(t, "openpem")
             /\ UNCHANGED <<owned, output>>

OpenPem(t) ==
    /\ pc[t] = "openpem"
    /\ \/ Throw(t, {})
       \/ Own(t, {"file"}) /\ Advance(t, "copypass") /\ UNCHANGED <<where, locked, output>>

CopyPass(t) ==
    /\ pc[t] = "copypass"
    /\ \/ BadAlloc(t, "copypass")
       \/ /\ \E p \in Pages : Put(t, "cstr", p)
          /\ Advance(t, "readpem")
          /\ UNCHANGED <<locked, owned, output>>

\* Slip: the failure is reported before the passphrase copy is wiped.
ReadPemThrowsFirst(t) ==
    /\ pc[t] = "readpem"
    /\ \/ Leave(t, "throw", {}, Live(t)) /\ UNCHANGED <<op, held, failed>>
       \/ /\ Put(t, "cstr", NoPage)
          /\ Own(t, {"pkey"})
          /\ Advance(t, "returnkey")
          /\ UNCHANGED <<locked, output>>

\* PEM_read_PrivateKey, fclose, wipe of pass_cstr, and only then the test.
ReadPem(t) ==
    /\ pc[t] = "readpem"
    /\ \/ Leave(t, "throw", {}, Live(t) \ {"cstr"}) /\ UNCHANGED <<op, held, failed>>
       \/ /\ Put(t, "cstr", NoPage)
          /\ Own(t, {"pkey"})
          /\ Advance(t, "returnkey")
          /\ UNCHANGED <<locked, output>>

\* Slips: the passphrase lives as long as the key; every call hands out its key.
ReturnKeyEarly(t) ==
    /\ pc[t] = "returnkey"
    /\ Advance(t, "newctx")
    /\ UNCHANGED <<where, locked, owned, output>>

ReturnKeyAlways(t) ==
    /\ pc[t] = "returnkey"
    /\ Leave(t, "key", {}, Live(t))
    /\ held' = [held EXCEPT ![t] = @ + 1]
    /\ UNCHANGED <<op, failed>>

\* The end of the SecureBuffer's scope.
ReturnKey(t) ==
    /\ pc[t] = "returnkey"
    /\ \/ /\ op[t] = "load"
          /\ Leave(t, "key", {}, Live(t))
          /\ held' = [held EXCEPT ![t] = @ + 1]
          /\ UNCHANGED <<op, failed>>
       \/ /\ op[t] # "load"
          /\ Put(t, "buffer", NoPage)
          /\ locked' = Unlocked(where[t]["buffer"])
          /\ Advance(t, "newctx")
          /\ UNCHANGED <<owned, output>>

Load(t) ==
    RsaDecrypt(t) \/ CopyPlain(t) \/ OpenPem(t) \/ CopyPass(t) \/ ReadPem(t) \/ ReturnKey(t)

-----------------------------------------------------------------------------
(***************************************************************************)
(* sign_with_protected_key and decrypt_with_protected_key: past the load   *)
(* they report failure with an empty vector.                               *)
(***************************************************************************)
NewCtx(t) ==
    /\ pc[t] = "newctx"
    /\ \/ Advance(t, "freekey") /\ UNCHANGED owned
       \/ Own(t, {"pkey", "ctx"}) /\ Advance(t, "prepare")
    /\ UNCHANGED <<where, locked, output>>

\* DigestSignInit and Update; decrypt_init and set_rsa_padding.
Prepare(t) ==
    /\ pc[t] = "prepare"
    /\ \/ Advance(t, "freectx")
       \/ Advance(t, "querysize")
    /\ UNCHANGED <<where, locked, owned, output>>

\* decrypt gives up when the size query fails; sign does not look, keeps the
\* size 0 and goes on with an empty vector.
QuerySize(t) ==
    /\ pc[t] = "querysize"
    /\ \/ BadAlloc(t, "output")
       \/ /\ output' = [output EXCEPT ![t] = "zeroes"]
          /\ Advance(t, "finish")
          /\ UNCHANGED <<where, locked, owned>>
       \/ /\ Advance(t, IF op[t] = "sign" THEN "finish" ELSE "freectx")
          /\ UNCHANGED <<where, locked, owned, output>>

\* Slip: a failing second call leaves the vector as resize made it.
FinishUncleared(t) ==
    /\ pc[t] = "finish"
    /\ \/ Advance(t, "freectx") /\ UNCHANGED output
       \/ output' = [output EXCEPT ![t] = "genuine"] /\ Advance(t, "freectx")
    /\ UNCHANGED <<where, locked, owned>>

\* The second call fills the vector.  An empty vector's data() is null, which
\* makes DigestSignFinal a size query: the resize after it makes zeroes.
Finish(t) ==
    /\ pc[t] = "finish"
    /\ \/ /\ output' = [output EXCEPT ![t] = "empty"]
          /\ Advance(t, "freectx")
          /\ UNCHANGED <<where, locked, owned>>
       \/ /\ output' = [output EXCEPT ![t] = IF @ = "empty" THEN "zeroes" ELSE "genuine"]
          /\ Advance(t, "freectx")
          /\ UNCHANGED <<where, locked, owned>>
       \/ output[t] = "empty" /\ BadAlloc(t, "output")

FreeCtx(t) ==
    /\ pc[t] = "freectx"
    /\ Own(t, {"pkey"})
    /\ Advance(t, "freekey")
    /\ UNCHANGED <<where, locked, output>>

FreeKey(t) ==
    /\ pc[t] = "freekey"
    /\ Leave(t, output[t], owned[t] \ {"pkey"}, Live(t))
    /\ UNCHANGED <<op, held, failed>>

Use(t) ==
    NewCtx(t) \/ Prepare(t) \/ QuerySize(t) \/ Finish(t) \/ FreeCtx(t) \/ FreeKey(t)

Next ==
    \E t \in Threads :
        \/ \E o \in Operations : Begin(t, o)
        \/ FreeLoadedKey(t)
        \/ Protect(t) \/ Load(t) \/ Use(t)

Spec == Init /\ [][Next]_vars

-----------------------------------------------------------------------------
(***************************************************************************)
(* Properties.                                                             *)
(***************************************************************************)
\* What an allocation that throws, or encrypt_init, makes a call leave behind.
Explained(site, o) ==
    CASE site = "none"         -> {}
      [] site = "securebuffer" -> {"esys"}
      [] site = "copypass"     -> {"file"}
      [] site = "encinit"      -> {"ctx"}
      [] site = "output"       -> IF o = "protect" THEN {"libctx", "pubkey", "ctx"} ELSE {"pkey", "ctx"}

\* Every call, on each of its exits, releases all it took and wipes all it
\* copied; the only exceptions are those of Explained.  pass_cstr is wiped on
\* every exit, and a signing key survives its call only for want of memory.
CallsCleanUp == \A t \in Threads : pc[t] = "idle" => left[t] \subseteq Explained(failed[t], op[t])

\* While the private key is in use no copy of the passphrase is left anywhere.
PassphraseGoneBeforeUse == \A t \in Threads : pc[t] \in Using => Live(t) = {}

\* protect and decrypt return what they computed, or nothing: a failure half way
\* never comes back as a vector of zeroes.
NeverZeroes ==
    \A t \in Threads : op[t] \in {"protect", "decrypt"} /\ pc[t] = "idle" => result[t] # "zeroes"

\* A SecureBuffer whose page was locked keeps the lock until it is wiped, unless
\* a SecureBuffer of another thread on the same page is wiped first.
LockLostOnlyToNeighbour ==
    [][\A t \in Threads :
          LET p == where[t]["buffer"]
          IN  /\ p \in locked /\ p \notin locked'
              /\ where'[t]["buffer"] = p
              => \E u \in Threads \ {t} : where[u]["buffer"] = p /\ where'[u]["buffer"] = NoPage]_vars

=============================================================================
