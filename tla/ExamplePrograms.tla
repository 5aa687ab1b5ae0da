-------------------------- MODULE ExamplePrograms --------------------------
(***************************************************************************)
(* The example programs src/source/tpm_example.cpp, which works with       *)
(* OpenSSL's objects by hand, and key_vault_example.cpp, which uses the    *)
(* vault.                                                                  *)
(*                                                                         *)
(* Almost every step is a call that can fail, after which the code frees   *)
(* some objects, in an order written out at that place, and goes on        *)
(* elsewhere.  A program is a table of such calls; the loop over the store *)
(* of keys and the places where a program looks at what it has are actions *)
(* of their own.                                                           *)
(*                                                                         *)
(* Covered: both programs with every outcome of every call.                *)
(* Not covered: what is printed; bad_alloc, which ends a program; the      *)
(* inside of the vault's calls (KeyOperation).                             *)
(***************************************************************************)
EXTENDS Naturals, Sequences

CONSTANT MaxEntries  \* bound: objects in the store of keys

ASSUME ExampleAssumption == MaxEntries \in Nat

\* A call: the object it makes, the objects freed after it when it succeeds and
\* when it fails, and where the program goes on.
Call(makes, freed, next, freedOnError, onError) ==
    [makes |-> makes, freed |-> freed, next |-> next,
     freedOnError |-> freedOnError, onError |-> onError]

\* A call that makes no object and frees none when it succeeds.
Check(next, freedOnError, onError) == Call("none", <<>>, next, freedOnError, onError)

-----------------------------------------------------------------------------
(***************************************************************************)
(* tpm_example.cpp                                                         *)
(***************************************************************************)
tpm_sign ==
    [signctx    |-> Call("mdctx", <<>>, "signinit", <<>>, "signed"),
     signinit   |-> Check("signupdate", <<"mdctx">>, "signed"),
     signupdate |-> Check("signsize", <<"mdctx">>, "signed"),
     signsize   |-> Check("sign", <<"mdctx">>, "signed"),
     sign       |-> Call("output", <<"mdctx">>, "signed", <<"mdctx">>, "signed")]

\* The three calls of the condition count as one.
verify_signature ==
    [verifyctx |-> Call("mdctx", <<>>, "verify", <<>>, "libctx"),
     verify    |-> Call("none", <<"mdctx">>, "libctx", <<"mdctx">>, "libctx")]

tpm_decrypt ==
    [decctx     |-> Call("ctx", <<>>, "decinit", <<>>, "decrypted"),
     decinit    |-> Check("decpadding", <<"ctx">>, "decrypted"),
     decpadding |-> Check("decsize", <<"ctx">>, "decrypted"),
     decsize    |-> Check("decrypt", <<"ctx">>, "decrypted"),
     decrypt    |-> Call("output", <<"ctx">>, "decrypted", <<"ctx">>, "decrypted")]

WithPubkey == <<"pubkey", "defprov", "libctx">>
WithCtx    == <<"encctx", "pubkey", "defprov", "libctx">>

\* Slip: this exit forgets the library context.
ProviderOnly == <<"defprov">>

WithoutFile == <<"defprov", "libctx">>

encrypt_with_pubkey_file ==
    [libctx     |-> Call("libctx", <<>>, "defprov", <<>>, "encrypted"),
     defprov    |-> Call("defprov", <<>>, "fopen", <<"libctx">>, "encrypted"),
     fopen      |-> Call("fp", <<>>, "readpub", WithoutFile, "encrypted"),
     readpub    |-> Call("pubkey", <<"fp">>, "encctx", <<"fp", "defprov", "libctx">>, "encrypted"),
     encctx     |-> Call("encctx", <<>>, "encinit", WithPubkey, "encrypted"),
     encinit    |-> Check("encpadding", WithCtx, "encrypted"),
     encpadding |-> Check("encsize", WithCtx, "encrypted"),
     encsize    |-> Check("encrypt", WithCtx, "encrypted"),
     encrypt    |-> Call("output", WithCtx, "encrypted", WithCtx, "encrypted")]

\* main up to the key; neither provider is looked at when it is loaded.
LoadProviders ==
    [files    |-> Check("tpm2", <<>>, "exit1"),
     tpm2     |-> Call("tpm2", <<>>, "default", <<>>, "default"),
     default  |-> Call("default", <<>>, "loaded", <<>>, "loaded"),
     open     |-> Call("store", <<>>, "eof", <<>>, "exit1")]

-----------------------------------------------------------------------------
(***************************************************************************)
(* key_vault_example.cpp                                                   *)
(***************************************************************************)
\* create_test_pem looks at no result; without a file it writes through NULL.
create_test_pem ==
    [keygenctx |-> Call("ctx", <<>>, "keygen", <<>>, "keygen"),
     keygen    |-> Call("userkey", <<"ctx">>, "create", <<"ctx">>, "create"),
     create    |-> Call("fp", <<>>, "write", <<>>, "crash"),
     write     |-> Call("none", <<"fp", "userkey">>, "protect", <<"fp", "userkey">>, "protect")]

\* main: what throws inside the try ends in the destructor of the vault and in
\* exit 1; an empty signature or plaintext is reported, and the program goes on.
VaultMain ==
    [vaultfiles |-> Check("construct", <<>>, "exit1"),
     construct  |-> Call("vault", <<>>, "keygenctx", <<>>, "exit1"),
     protect    |-> Check("vaultsign", <<"vault">>, "exit1"),
     vaultsign  |-> Check("reopen", <<"vault">>, "exit1"),
     reopen     |-> Call("fp", <<>>, "reread", <<>>, "crash"),
     reread     |-> Call("userkey", <<"fp">>, "userctx", <<"fp">>, "userctx"),
     userctx    |-> Call("ctx", <<>>, "userencrypt", <<>>, "userencrypt"),
     userencrypt |-> Call("none", <<"ctx", "userkey">>, "vaultdecrypt",
                          <<"ctx", "userkey">>, "vaultdecrypt"),
     vaultdecrypt |-> Call("none", <<"vault">>, "exit0", <<"vault">>, "exit1")]

-----------------------------------------------------------------------------
\* The table of both programs: no two of the parts have a label in common.
Parts == {tpm_sign, verify_signature, tpm_decrypt, encrypt_with_pubkey_file,
          LoadProviders, create_test_pem, VaultMain}

Program == [l \in UNION {DOMAIN p : p \in Parts} |->
              LET part == CHOOSE p \in Parts : l \in DOMAIN p IN part[l]]

CallLabels == DOMAIN Program

Objects == {"mdctx", "ctx", "encctx", "libctx", "defprov", "fp", "pubkey", "tpm2", "default",
            "store", "info", "pkey", "userkey", "vault"}

LoopLabels == {"eof", "load", "close"}
Looks      == {"loaded", "signed", "encrypted", "decrypted"}
Exits      == {"exit0", "exit1", "crash"}
MainLabels == Looks \union {"open", "signctx", "verifyctx", "libctx", "decctx"}

VARIABLES
    pc,
    live,     \* objects that exist
    freeing,  \* objects still to be freed before the program goes on
    output,   \* the vector of the last sign, encrypt or decrypt: empty or filled
    entries,  \* what the store of keys still holds
    null      \* the last OSSL_STORE_load gave NULL

vars == <<pc, live, freeing, output, entries, null>>

TypeOK ==
    /\ pc \in CallLabels \union LoopLabels \union Looks \union Exits
    /\ live \subseteq Objects
    /\ \A i \in DOMAIN freeing : freeing[i] \in Objects
    /\ output \in {"empty", "filled"}
    /\ entries \in UNION {[1..n -> {"pkey", "other"}] : n \in 0..MaxEntries}
    /\ null \in BOOLEAN
    /\ "info" \in live => pc \in LoopLabels

Init ==
    /\ pc \in {"files", "vaultfiles"}
    /\ live = {}
    /\ freeing = <<>>
    /\ output = "empty"
    /\ entries \in UNION {[1..n -> {"pkey", "other"}] : n \in 0..MaxEntries}
    /\ null = FALSE

\* A call returns.
Succeed(l) ==
    /\ pc = l /\ freeing = <<>>
    /\ live' = live \union ({Program[l].makes} \intersect Objects)
    /\ output' = IF Program[l].makes = "output" THEN "filled" ELSE output
    /\ freeing' = Program[l].freed
    /\ pc' = Program[l].next
    /\ UNCHANGED <<entries, null>>

\* What the helper had made of its vector it clears.
Fail(l) ==
    /\ pc = l /\ freeing = <<>>
    /\ freeing' = Program[l].freedOnError
    /\ pc' = Program[l].onError
    /\ UNCHANGED <<live, output, entries, null>>

\* Freeing NULL is allowed.
Free ==
    /\ freeing # <<>>
    /\ live' = live \ {Head(freeing)}
    /\ freeing' = Tail(freeing)
    /\ UNCHANGED <<pc, output, entries, null>>

-----------------------------------------------------------------------------
(***************************************************************************)
(* load_tpm_key: the loop over the store.                                  *)
(***************************************************************************)
\* Slip: the loop asks for the key instead of for the end.
TestEofForKey ==
    /\ pc = "eof" /\ freeing = <<>>
    /\ pc' = IF "pkey" \in live THEN "close" ELSE "load"
    /\ UNCHANGED <<live, freeing, output, entries, null>>

TestEof ==
    /\ pc = "eof" /\ freeing = <<>>
    /\ pc' = IF entries = <<>> THEN "close" ELSE "load"
    /\ UNCHANGED <<live, freeing, output, entries, null>>

\* A NULL from the store takes nothing out of it, and the loop tries again.
LoadNull ==
    /\ pc = "load"
    /\ null' = TRUE
    /\ pc' = "eof"
    /\ UNCHANGED <<live, freeing, output, entries>>

\* Slip: an object that is no key is not freed.
LoadInfoUnfreed ==
    /\ pc = "load"
    /\ entries # <<>>
    /\ entries' = Tail(entries)
    /\ null' = FALSE
    /\ live' = live \union {"info"} \union ({Head(entries)} \intersect {"pkey"})
    /\ freeing' = IF Head(entries) = "pkey" THEN <<"info">> ELSE <<>>
    /\ pc' = IF Head(entries) = "pkey" THEN "close" ELSE "eof"
    /\ UNCHANGED output

\* get1_PKEY can fail as well; the loop is left when it did not.
LoadInfo ==
    /\ pc = "load"
    /\ entries # <<>>
    /\ entries' = Tail(entries)
    /\ null' = FALSE
    /\ freeing' = <<"info">>
    /\ \/ /\ Head(entries) = "pkey"
          /\ live' = live \union {"info", "pkey"}
          /\ pc' = "close"
       \/ /\ live' = live \union {"info"}
          /\ pc' = "eof"
    /\ UNCHANGED output

CloseStore ==
    /\ pc = "close" /\ freeing = <<>>
    /\ freeing' = <<"store">>
    /\ pc' = IF "pkey" \in live THEN "signctx" ELSE "exit1"
    /\ UNCHANGED <<live, output, entries, null>>

-----------------------------------------------------------------------------
\* main of tpm_example looks at what a call or a helper gave it; the early exits
\* free nothing.
Look ==
    /\ freeing = <<>>
    /\ \/ /\ pc = "loaded"
          /\ pc' = IF "tpm2" \in live THEN "open" ELSE "exit1"
          /\ UNCHANGED <<freeing, output>>
       \/ /\ pc = "signed"
          /\ pc' = IF output = "filled" THEN "verifyctx" ELSE "exit1"
          /\ output' = "empty"
          /\ UNCHANGED freeing
       \/ /\ pc = "encrypted"
          /\ pc' = IF output = "filled" THEN "decctx" ELSE "exit1"
          /\ output' = "empty"
          /\ UNCHANGED freeing
       \/ /\ pc = "decrypted"
          /\ IF output = "filled"
             THEN pc' = "exit0" /\ freeing' = <<"pkey", "tpm2", "default">>
             ELSE pc' = "exit1" /\ UNCHANGED freeing
          /\ UNCHANGED output
    /\ UNCHANGED <<live, entries, null>>

Next ==
    \/ \E l \in CallLabels : Succeed(l) \/ Fail(l)
    \/ Free \/ TestEof \/ LoadNull \/ LoadInfo \/ CloseStore \/ Look

Spec == Init /\ [][Next]_vars /\ WF_vars(Next)

-----------------------------------------------------------------------------
(***************************************************************************)
(* Properties.                                                             *)
(***************************************************************************)
\* What an object was made from.  PEM_read_PUBKEY makes the public key in the
\* default library context.
Needs ==
    [encctx |-> {"pubkey", "defprov"}, defprov |-> {"libctx"}, info |-> {"store"}]

\* Whatever call fails, a helper of tpm_example returns to main with all it made
\* freed and nothing of main's freed, and every object is freed before the one it
\* was made from; a program that ends with 0 has freed everything, and the vault
\* is gone at every end but a crash.
EverythingFreed ==
    /\ \A o \in DOMAIN Needs : o \in live => Needs[o] \subseteq live
    /\ pc \in MainLabels /\ freeing = <<>> =>
          /\ live \subseteq {"tpm2", "default", "pkey"}
          /\ pc \notin {"loaded", "open"} => {"tpm2", "pkey"} \subseteq live
    /\ pc = "exit0" /\ freeing = <<>> => live = {}
    /\ pc = "exit1" /\ freeing = <<>> => live \subseteq {"tpm2", "default", "pkey"}

\* The loop over the store leaves it once a key is found or the end is reached.  It
\* can go on for ever only against a store that gives NULL again and again without
\* coming to its end.
LoopEndsUnlessStoreStuck ==
    <>[](pc \in LoopLabels) => []<>(null /\ entries # <<>>)

=============================================================================
