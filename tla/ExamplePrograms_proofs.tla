---------------------- MODULE ExamplePrograms_proofs ----------------------
(***************************************************************************)
(* Proofs about ExamplePrograms, for a store of keys of any length.        *)
(*                                                                         *)
(* The argument is a proof outline: for every label the objects that must  *)
(* and the objects that may exist there, and one obligation for each row   *)
(* of the table of calls.                                                  *)
(***************************************************************************)
EXTENDS ExamplePrograms, SequenceTheorems, TLAPS

-----------------------------------------------------------------------------
(***************************************************************************)
(* The proof outline.                                                      *)
(***************************************************************************)
Main == {"tpm2", "default", "pkey"}

\* What may exist at l once everything in freeing is freed.
May(l) ==
    CASE l \in {"files", "tpm2", "vaultfiles", "construct", "exit0"} -> {}
      [] l = "default" -> {"tpm2"}
      [] l \in {"loaded", "open"} -> {"tpm2", "default"}
      [] l \in {"eof", "load"} -> {"tpm2", "default", "store"}
      [] l = "close" -> Main \union {"store"}
      [] l \in {"signctx", "signed", "verifyctx", "libctx", "encrypted", "decctx", "decrypted",
                "exit1"} -> Main
      [] l \in {"signinit", "signupdate", "signsize", "sign", "verify"} -> Main \union {"mdctx"}
      [] l \in {"decinit", "decpadding", "decsize", "decrypt"} -> Main \union {"ctx"}
      [] l = "defprov" -> Main \union {"libctx"}
      [] l = "fopen" -> Main \union {"libctx", "defprov"}
      [] l = "readpub" -> Main \union {"libctx", "defprov", "fp"}
      [] l = "encctx" -> Main \union {"libctx", "defprov", "pubkey"}
      [] l \in {"encinit", "encpadding", "encsize", "encrypt"} ->
            Main \union {"libctx", "defprov", "pubkey", "encctx"}
      [] l \in {"keygenctx", "protect", "vaultsign", "reopen", "vaultdecrypt"} -> {"vault"}
      [] l = "keygen" -> {"vault", "ctx"}
      [] l \in {"create", "userctx"} -> {"vault", "userkey"}
      [] l = "write" -> {"vault", "userkey", "fp"}
      [] l = "reread" -> {"vault", "fp"}
      [] l = "userencrypt" -> {"vault", "userkey", "ctx"}
      [] OTHER -> {"vault", "userkey"}

\* The labels between load_tpm_key and the end of main.
WithKey == DOMAIN tpm_sign \union DOMAIN verify_signature \union DOMAIN tpm_decrypt
           \union DOMAIN encrypt_with_pubkey_file \union {"signed", "encrypted", "decrypted"}

\* What must.  The provider that main loads by name may be missing.
Must(l) ==
    CASE l = "open"        -> {"tpm2"}
      [] l \in LoopLabels  -> {"tpm2", "store"}
      [] l \in WithKey     -> May(l) \ {"default"}
      [] OTHER             -> {}

Freed(f) == {f[i] : i \in DOMAIN f}

\* An object goes only after those of the objects that were made from it.
InOrder(f, objects) ==
    \A i \in DOMAIN f : \A o \in DOMAIN Needs \intersect objects :
        f[i] \in Needs[o] => \E j \in DOMAIN f : j < i /\ f[j] = o

Labels == CallLabels \union LoopLabels \union Looks \union Exits

IInv ==
    /\ pc \in Labels
    /\ live \subseteq Objects
    /\ freeing \in Seq(Objects)
    /\ output \in {"empty", "filled"}
    /\ entries \in Seq({"pkey", "other"}) /\ Len(entries) <= MaxEntries
    /\ null \in BOOLEAN
    \* the outline
    /\ Must(pc) \subseteq live \ Freed(freeing)
    /\ live \subseteq May(pc) \union Freed(freeing)
    /\ InOrder(freeing, live)
    /\ \A o \in DOMAIN Needs \intersect live : Needs[o] \subseteq live
    /\ "info" \in Freed(freeing) => pc \in {"eof", "close"}
    /\ pc = "load" => freeing = <<>>

-----------------------------------------------------------------------------
(***************************************************************************)
(* The table of calls.                                                     *)
(***************************************************************************)
\* The labels of the parts.
LEMMA PartLabels ==
    /\ DOMAIN tpm_sign = {"signctx", "signinit", "signupdate", "signsize", "sign"}
    /\ DOMAIN verify_signature = {"verifyctx", "verify"}
    /\ DOMAIN tpm_decrypt = {"decctx", "decinit", "decpadding", "decsize", "decrypt"}
    /\ DOMAIN encrypt_with_pubkey_file =
          {"libctx", "defprov", "fopen", "readpub", "encctx", "encinit", "encpadding", "encsize",
           "encrypt"}
    /\ DOMAIN LoadProviders = {"files", "tpm2", "default", "open"}
    /\ DOMAIN create_test_pem = {"keygenctx", "keygen", "create", "write"}
    /\ DOMAIN VaultMain = {"vaultfiles", "construct", "protect", "vaultsign", "reopen", "reread",
                           "userctx", "userencrypt", "vaultdecrypt"}
BY DEF tpm_sign, verify_signature, tpm_decrypt, encrypt_with_pubkey_file, LoadProviders,
   create_test_pem, VaultMain

\* A label belongs to one part, and its row is there.
LEMMA ProgramRows ==
    /\ CallLabels = UNION {DOMAIN p : p \in Parts}
    /\ \A part \in Parts : \A l \in DOMAIN part : Program[l] = part[l]
<1>1. CallLabels = UNION {DOMAIN p : p \in Parts}
  BY DEF CallLabels, Program
<1>2. ASSUME NEW p \in Parts, NEW q \in Parts, NEW l \in DOMAIN p, l \in DOMAIN q
      PROVE  p = q
  BY <1>2, PartLabels DEF Parts
<1>3. ASSUME NEW part \in Parts, NEW l \in DOMAIN part
      PROVE  Program[l] = part[l]
  <2>1. (CHOOSE p \in Parts : l \in DOMAIN p) = part
    BY <1>2, <1>3
  <2>2. l \in UNION {DOMAIN p : p \in Parts}
    BY <1>3
  <2> QED
    BY <2>1, <2>2 DEF Program
<1> QED
  BY <1>1, <1>3

\* What a row has to fulfil for the outline, when the call succeeds and when it
\* fails.
Goes(l, made, freed, next) ==
    /\ next \in Labels \ {"load"}
    /\ freed \in Seq(Objects)
    /\ Must(next) \subseteq (Must(l) \union made) \ Freed(freed)
    /\ May(l) \union made \subseteq May(next) \union Freed(freed)
    /\ InOrder(freed, May(l) \union made)
    /\ "info" \notin Freed(freed)

Good(l, row) ==
    /\ Goes(l, {row.makes} \intersect Objects, row.freed, row.next)
    /\ Goes(l, {}, row.freedOnError, row.onError)
    /\ row.makes \in DOMAIN Needs => Needs[row.makes] \subseteq Must(l)

\* The objects that are freed in one go.
LEMMA Lists ==
    /\ Freed(<<>>) = {}
    /\ \A x : Freed(<<x>>) = {x}
    /\ \A x, y : Freed(<<x, y>>) = {x, y}
    /\ \A x, y, z : Freed(<<x, y, z>>) = {x, y, z}
    /\ \A w, x, y, z : Freed(<<w, x, y, z>>) = {w, x, y, z}
<1>1. Freed(<<>>) = {}
  BY DEF Freed
<1>2. \A x : Freed(<<x>>) = {x}
  BY DEF Freed
<1>3. \A x, y : Freed(<<x, y>>) = {x, y}
  BY DEF Freed
<1>4. \A x, y, z : Freed(<<x, y, z>>) = {x, y, z}
  BY DEF Freed
<1>5. \A w, x, y, z : Freed(<<w, x, y, z>>) = {w, x, y, z}
  BY DEF Freed
<1> QED
  BY <1>1, <1>2, <1>3, <1>4, <1>5

\* What was made from what.
LEMMA NeedsAre ==
    /\ DOMAIN Needs = {"encctx", "defprov", "info"}
    /\ Needs["encctx"] = {"pubkey", "defprov"}
    /\ Needs["defprov"] = {"libctx"}
    /\ Needs["info"] = {"store"}
BY DEF Needs

\* Lists with nothing that another object was made from are in any order.
LEMMA FreeOrder ==
    ASSUME NEW f, NEW objects, Freed(f) \intersect {"pubkey", "defprov", "libctx", "store"} = {}
    PROVE  InOrder(f, objects)
BY NeedsAre DEF InOrder, Freed

\* The lists of the library context, as far as they are freed there.
LEMMA ContextOrder ==
    /\ \A objects : InOrder(WithCtx, objects)
    /\ \A objects : "encctx" \notin objects => InOrder(WithPubkey, objects)
    /\ \A objects : "encctx" \notin objects => InOrder(WithoutFile, objects)
    /\ \A objects : "encctx" \notin objects => InOrder(<<"fp", "defprov", "libctx">>, objects)
    /\ \A objects : "defprov" \notin objects => InOrder(<<"libctx">>, objects)
    /\ \A objects : "info" \notin objects => InOrder(<<"store">>, objects)
<1>1. \A objects : InOrder(WithCtx, objects)
  BY NeedsAre DEF InOrder, WithCtx
<1>2. \A objects : "encctx" \notin objects => InOrder(WithPubkey, objects)
  BY NeedsAre DEF InOrder, WithPubkey
<1>3. \A objects : "encctx" \notin objects => InOrder(WithoutFile, objects)
  BY NeedsAre DEF InOrder, WithoutFile
<1>4. \A objects : "encctx" \notin objects => InOrder(<<"fp", "defprov", "libctx">>, objects)
  BY NeedsAre DEF InOrder
<1>5. \A objects : "defprov" \notin objects => InOrder(<<"libctx">>, objects)
  BY NeedsAre DEF InOrder
<1>6. \A objects : "info" \notin objects => InOrder(<<"store">>, objects)
  BY NeedsAre DEF InOrder
<1> QED
  BY <1>1, <1>2, <1>3, <1>4, <1>5, <1>6

\* All labels.
LEMMA AllLabels ==
    /\ CallLabels = DOMAIN tpm_sign \union DOMAIN verify_signature \union DOMAIN tpm_decrypt
          \union DOMAIN encrypt_with_pubkey_file \union DOMAIN LoadProviders
          \union DOMAIN create_test_pem \union DOMAIN VaultMain
    /\ Labels = CallLabels \union LoopLabels \union Looks \union Exits
BY ProgramRows DEF Parts, Labels

\* The objects of a call.
LEMMA Made ==
    /\ \A o \in Objects : {o} \intersect Objects = {o}
    /\ {"none"} \intersect Objects = {}
    /\ {"output"} \intersect Objects = {}
BY DEF Objects

\* The outline holds along tpm_sign.
LEMMA tpm_signGood == \A l \in DOMAIN tpm_sign : Good(l, tpm_sign[l])
<1>1. {"signinit", "signed", "signupdate", "signsize", "sign"} \subseteq Labels \ {"load"}
  BY PartLabels, AllLabels DEF LoopLabels, Looks, Exits
<1>2. /\ \A l \in {"signctx", "signed"} :
            May(l) = Main /\ Must(l) = {"pkey", "tpm2"}
      /\ \A l \in {"signinit", "signupdate", "signsize", "sign"} :
            May(l) = Main \union {"mdctx"} /\ Must(l) = {"mdctx", "pkey", "tpm2"}
  BY PartLabels DEF May, Must, WithKey, LoopLabels, Main
<1>3. /\ <<>> \in Seq(Objects) /\ Freed(<<>>) = {}
      /\ \A objects : InOrder(<<>>, objects)
  BY Lists, FreeOrder DEF Objects
<1>4. /\ <<"mdctx">> \in Seq(Objects) /\ Freed(<<"mdctx">>) = {"mdctx"}
      /\ \A objects : InOrder(<<"mdctx">>, objects)
  BY Lists, FreeOrder DEF Objects
<1>5. Goes("signctx", {"mdctx"}, <<>>, "signinit")
  BY <1>1, <1>2, <1>3 DEF Goes, Main
<1>6. Goes("signctx", {}, <<>>, "signed")
  BY <1>1, <1>2, <1>3 DEF Goes, Main
<1>7. Goes("signinit", {}, <<>>, "signupdate")
  BY <1>1, <1>2, <1>3 DEF Goes, Main
<1>8. \A l \in {"signinit", "signupdate", "signsize", "sign"} :
          Goes(l, {}, <<"mdctx">>, "signed")
  BY <1>1, <1>2, <1>4 DEF Goes, Main
<1>9. Goes("signupdate", {}, <<>>, "signsize")
  BY <1>1, <1>2, <1>3 DEF Goes, Main
<1>10. Goes("signsize", {}, <<>>, "sign")
  BY <1>1, <1>2, <1>3 DEF Goes, Main
<1>11. Good("signctx", tpm_sign["signctx"])
  BY <1>5, <1>6, Made, NeedsAre DEF Good, tpm_sign, Call, Objects
<1>12. Good("signinit", tpm_sign["signinit"])
  BY <1>7, <1>8, Made, NeedsAre DEF Good, tpm_sign, Call, Check
<1>13. Good("signupdate", tpm_sign["signupdate"])
  BY <1>8, <1>9, Made, NeedsAre DEF Good, tpm_sign, Call, Check
<1>14. Good("signsize", tpm_sign["signsize"])
  BY <1>8, <1>10, Made, NeedsAre DEF Good, tpm_sign, Call, Check
<1>15. Good("sign", tpm_sign["sign"])
  BY <1>8, Made, NeedsAre DEF Good, tpm_sign, Call
<1> QED
  BY PartLabels, <1>11, <1>12, <1>13, <1>14, <1>15

\* The outline holds along verify_signature.
LEMMA verify_signatureGood == \A l \in DOMAIN verify_signature : Good(l, verify_signature[l])
<1>1. {"verify", "libctx"} \subseteq Labels \ {"load"}
  BY PartLabels, AllLabels DEF LoopLabels, Looks, Exits
<1>2. /\ \A l \in {"verifyctx", "libctx"} :
            May(l) = Main /\ Must(l) = {"pkey", "tpm2"}
      /\ May("verify") = Main \union {"mdctx"} /\ Must("verify") = {"mdctx", "pkey", "tpm2"}
  BY PartLabels DEF May, Must, WithKey, LoopLabels, Main
<1>3. /\ <<>> \in Seq(Objects) /\ Freed(<<>>) = {}
      /\ \A objects : InOrder(<<>>, objects)
  BY Lists, FreeOrder DEF Objects
<1>4. /\ <<"mdctx">> \in Seq(Objects) /\ Freed(<<"mdctx">>) = {"mdctx"}
      /\ \A objects : InOrder(<<"mdctx">>, objects)
  BY Lists, FreeOrder DEF Objects
<1>5. Goes("verifyctx", {"mdctx"}, <<>>, "verify")
  BY <1>1, <1>2, <1>3 DEF Goes, Main
<1>6. Goes("verifyctx", {}, <<>>, "libctx")
  BY <1>1, <1>2, <1>3 DEF Goes, Main
<1>7. Goes("verify", {}, <<"mdctx">>, "libctx")
  BY <1>1, <1>2, <1>4 DEF Goes, Main
<1>8. Good("verifyctx", verify_signature["verifyctx"])
  BY <1>5, <1>6, Made, NeedsAre DEF Good, verify_signature, Call, Objects
<1>9. Good("verify", verify_signature["verify"])
  BY <1>7, Made, NeedsAre DEF Good, verify_signature, Call
<1> QED
  BY PartLabels, <1>8, <1>9

\* The outline holds along tpm_decrypt.
LEMMA tpm_decryptGood == \A l \in DOMAIN tpm_decrypt : Good(l, tpm_decrypt[l])
<1>1. {"decinit", "decrypted", "decpadding", "decsize", "decrypt"} \subseteq Labels \ {"load"}
  BY PartLabels, AllLabels DEF LoopLabels, Looks, Exits
<1>2. /\ \A l \in {"decctx", "decrypted"} :
            May(l) = Main /\ Must(l) = {"pkey", "tpm2"}
      /\ \A l \in {"decinit", "decpadding", "decsize", "decrypt"} :
            May(l) = Main \union {"ctx"} /\ Must(l) = {"ctx", "pkey", "tpm2"}
  BY PartLabels DEF May, Must, WithKey, LoopLabels, Main
<1>3. /\ <<>> \in Seq(Objects) /\ Freed(<<>>) = {}
      /\ \A objects : InOrder(<<>>, objects)
  BY Lists, FreeOrder DEF Objects
<1>4. /\ <<"ctx">> \in Seq(Objects) /\ Freed(<<"ctx">>) = {"ctx"}
      /\ \A objects : InOrder(<<"ctx">>, objects)
  BY Lists, FreeOrder DEF Objects
<1>5. Goes("decctx", {"ctx"}, <<>>, "decinit")
  BY <1>1, <1>2, <1>3 DEF Goes, Main
<1>6. Goes("decctx", {}, <<>>, "decrypted")
  BY <1>1, <1>2, <1>3 DEF Goes, Main
<1>7. Goes("decinit", {}, <<>>, "decpadding")
  BY <1>1, <1>2, <1>3 DEF Goes, Main
<1>8. \A l \in {"decinit", "decpadding", "decsize", "decrypt"} :
          Goes(l, {}, <<"ctx">>, "decrypted")
  BY <1>1, <1>2, <1>4 DEF Goes, Main
<1>9. Goes("decpadding", {}, <<>>, "decsize")
  BY <1>1, <1>2, <1>3 DEF Goes, Main
<1>10. Goes("decsize", {}, <<>>, "decrypt")
  BY <1>1, <1>2, <1>3 DEF Goes, Main
<1>11. Good("decctx", tpm_decrypt["decctx"])
  BY <1>5, <1>6, Made, NeedsAre DEF Good, tpm_decrypt, Call, Objects
<1>12. Good("decinit", tpm_decrypt["decinit"])
  BY <1>7, <1>8, Made, NeedsAre DEF Good, tpm_decrypt, Call, Check
<1>13. Good("decpadding", tpm_decrypt["decpadding"])
  BY <1>8, <1>9, Made, NeedsAre DEF Good, tpm_decrypt, Call, Check
<1>14. Good("decsize", tpm_decrypt["decsize"])
  BY <1>8, <1>10, Made, NeedsAre DEF Good, tpm_decrypt, Call, Check
<1>15. Good("decrypt", tpm_decrypt["decrypt"])
  BY <1>8, Made, NeedsAre DEF Good, tpm_decrypt, Call
<1> QED
  BY PartLabels, <1>11, <1>12, <1>13, <1>14, <1>15

\* The outline holds along encrypt_with_pubkey_file.
LEMMA encrypt_with_pubkey_fileGood ==
    \A l \in DOMAIN encrypt_with_pubkey_file : Good(l, encrypt_with_pubkey_file[l])
<1>1. {"defprov", "encrypted", "fopen", "readpub", "encctx", "encinit", "encpadding", "encsize",
        "encrypt"} \subseteq Labels \ {"load"}
  BY PartLabels, AllLabels DEF LoopLabels, Looks, Exits
<1>2. /\ \A l \in {"libctx", "encrypted"} :
            May(l) = Main /\ Must(l) = {"pkey", "tpm2"}
      /\ May("defprov") = Main \union {"libctx"} /\ Must("defprov") = {"libctx", "pkey", "tpm2"}
      /\ May("fopen") = Main \union {"defprov", "libctx"}
         /\ Must("fopen") = {"defprov", "libctx", "pkey", "tpm2"}
      /\ May("readpub") = Main \union {"defprov", "fp", "libctx"}
         /\ Must("readpub") = {"defprov", "fp", "libctx", "pkey", "tpm2"}
      /\ May("encctx") = Main \union {"defprov", "libctx", "pubkey"}
         /\ Must("encctx") = {"defprov", "libctx", "pkey", "pubkey", "tpm2"}
      /\ \A l \in {"encinit", "encpadding", "encsize", "encrypt"} :
            /\ May(l) = Main \union {"defprov", "encctx", "libctx", "pubkey"}
            /\ Must(l) = {"defprov", "encctx", "libctx", "pkey", "pubkey", "tpm2"}
  BY PartLabels DEF May, Must, WithKey, LoopLabels, Main
<1>3. /\ <<>> \in Seq(Objects) /\ Freed(<<>>) = {}
      /\ \A objects : InOrder(<<>>, objects)
  BY Lists, FreeOrder DEF Objects
<1>4. /\ <<"libctx">> \in Seq(Objects) /\ Freed(<<"libctx">>) = {"libctx"}
      /\ \A objects : "defprov" \notin objects => InOrder(<<"libctx">>, objects)
  BY Lists, ContextOrder DEF Objects
<1>5. /\ WithoutFile \in Seq(Objects) /\ Freed(WithoutFile) = {"defprov", "libctx"}
      /\ \A objects : "encctx" \notin objects => InOrder(WithoutFile, objects)
  BY Lists, ContextOrder DEF Objects, WithoutFile
<1>6. /\ <<"fp">> \in Seq(Objects) /\ Freed(<<"fp">>) = {"fp"}
      /\ \A objects : InOrder(<<"fp">>, objects)
  BY Lists, FreeOrder DEF Objects
<1>7. /\ <<"fp", "defprov", "libctx">> \in Seq(Objects)
         /\ Freed(<<"fp", "defprov", "libctx">>) = {"defprov", "fp", "libctx"}
      /\ \A objects : "encctx" \notin objects => InOrder(<<"fp", "defprov", "libctx">>, objects)
  BY Lists, ContextOrder DEF Objects
<1>8. /\ WithPubkey \in Seq(Objects) /\ Freed(WithPubkey) = {"defprov", "libctx", "pubkey"}
      /\ \A objects : "encctx" \notin objects => InOrder(WithPubkey, objects)
  BY Lists, ContextOrder DEF Objects, WithPubkey
<1>9. /\ WithCtx \in Seq(Objects) /\ Freed(WithCtx) = {"defprov", "encctx", "libctx", "pubkey"}
      /\ \A objects : InOrder(WithCtx, objects)
  BY Lists, ContextOrder DEF Objects, WithCtx
<1>10. Goes("libctx", {"libctx"}, <<>>, "defprov")
  BY <1>1, <1>2, <1>3 DEF Goes, Main
<1>11. Goes("libctx", {}, <<>>, "encrypted")
  BY <1>1, <1>2, <1>3 DEF Goes, Main
<1>12. Goes("defprov", {"defprov"}, <<>>, "fopen")
  BY <1>1, <1>2, <1>3 DEF Goes, Main
<1>13. Goes("defprov", {}, <<"libctx">>, "encrypted")
  BY <1>1, <1>2, <1>4 DEF Goes, Main
<1>14. Goes("fopen", {"fp"}, <<>>, "readpub")
  BY <1>1, <1>2, <1>3 DEF Goes, Main
<1>15. Goes("fopen", {}, WithoutFile, "encrypted")
  BY <1>1, <1>2, <1>5 DEF Goes, Main
<1>16. Goes("readpub", {"pubkey"}, <<"fp">>, "encctx")
  BY <1>1, <1>2, <1>6 DEF Goes, Main
<1>17. Goes("readpub", {}, <<"fp", "defprov", "libctx">>, "encrypted")
  BY <1>1, <1>2, <1>7 DEF Goes, Main
<1>18. Goes("encctx", {"encctx"}, <<>>, "encinit")
  BY <1>1, <1>2, <1>3 DEF Goes, Main
<1>19. Goes("encctx", {}, WithPubkey, "encrypted")
  BY <1>1, <1>2, <1>8 DEF Goes, Main
<1>20. Goes("encinit", {}, <<>>, "encpadding")
  BY <1>1, <1>2, <1>3 DEF Goes, Main
<1>21. \A l \in {"encinit", "encpadding", "encsize", "encrypt"} :
          Goes(l, {}, WithCtx, "encrypted")
  BY <1>1, <1>2, <1>9 DEF Goes, Main
<1>22. Goes("encpadding", {}, <<>>, "encsize")
  BY <1>1, <1>2, <1>3 DEF Goes, Main
<1>23. Goes("encsize", {}, <<>>, "encrypt")
  BY <1>1, <1>2, <1>3 DEF Goes, Main
<1>24. Good("libctx", encrypt_with_pubkey_file["libctx"])
  BY <1>10, <1>11, Made, NeedsAre DEF Good, encrypt_with_pubkey_file, Call, Objects
<1>25. Good("defprov", encrypt_with_pubkey_file["defprov"])
  BY <1>2, <1>12, <1>13, Made, NeedsAre DEF Good, encrypt_with_pubkey_file, Call, Objects
<1>26. Good("fopen", encrypt_with_pubkey_file["fopen"])
  BY <1>14, <1>15, Made, NeedsAre DEF Good, encrypt_with_pubkey_file, Call, Objects
<1>27. Good("readpub", encrypt_with_pubkey_file["readpub"])
  BY <1>16, <1>17, Made, NeedsAre DEF Good, encrypt_with_pubkey_file, Call, Objects
<1>28. Good("encctx", encrypt_with_pubkey_file["encctx"])
  BY <1>2, <1>18, <1>19, Made, NeedsAre DEF Good, encrypt_with_pubkey_file, Call, Objects
<1>29. Good("encinit", encrypt_with_pubkey_file["encinit"])
  BY <1>20, <1>21, Made, NeedsAre DEF Good, encrypt_with_pubkey_file, Call, Check
<1>30. Good("encpadding", encrypt_with_pubkey_file["encpadding"])
  BY <1>21, <1>22, Made, NeedsAre DEF Good, encrypt_with_pubkey_file, Call, Check
<1>31. Good("encsize", encrypt_with_pubkey_file["encsize"])
  BY <1>21, <1>23, Made, NeedsAre DEF Good, encrypt_with_pubkey_file, Call, Check
<1>32. Good("encrypt", encrypt_with_pubkey_file["encrypt"])
  BY <1>21, Made, NeedsAre DEF Good, encrypt_with_pubkey_file, Call
<1> QED
  BY PartLabels, <1>24, <1>25, <1>26, <1>27, <1>28, <1>29, <1>30, <1>31, <1>32

\* The outline holds along the providers and the store.
LEMMA LoadProvidersGood == \A l \in DOMAIN LoadProviders : Good(l, LoadProviders[l])
<1>1. {"tpm2", "exit1", "default", "loaded", "eof"} \subseteq Labels \ {"load"}
  BY PartLabels, AllLabels DEF LoopLabels, Looks, Exits
<1>2. /\ \A l \in {"files", "tpm2"} :
            May(l) = {} /\ Must(l) = {}
      /\ May("exit1") = Main /\ Must("exit1") = {}
      /\ May("default") = {"tpm2"} /\ Must("default") = {}
      /\ May("loaded") = {"default", "tpm2"} /\ Must("loaded") = {}
      /\ May("open") = {"default", "tpm2"} /\ Must("open") = {"tpm2"}
      /\ May("eof") = {"default", "store", "tpm2"} /\ Must("eof") = {"store", "tpm2"}
  BY PartLabels DEF May, Must, WithKey, LoopLabels, Main
<1>3. /\ <<>> \in Seq(Objects) /\ Freed(<<>>) = {}
      /\ \A objects : InOrder(<<>>, objects)
  BY Lists, FreeOrder DEF Objects
<1>4. Goes("files", {}, <<>>, "tpm2")
  BY <1>1, <1>2, <1>3 DEF Goes, Main
<1>5. \A l \in {"files", "open"} :
          Goes(l, {}, <<>>, "exit1")
  BY <1>1, <1>2, <1>3 DEF Goes, Main
<1>6. Goes("tpm2", {"tpm2"}, <<>>, "default")
  BY <1>1, <1>2, <1>3 DEF Goes, Main
<1>7. Goes("tpm2", {}, <<>>, "default")
  BY <1>1, <1>2, <1>3 DEF Goes, Main
<1>8. Goes("default", {"default"}, <<>>, "loaded")
  BY <1>1, <1>2, <1>3 DEF Goes, Main
<1>9. Goes("default", {}, <<>>, "loaded")
  BY <1>1, <1>2, <1>3 DEF Goes, Main
<1>10. Goes("open", {"store"}, <<>>, "eof")
  BY <1>1, <1>2, <1>3 DEF Goes, Main
<1>11. Good("files", LoadProviders["files"])
  BY <1>4, <1>5, Made, NeedsAre DEF Good, LoadProviders, Call, Check
<1>12. Good("tpm2", LoadProviders["tpm2"])
  BY <1>6, <1>7, Made, NeedsAre DEF Good, LoadProviders, Call, Objects
<1>13. Good("default", LoadProviders["default"])
  BY <1>8, <1>9, Made, NeedsAre DEF Good, LoadProviders, Call, Objects
<1>14. Good("open", LoadProviders["open"])
  BY <1>5, <1>10, Made, NeedsAre DEF Good, LoadProviders, Call, Objects
<1> QED
  BY PartLabels, <1>11, <1>12, <1>13, <1>14

\* The outline holds along create_test_pem.
LEMMA create_test_pemGood == \A l \in DOMAIN create_test_pem : Good(l, create_test_pem[l])
<1>1. {"keygen", "create", "write", "crash", "protect"} \subseteq Labels \ {"load"}
  BY PartLabels, AllLabels DEF LoopLabels, Looks, Exits
<1>2. /\ \A l \in {"keygenctx", "protect"} :
            May(l) = {"vault"} /\ Must(l) = {}
      /\ May("keygen") = {"ctx", "vault"} /\ Must("keygen") = {}
      /\ \A l \in {"create", "crash"} :
            May(l) = {"userkey", "vault"} /\ Must(l) = {}
      /\ May("write") = {"fp", "userkey", "vault"} /\ Must("write") = {}
  BY PartLabels DEF May, Must, WithKey, LoopLabels, Main
<1>3. /\ <<>> \in Seq(Objects) /\ Freed(<<>>) = {}
      /\ \A objects : InOrder(<<>>, objects)
  BY Lists, FreeOrder DEF Objects
<1>4. /\ <<"ctx">> \in Seq(Objects) /\ Freed(<<"ctx">>) = {"ctx"}
      /\ \A objects : InOrder(<<"ctx">>, objects)
  BY Lists, FreeOrder DEF Objects
<1>5. /\ <<"fp", "userkey">> \in Seq(Objects) /\ Freed(<<"fp", "userkey">>) = {"fp", "userkey"}
      /\ \A objects : InOrder(<<"fp", "userkey">>, objects)
  BY Lists, FreeOrder DEF Objects
<1>6. Goes("keygenctx", {"ctx"}, <<>>, "keygen")
  BY <1>1, <1>2, <1>3 DEF Goes, Main
<1>7. Goes("keygenctx", {}, <<>>, "keygen")
  BY <1>1, <1>2, <1>3 DEF Goes, Main
<1>8. Goes("keygen", {"userkey"}, <<"ctx">>, "create")
  BY <1>1, <1>2, <1>4 DEF Goes, Main
<1>9. Goes("keygen", {}, <<"ctx">>, "create")
  BY <1>1, <1>2, <1>4 DEF Goes, Main
<1>10. Goes("create", {"fp"}, <<>>, "write")
  BY <1>1, <1>2, <1>3 DEF Goes, Main
<1>11. Goes("create", {}, <<>>, "crash")
  BY <1>1, <1>2, <1>3 DEF Goes, Main
<1>12. Goes("write", {}, <<"fp", "userkey">>, "protect")
  BY <1>1, <1>2, <1>5 DEF Goes, Main
<1>13. Good("keygenctx", create_test_pem["keygenctx"])
  BY <1>6, <1>7, Made, NeedsAre DEF Good, create_test_pem, Call, Objects
<1>14. Good("keygen", create_test_pem["keygen"])
  BY <1>8, <1>9, Made, NeedsAre DEF Good, create_test_pem, Call, Objects
<1>15. Good("create", create_test_pem["create"])
  BY <1>10, <1>11, Made, NeedsAre DEF Good, create_test_pem, Call, Objects
<1>16. Good("write", create_test_pem["write"])
  BY <1>12, Made, NeedsAre DEF Good, create_test_pem, Call
<1> QED
  BY PartLabels, <1>13, <1>14, <1>15, <1>16

\* The outline holds along main of key_vault_example.
LEMMA VaultMainGood == \A l \in DOMAIN VaultMain : Good(l, VaultMain[l])
<1>1. {"construct", "exit1", "keygenctx", "vaultsign", "reopen", "reread", "crash", "userctx",
        "userencrypt", "vaultdecrypt", "exit0"} \subseteq Labels \ {"load"}
  BY PartLabels, AllLabels DEF LoopLabels, Looks, Exits
<1>2. /\ \A l \in {"vaultfiles", "construct", "exit0"} :
            May(l) = {} /\ Must(l) = {}
      /\ May("exit1") = Main /\ Must("exit1") = {}
      /\ \A l \in {"keygenctx", "protect", "vaultsign", "reopen", "vaultdecrypt"} :
            May(l) = {"vault"} /\ Must(l) = {}
      /\ May("reread") = {"fp", "vault"} /\ Must("reread") = {}
      /\ \A l \in {"crash", "userctx"} :
            May(l) = {"userkey", "vault"} /\ Must(l) = {}
      /\ May("userencrypt") = {"ctx", "userkey", "vault"} /\ Must("userencrypt") = {}
  BY PartLabels DEF May, Must, WithKey, LoopLabels, Main
<1>3. /\ <<>> \in Seq(Objects) /\ Freed(<<>>) = {}
      /\ \A objects : InOrder(<<>>, objects)
  BY Lists, FreeOrder DEF Objects
<1>4. /\ <<"vault">> \in Seq(Objects) /\ Freed(<<"vault">>) = {"vault"}
      /\ \A objects : InOrder(<<"vault">>, objects)
  BY Lists, FreeOrder DEF Objects
<1>5. /\ <<"fp">> \in Seq(Objects) /\ Freed(<<"fp">>) = {"fp"}
      /\ \A objects : InOrder(<<"fp">>, objects)
  BY Lists, FreeOrder DEF Objects
<1>6. /\ <<"ctx", "userkey">> \in Seq(Objects) /\ Freed(<<"ctx", "userkey">>) = {"ctx", "userkey"}
      /\ \A objects : InOrder(<<"ctx", "userkey">>, objects)
  BY Lists, FreeOrder DEF Objects
<1>7. Goes("vaultfiles", {}, <<>>, "construct")
  BY <1>1, <1>2, <1>3 DEF Goes, Main
<1>8. \A l \in {"vaultfiles", "construct"} :
          Goes(l, {}, <<>>, "exit1")
  BY <1>1, <1>2, <1>3 DEF Goes, Main
<1>9. Goes("construct", {"vault"}, <<>>, "keygenctx")
  BY <1>1, <1>2, <1>3 DEF Goes, Main
<1>10. Goes("protect", {}, <<>>, "vaultsign")
  BY <1>1, <1>2, <1>3 DEF Goes, Main
<1>11. \A l \in {"protect", "vaultsign", "vaultdecrypt"} :
          Goes(l, {}, <<"vault">>, "exit1")
  BY <1>1, <1>2, <1>4 DEF Goes, Main
<1>12. Goes("vaultsign", {}, <<>>, "reopen")
  BY <1>1, <1>2, <1>3 DEF Goes, Main
<1>13. Goes("reopen", {"fp"}, <<>>, "reread")
  BY <1>1, <1>2, <1>3 DEF Goes, Main
<1>14. Goes("reopen", {}, <<>>, "crash")
  BY <1>1, <1>2, <1>3 DEF Goes, Main
<1>15. Goes("reread", {"userkey"}, <<"fp">>, "userctx")
  BY <1>1, <1>2, <1>5 DEF Goes, Main
<1>16. Goes("reread", {}, <<"fp">>, "userctx")
  BY <1>1, <1>2, <1>5 DEF Goes, Main
<1>17. Goes("userctx", {"ctx"}, <<>>, "userencrypt")
  BY <1>1, <1>2, <1>3 DEF Goes, Main
<1>18. Goes("userctx", {}, <<>>, "userencrypt")
  BY <1>1, <1>2, <1>3 DEF Goes, Main
<1>19. Goes("userencrypt", {}, <<"ctx", "userkey">>, "vaultdecrypt")
  BY <1>1, <1>2, <1>6 DEF Goes, Main
<1>20. Goes("vaultdecrypt", {}, <<"vault">>, "exit0")
  BY <1>1, <1>2, <1>4 DEF Goes, Main
<1>21. Good("vaultfiles", VaultMain["vaultfiles"])
  BY <1>7, <1>8, Made, NeedsAre DEF Good, VaultMain, Call, Check
<1>22. Good("construct", VaultMain["construct"])
  BY <1>8, <1>9, Made, NeedsAre DEF Good, VaultMain, Call, Objects
<1>23. Good("protect", VaultMain["protect"])
  BY <1>10, <1>11, Made, NeedsAre DEF Good, VaultMain, Call, Check
<1>24. Good("vaultsign", VaultMain["vaultsign"])
  BY <1>11, <1>12, Made, NeedsAre DEF Good, VaultMain, Call, Check
<1>25. Good("reopen", VaultMain["reopen"])
  BY <1>13, <1>14, Made, NeedsAre DEF Good, VaultMain, Call, Objects
<1>26. Good("reread", VaultMain["reread"])
  BY <1>15, <1>16, Made, NeedsAre DEF Good, VaultMain, Call, Objects
<1>27. Good("userctx", VaultMain["userctx"])
  BY <1>17, <1>18, Made, NeedsAre DEF Good, VaultMain, Call, Objects
<1>28. Good("userencrypt", VaultMain["userencrypt"])
  BY <1>19, Made, NeedsAre DEF Good, VaultMain, Call
<1>29. Good("vaultdecrypt", VaultMain["vaultdecrypt"])
  BY <1>11, <1>20, Made, NeedsAre DEF Good, VaultMain, Call
<1> QED
  BY PartLabels, <1>21, <1>22, <1>23, <1>24, <1>25, <1>26, <1>27, <1>28, <1>29

\* And along all calls.
LEMMA AllGood == \A l \in CallLabels : Good(l, Program[l])
BY ProgramRows, tpm_signGood, verify_signatureGood, tpm_decryptGood, encrypt_with_pubkey_fileGood,
   LoadProvidersGood, create_test_pemGood, VaultMainGood DEF Parts
-----------------------------------------------------------------------------
(***************************************************************************)
(* The invariant.                                                          *)
(***************************************************************************)
\* One object is freed: the rest of the list is in order for what is left.
LEMMA Popped ==
    ASSUME NEW f \in Seq(Objects), f # <<>>, NEW objects, InOrder(f, objects)
    PROVE  /\ Tail(f) \in Seq(Objects)
           /\ Freed(f) = {Head(f)} \union Freed(Tail(f))
           /\ InOrder(Tail(f), objects \ {Head(f)})
           /\ \A o \in DOMAIN Needs \intersect objects : Head(f) \notin Needs[o]
<1>1. /\ Head(f) = f[1] /\ Tail(f) \in Seq(Objects) /\ Len(f) \in Nat \ {0}
      /\ Len(Tail(f)) = Len(f) - 1 /\ \A i \in 1..Len(f) - 1 : Tail(f)[i] = f[i + 1]
  BY HeadTailProperties, EmptySeq, LenProperties
<1>2. DOMAIN f = 1..Len(f) /\ DOMAIN Tail(f) = 1..Len(f) - 1
  BY <1>1, LenProperties
<1>3. Freed(f) = {Head(f)} \union Freed(Tail(f))
  <2>1. ASSUME NEW i \in DOMAIN f
        PROVE  f[i] \in {Head(f)} \union Freed(Tail(f))
    <3>1. CASE i = 1
      BY <1>1, <3>1
    <3>2. CASE i # 1
      <4>1. i - 1 \in DOMAIN Tail(f) /\ Tail(f)[i - 1] = f[i]
        BY <1>1, <1>2, <3>2
      <4> QED
        BY <4>1 DEF Freed
    <3> QED
      BY <3>1, <3>2
  <2>2. ASSUME NEW i \in DOMAIN Tail(f)
        PROVE  Tail(f)[i] \in Freed(f)
    <3>1. i + 1 \in DOMAIN f /\ Tail(f)[i] = f[i + 1]
      BY <1>1, <1>2
    <3> QED
      BY <3>1 DEF Freed
  <2>3. Head(f) \in Freed(f)
    BY <1>1, <1>2 DEF Freed
  <2>4. Freed(f) \subseteq {Head(f)} \union Freed(Tail(f))
    BY <2>1 DEF Freed
  <2>5. Freed(Tail(f)) \subseteq Freed(f)
    BY <2>2 DEF Freed
  <2> QED
    BY <2>3, <2>4, <2>5
<1>4. InOrder(Tail(f), objects \ {Head(f)})
  <2> SUFFICES ASSUME NEW i \in DOMAIN Tail(f), NEW o \in DOMAIN Needs \intersect objects,
                      o # Head(f), Tail(f)[i] \in Needs[o]
               PROVE  \E j \in DOMAIN Tail(f) : j < i /\ Tail(f)[j] = o
    BY DEF InOrder
  <2>1. i + 1 \in DOMAIN f /\ Tail(f)[i] = f[i + 1] /\ i \in 1..Len(f) - 1
    BY <1>1, <1>2
  <2>2. PICK j \in DOMAIN f : j < i + 1 /\ f[j] = o
    BY <2>1 DEF InOrder
  <2>3. j # 1
    BY <1>1, <2>2
  <2>4. j - 1 \in DOMAIN Tail(f) /\ j - 1 < i /\ Tail(f)[j - 1] = o
    BY <1>1, <1>2, <2>1, <2>2, <2>3
  <2> QED
    BY <2>4
<1>5. ASSUME NEW o \in DOMAIN Needs \intersect objects, Head(f) \in Needs[o]
      PROVE  FALSE
  <2>1. 1 \in DOMAIN f
    BY <1>1, <1>2
  <2>2. PICK j \in DOMAIN f : j < 1
    BY <1>1, <1>5, <2>1 DEF InOrder
  <2> QED
    BY <1>1, <1>2, <2>2
<1> QED
  BY <1>1, <1>3, <1>4, <1>5

LEMMA FreeKeeps ==
    ASSUME IInv, Free
    PROVE  IInv'
<1> DEFINE x == Head(freeing)
<1>1. /\ freeing' \in Seq(Objects) /\ Freed(freeing) = {x} \union Freed(freeing')
      /\ InOrder(freeing', live')
      /\ \A o \in DOMAIN Needs \intersect live : x \notin Needs[o]
      /\ live' = live \ {x}
  BY Popped DEF IInv, Free
<1> HIDE DEF x
<1>2. UNCHANGED <<pc, output, entries, null>> /\ freeing # <<>>
  BY DEF Free
<1> QED
  BY <1>1, <1>2 DEF IInv

\* An outcome of a call that the outline allows.
LEMMA GoesOn ==
    ASSUME IInv, pc \in Labels, freeing = <<>>, NEW made \in SUBSET Objects,
           Goes(pc, made, freeing', pc'),
           \A o \in DOMAIN Needs \intersect made : Needs[o] \subseteq Must(pc),
           live' = live \union made, output' \in {"empty", "filled"},
           UNCHANGED <<entries, null>>
    PROVE  IInv'
<1>1. Must(pc) \subseteq live /\ live \subseteq May(pc)
  BY Lists DEF IInv
<1>2. InOrder(freeing', live')
  BY <1>1 DEF Goes, InOrder
<1>3. /\ Must(pc') \subseteq live' \ Freed(freeing')
      /\ live' \subseteq May(pc') \union Freed(freeing')
      /\ pc' \in Labels \ {"load"} /\ freeing' \in Seq(Objects) /\ "info" \notin Freed(freeing')
  BY <1>1 DEF Goes
<1>4. \A o \in DOMAIN Needs \intersect live' : Needs[o] \subseteq live'
  BY <1>1 DEF IInv
<1> QED
  BY <1>2, <1>3, <1>4 DEF IInv

LEMMA CallKeeps ==
    ASSUME IInv, NEW l \in CallLabels, Succeed(l) \/ Fail(l)
    PROVE  IInv'
<1>1. Good(l, Program[l]) /\ pc = l /\ pc \in Labels /\ freeing = <<>>
  BY AllGood DEF Succeed, Fail, Labels
<1>2. CASE Succeed(l)
  <2> DEFINE made == {Program[l].makes} \intersect Objects
  <2>1. /\ Goes(pc, made, freeing', pc') /\ live' = live \union made
        /\ output' \in {"empty", "filled"} /\ UNCHANGED <<entries, null>>
    BY <1>1, <1>2 DEF Succeed, Good, IInv
  <2>2. \A o \in DOMAIN Needs \intersect made : Needs[o] \subseteq Must(pc)
    BY <1>1 DEF Good
  <2>3. made \in SUBSET Objects
    OBVIOUS
  <2> HIDE DEF made
  <2> QED
    BY <1>1, <2>1, <2>2, <2>3, GoesOn
<1>3. CASE Fail(l)
  <2>1. /\ Goes(pc, {}, freeing', pc') /\ live' = live \union {}
        /\ output' \in {"empty", "filled"} /\ UNCHANGED <<entries, null>>
    BY <1>1, <1>3 DEF Fail, Good, IInv
  <2> QED
    BY <1>1, <2>1, GoesOn
<1> QED
  BY <1>2, <1>3

\* The outline at the labels of the loop, and where main looks.
LEMMA MainOutline ==
    /\ May("loaded") = {"tpm2", "default"} /\ Must("loaded") = {}
    /\ May("open") = {"tpm2", "default"} /\ Must("open") = {"tpm2"}
    /\ \A l \in {"eof", "load"} :
          May(l) = {"tpm2", "default", "store"} /\ Must(l) = {"tpm2", "store"}
    /\ May("close") = Main \union {"store"} /\ Must("close") = {"tpm2", "store"}
    /\ \A l \in {"signctx", "signed", "verifyctx", "libctx", "encrypted", "decctx", "decrypted"} :
          May(l) = Main /\ Must(l) = {"tpm2", "pkey"}
    /\ May("exit1") = Main /\ Must("exit1") = {}
    /\ \A l \in {"files", "vaultfiles", "exit0"} : May(l) = {} /\ Must(l) = {}
    /\ {"loaded", "open", "eof", "load", "close", "signctx", "signed", "verifyctx", "libctx",
        "encrypted", "decctx", "decrypted", "exit1", "files", "vaultfiles", "exit0"} \subseteq Labels
<1>1. {"loaded", "open", "eof", "load", "close", "signctx", "signed", "verifyctx", "libctx",
       "encrypted", "decctx", "decrypted", "exit1", "files", "vaultfiles", "exit0"} \subseteq Labels
  BY PartLabels, AllLabels DEF LoopLabels, Looks, Exits
<1> QED
  BY <1>1, PartLabels DEF May, Must, WithKey, LoopLabels, Main

\* The loop over the store: entries only get fewer.
LEMMA LoopKeeps ==
    ASSUME IInv, TestEof \/ LoadNull \/ LoadInfo \/ CloseStore
    PROVE  IInv'
<1>1. CASE TestEof
  <2>1. /\ pc = "eof" /\ freeing = <<>> /\ pc' \in {"close", "load"}
        /\ UNCHANGED <<live, freeing, output, entries, null>>
    BY <1>1 DEF TestEof
  <2> QED
    BY <2>1, MainOutline, Lists DEF IInv, Main
<1>2. CASE LoadNull
  <2>1. /\ pc = "load" /\ freeing = <<>> /\ pc' = "eof" /\ null' = TRUE
        /\ UNCHANGED <<live, freeing, output, entries>>
    BY <1>2 DEF LoadNull, IInv
  <2> QED
    BY <2>1, MainOutline, Lists DEF IInv
<1>3. CASE LoadInfo
  <2>1. /\ pc = "load" /\ freeing = <<>> /\ freeing' = <<"info">> /\ null' = FALSE
        /\ UNCHANGED output
        /\ \/ live' = live \union {"info", "pkey"} /\ pc' = "close"
           \/ live' = live \union {"info"} /\ pc' = "eof"
    BY <1>3 DEF LoadInfo, IInv
  <2>2. entries' \in Seq({"pkey", "other"}) /\ Len(entries') <= MaxEntries
    <3>1. entries \in Seq({"pkey", "other"}) /\ entries # <<>> /\ entries' = Tail(entries)
          /\ Len(entries) <= MaxEntries
      BY <1>3 DEF LoadInfo, IInv
    <3>2. entries' \in Seq({"pkey", "other"}) /\ Len(entries') = Len(entries) - 1
          /\ Len(entries) \in Nat
      BY <3>1, HeadTailProperties, LenProperties
    <3> QED
      BY <3>1, <3>2, ExampleAssumption
  <2>3. freeing' \in Seq(Objects) /\ Freed(freeing') = {"info"} /\ InOrder(freeing', live')
    BY <2>1, Lists, FreeOrder DEF Objects
  <2>4. {"tpm2", "store"} \subseteq live /\ live \subseteq {"tpm2", "default", "store"}
    BY <2>1, MainOutline, Lists DEF IInv
  <2>5. \A o \in DOMAIN Needs \intersect live' : Needs[o] \subseteq live'
    BY <2>1, <2>4, NeedsAre
  <2>6. live' \subseteq Objects /\ pc' \in Labels
    BY <2>1, <2>4, MainOutline DEF Objects
  <2>7. Must(pc') \subseteq live' \ {"info"} /\ live' \subseteq May(pc') \union {"info"}
    <3>1. CASE pc' = "close"
      BY <2>1, <2>4, <3>1, MainOutline DEF Main
    <3>2. CASE pc' = "eof"
      <4>1. live' = live \union {"info"}
        BY <2>1, <3>2
      <4> QED
        BY <2>4, <3>2, <4>1, MainOutline
    <3> QED
      BY <2>1, <3>1, <3>2
  <2> QED
    BY <2>1, <2>2, <2>3, <2>5, <2>6, <2>7 DEF IInv
<1>4. CASE CloseStore
  <2>1. /\ pc = "close" /\ freeing = <<>> /\ freeing' = <<"store">>
        /\ pc' = IF "pkey" \in live THEN "signctx" ELSE "exit1"
        /\ UNCHANGED <<live, output, entries, null>>
    BY <1>4 DEF CloseStore
  <2>2. {"tpm2", "store"} \subseteq live /\ live \subseteq Main \union {"store"}
    BY <2>1, MainOutline, Lists DEF IInv
  <2>3. freeing' \in Seq(Objects) /\ Freed(freeing') = {"store"} /\ InOrder(freeing', live')
    BY <2>1, <2>2, Lists, ContextOrder DEF Objects, Main
  <2>4. pc' \in Labels \ {"load"}
        /\ Must(pc') \subseteq live' \ {"store"} /\ live' \subseteq May(pc') \union {"store"}
    BY <2>1, <2>2, MainOutline DEF Main
  <2> QED
    BY <2>1, <2>3, <2>4 DEF IInv
<1> QED
  BY <1>1, <1>2, <1>3, <1>4

LEMMA LookKeeps ==
    ASSUME IInv, Look
    PROVE  IInv'
<1>1. freeing = <<>> /\ UNCHANGED <<live, entries, null>>
  BY DEF Look
<1>2. Must(pc) \subseteq live /\ live \subseteq May(pc)
  BY <1>1, Lists DEF IInv
<1>3. CASE freeing' = freeing
  <2>1. output' \in {"empty", "filled"}
    BY DEF Look, IInv
  <2>2. pc' \in Labels \ {"load"} /\ Must(pc') \subseteq live /\ live \subseteq May(pc')
    <3>1. \/ pc = "loaded" /\ pc' = IF "tpm2" \in live THEN "open" ELSE "exit1"
          \/ pc = "signed" /\ pc' \in {"verifyctx", "exit1"}
          \/ pc = "encrypted" /\ pc' \in {"decctx", "exit1"}
          \/ pc = "decrypted" /\ pc' = "exit1"
      BY <1>1, <1>3 DEF Look
    <3> QED
      BY <1>2, <3>1, MainOutline DEF Main
  <2> QED
    BY <1>1, <1>3, <2>1, <2>2, Lists DEF IInv
<1>4. CASE freeing' # freeing
  <2>1. pc = "decrypted" /\ pc' = "exit0" /\ freeing' = <<"pkey", "tpm2", "default">>
        /\ output' = output
    BY <1>4 DEF Look
  <2>2. freeing' \in Seq(Objects) /\ Freed(freeing') = Main /\ InOrder(freeing', live')
    BY <2>1, Lists, FreeOrder DEF Objects, Main
  <2>3. Must(pc') \subseteq live' \ Main /\ live' \subseteq May(pc') \union Main /\ pc' \in Labels
    BY <1>1, <1>2, <2>1, MainOutline
  <2>4. "info" \notin Main
    BY DEF Main
  <2> QED
    BY <1>1, <2>1, <2>2, <2>3, <2>4 DEF IInv
<1> QED
  BY <1>3, <1>4

\* The entries of a store, as a set of sequences.
LEMMA EntriesTyped ==
    UNION {[1..n -> {"pkey", "other"}] : n \in 0..MaxEntries}
       = {e \in Seq({"pkey", "other"}) : Len(e) <= MaxEntries}
<1> DEFINE S == {"pkey", "other"}
<1>1. ASSUME NEW n \in 0..MaxEntries, NEW e \in [1..n -> S]
      PROVE  e \in Seq(S) /\ Len(e) <= MaxEntries
  <2>1. n \in Nat /\ n <= MaxEntries
    BY ExampleAssumption
  <2>2. e \in Seq(S)
    BY <2>1
  <2>3. Len(e) = n
    BY <2>1, <2>2, LenProperties
  <2> QED
    BY <2>1, <2>2, <2>3
<1>2. ASSUME NEW e \in Seq(S), Len(e) <= MaxEntries
      PROVE  \E n \in 0..MaxEntries : e \in [1..n -> S]
  BY <1>2, LenProperties, ExampleAssumption
<1> QED
  BY <1>1, <1>2

\* The invariant holds in every reachable state.
THEOREM InvariantHolds == Spec => []IInv
<1>1. Init => IInv
  <2> SUFFICES ASSUME Init PROVE IInv
    OBVIOUS
  <2>1. entries \in Seq({"pkey", "other"}) /\ Len(entries) <= MaxEntries
    BY EntriesTyped DEF Init
  <2>2. freeing \in Seq(Objects) /\ Freed(freeing) = {} /\ InOrder(freeing, live)
    BY Lists, FreeOrder DEF Init
  <2> QED
    BY <2>1, <2>2, MainOutline DEF Init, IInv
<1>2. IInv /\ [Next]_vars => IInv'
  <2> SUFFICES ASSUME IInv, [Next]_vars PROVE IInv'
    OBVIOUS
  <2>1. CASE UNCHANGED vars
    BY <2>1 DEF vars, IInv
  <2> QED
    BY <2>1, CallKeeps, FreeKeeps, LoopKeeps, LookKeeps DEF Next
<1> QED
  BY <1>1, <1>2, PTL DEF Spec

-----------------------------------------------------------------------------
(***************************************************************************)
(* The theorems.                                                           *)
(***************************************************************************)
\* Every variable keeps its type, and the object that the loop over the store
\* looks at does not outlive the loop.
THEOREM TypeCorrect == Spec => []TypeOK
<1>1. ASSUME IInv
      PROVE  TypeOK
  <2>1. pc \in CallLabels \union LoopLabels \union Looks \union Exits
    BY <1>1 DEF IInv, Labels
  <2>2. \A i \in DOMAIN freeing : freeing[i] \in Objects
    BY <1>1, LenProperties DEF IInv
  <2>3. entries \in UNION {[1..n -> {"pkey", "other"}] : n \in 0..MaxEntries}
    BY <1>1, EntriesTyped DEF IInv
  <2>4. "info" \in live => pc \in LoopLabels
    <3>1. \A l \in Labels : "info" \notin May(l)
      BY DEF May, Main
    <3> QED
      BY <1>1, <3>1 DEF IInv, LoopLabels
  <2> QED
    BY <1>1, <2>1, <2>2, <2>3, <2>4 DEF IInv, TypeOK
<1> QED
  BY <1>1, InvariantHolds, PTL

\* Whatever call fails, each object is freed before those it was made from, each
\* helper has freed what it made, and a program that ends with 0 has freed all.
THEOREM AllIsFreed == Spec => []EverythingFreed
<1>1. ASSUME IInv
      PROVE  EverythingFreed
  <2>1. \A o \in DOMAIN Needs : o \in live => Needs[o] \subseteq live
    BY <1>1 DEF IInv
  <2>2. ASSUME freeing = <<>>
        PROVE  Must(pc) \subseteq live /\ live \subseteq May(pc)
    BY <1>1, <2>2, Lists DEF IInv
  <2>3. ASSUME pc \in MainLabels, freeing = <<>>
        PROVE  /\ live \subseteq {"tpm2", "default", "pkey"}
               /\ pc \notin {"loaded", "open"} => {"tpm2", "pkey"} \subseteq live
    BY <2>2, <2>3, MainOutline DEF MainLabels, Looks, Main
  <2>4. ASSUME freeing = <<>>
        PROVE  /\ pc = "exit0" => live = {}
               /\ pc = "exit1" => live \subseteq {"tpm2", "default", "pkey"}
    BY <2>2, <2>4, MainOutline DEF Main
  <2> QED
    BY <2>1, <2>3, <2>4 DEF EverythingFreed
<1> QED
  BY <1>1, InvariantHolds, PTL
===========================================================================
