------------------------ MODULE KeyOperation_proofs ------------------------
(***************************************************************************)
(* Proofs about KeyOperation, for any threads and any pages.  The clean-up *)
(* of a call is right because the code knows at every step what it owns:   *)
(* the invariant says what that is.                                        *)
(***************************************************************************)
EXTENDS KeyOperation, TLAPS

\* What a call has to release by hand before its step l.
OwnedAt(l) ==
    CASE l \in {"openpub"}                                     -> {"libctx"}
      [] l \in {"readpub"}                                     -> {"libctx", "file"}
      [] l \in {"encinit"}                                     -> {"libctx", "pubkey"}
      [] l \in {"encsize", "encrypt"}                          -> {"libctx", "pubkey", "ctx"}
      [] l \in {"copypass", "readpem"}                         -> {"file"}
      [] l \in {"returnkey", "newctx", "freekey"}              -> {"pkey"}
      [] l \in {"prepare", "querysize", "finish", "freectx"}   -> {"pkey", "ctx"}
      [] OTHER                                                 -> {}

\* The copies of the passphrase there are before step l.
CopiesAt(l) ==
    CASE l = "copyplain"                             -> {"esys"}
      [] l \in {"openpem", "copypass", "returnkey"}  -> {"buffer"}
      [] l = "readpem"                               -> {"buffer", "cstr"}
      [] OTHER                                       -> {}

\* The call that is in progress, and room for the key that load will hand out.
Calling(t) ==
    /\ pc[t] \in Encrypting => op[t] = "protect"
    /\ pc[t] \in Loading => op[t] # "protect"
    /\ pc[t] \in Using => op[t] \in {"sign", "decrypt"}
    /\ pc[t] \in Loading /\ op[t] = "load" => held[t] < MaxHeld

\* A call owns and has copied what its place in the code says, nothing has failed
\* for want of memory so far, and what the last call left behind is explained.
Accounted(t) ==
    /\ owned[t] = OwnedAt(pc[t])
    /\ \A k \in Copies : where[t][k] # NoPage <=> k \in CopiesAt(pc[t])
    /\ pc[t] # "idle" => failed[t] = "none"
    /\ pc[t] = "idle" => left[t] \subseteq Explained(failed[t], op[t])

\* The vector to be returned is empty until it is sized; decrypt fills or clears
\* what it has sized.
Unsized == Loading \union {"idle", "newlibctx", "openpub", "readpub", "encinit", "encsize",
                            "newctx", "prepare", "querysize"}

Filled(t) ==
    /\ pc[t] \in Unsized => output[t] = "empty"
    /\ op[t] = "decrypt" /\ pc[t] = "finish" => output[t] = "zeroes"
    /\ op[t] = "decrypt" /\ pc[t] \in {"freectx", "freekey"} => output[t] # "zeroes"
    /\ op[t] \in {"protect", "decrypt"} => result[t] # "zeroes"

\* The inductive invariant, one conjunct per thread.
InCall(t) == Calling(t) /\ Accounted(t) /\ Filled(t)

IInv == TypeOK /\ \A t \in Threads : InCall(t)

\* A step of another thread; and what a step of t must do to preserve IInv.
Same(u) ==
    UNCHANGED <<pc[u], op[u], where[u], owned[u], output[u], held[u], result[u], failed[u], left[u]>>

Keeps(t) == TypeOK' /\ InCall(t)' /\ \A u \in Threads \ {t} : Same(u)

-----------------------------------------------------------------------------
\* The copies that are live are those of the step.
LEMMA LiveCopies ==
    ASSUME NEW t \in Threads, Accounted(t)
    PROVE  Live(t) = CopiesAt(pc[t])
<1>1. CopiesAt(pc[t]) \subseteq Copies
  BY DEF CopiesAt, Copies
<1> QED
  BY <1>1 DEF Accounted, Live

\* A call that ends leaves the invariant, if what it leaves behind is explained.
LEMMA Ending ==
    ASSUME TypeOK, NEW t \in Threads, InCall(t),
           NEW r \in {"throw", "key", "empty", "zeroes", "genuine"},
           NEW rs \in SUBSET Resources, NEW ks \in SUBSET Copies, NEW site \in Sites,
           Leave(t, r, rs, ks), op' = op,
           held' \in [Threads -> 0..MaxHeld], \A u \in Threads \ {t} : held'[u] = held[u],
           failed' = [failed EXCEPT ![t] = site],
           rs \union (ks \ {"buffer"}) \subseteq Explained(site, op[t]),
           r = "zeroes" => op[t] = "sign"
    PROVE  Keeps(t)
<1> USE DEF Leave, Goto, Own
<1>1. TypeOK'
  <2>1. pc' \in [Threads -> {"idle"} \union Encrypting \union Loading \union Using]
    BY DEF TypeOK
  <2>2. where' \in [Threads -> [Copies -> Pages \union {NoPage}]]
    BY DEF TypeOK, Nowhere
  <2>3. locked' \subseteq Pages
    BY DEF TypeOK, Unlocked
  <2>4. left' \in [Threads -> SUBSET (Resources \union Copies)]
    BY DEF TypeOK
  <2> QED
    BY <2>1, <2>2, <2>3, <2>4 DEF TypeOK
<1>2. Calling(t)'
  BY DEF TypeOK, Calling, Encrypting, Loading, Using
<1>3. Accounted(t)'
  <2>1. owned'[t] = OwnedAt(pc'[t])
    BY DEF TypeOK, OwnedAt
  <2>2. \A k \in Copies : where'[t][k] # NoPage <=> k \in CopiesAt(pc'[t])
    BY DEF TypeOK, CopiesAt, Nowhere
  <2>3. left'[t] \subseteq Explained(failed'[t], op'[t]) /\ pc'[t] = "idle"
    BY DEF TypeOK
  <2> QED
    BY <2>1, <2>2, <2>3 DEF Accounted
<1>4. Filled(t)'
  BY DEF TypeOK, Filled, Unsized
<1>5. \A u \in Threads \ {t} : Same(u)
  BY DEF TypeOK, Same
<1> QED
  BY <1>1, <1>2, <1>3, <1>4, <1>5 DEF Keeps, InCall

\* Step l may come next with o in the vector.
Fits(t, l, o) ==
    /\ l \in (Encrypting \union Loading \union Using) \ {"newlibctx", "rsadecrypt"}
    /\ l \in Encrypting => op[t] = "protect"
    /\ l \in Loading => pc[t] \in Loading
    /\ l \in Using => op[t] \in {"sign", "decrypt"}
    /\ o \in {"empty", "zeroes", "genuine"}
    /\ l \in Unsized => o = "empty"
    /\ op[t] = "decrypt" /\ l = "finish" => o = "zeroes"
    /\ op[t] = "decrypt" /\ l \in {"freectx", "freekey"} => o # "zeroes"

\* A step inside a call leaves the invariant, if the next step finds what it needs.
LEMMA Advancing ==
    ASSUME TypeOK, NEW t \in Threads, InCall(t), pc[t] # "idle",
           NEW l, NEW o, NEW w \in [Copies -> Pages \union {NoPage}],
           Advance(t, l), locked' \subseteq Pages,
           where' = [where EXCEPT ![t] = w],
           owned' = [owned EXCEPT ![t] = OwnedAt(l)],
           output' = [output EXCEPT ![t] = o],
           \A k \in Copies : w[k] # NoPage <=> k \in CopiesAt(l),
           Fits(t, l, o)
    PROVE  Keeps(t)
<1> USE DEF Advance, Goto, Fits
<1>1. TypeOK'
  <2>1. OwnedAt(l) \in SUBSET Resources
    BY DEF OwnedAt, Resources
  <2> QED
    BY <2>1 DEF TypeOK
<1>2. Calling(t)'
  BY DEF TypeOK, InCall, Calling, Encrypting, Loading, Using
<1>3. Accounted(t)'
  BY DEF TypeOK, InCall, Accounted, Encrypting, Loading, Using
<1>4. Filled(t)'
  BY DEF TypeOK, InCall, Filled, Unsized, Encrypting, Loading, Using
<1>5. \A u \in Threads \ {t} : Same(u)
  BY DEF TypeOK, Same
<1> QED
  BY <1>1, <1>2, <1>3, <1>4, <1>5 DEF Keeps, InCall

\* The frame of a step that keeps its copies or its vector.
LEMMA Stays ==
    ASSUME TypeOK, NEW t \in Threads
    PROVE  /\ where = [where EXCEPT ![t] = where[t]]
           /\ owned = [owned EXCEPT ![t] = owned[t]]
           /\ output = [output EXCEPT ![t] = output[t]]
           /\ failed = [failed EXCEPT ![t] = failed[t]]
           /\ where[t] \in [Copies -> Pages \union {NoPage}]
           /\ output[t] \in {"empty", "zeroes", "genuine"}
           /\ locked \subseteq Pages
BY DEF TypeOK

\* A throw with nothing left to release, and no copy but the SecureBuffer's.
LEMMA Throwing ==
    ASSUME TypeOK, NEW t \in Threads, InCall(t), pc[t] # "idle",
           Throw(t, {}), CopiesAt(pc[t]) \subseteq {"buffer"}
    PROVE  Keeps(t)
<1>1. Live(t) = CopiesAt(pc[t]) /\ failed[t] = "none"
  BY LiveCopies DEF InCall, Accounted
<1>2. {} \union (Live(t) \ {"buffer"}) \subseteq Explained("none", op[t])
  BY <1>1
<1>3. /\ Leave(t, "throw", {}, Live(t)) /\ op' = op /\ held' = held
      /\ failed' = [failed EXCEPT ![t] = "none"]
  BY <1>1, Stays DEF Throw
<1>4. {} \in SUBSET Resources /\ Live(t) \in SUBSET Copies /\ "none" \in Sites
  BY DEF Live, Sites
<1>5. held' \in [Threads -> 0..MaxHeld] /\ \A u \in Threads \ {t} : held'[u] = held[u]
  BY <1>3 DEF TypeOK
<1> QED
  BY <1>2, <1>3, <1>4, <1>5, Ending

\* An allocation that throws leaves behind what the call owns and has copied.
LEMMA BadAllocating ==
    ASSUME TypeOK, NEW t \in Threads, InCall(t), pc[t] # "idle", NEW site \in Sites,
           BadAlloc(t, site),
           OwnedAt(pc[t]) \union (CopiesAt(pc[t]) \ {"buffer"}) \subseteq Explained(site, op[t])
    PROVE  Keeps(t)
<1>1. Live(t) = CopiesAt(pc[t]) /\ owned[t] = OwnedAt(pc[t])
  BY LiveCopies DEF InCall, Accounted
<1>2. owned[t] \union (Live(t) \ {"buffer"}) \subseteq Explained(site, op[t])
  BY <1>1
<1>3. /\ Leave(t, "throw", owned[t], Live(t)) /\ op' = op /\ held' = held
      /\ failed' = [failed EXCEPT ![t] = site]
  BY DEF BadAlloc
<1>4. owned[t] \in SUBSET Resources /\ Live(t) \in SUBSET Copies
  BY DEF Live, TypeOK
<1>5. held' \in [Threads -> 0..MaxHeld] /\ \A u \in Threads \ {t} : held'[u] = held[u]
  BY <1>3 DEF TypeOK
<1> QED
  BY <1>2, <1>3, <1>4, <1>5, Ending

\* A step that makes and drops no copy of the passphrase.
LEMMA AdvancingWithCopies ==
    ASSUME TypeOK, NEW t \in Threads, InCall(t), pc[t] # "idle", NEW l, NEW o,
           Advance(t, l), UNCHANGED <<where, locked>>,
           owned' = [owned EXCEPT ![t] = OwnedAt(l)],
           output' = [output EXCEPT ![t] = o],
           CopiesAt(l) = CopiesAt(pc[t]), Fits(t, l, o)
    PROVE  Keeps(t)
<1>1. \A k \in Copies : where[t][k] # NoPage <=> k \in CopiesAt(l)
  BY DEF InCall, Accounted
<1>2. /\ where' = [where EXCEPT ![t] = where[t]] /\ locked' \subseteq Pages
      /\ where[t] \in [Copies -> Pages \union {NoPage}]
  BY Stays
<1> QED
  BY <1>1, <1>2, Advancing

\* A step that changes at most what the call owns.
LEMMA AdvancingOnly ==
    ASSUME TypeOK, NEW t \in Threads, InCall(t), pc[t] # "idle", NEW l,
           Advance(t, l), UNCHANGED <<where, locked, output>>,
           \/ Own(t, OwnedAt(l))
           \/ UNCHANGED owned /\ OwnedAt(l) = OwnedAt(pc[t]),
           CopiesAt(l) = CopiesAt(pc[t]), Fits(t, l, output[t])
    PROVE  Keeps(t)
<1>1. owned' = [owned EXCEPT ![t] = OwnedAt(l)] /\ output' = [output EXCEPT ![t] = output[t]]
  BY Stays DEF InCall, Accounted, Own
<1> QED
  BY <1>1, AdvancingWithCopies

\* Every step of protect.
LEMMA ProtectKeeps ==
    ASSUME TypeOK, NEW t \in Threads, InCall(t), Protect(t)
    PROVE  Keeps(t)
<1> USE DEF Encrypting, Loading, Using, OwnedAt, CopiesAt, Fits, Unsized
<1>0. /\ pc[t] \in Encrypting => op[t] = "protect"
      /\ pc[t] \in Encrypting \ {"encrypt"} => output[t] = "empty"
      /\ pc[t] # "idle" => failed[t] = "none"
  BY DEF InCall, Calling, Filled, Accounted
<1>1. CASE NewLibCtx(t)
  BY <1>0, <1>1, Stays, AdvancingWithCopies DEF NewLibCtx, Own
<1>2. CASE OpenPub(t)
  <2>1. CASE Throw(t, {})
    BY <1>2, <2>1, Throwing DEF OpenPub
  <2>2. CASE ~Throw(t, {})
    <3>1. /\ Advance(t, "readpub") /\ UNCHANGED <<where, locked, output>>
          /\ Own(t, OwnedAt("readpub")) /\ pc[t] = "openpub"
      BY <1>2, <2>2 DEF OpenPub
    <3> QED
      BY <1>0, <3>1, AdvancingOnly
  <2> QED
    BY <2>1, <2>2
<1>3. CASE ReadPub(t)
  <2>1. CASE Throw(t, {})
    BY <1>3, <2>1, Throwing DEF ReadPub
  <2>2. CASE ~Throw(t, {})
    <3>1. /\ Advance(t, "encinit") /\ UNCHANGED <<where, locked, output>>
          /\ Own(t, OwnedAt("encinit")) /\ pc[t] = "readpub"
      BY <1>3, <2>2 DEF ReadPub
    <3> QED
      BY <1>0, <3>1, AdvancingOnly
  <2> QED
    BY <2>1, <2>2
<1>4. CASE EncInit(t)
  <2>1. CASE Leave(t, "throw", {"ctx"}, {}) /\ failed' = [failed EXCEPT ![t] = "encinit"]
             /\ UNCHANGED <<op, held>>
    BY <1>0, <2>1, Ending DEF TypeOK, Sites, Resources, Explained
  <2>2. CASE Throw(t, {})
    BY <1>4, <2>2, Throwing DEF EncInit
  <2>3. CASE Own(t, {"libctx", "pubkey", "ctx"}) /\ Advance(t, "encsize")
             /\ UNCHANGED <<where, locked, output>>
    <3>1. Own(t, OwnedAt("encsize")) /\ pc[t] = "encinit"
      BY <1>4, <2>3 DEF EncInit
    <3> QED
      BY <1>0, <2>3, <3>1, AdvancingOnly
  <2> QED
    BY <1>4, <2>1, <2>2, <2>3 DEF EncInit
<1>5. CASE EncSize(t)
  <2>1. pc[t] = "encsize" /\ OwnedAt(pc[t]) \union (CopiesAt(pc[t]) \ {"buffer"}) \subseteq Explained("output", op[t])
    BY <1>0, <1>5 DEF EncSize, Explained
  <2> QED
    BY <1>0, <1>5, <2>1, Stays, Throwing, BadAllocating, AdvancingWithCopies DEF EncSize, InCall, Accounted, Sites
<1>6. CASE Encrypt(t)
  <2>1. CASE Leave(t, "genuine", {}, {}) /\ UNCHANGED <<op, held, failed>>
    BY <1>0, <1>6, <2>1, Stays, Ending DEF TypeOK, Sites, Resources, Encrypt
  <2> QED
    BY <1>0, <1>6, <2>1, Throwing DEF Encrypt
<1> QED
  BY <1>1, <1>2, <1>3, <1>4, <1>5, <1>6 DEF Protect

\* Every step of load_protected_key.
LEMMA LoadKeeps ==
    ASSUME TypeOK, NEW t \in Threads, InCall(t), Load(t)
    PROVE  Keeps(t)
<1> USE DEF Loading, Put
<1>0. /\ pc[t] \in Loading => op[t] # "protect" /\ output[t] = "empty"
      /\ op[t] \in Operations
      /\ pc[t] # "idle" => failed[t] = "none"
      /\ owned[t] = OwnedAt(pc[t])
      /\ \A k \in Copies : where[t][k] # NoPage <=> k \in CopiesAt(pc[t])
  BY DEF InCall, Calling, Filled, Accounted, TypeOK, Unsized
<1>1. CASE RsaDecrypt(t)
  <2>1. ASSUME NEW p \in Pages, Put(t, "esys", p), Advance(t, "copyplain"),
               UNCHANGED <<locked, owned, output>>
        PROVE  Keeps(t)
    <3> DEFINE w == [where[t] EXCEPT !["esys"] = p]
    <3>1. w \in [Copies -> Pages \union {NoPage}] /\ where' = [where EXCEPT ![t] = w]
      BY <2>1, Stays DEF TypeOK
    <3>2. \A k \in Copies : w[k] # NoPage <=> k \in CopiesAt("copyplain")
      BY <1>0, <1>1, KeyOperationAssumption, Stays DEF RsaDecrypt, Copies, CopiesAt
    <3>4. Fits(t, "copyplain", "empty") /\ pc[t] # "idle"
      BY <1>0, <1>1 DEF RsaDecrypt, Fits, Encrypting, Using, Unsized, Operations
    <3>5. /\ owned' = [owned EXCEPT ![t] = OwnedAt("copyplain")]
          /\ output' = [output EXCEPT ![t] = "empty"]
          /\ locked' \subseteq Pages
      BY <1>0, <1>1, <2>1, Stays DEF RsaDecrypt, OwnedAt, Own
    <3> QED
      BY <2>1, <3>1, <3>2, <3>4, <3>5, Advancing
  <2> QED
    BY <1>1, <2>1, Throwing DEF RsaDecrypt, CopiesAt
<1>2. CASE CopyPlain(t)
  <2>1. CASE BadAlloc(t, "securebuffer")
    <3>1. pc[t] = "copyplain" /\ OwnedAt(pc[t]) \union (CopiesAt(pc[t]) \ {"buffer"}) \subseteq Explained("securebuffer", op[t])
      BY <1>2 DEF CopyPlain, Explained, OwnedAt, CopiesAt
    <3> QED
      BY <2>1, <3>1, BadAllocating DEF Sites
  <2>2. ASSUME NEW p \in Pages,
               where' = [where EXCEPT ![t]["buffer"] = p, ![t]["esys"] = NoPage],
               locked' \in LockedOutcomes(p), Advance(t, "openpem"), UNCHANGED <<owned, output>>
        PROVE  Keeps(t)
    <3> DEFINE w == [where[t] EXCEPT !["buffer"] = p, !["esys"] = NoPage]
    <3>1. w \in [Copies -> Pages \union {NoPage}] /\ where' = [where EXCEPT ![t] = w]
      BY <2>2, Stays DEF TypeOK
    <3>2. \A k \in Copies : w[k] # NoPage <=> k \in CopiesAt("openpem")
      BY <1>0, <1>2, KeyOperationAssumption, Stays DEF CopyPlain, Copies, CopiesAt
    <3>3. locked' \subseteq Pages
      BY <2>2, Stays DEF LockedOutcomes
    <3>4. Fits(t, "openpem", "empty") /\ pc[t] # "idle"
      BY <1>0, <1>2 DEF CopyPlain, Fits, Encrypting, Using, Unsized, Operations
    <3>5. /\ owned' = [owned EXCEPT ![t] = OwnedAt("openpem")]
          /\ output' = [output EXCEPT ![t] = "empty"]
          /\ locked' \subseteq Pages
      BY <1>0, <1>2, <2>2, <3>3, Stays DEF CopyPlain, OwnedAt, Own
    <3> QED
      BY <2>2, <3>1, <3>2, <3>4, <3>5, Advancing
  <2> QED
    BY <1>2, <2>1, <2>2 DEF CopyPlain
<1>3. CASE OpenPem(t)
  BY <1>0, <1>3, Stays, Throwing, AdvancingWithCopies DEF OpenPem, Encrypting, Using, OwnedAt, CopiesAt, Fits, Unsized, Own
<1>4. CASE CopyPass(t)
  <2>1. CASE BadAlloc(t, "copypass")
    <3>1. pc[t] = "copypass" /\ OwnedAt(pc[t]) \union (CopiesAt(pc[t]) \ {"buffer"}) \subseteq Explained("copypass", op[t])
      BY <1>4 DEF CopyPass, Explained, OwnedAt, CopiesAt
    <3> QED
      BY <2>1, <3>1, BadAllocating DEF Sites
  <2>2. ASSUME NEW p \in Pages, Put(t, "cstr", p), Advance(t, "readpem"),
               UNCHANGED <<locked, owned, output>>
        PROVE  Keeps(t)
    <3> DEFINE w == [where[t] EXCEPT !["cstr"] = p]
    <3>1. w \in [Copies -> Pages \union {NoPage}] /\ where' = [where EXCEPT ![t] = w]
      BY <2>2, Stays DEF TypeOK
    <3>2. \A k \in Copies : w[k] # NoPage <=> k \in CopiesAt("readpem")
      BY <1>0, <1>4, KeyOperationAssumption, Stays DEF CopyPass, Copies, CopiesAt
    <3>4. Fits(t, "readpem", "empty") /\ pc[t] # "idle"
      BY <1>0, <1>4 DEF CopyPass, Fits, Encrypting, Using, Unsized, Operations
    <3>5. /\ owned' = [owned EXCEPT ![t] = OwnedAt("readpem")]
          /\ output' = [output EXCEPT ![t] = "empty"]
          /\ locked' \subseteq Pages
      BY <1>0, <1>4, <2>2, Stays DEF CopyPass, OwnedAt, Own
    <3> QED
      BY <2>2, <3>1, <3>2, <3>4, <3>5, Advancing
  <2> QED
    BY <1>4, <2>1, <2>2 DEF CopyPass
<1>5. CASE ReadPem(t)
  <2>1. CASE Leave(t, "throw", {}, Live(t) \ {"cstr"}) /\ UNCHANGED <<op, held, failed>>
    <3>1. (Live(t) \ {"cstr"}) \ {"buffer"} = {} /\ Live(t) \ {"cstr"} \in SUBSET Copies
      BY <1>5, LiveCopies DEF ReadPem, InCall, Live, CopiesAt
    <3> QED
      BY <1>0, <1>5, <2>1, <3>1, Stays, Ending DEF ReadPem, TypeOK, Sites
  <2>2. CASE Put(t, "cstr", NoPage) /\ Own(t, {"pkey"}) /\ Advance(t, "returnkey")
             /\ UNCHANGED <<locked, output>>
    <3> DEFINE w == [where[t] EXCEPT !["cstr"] = NoPage]
    <3>1. w \in [Copies -> Pages \union {NoPage}] /\ where' = [where EXCEPT ![t] = w]
      BY <2>2, Stays DEF TypeOK
    <3>2. \A k \in Copies : w[k] # NoPage <=> k \in CopiesAt("returnkey")
      BY <1>0, <1>5, Stays DEF ReadPem, Copies, CopiesAt
    <3>4. Fits(t, "returnkey", "empty") /\ pc[t] # "idle"
      BY <1>0, <1>5 DEF ReadPem, Fits, Encrypting, Using, Unsized, Operations
    <3>5. /\ owned' = [owned EXCEPT ![t] = OwnedAt("returnkey")]
          /\ output' = [output EXCEPT ![t] = "empty"]
          /\ locked' \subseteq Pages
      BY <1>0, <1>5, <2>2, Stays DEF ReadPem, OwnedAt, Own
    <3> QED
      BY <2>2, <3>1, <3>2, <3>4, <3>5, Advancing
  <2> QED
    BY <1>5, <2>1, <2>2 DEF ReadPem
<1>6. CASE ReturnKey(t)
  <2>1. CASE op[t] = "load" /\ Leave(t, "key", {}, Live(t))
             /\ held' = [held EXCEPT ![t] = @ + 1] /\ UNCHANGED <<op, failed>>
    <3>1. {} \union (Live(t) \ {"buffer"}) = {} /\ Live(t) \in SUBSET Copies
      BY <1>6, LiveCopies DEF ReturnKey, InCall, Live, CopiesAt
    <3>2. held[t] < MaxHeld /\ held[t] \in 0..MaxHeld
      BY <1>6, <2>1 DEF ReturnKey, InCall, Calling, TypeOK
    <3>3. held' \in [Threads -> 0..MaxHeld] /\ \A u \in Threads \ {t} : held'[u] = held[u]
      BY <2>1, <3>2, KeyOperationAssumption DEF TypeOK
    <3> QED
      BY <1>0, <1>6, <2>1, <3>1, <3>3, Stays, Ending DEF ReturnKey, Sites
  <2>2. CASE op[t] # "load" /\ Put(t, "buffer", NoPage) /\ locked' = Unlocked(where[t]["buffer"])
             /\ Advance(t, "newctx") /\ UNCHANGED <<owned, output>>
    <3> DEFINE w == [where[t] EXCEPT !["buffer"] = NoPage]
    <3>1. w \in [Copies -> Pages \union {NoPage}] /\ where' = [where EXCEPT ![t] = w]
      BY <2>2, Stays DEF TypeOK
    <3>2. \A k \in Copies : w[k] # NoPage <=> k \in CopiesAt("newctx")
      BY <1>0, <1>6, Stays DEF ReturnKey, Copies, CopiesAt
    <3>3. locked' \subseteq Pages
      BY <2>2, Stays DEF Unlocked
    <3>4. Fits(t, "newctx", "empty") /\ pc[t] # "idle"
      BY <1>0, <1>6, <2>2 DEF ReturnKey, Fits, Encrypting, Using, Unsized, Operations
    <3>5. /\ owned' = [owned EXCEPT ![t] = OwnedAt("newctx")]
          /\ output' = [output EXCEPT ![t] = "empty"]
          /\ locked' \subseteq Pages
      BY <1>0, <1>6, <2>2, <3>3, Stays DEF ReturnKey, OwnedAt, Own
    <3> QED
      BY <2>2, <3>1, <3>2, <3>4, <3>5, Advancing
  <2> QED
    BY <1>6, <2>1, <2>2 DEF ReturnKey
<1> QED
  BY <1>1, <1>2, <1>3, <1>4, <1>5, <1>6 DEF Load

\* Every step that uses the key.
LEMMA UseKeeps ==
    ASSUME TypeOK, NEW t \in Threads, InCall(t), Use(t)
    PROVE  Keeps(t)
<1> USE DEF Using, OwnedAt, CopiesAt, Fits, Unsized
<1>0. /\ pc[t] \in Using => op[t] \in {"sign", "decrypt"}
      /\ pc[t] \in {"newctx", "prepare", "querysize"} => output[t] = "empty"
      /\ op[t] = "decrypt" /\ pc[t] = "finish" => output[t] = "zeroes"
      /\ op[t] = "decrypt" /\ pc[t] \in {"freectx", "freekey"} => output[t] # "zeroes"
      /\ pc[t] # "idle" => failed[t] = "none"
      /\ owned[t] = OwnedAt(pc[t])
  BY DEF InCall, Calling, Filled, Accounted
<1>1. CASE NewCtx(t)
  <2>1. CASE Advance(t, "freekey") /\ UNCHANGED <<where, locked, owned, output>>
    BY <1>0, <1>1, <2>1, AdvancingOnly DEF NewCtx, Encrypting, Loading
  <2>2. CASE Own(t, {"pkey", "ctx"}) /\ Advance(t, "prepare") /\ UNCHANGED <<where, locked, output>>
    <3>1. Own(t, OwnedAt("prepare")) /\ pc[t] = "newctx"
      BY <1>1, <2>2 DEF NewCtx
    <3> QED
      BY <1>0, <2>2, <3>1, AdvancingOnly DEF Encrypting, Loading
  <2> QED
    BY <1>1, <2>1, <2>2 DEF NewCtx
<1>2. CASE Prepare(t)
  <2>1. CASE Advance(t, "freectx") /\ UNCHANGED <<where, locked, owned, output>>
    BY <1>0, <1>2, <2>1, AdvancingOnly DEF Prepare, Encrypting, Loading
  <2>2. CASE Advance(t, "querysize") /\ UNCHANGED <<where, locked, owned, output>>
    BY <1>0, <1>2, <2>2, AdvancingOnly DEF Prepare, Encrypting, Loading
  <2> QED
    BY <1>2, <2>1, <2>2 DEF Prepare
<1>3. ASSUME pc[t] \in {"querysize", "finish"}, BadAlloc(t, "output")
      PROVE  Keeps(t)
  <2>1. OwnedAt(pc[t]) \union (CopiesAt(pc[t]) \ {"buffer"}) \subseteq Explained("output", op[t])
    BY <1>0, <1>3 DEF Explained
  <2> QED
    BY <1>3, <2>1, BadAllocating DEF Sites
<1>4. CASE QuerySize(t)
  <2>0. pc[t] = "querysize"
    BY <1>4 DEF QuerySize
  <2>1. CASE output' = [output EXCEPT ![t] = "zeroes"] /\ Advance(t, "finish")
             /\ UNCHANGED <<where, locked, owned>>
    BY <1>0, <2>0, <2>1, Stays, AdvancingWithCopies DEF Encrypting, Loading
  <2>2. CASE op[t] = "sign" /\ Advance(t, "finish") /\ UNCHANGED <<where, locked, owned, output>>
    BY <1>0, <2>0, <2>2, AdvancingOnly DEF Encrypting, Loading
  <2>3. CASE op[t] # "sign" /\ Advance(t, "freectx") /\ UNCHANGED <<where, locked, owned, output>>
    BY <1>0, <2>0, <2>3, AdvancingOnly DEF Encrypting, Loading
  <2> QED
    BY <1>3, <1>4, <2>0, <2>1, <2>2, <2>3 DEF QuerySize
<1>5. CASE Finish(t)
  BY <1>0, <1>3, <1>5, Stays, AdvancingWithCopies DEF Finish, Encrypting, Loading
<1>6. CASE FreeCtx(t)
  BY <1>0, <1>6, Stays, AdvancingWithCopies DEF FreeCtx, Own, Encrypting, Loading
<1>7. CASE FreeKey(t)
  <2>1. Live(t) = {} /\ owned[t] \ {"pkey"} = {}
    BY <1>0, <1>7, LiveCopies DEF FreeKey, InCall
  <2>2. /\ Leave(t, output[t], {}, {}) /\ UNCHANGED <<op, held>>
        /\ failed' = [failed EXCEPT ![t] = "none"]
        /\ output[t] = "zeroes" => op[t] = "sign"
    BY <1>0, <1>7, <2>1, Stays DEF FreeKey
  <2>3. /\ held' \in [Threads -> 0..MaxHeld] /\ \A u \in Threads \ {t} : held'[u] = held[u]
        /\ {} \union ({} \ {"buffer"}) \subseteq Explained("none", op[t])
        /\ "none" \in Sites /\ {} \in SUBSET Resources /\ {} \in SUBSET Copies
        /\ op' = op /\ output[t] \in {"throw", "key", "empty", "zeroes", "genuine"}
    BY <2>2 DEF TypeOK, Sites
  <2> QED
    BY <2>2, <2>3, Ending
<1> QED
  BY <1>1, <1>2, <1>4, <1>5, <1>6, <1>7 DEF Use

\* A caller starts a call, or frees a key it was given.
LEMMA CallerKeeps ==
    ASSUME TypeOK, NEW t \in Threads, InCall(t),
           (\E o \in Operations : Begin(t, o)) \/ FreeLoadedKey(t)
    PROVE  Keeps(t)
<1> USE DEF Encrypting, Loading, Using, Unsized, Goto
<1>1. ASSUME NEW o \in Operations, Begin(t, o)
      PROVE  Keeps(t)
  <2>1. TypeOK'
    BY <1>1 DEF Begin, TypeOK, Sites
  <2>2. Calling(t)' /\ Filled(t)'
    BY <1>1 DEF Begin, TypeOK, InCall, Calling, Filled, Operations
  <2>3. Accounted(t)'
    BY <1>1 DEF Begin, TypeOK, InCall, Accounted, OwnedAt, CopiesAt
  <2>4. \A u \in Threads \ {t} : Same(u)
    BY <1>1 DEF Begin, TypeOK, Same
  <2> QED
    BY <2>1, <2>2, <2>3, <2>4 DEF Keeps, InCall
<1>2. CASE FreeLoadedKey(t)
  <2>1. TypeOK'
    BY <1>2, KeyOperationAssumption DEF FreeLoadedKey, TypeOK
  <2>2. InCall(t)'
    BY <1>2 DEF FreeLoadedKey, InCall, Calling, Filled, Accounted
  <2>3. \A u \in Threads \ {t} : Same(u)
    BY <1>2 DEF FreeLoadedKey, TypeOK, Same
  <2> QED
    BY <2>1, <2>2, <2>3 DEF Keeps
<1> QED
  BY <1>1, <1>2

-----------------------------------------------------------------------------
\* Threads do not disturb each other's calls: the invariant is one of each thread.
LEMMA Invariant == Spec => []IInv
<1>1. Init => IInv
  <2> SUFFICES ASSUME Init PROVE IInv
    OBVIOUS
  <2>1. TypeOK
    BY KeyOperationAssumption DEF Init, TypeOK, Nowhere, Operations, Sites
  <2>2. ASSUME NEW t \in Threads PROVE InCall(t)
    BY DEF Init, InCall, Calling, Accounted, Filled, OwnedAt, CopiesAt, Nowhere, Encrypting, Loading, Using
  <2> QED
    BY <2>1, <2>2 DEF IInv
<1>2. IInv /\ [Next]_vars => IInv'
  <2> SUFFICES ASSUME IInv, [Next]_vars PROVE IInv'
    OBVIOUS
  <2>1. CASE UNCHANGED vars
    BY <2>1 DEF vars, IInv, TypeOK, InCall, Calling, Accounted, Filled
  <2>2. ASSUME NEW t \in Threads, Keeps(t)
        PROVE  IInv'
    <3>1. ASSUME NEW u \in Threads \ {t} PROVE InCall(u)'
      BY <2>2 DEF Keeps, Same, IInv, InCall, Calling, Accounted, Filled
    <3> QED
      BY <2>2, <3>1 DEF Keeps, IInv
  <2>3. CASE Next
    BY <2>2, <2>3, ProtectKeeps, LoadKeeps, UseKeeps, CallerKeeps DEF Next, IInv
  <2> QED
    BY <2>1, <2>3
<1> QED
  BY <1>1, <1>2, PTL DEF Spec

\* Type correctness; in particular a thread never holds more keys than the bound.
THEOREM TypeCorrect == Spec => []TypeOK
BY Invariant, PTL DEF IInv

\* Every exit of every call releases what it took and wipes what it copied, except
\* after an allocation that threw, and after a failed encrypt_init.
THEOREM CallsAlwaysCleanUp == Spec => []CallsCleanUp
<1>1. IInv => CallsCleanUp
  BY DEF IInv, InCall, Accounted, CallsCleanUp
<1> QED
  BY <1>1, Invariant, PTL

\* sign and decrypt use the private key only when the passphrase is gone.
THEOREM PassphraseIsGone == Spec => []PassphraseGoneBeforeUse
<1>1. IInv => PassphraseGoneBeforeUse
  BY DEF IInv, InCall, Accounted, PassphraseGoneBeforeUse, Live, CopiesAt, Using
<1> QED
  BY <1>1, Invariant, PTL

\* protect and decrypt never return a vector that was sized and not filled.
THEOREM ZeroesNeverReturned == Spec => []NeverZeroes
<1>1. IInv => NeverZeroes
  BY DEF IInv, InCall, Filled, NeverZeroes
<1> QED
  BY <1>1, Invariant, PTL

-----------------------------------------------------------------------------
\* A thread takes a lock away only from the page of its own SecureBuffer, which it
\* wipes in the same step.
LEMMA LocksTaken ==
    ASSUME TypeOK, NEW t \in Threads, NEW p \in locked \ locked',
           \/ \E o \in Operations : Begin(t, o)
           \/ FreeLoadedKey(t) \/ Protect(t) \/ Load(t) \/ Use(t)
    PROVE  where[t]["buffer"] = p /\ where'[t]["buffer"] = NoPage
<1>1. ~UNCHANGED locked
  OBVIOUS
<1>2. ASSUME NEW r, NEW rs, NEW ks, Leave(t, r, rs, ks)
      PROVE  where[t]["buffer"] = p /\ where'[t]["buffer"] = NoPage
  BY <1>2 DEF Leave, Unlocked, Nowhere, Copies, TypeOK
<1>3. CASE Throw(t, {}) \/ \E site \in Sites : BadAlloc(t, site)
  BY <1>2, <1>3 DEF Throw, BadAlloc
<1>4. CASE Protect(t)
  BY <1>1, <1>2, <1>3, <1>4 DEF Protect, NewLibCtx, OpenPub, ReadPub, EncInit, EncSize, Encrypt, Sites
<1>5. CASE RsaDecrypt(t) \/ CopyPlain(t) \/ OpenPem(t)
  BY <1>1, <1>3, <1>5 DEF RsaDecrypt, CopyPlain, OpenPem, LockedOutcomes, Sites
<1>6. CASE CopyPass(t) \/ ReadPem(t)
  BY <1>1, <1>2, <1>3, <1>6 DEF CopyPass, ReadPem, Sites
<1>7. CASE ReturnKey(t)
  BY <1>2, <1>7 DEF ReturnKey, Put, Unlocked, Copies, TypeOK
<1>8. CASE Use(t)
  BY <1>1, <1>2, <1>3, <1>8 DEF Use, NewCtx, Prepare, QuerySize, Finish, FreeCtx, FreeKey, Sites
<1>9. CASE (\E o \in Operations : Begin(t, o)) \/ FreeLoadedKey(t)
  BY <1>1, <1>9 DEF Begin, FreeLoadedKey
<1> QED
  BY <1>4, <1>5, <1>6, <1>7, <1>8, <1>9 DEF Load

\* A SecureBuffer loses the lock of its page before its own wipe only to a wipe by
\* another thread.
THEOREM LocksLostToNeighbours == Spec => LockLostOnlyToNeighbour
<1>1. ASSUME TypeOK, Next, NEW t \in Threads, where[t]["buffer"] \in locked \ locked',
             where'[t]["buffer"] = where[t]["buffer"]
      PROVE  \E u \in Threads \ {t} :
                where[u]["buffer"] = where[t]["buffer"] /\ where'[u]["buffer"] = NoPage
  <2>1. PICK u \in Threads : where[u]["buffer"] = where[t]["buffer"] /\ where'[u]["buffer"] = NoPage
    BY <1>1, LocksTaken DEF Next
  <2>2. where[t]["buffer"] # NoPage
    BY <1>1, KeyOperationAssumption DEF TypeOK
  <2> QED
    BY <1>1, <2>1, <2>2
<1>2. TypeOK /\ [Next]_vars =>
        [\A t \in Threads :
            LET p == where[t]["buffer"]
            IN  /\ p \in locked /\ p \notin locked'
                /\ where'[t]["buffer"] = p
                => \E u \in Threads \ {t} : where[u]["buffer"] = p /\ where'[u]["buffer"] = NoPage]_vars
  BY <1>1 DEF vars
<1> QED
  BY <1>2, TypeCorrect, PTL DEF Spec, LockLostOnlyToNeighbour
=============================================================================
