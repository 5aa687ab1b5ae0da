----------------------- MODULE PassphraseBlob_proofs -----------------------
(***************************************************************************)
(* Proofs about PassphraseBlob, for any width of the length fields, any    *)
(* byte order, any passphrases and any contents of the database.           *)
(***************************************************************************)
EXTENDS PassphraseBlob, SequenceTheorems, TLAPS

LEMMA WordPositive == Word \in Nat \ {0} /\ Header \in Nat \ {0} /\ Header = Field + Field
BY BlobAssumption DEF Header

LEMMA Modulo ==
    ASSUME NEW w \in Nat \ {0}, NEW n \in Nat
    PROVE  n % w \in 0..w-1 /\ (n < w => n % w = n)
OBVIOUS

LEMMA WrapTyped ==
    ASSUME NEW n \in Nat
    PROVE  Wrap(n) \in 0..Word-1 /\ Wrap(n) <= n
<1>1. Word \in Nat \ {0}
  BY WordPositive
<1>2. n % Word \in 0..Word-1 /\ (n < Word => n % Word = n)
  BY <1>1, Modulo
<1> QED
  BY <1>1, <1>2 DEF Wrap

LEMMA WrapSmall ==
    ASSUME NEW n \in Nat, n < Word
    PROVE  Wrap(n) = n
BY WordPositive, Modulo DEF Wrap

-----------------------------------------------------------------------------
(***************************************************************************)
(* Bytes in a blob.                                                        *)
(***************************************************************************)
\* The bytes s are those of b from offset a on.
At(b, a, s) ==
    /\ a + Len(s) <= Len(b)
    /\ \A i \in 1..Len(s) : b[a + i] = s[i]

\* b and c are the same as far as both go.
Agrees(b, c) == \A i \in 1..Len(b) : i <= Len(c) => b[i] = c[i]

LEMMA SameSpot ==
    ASSUME NEW b \in Seq(Byte), NEW c \in Seq(Byte), NEW s \in Seq(Byte), NEW t \in Seq(Byte),
           NEW a \in Nat, Agrees(b, c), At(b, a, s), At(c, a, t), Len(s) = Len(t)
    PROVE  s = t
<1>1. \A i \in 1..Len(s) : s[i] = t[i]
  <2> TAKE i \in 1..Len(s)
  <2>1. a + i \in 1..Len(b) /\ a + i <= Len(c)
    BY LenProperties DEF At
  <2> QED
    BY <2>1 DEF At, Agrees
<1> QED
  BY <1>1, SeqEqual

\* What was taken out of a blob lies where it was taken.
LEMMA Taken ==
    ASSUME NEW b \in Seq(Byte), NEW a \in Nat, NEW n \in Nat, a + n <= Len(b)
    PROVE  /\ SubSeq(b, a + 1, a + n) \in Seq(Byte)
           /\ Len(SubSeq(b, a + 1, a + n)) = n
           /\ At(b, a, SubSeq(b, a + 1, a + n))
<1>1. \A i \in a+1 .. a+n : b[i] \in Byte
  BY ElementOfSeq
<1>2. /\ SubSeq(b, a + 1, a + n) \in Seq(Byte)
      /\ Len(SubSeq(b, a + 1, a + n)) = n
      /\ \A i \in 1..n : SubSeq(b, a + 1, a + n)[i] = b[a + i]
  BY <1>1, SubSeqProperties
<1> QED
  BY <1>2 DEF At

LEMMA Prefix ==
    ASSUME NEW b \in Seq(Byte), NEW s \in Seq(Byte), At(b, 0, s)
    PROVE  Len(s) <= Len(b) /\ SubSeq(b, 1, Len(s)) = s
<1>1. Len(s) \in Nat /\ 0 + Len(s) <= Len(b) /\ 0 \in Nat
  BY LenProperties DEF At
<1>2. /\ SubSeq(b, 0 + 1, 0 + Len(s)) \in Seq(Byte)
      /\ Len(SubSeq(b, 0 + 1, 0 + Len(s))) = Len(s)
      /\ At(b, 0, SubSeq(b, 0 + 1, 0 + Len(s)))
  BY <1>1, Taken
<1>3. Agrees(b, b)
  BY DEF Agrees
<1>4. SubSeq(b, 0 + 1, 0 + Len(s)) = s
  BY <1>1, <1>2, <1>3, SameSpot
<1> QED
  BY <1>1, <1>4

\* What memcpy writes for a length, and back.
LEMMA FieldTyped ==
    ASSUME NEW n \in 0..Word-1
    PROVE  /\ Encode[n] \in Seq(Byte)
           /\ Len(Encode[n]) = Field
           /\ Decode[Encode[n]] = n
<1>1. Encode[n] \in [1..Field -> Byte]
  BY BlobAssumption
<1> QED
  BY <1>1, BlobAssumption

LEMMA FieldRead ==
    ASSUME NEW b \in Seq(Byte), NEW a \in Nat, a + Field <= Len(b)
    PROVE  /\ Decode[SubSeq(b, a + 1, a + Field)] \in 0..Word-1
           /\ At(b, a, Encode[Decode[SubSeq(b, a + 1, a + Field)]])
<1> DEFINE f == SubSeq(b, a + 1, a + Field)
<1>1. f \in Seq(Byte) /\ Len(f) = Field /\ At(b, a, f)
  <2>1. Field \in Nat
    BY BlobAssumption
  <2> QED
    BY <2>1, Taken
<1>2. f \in [1..Field -> Byte]
  BY <1>1, LenProperties
<1> QED
  BY <1>1, <1>2, BlobAssumption

\* A length that is read where another one was written is that one.
LEMMA SameLength ==
    ASSUME NEW b \in Seq(Byte), NEW c \in Seq(Byte), NEW a \in Nat, Agrees(b, c),
           NEW n \in 0..Word-1, NEW m \in 0..Word-1, At(b, a, Encode[n]), At(c, a, Encode[m])
    PROVE  n = m
BY FieldTyped, SameSpot

\* The four parts of a blob.
LEMMA Parts ==
    ASSUME NEW id \in Seq(Byte), NEW data \in Seq(Byte), Len(id) < Word, Len(data) < Word
    PROVE  /\ Layout(id, data) \in Seq(Byte)
           /\ Len(Layout(id, data)) = Header + Len(id) + Len(data)
           /\ At(Layout(id, data), 0, Encode[Len(id)])
           /\ At(Layout(id, data), Field, id)
           /\ At(Layout(id, data), Field + Len(id), Encode[Len(data)])
           /\ At(Layout(id, data), Header + Len(id), data)
<1> DEFINE e == Encode[Len(id)]
           d == Encode[Len(data)]
           L1 == e \o id
           L2 == L1 \o d
           L3 == L2 \o data
<1>1. Len(id) \in 0..Word-1 /\ Len(data) \in 0..Word-1
  BY LenProperties, BlobAssumption
<1>2. e \in Seq(Byte) /\ Len(e) = Field /\ d \in Seq(Byte) /\ Len(d) = Field
  BY <1>1, FieldTyped
<1> HIDE DEF e, d
<1>3. /\ L1 \in Seq(Byte) /\ Len(L1) = Field + Len(id)
      /\ \A i \in 1..Field + Len(id) : L1[i] = IF i <= Field THEN e[i] ELSE id[i - Field]
  <2>1. /\ L1 \in Seq(Byte) /\ Len(L1) = Len(e) + Len(id)
        /\ \A i \in 1..Len(e) + Len(id) :
              L1[i] = IF i <= Len(e) THEN e[i] ELSE id[i - Len(e)]
    BY <1>2, ConcatProperties
  <2> QED
    BY <1>2, <2>1
<1> HIDE DEF L1
<1>4. /\ L2 \in Seq(Byte) /\ Len(L2) = Field + Len(id) + Field
      /\ \A i \in 1..Field + Len(id) + Field :
            L2[i] = IF i <= Field + Len(id) THEN L1[i] ELSE d[i - (Field + Len(id))]
  <2>1. /\ L2 \in Seq(Byte) /\ Len(L2) = Len(L1) + Len(d)
        /\ \A i \in 1..Len(L1) + Len(d) :
              L2[i] = IF i <= Len(L1) THEN L1[i] ELSE d[i - Len(L1)]
    BY <1>2, <1>3, ConcatProperties
  <2> QED
    BY <1>2, <1>3, <2>1
<1> HIDE DEF L2
<1>5. /\ L3 \in Seq(Byte) /\ Len(L3) = Field + Len(id) + Field + Len(data)
      /\ \A i \in 1..Field + Len(id) + Field + Len(data) :
            L3[i] = IF i <= Field + Len(id) + Field THEN L2[i]
                    ELSE data[i - (Field + Len(id) + Field)]
  <2>1. /\ L3 \in Seq(Byte) /\ Len(L3) = Len(L2) + Len(data)
        /\ \A i \in 1..Len(L2) + Len(data) :
              L3[i] = IF i <= Len(L2) THEN L2[i] ELSE data[i - Len(L2)]
    BY <1>4, ConcatProperties
  <2> QED
    BY <1>4, <2>1
<1>6. Layout(id, data) = L3
  BY DEF Layout, L1, L2, e, d
<1> HIDE DEF L3
<1>7. Field \in Nat /\ Header = Field + Field /\ Len(id) \in Nat /\ Len(data) \in Nat
  BY LenProperties, WordPositive, BlobAssumption
<1>8. At(L3, 0, e)
  BY <1>2, <1>3, <1>4, <1>5, <1>7 DEF At
<1>9. At(L3, Field, id)
  BY <1>3, <1>4, <1>5, <1>7 DEF At
<1>10. At(L3, Field + Len(id), d)
  BY <1>2, <1>4, <1>5, <1>7 DEF At
<1>11. At(L3, Header + Len(id), data)
  BY <1>5, <1>7 DEF At
<1> QED
  BY <1>5, <1>6, <1>7, <1>8, <1>9, <1>10, <1>11 DEF e, d

\* Bytes that are the four parts, one behind the other, are the blob of the two
\* inner ones.
LEMMA Assembled ==
    ASSUME NEW b \in Seq(Byte), NEW id \in Seq(Byte), NEW data \in Seq(Byte),
           Len(id) < Word, Len(data) < Word,
           At(b, 0, Encode[Len(id)]), At(b, Field, id),
           At(b, Field + Len(id), Encode[Len(data)]), At(b, Header + Len(id), data)
    PROVE  At(b, 0, Layout(id, data))
<1> DEFINE e == Encode[Len(id)]
           d == Encode[Len(data)]
           L == Layout(id, data)
<1>1. /\ Field \in Nat /\ Header = Field + Field /\ Len(id) \in Nat /\ Len(data) \in Nat
      /\ Len(e) = Field /\ Len(d) = Field /\ Len(b) \in Nat
  BY LenProperties, WordPositive, FieldTyped, BlobAssumption
<1>2. /\ Len(L) = Header + Len(id) + Len(data)
      /\ At(L, 0, e) /\ At(L, Field, id) /\ At(L, Field + Len(id), d)
      /\ At(L, Header + Len(id), data)
  BY Parts
<1>3. At(b, 0, e) /\ At(b, Field + Len(id), d)
  OBVIOUS
<1> HIDE DEF e, d, L
<1>4. ASSUME NEW i \in 1..Len(L)
      PROVE  b[i] = L[i]
  <2>1. CASE i <= Field
    BY <1>1, <1>2, <1>3, <2>1 DEF At
  <2>2. CASE Field < i /\ i <= Field + Len(id)
    <3>1. PICK j \in 1..Len(id) : i = Field + j
      <4>1. i - Field \in 1..Len(id) /\ i = Field + (i - Field)
        BY <1>1, <1>2, <2>2
      <4> QED
        BY <4>1
    <3>2. b[Field + j] = id[j] /\ L[Field + j] = id[j]
      BY <1>2 DEF At
    <3> QED
      BY <3>1, <3>2
  <2>3. CASE Field + Len(id) < i /\ i <= Header + Len(id)
    <3>1. PICK j \in 1..Len(d) : i = Field + Len(id) + j
      <4>1. /\ i - (Field + Len(id)) \in 1..Len(d)
            /\ i = Field + Len(id) + (i - (Field + Len(id)))
        BY <1>1, <1>2, <2>3
      <4> QED
        BY <4>1
    <3>2. b[Field + Len(id) + j] = d[j] /\ L[Field + Len(id) + j] = d[j]
      BY <1>2, <1>3 DEF At
    <3> QED
      BY <3>1, <3>2
  <2>4. CASE Header + Len(id) < i
    <3>1. PICK j \in 1..Len(data) : i = Header + Len(id) + j
      <4>1. /\ i - (Header + Len(id)) \in 1..Len(data)
            /\ i = Header + Len(id) + (i - (Header + Len(id)))
        BY <1>1, <1>2, <2>4
      <4> QED
        BY <4>1
    <3>2. b[Header + Len(id) + j] = data[j] /\ L[Header + Len(id) + j] = data[j]
      BY <1>2 DEF At
    <3> QED
      BY <3>1, <3>2
  <2> QED
    BY <1>1, <1>2, <2>1, <2>2, <2>3, <2>4
<1>5. Len(L) <= Len(b)
  BY <1>1, <1>2 DEF At
<1>6. At(b, 0, L)
  BY <1>1, <1>2, <1>4, <1>5 DEF At
<1> QED
  BY <1>6 DEF L

-----------------------------------------------------------------------------
(***************************************************************************)
(* The invariant.                                                          *)
(***************************************************************************)
Passphrase == [key_id : Seq(Byte), encrypted_data : Seq(Byte)]

Types ==
    /\ TypeOK
    /\ original \in Passphrase
    /\ result \in Passphrase

\* How far deserialize has got, and what it has found on the way.
Parsed ==
    /\ pc \in {"serialize", "stored", "size"} => p = 0
    /\ pc = "id" =>
          /\ Header <= Len(blob) /\ p = Field /\ data_len = 0
          /\ At(blob, 0, Encode[id_len])
    /\ pc \in {"data", "returned"} =>
          /\ At(blob, 0, Encode[id_len])
          /\ Len(result.key_id) = id_len /\ At(blob, Field, result.key_id)
          /\ At(blob, Field + id_len, Encode[data_len])
    /\ pc = "data" => p = Header + id_len
    /\ pc = "returned" =>
          /\ Len(result.encrypted_data) = data_len
          /\ At(blob, Header + id_len, result.encrypted_data)
    /\ pc = "outside" => Wrapped

\* What the database keeps of the blob of original, and how deserialize ends on it.
written == Layout(original.key_id, original.encrypted_data)

Kept ==
    /\ pc \in {"serialize", "stored"} => fate = "whole"
    /\ pc = "stored" => blob = written
    /\ pc # "serialize" /\ fate # "other" => Agrees(blob, written)
    /\ pc # "serialize" /\ fate \in {"whole", "long"} =>
          Len(written) <= Len(blob) /\ pc \notin {"thrown", "outside"}
    /\ fate = "short" => Len(blob) < Len(written) /\ pc \notin {"returned", "outside"}

IInv == Types /\ Parsed /\ (Fits(original) => Kept)

LEMMA LengthsTyped ==
    ASSUME NEW x \in Passphrase
    PROVE  /\ x.key_id \in Seq(Byte) /\ Len(x.key_id) \in Nat
           /\ x.encrypted_data \in Seq(Byte) /\ Len(x.encrypted_data) \in Nat
BY LenProperties DEF Passphrase

LEMMA FitsSmall ==
    ASSUME NEW x \in Passphrase, Fits(x)
    PROVE  /\ Len(x.key_id) < Word /\ Len(x.encrypted_data) < Word
           /\ Header + Len(x.key_id) < Word
           /\ Header + Len(x.key_id) + Len(x.encrypted_data) < Word
BY LengthsTyped, WordPositive DEF Fits

LEMMA WrittenParts ==
    ASSUME original \in Passphrase, Fits(original)
    PROVE  /\ written \in Seq(Byte)
           /\ Len(written) = Header + Len(original.key_id) + Len(original.encrypted_data)
           /\ At(written, 0, Encode[Len(original.key_id)])
           /\ At(written, Field, original.key_id)
           /\ At(written, Field + Len(original.key_id), Encode[Len(original.encrypted_data)])
           /\ At(written, Header + Len(original.key_id), original.encrypted_data)
BY LengthsTyped, FitsSmall, Parts DEF written

LEMMA InitHolds == Init => IInv
<1> SUFFICES ASSUME Init PROVE IInv
  OBVIOUS
<1>1. 0 \in 0..Word-1 /\ <<>> \in Seq(Byte) /\ Len(<<>>) = 0 /\ NoResult \in Passphrase
  BY WordPositive DEF NoResult, Passphrase
<1>2. Types
  BY <1>1, BlobAssumption DEF Init, Types, TypeOK, Fates, Passphrase, NoResult
<1>3. Parsed /\ Kept
  BY DEF Init, Parsed, Kept
<1> QED
  BY <1>2, <1>3 DEF IInv

\* serialize: what fits is laid out whole.
LEMMA SerializeHolds ==
    ASSUME IInv, Serialize PROVE IInv'
<1> DEFINE id == original.key_id
           data == original.encrypted_data
           m == Wrap(Len(id))
           n == Wrap(Len(data))
<1>1. /\ id \in Seq(Byte) /\ Len(id) \in Nat /\ data \in Seq(Byte) /\ Len(data) \in Nat
      /\ m \in 0..Word-1 /\ n \in 0..Word-1 /\ p = 0 /\ pc = "serialize"
      /\ id_len' = m /\ data_len' = n
  BY LengthsTyped, WrapTyped DEF IInv, Types, Parsed, Serialize
<1>2. m <= Len(id) /\ n <= Len(data) /\ m \in Nat /\ n \in Nat /\ m < Word /\ n < Word
  <2>1. m <= Len(id) /\ n <= Len(data)
    BY <1>1, WrapTyped
  <2>2. m \in Nat /\ n \in Nat /\ m < Word /\ n < Word
    <3> HIDE DEF m, n
    <3> QED
      BY <1>1, WordPositive
  <2> QED
    BY <2>1, <2>2
<1>3. /\ SubSeq(id, 1, m) \in Seq(Byte) /\ Len(SubSeq(id, 1, m)) = m
      /\ SubSeq(data, 1, n) \in Seq(Byte) /\ Len(SubSeq(data, 1, n)) = n
  <2> HIDE DEF id, data, m, n
  <2>1. ASSUME NEW s \in Seq(Byte), NEW k \in Nat, k <= Len(s)
        PROVE  SubSeq(s, 1, k) \in Seq(Byte) /\ Len(SubSeq(s, 1, k)) = k
    <3>1. /\ SubSeq(s, 0 + 1, 0 + k) \in Seq(Byte)
          /\ Len(SubSeq(s, 0 + 1, 0 + k)) = k
      BY <2>1, Taken
    <3> QED
      BY <3>1
  <2> QED
    BY <1>1, <1>2, <2>1
<1>4. Layout(SubSeq(id, 1, m), SubSeq(data, 1, n)) \in Seq(Byte)
  <2> DEFINE s == SubSeq(id, 1, m)
             t == SubSeq(data, 1, n)
  <2>1. s \in Seq(Byte) /\ t \in Seq(Byte) /\ Len(s) < Word /\ Len(t) < Word
    BY <1>2, <1>3
  <2> HIDE DEF s, t
  <2>2. Layout(s, t) \in Seq(Byte)
    BY <2>1, Parts
  <2> QED
    BY <2>2 DEF s, t
<1>5. Types'
  BY <1>1, <1>4 DEF IInv, Types, TypeOK, Serialize, Ends, Passphrase
<1>6. Parsed'
  <2>1. Header + m + n \in Nat /\ Word \in Nat
    BY <1>2, WordPositive
  <2>2. pc' = "stored" \/ (pc' = "outside" /\ ~(Header + m + n < Word))
    BY <1>1 DEF Serialize
  <2>3. p' = 0 /\ (pc' = "outside" => Wrapped')
    BY <1>1, <2>1, <2>2 DEF Wrapped, Serialize
  <2> QED
    BY <2>2, <2>3 DEF Parsed
<1>7. ASSUME Fits(original) PROVE Kept'
  <2>1. m = Len(id) /\ n = Len(data) /\ Header + m + n < Word
    BY <1>1, <1>7, FitsSmall, WrapSmall DEF IInv, Types
  <2>2. SubSeq(id, 1, m) = id /\ SubSeq(data, 1, n) = data
    BY <1>1, <2>1, SubSeqFull
  <2>3. blob' = written /\ pc' = "stored" /\ original' = original /\ fate' = fate
    BY <1>1, <2>1, <2>2 DEF Serialize, written
  <2>4. written \in Seq(Byte) /\ Len(written) \in Nat
    BY <1>7, WrittenParts, LenProperties DEF IInv, Types
  <2> QED
    BY <1>1, <1>7, <2>3, <2>4 DEF IInv, Kept, Agrees, written
<1> QED
  BY <1>5, <1>6, <1>7 DEF IInv, Serialize, Fits

\* The database.
LEMMA RetrieveHolds ==
    ASSUME IInv, Retrieve PROVE IInv'
<1>1. /\ blob \in Seq(Byte) /\ Len(blob) \in Nat /\ p = 0 /\ pc = "stored" /\ pc' = "size"
      /\ original' = original
  BY LenProperties DEF IInv, Types, TypeOK, Parsed, Retrieve
<1>2. /\ blob' \in Seq(Byte) /\ Len(blob') \in Nat /\ fate' \in Fates
      /\ fate' \in {"whole", "long"} => Len(blob) <= Len(blob') /\ Agrees(blob', blob)
      /\ fate' = "short" => Len(blob') < Len(blob) /\ Agrees(blob', blob)
  <2>1. CASE fate' = "whole" /\ UNCHANGED blob
    BY <1>1, <2>1 DEF Agrees, Fates
  <2>2. CASE fate' = "short" /\ \E n \in 0..Len(blob)-1 : blob' = SubSeq(blob, 1, n)
    <3>1. PICK n \in 0..Len(blob)-1 : blob' = SubSeq(blob, 1, n)
      BY <2>2
    <3>2. \A i \in 1..n : blob[i] \in Byte
      BY <1>1, ElementOfSeq
    <3>3. /\ blob' \in Seq(Byte) /\ Len(blob') = n
          /\ \A i \in 1..n : blob'[i] = blob[1 + i - 1]
      BY <1>1, <3>1, <3>2, SubSeqProperties
    <3> QED
      BY <1>1, <2>2, <3>3 DEF Agrees, Fates
  <2>3. CASE fate' = "long" /\ \E b \in Strangers : blob' = blob \o b
    <3>1. PICK b \in Strangers : blob' = blob \o b
      BY <2>3
    <3>2. b \in Seq(Byte) /\ Len(b) \in Nat
      BY BlobAssumption, LenProperties
    <3>3. /\ blob' \in Seq(Byte) /\ Len(blob') = Len(blob) + Len(b)
          /\ \A i \in 1..Len(blob) + Len(b) : i <= Len(blob) => blob'[i] = blob[i]
      BY <1>1, <3>1, <3>2, ConcatProperties
    <3> QED
      BY <1>1, <2>3, <3>2, <3>3 DEF Agrees, Fates
  <2>4. CASE fate' = "other" /\ blob' \in Strangers
    BY <2>4, BlobAssumption, LenProperties DEF Fates
  <2> QED
    BY <2>1, <2>2, <2>3, <2>4 DEF Retrieve
<1>3. Types'
  BY <1>1, <1>2 DEF IInv, Types, TypeOK, Retrieve, lengths
<1>4. Parsed'
  BY <1>1 DEF Parsed, Retrieve
<1>5. ASSUME Fits(original) PROVE Kept'
  <2>1. blob = written /\ written' = written
    BY <1>1, <1>5 DEF IInv, Kept, written
  <2> QED
    BY <1>1, <1>2, <2>1 DEF Kept, Fates
<1> QED
  BY <1>1, <1>3, <1>4, <1>5 DEF IInv, Fits

\* Nothing of what is kept changes in deserialize; only how it ends is at issue.
LEMMA KeptStays ==
    ASSUME Kept, UNCHANGED <<original, blob, fate>>,
           pc \in {"size", "id", "data"}, pc' \notin {"serialize", "stored"},
           fate \in {"whole", "long"} => pc' \notin {"thrown", "outside"},
           fate = "short" => pc' \notin {"returned", "outside"}
    PROVE  Kept'
BY DEF Kept, written

LEMMA CheckSizeHolds ==
    ASSUME IInv, CheckSize PROVE IInv'
<1>1. /\ blob \in Seq(Byte) /\ Len(blob) \in Nat /\ p = 0 /\ pc = "size"
      /\ UNCHANGED <<original, blob, fate>> /\ original \in Passphrase
  BY LenProperties DEF IInv, Types, TypeOK, Parsed, CheckSize
<1>2. Field \in Nat /\ Header = Field + Field /\ Header \in Nat /\ 0 \in 0..Word-1
  BY WordPositive, BlobAssumption
<1>3. CASE Len(blob) < Header
  <2>1. Types' /\ Parsed'
    BY <1>1, <1>3 DEF IInv, Types, TypeOK, Parsed, CheckSize, Throw, lengths, Ends
  <2>2. ASSUME Fits(original) PROVE Kept'
    <3>1. Len(written) >= Header
      <4> DEFINE m == Len(original.key_id)
                 n == Len(original.encrypted_data)
      <4>1. m \in Nat /\ n \in Nat
        BY <1>1, LengthsTyped
      <4>2. Len(written) = Header + m + n
        BY <1>1, <2>2, WrittenParts
      <4> HIDE DEF m, n
      <4> QED
        BY <1>2, <4>1, <4>2
    <3>2. fate \notin {"whole", "long"}
      BY <1>1, <1>2, <1>3, <2>2, <3>1, WrittenParts, LenProperties DEF IInv, Kept
    <3>3. pc' = "thrown"
      BY <1>3 DEF CheckSize, Throw
    <3> QED
      BY <1>1, <2>2, <3>2, <3>3, KeptStays DEF IInv
  <2> QED
    BY <1>1, <2>1, <2>2 DEF IInv, Fits
<1>4. CASE ~(Len(blob) < Header)
  <2> DEFINE l == Decode[SubSeq(blob, 1, Field)]
  <2>1. pc' = "id" /\ id_len' = l /\ data_len' = 0 /\ p' = Field /\ result' = result
    BY <1>4 DEF CheckSize
  <2>2. Header <= Len(blob) /\ 0 + Field <= Len(blob)
    BY <1>1, <1>2, <1>4
  <2>3. l \in 0..Word-1 /\ At(blob, 0, Encode[l])
    <3>1. /\ Decode[SubSeq(blob, 0 + 1, 0 + Field)] \in 0..Word-1
          /\ At(blob, 0, Encode[Decode[SubSeq(blob, 0 + 1, 0 + Field)]])
      BY <1>1, <2>2, FieldRead
    <3> QED
      BY <1>2, <3>1
  <2> HIDE DEF l
  <2>4. Types' /\ Parsed'
    BY <1>1, <1>2, <2>1, <2>2, <2>3 DEF IInv, Types, TypeOK, Parsed
  <2>5. ASSUME Fits(original) PROVE Kept'
    BY <1>1, <2>1, <2>5, KeptStays DEF IInv
  <2> QED
    BY <1>1, <2>4, <2>5 DEF IInv, Fits
<1> QED
  BY <1>3, <1>4

\* The length of key_id in a blob that was not replaced is the one written.
LEMMA KnownId ==
    ASSUME IInv, Fits(original), fate # "other", pc \in {"id", "data"}
    PROVE  id_len = Len(original.key_id)
<1>1. /\ blob \in Seq(Byte) /\ id_len \in 0..Word-1 /\ original \in Passphrase
      /\ At(blob, 0, Encode[id_len]) /\ Agrees(blob, written)
  BY DEF IInv, Types, TypeOK, Parsed, Kept
<1>2. Len(original.key_id) \in 0..Word-1
  BY <1>1, FitsSmall, LengthsTyped, WordPositive
<1> QED
  BY <1>1, <1>2, WrittenParts, SameLength

LEMMA KnownData ==
    ASSUME IInv, Fits(original), fate # "other", pc = "data"
    PROVE  data_len = Len(original.encrypted_data)
<1>1. /\ blob \in Seq(Byte) /\ data_len \in 0..Word-1 /\ original \in Passphrase
      /\ At(blob, Field + id_len, Encode[data_len]) /\ Agrees(blob, written)
  BY DEF IInv, Types, TypeOK, Parsed, Kept
<1>2. Len(original.encrypted_data) \in 0..Word-1
  BY <1>1, FitsSmall, LengthsTyped, WordPositive
<1>3. Field + id_len \in Nat
  BY BlobAssumption, WordPositive DEF IInv, Types, TypeOK
<1> QED
  BY <1>1, <1>2, <1>3, KnownId, WrittenParts, SameLength

LEMMA ReadIdHolds ==
    ASSUME IInv, ReadId PROVE IInv'
<1>1. /\ blob \in Seq(Byte) /\ Len(blob) \in Nat /\ pc = "id" /\ id_len \in 0..Word-1
      /\ Header <= Len(blob) /\ p = Field /\ data_len = 0 /\ At(blob, 0, Encode[id_len])
      /\ UNCHANGED <<original, blob, fate, id_len>> /\ original \in Passphrase
      /\ result \in Passphrase
  BY LenProperties DEF IInv, Types, TypeOK, Parsed, ReadId
<1>2. /\ Field \in Nat /\ Header = Field + Field /\ Header \in Nat /\ Word \in Nat
      /\ id_len \in Nat /\ Header + id_len \in Nat
  BY <1>1, WordPositive, BlobAssumption
<1>3. /\ fate \in {"whole", "long"} /\ Fits(original) => Header + id_len <= Len(blob)
      /\ fate # "other" /\ Fits(original) => Header + id_len < Word
  <2> SUFFICES ASSUME Fits(original), fate # "other"
               PROVE  /\ fate \in {"whole", "long"} => Header + id_len <= Len(blob)
                      /\ Header + id_len < Word
    OBVIOUS
  <2> DEFINE n == Len(original.encrypted_data)
  <2>1. id_len = Len(original.key_id) /\ Header + id_len < Word
    BY <1>1, KnownId, FitsSmall
  <2>2. Len(written) = Header + id_len + n /\ n \in Nat
    BY <1>1, <2>1, WrittenParts, LengthsTyped
  <2>3. fate \in {"whole", "long"} => Len(written) <= Len(blob)
    BY <1>1 DEF IInv, Kept
  <2> HIDE DEF n
  <2>4. Len(written) \in Nat /\ Header + id_len <= Len(written)
    BY <1>2, <2>2
  <2>5. Header + id_len \in Nat /\ Len(blob) \in Nat
    BY <1>1, <1>2
  <2> QED
    BY <2>1, <2>3, <2>4, <2>5
<1>4. Header + id_len < Word => Wrap(Header + id_len) = Header + id_len
  BY <1>2, WrapSmall
<1>5. CASE Len(blob) < Wrap(Header + id_len)
  <2>1. pc' = "thrown" /\ UNCHANGED <<p, result, data_len>>
    BY <1>5 DEF ReadId, Throw
  <2>2. Types' /\ Parsed'
    BY <1>1, <2>1 DEF IInv, Types, TypeOK, Parsed, Ends
  <2>3. ASSUME Fits(original) PROVE Kept'
    <3>1. fate \notin {"whole", "long"}
      BY <1>1, <1>2, <1>3, <1>4, <1>5, <2>3
    <3> QED
      BY <1>1, <2>1, <2>3, <3>1, KeptStays DEF IInv
  <2> QED
    BY <1>1, <2>2, <2>3 DEF IInv, Fits
<1>6. CASE ~(Len(blob) < Wrap(Header + id_len)) /\ ~Inside(id_len + Field)
  <2>1. pc' \in {"thrown", "outside"} /\ UNCHANGED <<p, result, data_len>>
    BY <1>6 DEF ReadId, Overread
  <2>2. Header + id_len > Len(blob)
    BY <1>1, <1>2, <1>6 DEF Inside
  <2>3. Header + id_len >= Word
    BY <1>1, <1>2, <1>4, <1>6, <2>2
  <2>4. Types'
    BY <1>1, <2>1 DEF IInv, Types, TypeOK, Ends
  <2>5. Wrapped'
    BY <1>1, <1>2, <2>1, <2>3 DEF Wrapped
  <2>6. Parsed'
    BY <2>1, <2>5 DEF Parsed
  <2>7. ASSUME Fits(original) PROVE Kept'
    <3>1. fate = "other"
      BY <1>1, <1>2, <1>3, <2>3, <2>7
    <3> QED
      BY <1>1, <2>1, <2>7, <3>1, KeptStays DEF IInv
  <2> QED
    BY <1>1, <2>4, <2>6, <2>7 DEF IInv, Fits
<1>7. CASE ~(Len(blob) < Wrap(Header + id_len)) /\ Inside(id_len + Field)
  <2> DEFINE id == SubSeq(blob, Field + 1, Field + id_len)
             a == Field + id_len
             l == Decode[SubSeq(blob, a + 1, a + Field)]
  <2>1. a \in Nat /\ a + Field = Header + id_len /\ a + Field <= Len(blob)
    BY <1>1, <1>2, <1>7 DEF Inside
  <2>2. id \in Seq(Byte) /\ Len(id) = id_len /\ At(blob, Field, id)
    <3>1. id_len \in Nat /\ Field + id_len <= Len(blob)
      BY <1>1, <1>2, <2>1
    <3> QED
      BY <1>1, <1>2, <3>1, Taken
  <2>3. l \in 0..Word-1 /\ At(blob, a, Encode[l])
    BY <1>1, <2>1, FieldRead
  <2>4. /\ pc' = "data" /\ result' = [result EXCEPT !.key_id = id]
        /\ data_len' = l /\ p' = Header + id_len
    <3>1. p + id_len + Field = Header + id_len /\ p + 1 = Field + 1
      BY <1>1, <1>2
    <3> QED
      BY <1>1, <1>7, <3>1 DEF ReadId, Take
  <2> HIDE DEF id, l
  <2>5. result' \in Passphrase /\ result'.key_id = id
    BY <1>1, <2>2, <2>4 DEF Passphrase
  <2>6. Types'
    <3>1. p' \in 0..Len(blob)
      BY <1>1, <1>2, <2>1, <2>4
    <3>2. UNCHANGED <<original, blob, fate, id_len>>
      BY <1>1
    <3> QED
      BY <2>3, <2>4, <2>5, <3>1, <3>2 DEF IInv, Types, TypeOK, Passphrase
  <2>7. Parsed'
    BY <1>1, <2>2, <2>3, <2>4, <2>5 DEF Parsed
  <2>8. ASSUME Fits(original) PROVE Kept'
    BY <1>1, <2>4, <2>8, KeptStays DEF IInv
  <2> QED
    BY <1>1, <2>6, <2>7, <2>8 DEF IInv, Fits
<1> QED
  BY <1>5, <1>6, <1>7

LEMMA ReadDataHolds ==
    ASSUME IInv, ReadData PROVE IInv'
<1> DEFINE sum == Header + id_len + data_len
<1>1. /\ blob \in Seq(Byte) /\ Len(blob) \in Nat /\ pc = "data"
      /\ id_len \in 0..Word-1 /\ data_len \in 0..Word-1
      /\ p = Header + id_len /\ At(blob, 0, Encode[id_len])
      /\ Len(result.key_id) = id_len /\ At(blob, Field, result.key_id)
      /\ At(blob, Field + id_len, Encode[data_len])
      /\ UNCHANGED <<original, blob, fate, id_len, data_len>> /\ original \in Passphrase
      /\ result \in Passphrase
  BY LenProperties DEF IInv, Types, TypeOK, Parsed, ReadData, lengths
<1>2. Field \in Nat /\ Header \in Nat /\ Word \in Nat /\ sum \in Nat /\ p \in Nat
  BY <1>1, WordPositive, BlobAssumption
<1>3. /\ fate \in {"whole", "long"} /\ Fits(original) => sum <= Len(blob)
      /\ fate = "short" /\ Fits(original) => Len(blob) < sum
      /\ fate # "other" /\ Fits(original) => sum < Word
  <2> SUFFICES ASSUME Fits(original), fate # "other"
               PROVE  /\ fate \in {"whole", "long"} => sum <= Len(blob)
                      /\ fate = "short" => Len(blob) < sum
                      /\ sum < Word
    OBVIOUS
  <2>1. id_len = Len(original.key_id) /\ data_len = Len(original.encrypted_data)
    BY <1>1, KnownId, KnownData
  <2>2. Len(written) = sum /\ sum < Word
    BY <1>1, <2>1, WrittenParts, FitsSmall
  <2> QED
    BY <1>1, <2>2 DEF IInv, Kept
<1>4. sum < Word => Wrap(sum) = sum
  BY <1>2, WrapSmall
<1>5. CASE Len(blob) < Wrap(sum)
  <2>1. pc' = "thrown" /\ UNCHANGED <<p, result>>
    BY <1>5 DEF ReadData, Throw
  <2>2. Types' /\ Parsed'
    BY <1>1, <2>1 DEF IInv, Types, TypeOK, Parsed, Ends
  <2>3. ASSUME Fits(original) PROVE Kept'
    <3>1. fate \notin {"whole", "long"}
      BY <1>1, <1>2, <1>3, <1>4, <1>5, <2>3
    <3> QED
      BY <1>1, <2>1, <2>3, <3>1, KeptStays DEF IInv
  <2> QED
    BY <1>1, <2>2, <2>3 DEF IInv, Fits
<1>6. CASE ~(Len(blob) < Wrap(sum)) /\ ~Inside(data_len)
  <2>1. pc' \in {"thrown", "outside"} /\ UNCHANGED <<p, result>>
    BY <1>6 DEF ReadData, Overread
  <2>2. sum >= Word
    BY <1>1, <1>2, <1>4, <1>6 DEF Inside
  <2>3. Types'
    BY <1>1, <2>1 DEF IInv, Types, TypeOK, Ends
  <2>4. Wrapped'
    BY <1>1, <2>2 DEF Wrapped
  <2>5. Parsed'
    BY <2>1, <2>4 DEF Parsed
  <2>6. ASSUME Fits(original) PROVE Kept'
    <3>1. fate = "other"
      BY <1>1, <1>2, <1>3, <2>2, <2>6
    <3> QED
      BY <1>1, <2>1, <2>6, <3>1, KeptStays DEF IInv
  <2> QED
    BY <1>1, <2>3, <2>5, <2>6 DEF IInv, Fits
<1>7. CASE ~(Len(blob) < Wrap(sum)) /\ Inside(data_len)
  <2> DEFINE data == SubSeq(blob, p + 1, p + data_len)
  <2>1. p + data_len <= Len(blob) /\ p + data_len = sum
    BY <1>1, <1>2, <1>7 DEF Inside
  <2>2. data \in Seq(Byte) /\ Len(data) = data_len /\ At(blob, p, data)
    <3>1. data_len \in Nat /\ p \in Nat /\ blob \in Seq(Byte)
      BY <1>1, <1>2
    <3> QED
      BY <2>1, <3>1, Taken
  <2>3. /\ pc' = "returned" /\ result' = [result EXCEPT !.encrypted_data = data]
        /\ p' = p + data_len
    BY <1>7 DEF ReadData, Take
  <2> HIDE DEF data
  <2>4. result' \in Passphrase /\ result'.key_id = result.key_id /\ result'.encrypted_data = data
    BY <1>1, <2>2, <2>3 DEF Passphrase
  <2>5. Types'
    <3>1. p' \in 0..Len(blob)
      BY <1>1, <1>2, <2>1, <2>3
    <3>2. UNCHANGED <<original, blob, fate, id_len, data_len>>
      BY <1>1
    <3> QED
      BY <2>3, <2>4, <3>1, <3>2 DEF IInv, Types, TypeOK, Passphrase, Ends
  <2>6. Parsed'
    BY <1>1, <2>2, <2>3, <2>4 DEF Parsed
  <2>7. ASSUME Fits(original) PROVE Kept'
    <3>1. fate # "short"
      BY <1>1, <1>2, <1>3, <2>1, <2>7
    <3> QED
      BY <1>1, <2>3, <2>7, <3>1, KeptStays DEF IInv
  <2> QED
    BY <1>1, <2>5, <2>6, <2>7 DEF IInv, Fits
<1> QED
  BY <1>5, <1>6, <1>7

\* The invariant holds in every reachable state.
THEOREM InvariantHolds == Spec => []IInv
<1>1. IInv /\ [Next]_vars => IInv'
  <2> SUFFICES ASSUME IInv, [Next]_vars PROVE IInv'
    OBVIOUS
  <2>1. CASE Next
    BY <2>1, SerializeHolds, RetrieveHolds, CheckSizeHolds, ReadIdHolds, ReadDataHolds DEF Next
  <2>2. CASE UNCHANGED vars
    BY <2>2 DEF vars, lengths, IInv, Types, TypeOK, Parsed, Kept, Fits, Wrapped, written
  <2> QED
    BY <2>1, <2>2
<1> QED
  BY <1>1, InitHolds, PTL DEF Spec

-----------------------------------------------------------------------------
(***************************************************************************)
(* The theorems.                                                           *)
(***************************************************************************)
\* Every variable keeps its type, for any width of the lengths; p stays within the
\* blob.
THEOREM TypeCorrect == Spec => []TypeOK
<1>1. IInv => TypeOK
  BY DEF IInv, Types
<1> QED
  BY <1>1, InvariantHolds, PTL

\* deserialize accepts only what starts with the blob of its result, and goes
\* outside only for lengths whose sum wraps: also for a uint32_t.
THEOREM OnlyBlobsAccepted == Spec => []AcceptedIsABlob
<1>1. ASSUME IInv PROVE AcceptedIsABlob
  <2>1. CASE pc = "returned"
    <3> DEFINE id == result.key_id
               data == result.encrypted_data
    <3>1. /\ blob \in Seq(Byte) /\ id \in Seq(Byte) /\ data \in Seq(Byte)
          /\ Len(id) = id_len /\ Len(data) = data_len
          /\ id_len \in 0..Word-1 /\ data_len \in 0..Word-1
      BY <1>1, <2>1, LengthsTyped DEF IInv, Types, TypeOK, Parsed
    <3>2. Len(id) < Word /\ Len(data) < Word
      BY <3>1, WordPositive
    <3>3. At(blob, 0, Layout(id, data))
      BY <1>1, <2>1, <3>1, <3>2, Assembled DEF IInv, Parsed
    <3>4. Layout(id, data) \in Seq(Byte)
      BY <3>1, <3>2, Parts
    <3> QED
      BY <2>1, <3>1, <3>3, <3>4, Prefix DEF AcceptedIsABlob
  <2>2. CASE pc # "returned"
    BY <1>1, <2>2 DEF IInv, Parsed, AcceptedIsABlob
  <2> QED
    BY <2>1, <2>2
<1> QED
  BY <1>1, InvariantHolds, PTL

\* What fits comes back as it went in, with anything behind it; what was cut short
\* is refused.
THEOREM ComesBack == Spec => []RoundTrip
<1>1. ASSUME IInv PROVE RoundTrip
  <2> SUFFICES ASSUME Fits(original) PROVE RoundTrip
    BY DEF RoundTrip
  <2>1. original \in Passphrase /\ result \in Passphrase /\ blob \in Seq(Byte) /\ Kept
    BY <1>1 DEF IInv, Types, TypeOK
  <2>2. fate = "short" => pc \notin {"returned", "outside"}
    BY <2>1 DEF Kept
  <2>3. fate \in {"whole", "long"} => pc \notin {"thrown", "outside"}
    BY <2>1 DEF Kept
  <2>4. ASSUME fate \in {"whole", "long"}, pc = "returned"
        PROVE  result = original
    <3>1. /\ id_len \in 0..Word-1 /\ data_len \in 0..Word-1 /\ Agrees(blob, written)
          /\ At(blob, 0, Encode[id_len]) /\ At(blob, Field, result.key_id)
          /\ At(blob, Field + id_len, Encode[data_len])
          /\ At(blob, Header + id_len, result.encrypted_data)
          /\ Len(result.key_id) = id_len /\ Len(result.encrypted_data) = data_len
      BY <1>1, <2>1, <2>4 DEF IInv, Types, TypeOK, Parsed, Kept
    <3>2. /\ Len(original.key_id) \in 0..Word-1 /\ Len(original.encrypted_data) \in 0..Word-1
          /\ Field \in Nat /\ Field + id_len \in Nat /\ Header + id_len \in Nat /\ 0 \in Nat
      <4>1. Len(original.key_id) \in 0..Word-1 /\ Len(original.encrypted_data) \in 0..Word-1
        BY <2>1, FitsSmall, LengthsTyped, WordPositive
      <4>2. Field \in Nat /\ Header \in Nat /\ id_len \in Nat
        BY <3>1, WordPositive, BlobAssumption
      <4> QED
        BY <4>1, <4>2
    <3>3. id_len = Len(original.key_id)
      BY <2>1, <3>1, <3>2, WrittenParts, SameLength
    <3>4. data_len = Len(original.encrypted_data)
      BY <2>1, <3>1, <3>2, <3>3, WrittenParts, SameLength
    <3>5. result.key_id = original.key_id
      BY <2>1, <3>1, <3>2, <3>3, WrittenParts, LengthsTyped, SameSpot
    <3>6. result.encrypted_data = original.encrypted_data
      BY <2>1, <3>1, <3>2, <3>3, <3>4, WrittenParts, LengthsTyped, SameSpot
    <3> QED
      BY <2>1, <3>5, <3>6 DEF Passphrase
  <2> QED
    BY <2>2, <2>3, <2>4 DEF RoundTrip
<1> QED
  BY <1>1, InvariantHolds, PTL
=============================================================================
