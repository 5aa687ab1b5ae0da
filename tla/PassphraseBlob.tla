--------------------------- MODULE PassphraseBlob ---------------------------
(***************************************************************************)
(* struct ProtectedPassphrase (src/source/key_vault.h, key_vault.cpp):     *)
(* serialize, a stay in the application's database, deserialize.           *)
(*                                                                         *)
(* A blob is [id_len][key_id][data_len][encrypted_data].  The code computes *)
(* the lengths and their sums in uint32_t and compares the sums with the   *)
(* size_t of the blob, so Word below is 2^32 and Field is 4; a small Word  *)
(* makes the sums wrap on small blobs.                                     *)
(*                                                                         *)
(* Covered: every blob that comes back from the database: as it was        *)
(* written, cut short, with bytes behind it, or with other contents.       *)
(* Not covered: what the bytes of encrypted_data mean.                     *)
(***************************************************************************)
EXTENDS Naturals, Sequences

CONSTANTS
    Byte,
    Field,       \* bytes of a uint32_t
    Word,        \* number of values of a uint32_t
    Encode,      \* the bytes of each uint32_t in memory, what memcpy copies
    Decode,      \* and back
    Passphrases, \* the protected passphrases an application has
    Strangers    \* other byte strings that the database may hold

Header == 2 * Field
Wrap(n) == n % Word

ASSUME BlobAssumption ==
    /\ Field \in Nat \ {0}
    /\ Word \in Nat /\ Word > Header
    /\ Encode \in [0..Word-1 -> [1..Field -> Byte]]
    /\ Decode \in [[1..Field -> Byte] -> 0..Word-1]
    /\ \A n \in 0..Word-1 : Decode[Encode[n]] = n
    /\ \A f \in [1..Field -> Byte] : Encode[Decode[f]] = f
    /\ Passphrases \subseteq [key_id : Seq(Byte), encrypted_data : Seq(Byte)]
    /\ Strangers \subseteq Seq(Byte)

VARIABLES
    pc,
    original,  \* what serialize is called on
    blob,      \* its result, then what the database returns
    fate,      \* what the database did to it
    id_len, data_len,  \* locals of either function
    p,         \* bytes of the blob that deserialize has passed
    result     \* what deserialize has built

lengths == <<id_len, data_len>>
vars    == <<pc, original, blob, fate, lengths, p, result>>

NoResult == [key_id |-> <<>>, encrypted_data |-> <<>>]

Fates == {"whole", "short", "long", "other"}
Ends  == {"returned", "thrown", "outside"}

TypeOK ==
    /\ pc \in {"serialize", "stored", "size", "id", "data"} \union Ends
    /\ original \in Passphrases
    /\ blob \in Seq(Byte)
    /\ fate \in Fates
    /\ id_len \in 0..Word-1 /\ data_len \in 0..Word-1
    /\ p \in 0..Len(blob)
    /\ result.key_id \in Seq(Byte) /\ result.encrypted_data \in Seq(Byte)

Init ==
    /\ pc = "serialize"
    /\ original \in Passphrases
    /\ blob = <<>>
    /\ fate = "whole"
    /\ id_len = 0 /\ data_len = 0
    /\ p = 0
    /\ result = NoResult

-----------------------------------------------------------------------------
Layout(id, data) == Encode[Len(id)] \o id \o Encode[Len(data)] \o data

\* Slip: the locals are size_t.
SerializeWide ==
    /\ pc = "serialize"
    /\ id_len' = Len(original.key_id)
    /\ data_len' = Len(original.encrypted_data)
    /\ IF Header + id_len' + data_len' < Word
       THEN /\ blob' = Layout(original.key_id, original.encrypted_data)
            /\ pc' = "stored"
       ELSE UNCHANGED blob /\ pc' = "outside"
    /\ UNCHANGED <<original, fate, p, result>>

\* The four memcpy go outside the vector when the sum it is resized to wraps.
Serialize ==
    /\ pc = "serialize"
    /\ id_len' = Wrap(Len(original.key_id))
    /\ data_len' = Wrap(Len(original.encrypted_data))
    /\ IF Header + id_len' + data_len' < Word
       THEN /\ blob' = Layout(SubSeq(original.key_id, 1, id_len'),
                              SubSeq(original.encrypted_data, 1, data_len'))
            /\ pc' = "stored"
       ELSE UNCHANGED blob /\ pc' = "outside"
    /\ UNCHANGED <<original, fate, p, result>>

\* The application writes the blob to its database and reads it back.
Retrieve ==
    /\ pc = "stored"
    /\ pc' = "size"
    /\ \/ fate' = "whole" /\ UNCHANGED blob
       \/ fate' = "short" /\ \E n \in 0..Len(blob)-1 : blob' = SubSeq(blob, 1, n)
       \/ fate' = "long" /\ \E b \in Strangers : blob' = blob \o b
       \/ fate' = "other" /\ blob' \in Strangers
    /\ UNCHANGED <<original, lengths, p, result>>

-----------------------------------------------------------------------------
(***************************************************************************)
(* deserialize                                                             *)
(***************************************************************************)
Take(n) == SubSeq(blob, p + 1, p + n)
Inside(n) == p + n <= Len(blob)

Throw == pc' = "thrown" /\ UNCHANGED <<p, result>>

\* A copy of n bytes that the blob does not have: what lies behind it is read,
\* unless the allocation of so large a string or vector throws first.
Overread == pc' \in {"thrown", "outside"} /\ UNCHANGED <<p, result>>

CheckSize ==
    /\ pc = "size"
    /\ IF Len(blob) < Header
       THEN Throw /\ UNCHANGED lengths
       ELSE /\ pc' = "id"
            /\ id_len' = Decode[SubSeq(blob, 1, Field)]
            /\ data_len' = 0
            /\ p' = Field
            /\ UNCHANGED result
    /\ UNCHANGED <<original, blob, fate>>

\* The check of the room for key_id, its copy, and the next length.
ReadId ==
    /\ pc = "id"
    /\ IF Len(blob) < Wrap(Header + id_len) THEN Throw /\ UNCHANGED data_len
       ELSE IF ~Inside(id_len + Field) THEN Overread /\ UNCHANGED data_len
       ELSE /\ result' = [result EXCEPT !.key_id = Take(id_len)]
            /\ data_len' = Decode[SubSeq(blob, p + id_len + 1, p + id_len + Field)]
            /\ p' = p + id_len + Field
            /\ pc' = "data"
    /\ UNCHANGED <<original, blob, fate, id_len>>

\* Slip: the rest of the blob is taken for the data.
ReadDataToEnd ==
    /\ pc = "data"
    /\ IF Len(blob) < Wrap(Header + id_len + data_len) THEN Throw
       ELSE IF ~Inside(data_len) THEN Overread
       ELSE /\ result' = [result EXCEPT !.encrypted_data = Take(Len(blob) - p)]
            /\ p' = Len(blob)
            /\ pc' = "returned"
    /\ UNCHANGED <<original, blob, fate, lengths>>

\* Slip: the length is checked against the header and itself only.
ReadDataForgettingId ==
    /\ pc = "data"
    /\ IF Len(blob) < Wrap(Header + data_len) THEN Throw
       ELSE IF ~Inside(data_len) THEN Overread
       ELSE /\ result' = [result EXCEPT !.encrypted_data = Take(data_len)]
            /\ p' = p + data_len
            /\ pc' = "returned"
    /\ UNCHANGED <<original, blob, fate, lengths>>

\* Bytes behind the data are ignored.
ReadData ==
    /\ pc = "data"
    /\ IF Len(blob) < Wrap(Header + id_len + data_len) THEN Throw
       ELSE IF ~Inside(data_len) THEN Overread
       ELSE /\ result' = [result EXCEPT !.encrypted_data = Take(data_len)]
            /\ p' = p + data_len
            /\ pc' = "returned"
    /\ UNCHANGED <<original, blob, fate, lengths>>

Next == Serialize \/ Retrieve \/ CheckSize \/ ReadId \/ ReadData

Spec == Init /\ [][Next]_vars

-----------------------------------------------------------------------------
(***************************************************************************)
(* Properties.                                                             *)
(***************************************************************************)
Fits(x) == Header + Len(x.key_id) + Len(x.encrypted_data) < Word

Wrapped == Header + id_len + data_len >= Word

\* What fits a blob comes back from the database as it went in, also when the
\* database pads its values: no step throws, no copy goes astray.  When it was cut
\* short, wherever the cut is, it is never taken for a passphrase and never read
\* beyond its end.
RoundTrip ==
    Fits(original) =>
        /\ fate \in {"whole", "long"} => pc \notin {"thrown", "outside"}
        /\ fate \in {"whole", "long"} /\ pc = "returned" => result = original
        /\ fate = "short" => pc \notin {"returned", "outside"}

\* Of all contents of the database only those are accepted that start with the
\* blob of what is returned, and only lengths whose sum wraps lead outside.
AcceptedIsABlob ==
    /\ pc = "returned" =>
          LET accepted == Layout(result.key_id, result.encrypted_data)
          IN  /\ Len(accepted) <= Len(blob)
              /\ SubSeq(blob, 1, Len(accepted)) = accepted
    /\ pc = "outside" => Wrapped

=============================================================================
