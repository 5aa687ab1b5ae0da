-------------------------- MODULE MCPassphraseBlob --------------------------
(***************************************************************************)
(* A finite instance of PassphraseBlob: length fields of two bytes with    *)
(* four values each, least significant first, so that sums wrap at 16.     *)
(***************************************************************************)
EXTENDS PassphraseBlob

CONSTANTS
    Lengths,    \* bound: lengths of key_id and of encrypted_data
    MaxStranger \* bound: length of other contents

Bytes == 0..3
LittleEndian == [n \in 0..15 |-> <<n % 4, n \div 4>>]
FromLittleEndian == [f \in [1..2 -> Bytes] |-> f[1] + 4 * f[2]]

\* A part of each length, of ones: a cut inside it leaves a length field that a
\* careless reader would believe.
Part(n) == [i \in 1..n |-> 1]

SmallPassphrases ==
    {[key_id |-> Part(m), encrypted_data |-> Part(n)] : m, n \in Lengths}

ShortStrings == UNION {[1..n -> Bytes] : n \in 0..MaxStranger}
=============================================================================
