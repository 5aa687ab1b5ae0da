CONSTANTS
    Byte <- Bytes
    Field = 2
    Word = 16
    Encode <- LittleEndian
    Decode <- FromLittleEndian
    Passphrases <- SmallPassphrases
    Strangers <- ShortStrings
    Lengths = {0, 1, 6, 17}
    MaxStranger = 6
SPECIFICATION Spec
INVARIANTS TypeOK RoundTrip AcceptedIsABlob
CHECK_DEADLOCK FALSE
