SPECIFICATION Spec
CONSTANTS
    Alphabet <- MCAlphabet
    ChunkedThreshold = 1
    ChunkedSize = 2
    Units <- MCUnits
    Foreign <- MCForeign
    Packets <- MCPackets
    UrlMaxLen = 2
    BodyMaxLen = 3
    MaxMessages = 2
INVARIANTS
    DecodedByContent
    DecodesEncoded
CHECK_DEADLOCK FALSE
