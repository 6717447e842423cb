SPECIFICATION FairSpec
CONSTANTS
    N <- MCRing
    Bytes <- MCBytes
    NUL = NUL
    MaxBytes = 5
    MaxEcho = 1
    Paced = FALSE
INVARIANTS TypeOK CountExact NoByteOverwritten
PROPERTIES  KeepsListening DrainsEventually
