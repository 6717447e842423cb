SPECIFICATION Spec
CONSTANTS
    N <- MCRing
    Bytes <- MCBytes
    NUL = NUL
    MaxBytes = 3
    MaxEcho = 0
    Paced = FALSE
INVARIANTS TakenInOrder
