SPECIFICATION Spec
CONSTANTS
    N = 2
    Ram <- MCRam
    Layout <- MCLayout
    Bytes <- MCBytes
    MaxBytes = 3
INVARIANTS PassedIsTyped NoPhantomInput HandlerStaysInRing
