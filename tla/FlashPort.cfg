SPECIFICATION FairSpec
CONSTANTS
    Bits <- MCBits
    WORD = 2
    SECTOR = 2
    BOOTLOADER_SIZE = 2
    APPLICATION_SIZE = 4
    FLASH_SIZE = 12
    WIDTH = 64
    MaxOff = 2
    MaxWrite = 3
    MaxErase = 4
INVARIANTS TypeOK WriteProgress TrapOnlyOnDirty ModeMatches
PROPERTIES SlotIsolation OperationEnds
