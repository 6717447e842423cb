SPECIFICATION Spec
CONSTANTS
    NUM_COILS = 3
    NUM_REGISTERS = 2
    Words <- MCWords
    MaxAddr = 3
    MaxCount = 2
INVARIANTS ReadsLastWrites AnswerMatchesRange
