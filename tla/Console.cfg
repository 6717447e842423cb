SPECIFICATION ConsoleFairSpec
CONSTANTS
    N = 2
    MaxBytes = 5
    MaxEcho = 1
    Paced = TRUE
    RX_SIZE = 3
    MAX_ARGS = 1
    NUL = NUL
    Letters <- MCLetters
    Input <- MCInput
    Commands <- MCCommands
INVARIANTS LineIsTyped CommandIsTyped ScreenMatchesBuffer
PROPERTY PromptReturns
