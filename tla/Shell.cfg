SPECIFICATION FairSpec
CONSTANTS
    RX_SIZE = 6
    MAX_ARGS = 2
    NUL = NUL
    Letters <- MCLetters
    Input <- MCAnyChar
    Commands <- MCCommands
INVARIANTS TypeOK NeverStuckFull ArgvTerminated ArgvIsWords
PROPERTIES RestartOnlyOnCommand BackToPrompt
