SPECIFICATION Spec
CONSTANTS
    kMaxCard = 3
    kDeckSize = 6
    kWarSize = 2
    kMaxRounds = 3
    Strategies <- MCUnshuffled
INVARIANTS FinishedGameHasWinner
