SPECIFICATION Spec
CONSTANTS
    kMaxCard = 3
    kDeckSize = 8
    kWarSize = 2
    kMaxRounds = 6
    Strategies <- MCAllStrategies
INVARIANTS CardsConserved NoAssertFails RoundLedger WinnerOwnsDeck
