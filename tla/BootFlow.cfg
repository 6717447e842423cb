SPECIFICATION FairSpec
CONSTANTS
    Images <- MCImages
    Valid <- MCValid
    Healthy <- MCHealthy
    Empty = "empty"
    MaxPowerLoss = 3
INVARIANT CliIsLastResort
PROPERTIES TrialOnlyOnRequest ComesBack
