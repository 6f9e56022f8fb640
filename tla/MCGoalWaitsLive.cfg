SPECIFICATION FairSpec
CONSTANTS
    Agents = {a, b}
    MaxTurns = 3
    MaxMessages = 1
    MaxWaits = 1
    MaxUpsets = 1
PROPERTIES
    FinishedTurnReleases
CHECK_DEADLOCK FALSE
