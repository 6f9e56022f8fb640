SPECIFICATION FairSpec
CONSTANTS
    MaxTurns = 2
    MaxGen = 2
    MaxClaim = 5
    MaxHosts = 2
    Phases = {"preparing", "model_wait"}
    FirstPhase = "preparing"
INVARIANTS
    GenerationHasItsFile
    RecordedClaimIsCurrent
    RevokedNeverCompletes
PROPERTIES
    PhaseNeedsTheClaim
    FinishesItsOwnTurn
    ImplementsGrant
    HeldTurnIsReleased
CHECK_DEADLOCK FALSE
