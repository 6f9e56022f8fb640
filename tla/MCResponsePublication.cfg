CONSTANTS
    Route = {r1, r2}
    Owner = owner
    Recovery = recovery
    NoOne = no_one
    MaxCalls = 3
    MaxWrites = 2
    MaxLives = 2
    MaxFaults = 2
SPECIFICATION Spec
INVARIANT SentAtMostOnce
INVARIANT RowIsRecoverable
INVARIANT AcknowledgedHasRow
INVARIANT SettledHoldsNoClaim
PROPERTY AppendsWhileRunning
CHECK_DEADLOCK FALSE
