CONSTANTS
    c1 = c1
    c2 = c2
    Call <- MCCall
    MaxSeq = 2
    MaxExecutions = 2
    MaxAttempts = 1
    MaxClaim = 3
SPECIFICATION Spec
SYMMETRY Symmetry
INVARIANT TypeOK
INVARIANT CoveredIsSettled
INVARIANT RefreshIsNeverHeldBack
INVARIANT NoIdentityConflict
INVARIANT InjectedIsLatest
 
CHECK_DEADLOCK FALSE
