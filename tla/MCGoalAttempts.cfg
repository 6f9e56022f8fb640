SPECIFICATION Spec
CONSTANTS
    g1 = g1
    s1 = s1
    s2 = s2
    c1 = c1
    c2 = c2
    c3 = c3
    GoalId <- OneGoal
    AttemptId = {a1, a2}
    Grant = {k1, k2, k3}
    WorkDecision = {d1}
    UsageChargeId = {r1}
    Store <- TwoStores
    Caller <- ThreeCallers
    StoreOf <- SharedAndSeparate
    NoAttemptId = NoAttemptId
    NoGrant = NoGrant
    NoGoal = NoGoal
    MaxGeneration = 3
SYMMETRY Symmetry
INVARIANTS
    AtMostOneLaunch
    AtMostOneRunningTurn
    ReservedFromAcknowledgedGrant
    EveryGenerationExplained
PROPERTIES
    SettledWorkIsFinal
    ImplementsGoalTurns
