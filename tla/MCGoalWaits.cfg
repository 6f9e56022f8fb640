SPECIFICATION Spec
CONSTANTS
    Agents = {a, b, c}
    MaxTurns = 3
    MaxMessages = 0
    MaxWaits = 3
    MaxUpsets = 0
SYMMETRY Symmetry
INVARIANTS
    TypeOK
    ClosedGroupIsAttended
PROPERTIES
    ReleasedOnlyWhenNobodyWorks
CHECK_DEADLOCK FALSE
