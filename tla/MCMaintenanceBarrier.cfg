SPECIFICATION Spec
CONSTANTS
    Operator = {o1, o2}
    Process = {p1}
    NoOperator = NoOperator
    MaxWrites = 5
SYMMETRY Symmetry
INVARIANTS
    TypeOK
    InputOnlyWhileOpen
    CapturesStayExact
PROPERTIES
    LiveHoldIsKept
