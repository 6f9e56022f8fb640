SPECIFICATION Spec
CONSTANTS
    Operator = {o1}
    Process = {p1}
    NoOperator = NoOperator
    MaxWrites = 3
INVARIANTS
    RetargetedLedgerStaysExact
