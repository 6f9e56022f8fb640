SPECIFICATION Spec
CONSTANTS
    Agents = {a, b}
    MaxTurns = 3
    MaxMessages = 1
    MaxWaits = 2
    MaxUpsets = 1
SYMMETRY Symmetry
PROPERTIES
    ReleasedInSilence
    AnsweredByItsReply
CHECK_DEADLOCK FALSE
