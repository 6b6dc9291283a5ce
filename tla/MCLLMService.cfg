\* The call returns: done and failed are its ends.
SPECIFICATION Spec
CONSTANTS
    Calls = {c1, c2}
    MaxMessages = 2
    MaxBlocks = 2
    MaxText = 3
    MaxCalls = 3
    MaxFragments = 3
    None = None
CHECK_DEADLOCK FALSE
INVARIANTS
    ToolTurnsKept
    CallsWhole
    SentInOrder
