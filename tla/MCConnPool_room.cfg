\* A pool with one connection more than there are goroutines in AddMessage.
CONSTANTS
    Callers = {h1, h2, w1}
    Requests = {h1, h2}
    Others = {s1}
    MaxConns = 4
SPECIFICATION FairSpec
CHECK_DEADLOCK FALSE
INVARIANTS
    ConnsAccounted
    NoHoldAndWait
PROPERTIES
    AddMessageReturns
