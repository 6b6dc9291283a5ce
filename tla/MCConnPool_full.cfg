\* As many goroutines in AddMessage as the pool has connections.
CONSTANTS
    Callers = {h1, w1}
    Requests = {h1}
    Others = {s1}
    MaxConns = 2
SPECIFICATION FairSpec
CHECK_DEADLOCK FALSE
PROPERTIES
    AddMessageReturns
