\* Overlapping messages of two conversations, a slow agent on a pod that is claimed and serves
\* the pool, Redis failures, crashes, cancellation.
CONSTANTS
    p1 = p1
    p2 = p2
    p3 = p3
    None = None
    Pods = {p1}
    Convs = {c1, c2}
    Msgs = {m1, m2}
    Heartbeating = {p1}
    PoolSubscribers = {p1}
    Serial = FALSE
    Prompt = FALSE
    RedisFaults = TRUE
    Crashes = TRUE
    FaultBudget = 1
    Cancellable = {m1}
SPECIFICATION Spec
CHECK_DEADLOCK FALSE
INVARIANTS
    CompletedAnswered
PROPERTIES
    CompletedUnlessCancelled
    ActiveUntilRelease
    LeakIsForever
