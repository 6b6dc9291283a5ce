\* Liveness: users wait, agents are prompt, one failure; a warm pod serves the pool, too.
CONSTANTS
    p1 = p1
    p2 = p2
    p3 = p3
    None = None
    Pods = {p1, p2}
    Convs = {c1, c2}
    Msgs = {m1, m2}
    Heartbeating = {p1}
    PoolSubscribers = {p1, p2}
    Serial = TRUE
    Prompt = TRUE
    RedisFaults = FALSE
    Crashes = FALSE
    FaultBudget = 1
    Cancellable = {}
SPECIFICATION FairSpec
CHECK_DEADLOCK FALSE
PROPERTIES
    MessageDrains
    WatchedPodReturns
