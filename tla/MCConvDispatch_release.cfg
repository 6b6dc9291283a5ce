\* Users wait, agents are prompt and nothing fails; the warm pods also serve the pool.
CONSTANTS
    p1 = p1
    p2 = p2
    p3 = p3
    None = None
    Pods = {p1, p2}
    Convs = {c1, c2}
    Msgs = {m1, m2}
    Heartbeating = {p1, p2}
    PoolSubscribers = {p1, p2}
    Serial = TRUE
    Prompt = TRUE
    RedisFaults = FALSE
    Crashes = FALSE
    FaultBudget = 0
    Cancellable = {}
SPECIFICATION Spec
CHECK_DEADLOCK FALSE
INVARIANTS
    HeldIsActive
