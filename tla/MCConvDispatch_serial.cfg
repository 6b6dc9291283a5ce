\* Users wait and Redis works; timeouts strike at any time and the gateway may crash; the pool
\* is served by pods of its own.
CONSTANTS
    p1 = p1
    p2 = p2
    p3 = p3
    None = None
    Pods = {p1, p2, p3}
    Convs = {c1, c2}
    Msgs = {m1, m2, m3}
    Heartbeating = {p1, p2}
    PoolSubscribers = {p3}
    Serial = TRUE
    Prompt = FALSE
    RedisFaults = FALSE
    Crashes = TRUE
    FaultBudget = 1
    Cancellable = {}
SPECIFICATION Spec
SYMMETRY Symmetric
CHECK_DEADLOCK FALSE
INVARIANTS
    ClaimExclusive
    HeldIsActive
PROPERTIES
    KeepsLeases
