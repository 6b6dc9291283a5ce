SPECIFICATION Spec
CONSTANTS
    Emails <- MCEmails
    Lower <- MCLower
    Identities = {i1}
    Slugs = {s1}
    TenantIds = {t1, t2}
    PairIds = {p1, p2}
    InviteIds = {v1}
    StateIds = {st1}
    InviteRoles = {"member"}
    Requests = {r1, r2}
    None = None
SYMMETRY MCSymmetry
INVARIANTS
    SessionsOfMembers
    RotationRetires
    AcceptedJoined
