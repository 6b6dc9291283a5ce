SPECIFICATION Spec
CONSTANTS
    Tenants = {t1}
    Users = {u1, u2}
    SkillIds = {s1, s2}
    Names = {n1}
    Versions = {v1}
    MaxDownloads = 1
    Requests = {r1, r2}
    None = None
SYMMETRY MCSymmetry
INVARIANTS
    TypeOK
    ActiveWasAsked
PROPERTY
    DownloadsCounted
