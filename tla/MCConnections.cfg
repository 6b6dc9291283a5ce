SPECIFICATION Spec
CONSTANTS
    Owners = {o1, o2}
    Providers = {p1}
    Scopes = {a, b}
    a = a
    b = b
    Manifests <- MCManifests
    Claims <- MCClaims
    Responses <- MCResponses
    StateKeys = {k1, k2}
    Codes = {x1, x2}
    Callbacks = {c1, c2}
    Empty = Empty
    Pasted = Pasted
    Lump = Lump
    None = None
SYMMETRY MCSymmetry
INVARIANTS
    IssuedAsAsked
    SpentStateGone
