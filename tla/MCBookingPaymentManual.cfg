\* Clients set statuses by hand.
CONSTANTS
    h1 = h1  h2 = h2  s1 = s1  s2 = s2
    Handlers = {h1}
    Sessions = {s1}
    NoSession = NoSession
    MaxQueue = 1
    Allowed = {"manual"}
SPECIFICATION Spec
SYMMETRY Symmetry
INVARIANT TypeOK
