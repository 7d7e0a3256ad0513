\* Two requests at a time, two accounts, two seconds.  All ids may be used up.
CHECK_DEADLOCK FALSE
CONSTANTS
    h1 = h1  h2 = h2  e1 = e1  e2 = e2  p1 = p1  p2 = p2
    Handlers = {h1, h2}
    Ids = {1, 2}
    Nobody = Nobody
    Emails = {e1, e2}
    Passwords = {p1, p2}
    Generated = Generated
    Roles = {"user", "admin"}
    Accounts <- MCAccounts
    GoogleEmails = {e2}
    Patches <- MCPatches
    NoUser = NoUser
    NoToken = NoToken
    Undefined = Undefined
    MaxTime = 1
    MaxRequests = 6
SPECIFICATION Spec
SYMMETRY Symmetry
INVARIANTS TypeOK EmailsUnique LogoutHolds HandedStands ChangesStick
