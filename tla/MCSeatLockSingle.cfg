\* One instance, as docker-compose deploys it; a client that repeats its request
\* and uses its session for two events.
CONSTANTS
    a1 = a1  a2 = a2  b1 = b1  ua = ua  ub = ub  e1 = e1  e2 = e2  s1 = s1
    c1 = c1  c2 = c2  c3 = c3  c4 = c4  i1 = i1  i2 = i2
    Calls = {c1, c2, c3, c4}
    Instances = {i1}
    Clients = {a1, b1}
    Users = {ua, ub}
    Events = {e1, e2}
    Seats = {s1}
    UserOf <- MCUserOf
    ClientOf <- CrossClientOf
    EventOf <- CrossEventOf
    SeatOf <- MCSeatOf
    InstanceOf <- SingleInstanceOf
    Allowed = {"kafka", "expiry", "payment"}
    NoLock = NoLock
SPECIFICATION Spec
INVARIANTS OwnerNotRefused OneOwnerUntilFreed
\* The calls are finitely many: the system stops when all have ended.
CHECK_DEADLOCK FALSE
