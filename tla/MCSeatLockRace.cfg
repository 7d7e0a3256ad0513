\* Two instances, a retrying client and a rival; every fault but Redis errors.
CONSTANTS
    a1 = a1  a2 = a2  b1 = b1  ua = ua  ub = ub  e1 = e1  e2 = e2  s1 = s1
    c1 = c1  c2 = c2  c3 = c3  c4 = c4  i1 = i1  i2 = i2
    Calls = {c1, c2, c3}
    Instances = {i1, i2}
    Clients = {a1, b1}
    Users = {ua, ub}
    Events = {e1}
    Seats = {s1}
    UserOf <- MCUserOf
    ClientOf <- RetryClientOf
    EventOf <- RetryEventOf
    SeatOf <- MCSeatOf
    InstanceOf <- MCInstanceOf
    Allowed = {"crash", "kafka", "db", "expiry"}
    NoLock = NoLock
SPECIFICATION Spec
INVARIANTS TypeOK GrantsAreBacked OneOwnerUntilFreed
PROPERTIES NoTakeover ImplementsReservation
\* The calls are finitely many: the system stops when all have ended.
CHECK_DEADLOCK FALSE
