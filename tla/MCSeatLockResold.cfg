\* Bookings are paid; nothing fails, nothing expires.
CONSTANTS
    a1 = a1  a2 = a2  b1 = b1  ua = ua  ub = ub  e1 = e1  e2 = e2  s1 = s1
    c1 = c1  c2 = c2  c3 = c3  c4 = c4  i1 = i1  i2 = i2
    Calls = {c1, c2, c3}
    Instances = {i1}
    Clients = {a1, a2, b1}
    Users = {ua, ub}
    Events = {e1}
    Seats = {s1}
    UserOf <- MCUserOf
    ClientOf <- TabsClientOf
    EventOf <- RetryEventOf
    SeatOf <- MCSeatOf
    InstanceOf <- SingleInstanceOf
    Allowed = {"payment"}
    NoLock = NoLock
SPECIFICATION Spec
INVARIANT OneSalePerSeat
\* The calls are finitely many: the system stops when all have ended.
CHECK_DEADLOCK FALSE
