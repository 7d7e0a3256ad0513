\* Two requests and the consumer; Redis, the database and HTTP calls fail, one restart.
CONSTANTS
    h1 = h1  h2 = h2  u1 = u1  b1 = b1
    Handlers = {h1, h2}
    Consumer = Consumer
    Owners = {u1}
    NoOwner = NoOwner
    Bookings = {b1}
    NoBooking = NoBooking
    TicketsOf <- MCTicketsOf
    Totals = {0, 1}
    Patches <- MCPatches
    Keep = Keep
    NoEvent = NoEvent
    Empty = Empty
    ReadKeys = {u1, "upcoming"}
    MaxSends = 1
    MaxRestarts = 1
    Allowed = {"http", "redis", "db", "crash"}
SPECIFICATION Spec
SYMMETRY Symmetry
INVARIANTS TypeOK  StaleHasCause PaidIsNotLost DeductedPerDelivery TicketsAccounted
