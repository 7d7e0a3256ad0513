\* Cancelled bookings, refunds, delayed payments, restarts, topics with partitions.
CONSTANTS
    h1 = h1  h2 = h2  s1 = s1  s2 = s2
    Handlers = {h1}
    Sessions = {s1}
    NoSession = NoSession
    MaxQueue = 2
    Allowed = {"cancel", "refund", "crash", "partitions", "delayed"}
SPECIFICATION Spec
SYMMETRY Symmetry
INVARIANTS ConfirmedHasCheckout RecordsBacked
PROPERTY ImplementsOrder
