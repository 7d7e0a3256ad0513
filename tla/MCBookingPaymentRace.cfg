\* Two requests at a time, one session; customers who decline and reload pages,
\* calls and queries that fail, so that webhooks come again.
CONSTANTS
    h1 = h1  h2 = h2  s1 = s1  s2 = s2
    Handlers = {h1, h2}
    Sessions = {s1}
    NoSession = NoSession
    MaxQueue = 1
    Allowed = {"decline", "pages", "http", "redis", "db"}
SPECIFICATION Spec
SYMMETRY Symmetry
INVARIANT RecordsBacked
PROPERTIES ConfirmedStays ImplementsOrder
