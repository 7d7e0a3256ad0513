\* Liveness: Kafka loses events and locks cannot be deleted, the HTTP confirmation
\* does not fail.
CONSTANTS
    h1 = h1  h2 = h2  s1 = s1  s2 = s2
    Handlers = {h1}
    Sessions = {s1}
    NoSession = NoSession
    MaxQueue = 1
    Allowed = {"kafka", "redis", "decline", "delayed", "expire", "twice"}
SPECIFICATION FairSpec
PROPERTY PaidIsConfirmed
