\* Two messages, one restart, one failed request; the service may wait for messages.
CONSTANTS
    created = created  confirmed = confirmed  nameless = nameless
    garbage = garbage  u1 = u1  u2 = u2
    Messages = {created, confirmed, nameless, garbage}
    Poisons = {garbage}
    Fanouts = {created}
    Unaddressed = {nameless}
    Users = {u1, u2}
    Channels = {"email"}
    TargetsOf <- MCTargetsOf
    ChannelsOf <- MCChannelsOf
    KeyOf <- MCKeyOf
    RouterAttempts = 2
    Delays <- MCDelays
    MaxPublished = 2
    MaxRestarts = 1
    MaxFaults = 1
    Allowed = {"http", "kafka", "misreport"}
CHECK_DEADLOCK FALSE
SPECIFICATION FairSpec
INVARIANTS TypeOK RoutedIsPublished WorkedIsDone DeliveriesHaveCause
PROPERTY EventuallyNotified
