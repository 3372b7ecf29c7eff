SPECIFICATION Spec
CONSTANTS
    ta = ta
    a1 = a1
    a2 = a2
    e1 = e1
    e2 = e2
    NoChan = noChan
    Topics = {ta}
    Subs = {a1, a2}
    Events = {e1, e2}
    TopicOf <- MCTopicOf
    Capacity = 1
INVARIANTS
    TypeOK
    Registered
    DeliveredToPresent
PROPERTY
    EventuallyReceived
CHECK_DEADLOCK FALSE
