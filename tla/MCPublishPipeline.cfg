SPECIFICATION PipelineSpec
CONSTANTS
    a1 = a1 a2 = a2 ka = ka
    None = None
    Keys = {ka}
    Observers = {a1, a2}
    KeyOf <- MCKeyOf
    Users = {}
    Viewers = {}
    UserOf <- MCUserOf
    max_connections <- MCMax
    Messages <- MCMessages
    Timestamps = {1, 2}
    NoTimestamp = NoTimestamp
    NoRecord = NoRecord
    Capacity = 1
    TTL = 1
    SweepInterval = 1
    MaxTime = 0
    MaxTickets = 1
    MaxPublishes = 2
CHECK_DEADLOCK FALSE
INVARIANTS
    TakenOverSpeaksAtMostOnce
PROPERTY
    ForwardedInOrder
