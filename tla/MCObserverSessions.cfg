SPECIFICATION FairSessionSpec
CONSTANTS
    a1 = a1 a2 = a2
    v1 = v1 v2 = v2
    ka = ka kb = kb viewer = viewer
    None = None
    Keys = {ka, kb}
    Observers = {a1, a2}
    KeyOf <- MCKeyOf
    Users = {viewer}
    Viewers = {v1, v2}
    UserOf <- MCUserOf
    max_connections <- MCMax
CHECK_DEADLOCK FALSE
INVARIANTS
    SessionTypeOK
    NewestOwnsUntilItLeaves
    NoOrphans
    OwnerAndSessionAgree
    PlacesAreConnections
PROPERTY
    ClosedIsForgotten
