SPECIFICATION GuardSpec
CONSTANTS
    Keys = {k1, k2, k3}
    Timestamps = {1, 2}
    NoRecord = NoRecord
    Capacity = 2
    TTL = 3
    SweepInterval = 2
    MaxTime = 5
    MaxTickets = 5
SYMMETRY KeySymmetry
CHECK_DEADLOCK FALSE
INVARIANTS
    GuardInv
    ForgottenOnlyByAgeOrCapacity
PROPERTY
    AcceptedNeverRegresses
