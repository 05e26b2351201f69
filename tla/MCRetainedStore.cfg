SPECIFICATION StoreSpec
CONSTANTS
    Topics = {t1, t2}
    Payloads = {p, q}
    Empty = Empty
    Periods = {0, 2}
    Never = Never
    Absent = Absent
    Readers = {r1}
    MaxTime = 3
SYMMETRY StoreSymmetry
CHECK_DEADLOCK FALSE
INVARIANTS
    StoreTypeOK
    IndexMatchesEntries
    RemainsUntilExpired
PROPERTY
    ReadsSeeTheLiveValues
