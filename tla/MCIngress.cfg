SPECIFICATION FairIngressSpec
CONSTANTS
    oa = oa ob = ob
    Observers = {oa, ob}
    Messages <- MCMessages
    max_ingress = 2
    ingress_dedup_ms = 1
    MaxDedup = 1
    MaxObservers = 1
    Retention = 2
    ObserverTTL = 2
    RetryDelay = 1
    MaxAttempts = 2
    None = None
    MaxLag = 1
    MaxOffers = 3
    MaxOfferTime = 1
    MaxTime = 3
CHECK_DEADLOCK FALSE
INVARIANTS
    TablesKeepTheHeldRow
    RadioIsTheNewest
PROPERTY
    TakenOncePerWindow
    QueueDrainsOrStops
