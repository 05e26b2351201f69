SPECIFICATION FairUploadSpec
CONSTANTS
    n1 = n1 n2 = n2 n3 = n3
    Nodes = {n1, n2, n3}
    Timestamps = {0, 2, 3, 4}
    Adverts <- MCAdverts
    Workers = {w1, w2}
    max_queued_uploads = 2
    attempts = 2
    min_reupload_seconds = 3
    retry_delay_ms = 1
    MaxBackoff = 4
    Cooldown = 1
    SeenTTL = 1
    MaxNodeEntries = 1
    MaxTimestamp = 4
    None = None
    MAX_RESPONSE_BYTES = 2
    dry_run = FALSE
    Radios <- MCRadios
    Exchanges <- MCExchanges
    MaxTime = 1
    MaxJobs = 2
    MaxRejected = 1
CHECK_DEADLOCK FALSE
INVARIANTS
    TablesAreBounded
    ProcessingIsHeldByOne
    JobsEndAsAnswered
    CooldownEndsWithTheJob
    NoReuploadOfAccepted
PROPERTY
    StopReturns
