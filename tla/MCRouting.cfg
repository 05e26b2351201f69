SPECIFICATION RoutingSpec
CONSTANTS
    o1 = o1 o2 = o2 o3 = o3 admin = admin full = full limited = limited
    None = None
    Clients = {o1, o2, o3, admin, full, limited}
    PrincipalOf <- MCPrincipalOf
    PublicKeys = {"K1", "K2", "K3"}
    CurvePoints = {"K1", "K2"}
    allowed_iata = {"STO"}
    secondary_iata = {"OLD"}
    WellFormedIata = {"STO", "OLD", "NYC", "XXX"}
    allow_test_ingress = TRUE
    json_publish_max_bytes = 8192
    SERIAL_MAX_BYTES = 4096
    FIRMWARE_NEIGHBORS_JSON_BUFFER_BYTES = 10240
    Upper <- MCUpper
    Lower <- MCLower
    Topics <- MCTopics
    Filters <- MCFilters
    Logins <- MCLogins
    Absent = Absent
    I64Min <- MCI64Min
    I64Max = 15
    MAX_FUTURE_IAT_SKEW_SECONDS = 2
    token_max_age_seconds = 4
    expected_audience = "aud"
    Payloads <- MCPayloads
    MaxRelations = 1
    MaxRetained = 1
CHECK_DEADLOCK FALSE
INVARIANTS
    ObserverHearsOnlyBrokerAndAdmin
    PrivateTrafficOnlyByReplay
    LimitedSeesNoRestrictedFields
    SenderSpeaksForItself
    LoginIsCurrent
