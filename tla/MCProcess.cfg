SPECIFICATION FairProcessSpec
CONSTANTS
    c1 = c1 c2 = c2 c3 = c3
    Unset = Unset Empty = Empty Blank = Blank Junk = Junk Refused = Refused
    Trim <- MCTrim
    UpperCase <- MCUpper
    LowerCase <- MCLower
    ThreeLetters = {"STO", "GOT", "OLD"}
    FriendlyNames = {"Town"}
    ReservedNames = {"v1_x"}
    Resolve <- MCResolve
    Width <- MCWidth
    U16Max = 65535
    U32Max = 1000000
    I64Max = 2000000
    UsizeMax = 7
    CONTROL_MAX = 2
    Connections = {c1, c2, c3}
    Inputs <- MCInputs
    Peers <- MCPeers
    Requests <- MCRequests
    Frames <- MCFrames
    Publishing = {c2}
    MAX_FRONTEND_CONNECTIONS = 2
CHECK_DEADLOCK FALSE
INVARIANTS
    SlotsAreHeldByTasks
    ExitLeavesNoTask
    WireIsWellFormed
    SourceIsVouchedFor
    AcceptedConfigIsUsable
PROPERTIES
    ShutdownEnds
    HandshakesEnd
