SPECIFICATION ConnSpec
CONSTANTS
    a1 = a1
    a2 = a2
    None = None
    ClientId = {1, 2, 3}
    Address <- MCAddresses
    ShortId = {}
    Expands = {}
    TopK = 3
    RoomLimit = 50
    KeepAliveTimeout = 6
    SpeakerWindow = 1
    MaxConnections = 1
    HandshakeTimeout = 3
    PingInterval = 2
    MaxOffers = 2
    MaxFaults = 1
    LastEvent = 1
    MaxTime = 8
SYMMETRY MCSymmetry
INVARIANTS
    ConnectionsBounded
    
    SilentIsPurged
    HandshakeIsPruned
    
CHECK_DEADLOCK FALSE
