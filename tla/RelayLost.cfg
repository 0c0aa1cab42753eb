SPECIFICATION MCPoliteSpec
CONSTANTS
    c1 = c1
    c2 = c2
    c3 = c3
    a1 = a1
    a2 = a2
    a3 = a3
    quiet = quiet
    talk = talk
    None = None
    ClientId <- MCPair
    Address <- MCPairAddresses
    ShortId = {}
    Expands = {}
    TopK = 3
    RoomLimit = 50
    KeepAliveTimeout = 3
    SpeakerWindow = 3
    Payload <- MCVoice
    Empty = quiet
    Oversized = {}
    EnergyOf <- MCEnergy
    Packet <- MCCallPackets
    MaxEvents = 4
    MaxTime = 0
SYMMETRY MCSymmetry
PROPERTIES
    TargetedAudioIsRelayed
CHECK_DEADLOCK FALSE
