SPECIFICATION MCSpec
CONSTANTS
    c1 = c1
    c2 = c2
    c3 = c3
    a1 = a1
    a2 = a2
    a3 = a3
    quiet = quiet
    talk = talk
    None = None
    ClientId <- MCTrio
    Address <- MCTrioAddresses
    ShortId = {}
    Expands = {}
    TopK = 3
    RoomLimit = 50
    KeepAliveTimeout = 1
    SpeakerWindow = 3
    Payload <- MCVoice
    Empty = quiet
    Oversized = {}
    EnergyOf <- MCEnergy
    Packet <- MCAllPackets
    MaxEvents = 3
    MaxTime = 1
SYMMETRY MCSymmetry
INVARIANTS
    RelayHasConsent
    NoDuplicatePrompt
    AddressUnique
    ClosedIsForgotten
    HangupSticks
CHECK_DEADLOCK FALSE
