SPECIFICATION MCFairSpec
CONSTANTS
    c1 = c1
    c2 = c2
    c3 = c3
    a1 = a1
    a2 = a2
    a3 = a3
    room = room
    short = short
    quiet = quiet
    talk = talk
    shout = shout
    huge = huge
    None = None
    ClientId <- MCTrio
    Address <- MCAddresses
    ShortId = {short}
    Expands <- MCExpands
    TopK = 1
    RoomLimit = 2
    KeepAliveTimeout = 3
    SpeakerWindow = 0
    Payload <- MCVoices
    Empty = quiet
    Oversized = {huge}
    EnergyOf <- MCEnergy
    Packet <- MCRoomPackets
    MaxEvents = 2
    MaxTime = 1

    
PROPERTIES
    ForwardsTheLoudest
    HandlersFinish
CHECK_DEADLOCK FALSE
