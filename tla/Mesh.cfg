SPECIFICATION MeshSpec
CONSTANTS
    n1 = n1
    n2 = n2
    n3 = n3
    u1 = u1
    u2 = u2
    Node <- MCNodes
    Dials <- MCRing
    Session <- MCSessions
    Talks <- MCTalks
    InitialTtl = 2
    Capacity = 1
    MaxMeshPeers = 1
    MaxFrames = 1
INVARIANTS
    FloodIsBounded
PROPERTIES
    CopyIsPassedOn
    AddresseeHears
CHECK_DEADLOCK FALSE
