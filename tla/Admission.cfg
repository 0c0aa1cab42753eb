SPECIFICATION AdmissionSpec
CONSTANTS
    s1 = s1
    k1 = k1
    k2 = k2
    g1 = g1
    g2 = g2
    g3 = g3
    None = None
    Source <- MCSources
    Handler <- MCHandlers
    Signature <- MCSignatures
    Stamp <- MCStamp
    Signs <- MCSigns
    Burst = 2
    Refill = 1
    MaxBuckets = 0
    IdleLimit = 2
    MaxTime = 3
    Drift = 1
    CacheMax = 2
    MaxAccepted = 1
    Config <- MCConfigs
CONSTRAINT AcceptedBound
SYMMETRY MCSymmetry
INVARIANTS
    
    CacheBounded
PROPERTIES
    ReplayMeansAccepted
    
CHECK_DEADLOCK FALSE
