SPECIFICATION CodecSpec
CONSTANTS
    HexBase = 2
    LEN_USER_ADDR = 3
    LEN_CLIENT_ID = 2
    LEN_PARTICIPANT_COUNT = 1
    LEN_TIMESTAMP = 2
    MAX_PACKET_SIZE = 21
    MAX_AUDIO_PAYLOAD_SIZE = 6
    MAX_SPEAKER_ADDRESSES = 2
    MinShortId = 3
    TypedDigits = {0, 1, 2}
    None = None
    Registered <- MCRegistered
    Fresh <- MCFresh
    Sample <- MCSample
    Typed <- MCTyped
    Raw <- MCRaw
INVARIANTS
    NeverPanics
    RoundTrip
    DecodedIsStable
    ShortIdFinds
CHECK_DEADLOCK FALSE
