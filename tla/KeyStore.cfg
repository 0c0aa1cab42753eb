SPECIFICATION KeyStoreSpec
CONSTANTS
    w1 = w1
    w2 = w2
    n1 = n1
    Invalid = Invalid
    None = None
    Absent = Absent
    Torn = Torn
    Passphrase <- MCPassphrases
    NostrKey = {n1}
    MaxStarts = 3
SYMMETRY MCSymmetry
INVARIANTS
    SavedIsThere
    ComesBack
PROPERTIES
    OnlyNostrReplaces
CHECK_DEADLOCK FALSE
