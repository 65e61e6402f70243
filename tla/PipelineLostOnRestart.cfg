SPECIFICATION Spec
CONSTANTS
    w1 = w1
    w2 = w2
    Clients = {w1}
    Chunks <- OneChunk
    Readers = {}
    Peers = FALSE
    Kinds = {"ok"}
    kMaxRetries = 0
    MaxLog = 2
    MaxCrashes = 1
INVARIANTS NoEntryLost
