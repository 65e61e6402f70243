SPECIFICATION Spec
CONSTANTS
    w1 = w1
    w2 = w2
    Clients = {w1}
    Chunks <- OneChunk
    Readers = {}
    Peers = TRUE
    Kinds = {"ok", "kvfail", "bad"}
    kMaxRetries = 1
    MaxLog = 3
    MaxCrashes = 1
INVARIANTS LossOnlyAtCrash ReappliedOnlyRefused
