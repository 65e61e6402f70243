SPECIFICATION FairSpec
CONSTANTS
    w1 = w1
    w2 = w2
    Clients = {w1}
    Chunks <- OneChunk
    Readers = {r1}
    Peers = TRUE
    Kinds = {"ok", "bad", "conf"}
    kMaxRetries = 0
    MaxLog = 2
    MaxCrashes = 0
PROPERTIES EveryCommittedApplied EveryRequestAnswered
