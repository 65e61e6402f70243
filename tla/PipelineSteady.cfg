SPECIFICATION Spec
CONSTANTS
    w1 = w1
    w2 = w2
    Clients = {w1, w2}
    Chunks <- ImportFirst
    Readers = {r1}
    Peers = FALSE
    Kinds = {"ok", "refused", "kvfail"}
    kMaxRetries = 0
    MaxLog = 3
    MaxCrashes = 0
INVARIANTS LiveIndexHonest OwnResponse AckedMeansApplied StrongReadSees
PROPERTIES ImplementsProductLog
