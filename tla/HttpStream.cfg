SPECIFICATION FairSpec
CONSTANTS
    export = export
    proxied = proxied
    read = read
    Requests = {export, proxied, read}
    Uploads = {proxied}
    Kind <- MCKind
    Chunks <- MCChunks
    Threads = 1
    MaxSockets = 2
CHECK_DEADLOCK FALSE
INVARIANTS OneChunkInFlight SentAsMade EndedIsWhole
PROPERTIES EveryRequestEnds
