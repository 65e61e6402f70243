SPECIFICATION FairSpec
CONSTANTS
    Reserved = 1
    Distance = 2
    Requests = {"internal", "export"}
    MaxIndex = 2
    MaxRequests = 1
    MaxTransfers = 1
    MaxFaults = 1
CHECK_DEADLOCK FALSE
INVARIANTS OfferedIsWhole DeliveredCovers AckedSnapshotCovers
PROPERTIES RecoveryPointMoves
