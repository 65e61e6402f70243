SPECIFICATION FairSpec
CONSTANTS
    Snapshots <- MCSnapshots
    Files <- MCFiles
    ChunkBytes = 2
    OwnLog = 1
    OwnSnapshot = FALSE
    MaxIndex = 4
    MaxFailures = 0
    MaxLocalFailures = 0
    MaxRestarts = 1
    MaxCrashes = 0
INVARIANTS InstalledWhole LiveIndexHonest 
PROPERTIES SnapshotMakesReady
