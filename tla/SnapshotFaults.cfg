SPECIFICATION Spec
CONSTANTS
    Snapshots <- MCOne
    Files <- MCFiles
    ChunkBytes = 2
    OwnLog = 1
    OwnSnapshot = FALSE
    MaxIndex = 4
    MaxFailures = 1
    MaxLocalFailures = 1
    MaxRestarts = 1
    MaxCrashes = 1
INVARIANTS InstalledComplete RejectedKeepsState
