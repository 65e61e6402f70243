SPECIFICATION Spec
CONSTANTS
    BLOCK_MAX_ELEMENTS = 4
    COMPACT_LIST_THRESHOLD_LENGTH = 8
    UINT32_MAX = 99
    Ids <- MCIds
    Positions <- MCPositions
    Others <- MCOthers
INVARIANTS ScanGivesAdded MapFollowsChain BuffersFit SkipsMissNothing SearchesAgree
