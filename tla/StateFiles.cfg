SPECIFICATION Spec
CONSTANTS
    None = None
    Empty = Empty
    a = a
    m = m
    s = s
    Options <- MCOptions
    Sender = s
    Candidates = {a, s}
    MaxTerm = 1
    MaxStarts = 3
    MaxInstalls = 2
    MaxFaults = 1
CHECK_DEADLOCK FALSE
INVARIANTS OneVoteUnlessForgotten RefusedOnlyWhenDamaged MemberUnlessMoved
PROPERTIES InstallKeepsIdentity
