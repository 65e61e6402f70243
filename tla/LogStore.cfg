SPECIFICATION Spec
CONSTANTS
    Entry = {a, b}
    MaxIndex = 4
    NoIndex = NoIndex
INVARIANTS Contiguous RestartStable HolesOnlyWhereCompacted
