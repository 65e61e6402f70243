SPECIFICATION FairSpec
CONSTANTS
    a = a
    b = b
    f = f
    g = g
    h = h
    None = None
    Ids = {a, b}
    Fields = {f, g, h}
    Stripe <- MCStripe
    Adders = {t1, t2}
    Removers = {d1, d2}
    Ops <- MCOps
    Filters = {f}
    RemoveMax = 1
    Serial = {TRUE, FALSE}
    MaxSeq = 6
    MaxCalls = 3
    MaxFaults = 1
    MaxCrashes = 1
CHECK_DEADLOCK FALSE
INVARIANTS UpdatesKept IdsResolve IndexMatchesStore ReplayUnlessLate
PROPERTIES EveryCallReturns
