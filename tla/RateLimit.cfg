SPECIFICATION Spec
CONSTANTS
    c1 = c1
    c2 = c2
    c3 = c3
    a = a
    Checks <- MCChecks
    Ids <- MCIds
    NumScales = 2
    Length <- MCLength
    Limit <- MCLimit
    Slack = 1
    MaxLag = 1
    MaxSends = 2
    MaxTime = 3
SYMMETRY Symmetry
CONSTRAINT EarlyEnough
INVARIANTS
    RInv
    SlidingWindow
    PaidOncePerWindow
    RefusalsAreDeserved
