SPECIFICATION Spec
CONSTANTS
    t1 = t1
    t2 = t2
    t3 = t3
    t4 = t4
    anna = anna
    boris = boris
    clara = clara
    Transfers <- MCTransfers
    Row <- MCRow
    Owner = anna
    Limits <- MCLimits
    Calls <- MCCalls
    DayLength = 2
    MaxTime = 2
    Unset = Unset
    Garbage = Garbage
CHECK_DEADLOCK FALSE
INVARIANTS
    HInv
    WalkIsComplete
    TotalIsCovered
    QuietWalkIsExact
    RepliesAreTrue
