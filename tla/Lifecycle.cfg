SPECIFICATION FairSpec
CONSTANTS
    h1 = h1
    h2 = h2
    Unset = Unset
    Garbage = Garbage
    Environments <- MCEnvironments
    Second = 3
    Requests <- MCRequests
INVARIANTS
    LInv
    ExitsAreTrue
    StartedConfigFits
    TokensFit
PROPERTIES
    SignalsNeverCutShort
    ProcessEnds
