SPECIFICATION FairSpec
CONSTANTS
    q1 = q1
    q2 = q2
    q3 = q3
    q4 = q4
    u1 = u1
    u2 = u2
    NoRequest = NoRequest
    NoUser = NoUser
    Requests <- MCRequests
    Users <- MCUsers
    Mortals <- MCNone
    Calls <- MCRivals
PROPERTIES
    EveryCallEnds
    StepsAreOwn
