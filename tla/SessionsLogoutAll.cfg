SPECIFICATION Spec
CONSTANTS
    q1 = q1
    q2 = q2
    q3 = q3
    q4 = q4
    u1 = u1
    u2 = u2
    NoRequest = NoRequest
    NoUser = NoUser
    Requests <- MCRequests
    Users <- MCUser
    Mortals <- MCRequests
    Calls <- MCLogouts
SYMMETRY Symmetry
INVARIANT LogoutAllEndsSessions
