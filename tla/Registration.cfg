SPECIFICATION Spec
CONSTANTS
    r1 = r1
    r2 = r2
    r3 = r3
    m = m
    p1 = p1
    p2 = p2
    short = short
    ip = ip
    NoRequest = NoRequest
    Requests <- MCRequests
    Mailboxes = {m}
    Passwords = {p1, p2, short}
    ValidPasswords = {p1, p2}
    Ips = {ip}
    Calls <- MCCalls
SYMMETRY Symmetry
INVARIANTS
    RegInv
    OneAccountPerAddress
    ConflictIsTrue
    CredentialsDecide
