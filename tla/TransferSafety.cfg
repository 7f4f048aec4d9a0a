SPECIFICATION Spec
CONSTANTS
    r1 = r1
    r2 = r2
    r3 = r3
    k1 = k1
    k2 = k2
    badKey = badKey
    NoRequest = NoRequest
    NoTx = NoTx
    Requests <- MCRequests
    Accounts <- MCAccounts
    Ids <- MCIds
    Keys <- MCKeys
    ValidKeys <- MCValidKeys
    Commands <- MCCommands
    InitialBalance <- MCInitial
    MaxNumeric = 4
    MaxConns = 2
    MaxAttempts = 2
SYMMETRY Symmetry
INVARIANTS
    IInv
    BalancesMatchBooks
    ExactlyOncePerKey
    AnswersAreTrue
    KeysAreNeverInProgress
    ChargedOnce
    NothingLeaks
    NoDeadlock
