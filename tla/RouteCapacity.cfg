\* Two items of two runs on two routes of one request each, two drains.
SPECIFICATION FairSpec
CONSTANTS
    x = x
    y = y
    r = r
    q = q
    Routes = {x, y}
    NoRoute = NoRoute
    Runs = {r, q}
    Attempts = {1, 2}
    Drains = {d, e}
    RunOf <- MCRunOf
    Need <- MCNeed
    Requests <- MCRequests
    Tokens <- MCTokens
    Accounts <- MCAccounts
    TTL = 1
    Batch = 2
    Observations <- MCObserved
    NoCommand = NoCommand
    MaxTime = 1
INVARIANTS
    TypeOK
    RequestsWithinWindow
    TokensWithinWindow
    NoCircularWait
PROPERTY
    PrepareEnds
CHECK_DEADLOCK FALSE
