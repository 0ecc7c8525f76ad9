\* Two items of two runs on two routes of one request each, one drain.
SPECIFICATION Spec
CONSTANTS
    x = x
    y = y
    r = r
    q = q
    Routes = {x, y}
    NoRoute = NoRoute
    Runs = {r, q}
    Attempts = {1, 2}
    Drains = {d}
    RunOf <- MCRunOf
    Need <- MCNeed
    Requests <- MCRequests
    Tokens <- MCNarrow
    Accounts <- MCShared
    TTL = 1
    Batch = 2
    Observations <- MCSilent
    NoCommand = NoCommand
    MaxTime = 0
INVARIANT
    DueHasWakeup
CHECK_DEADLOCK FALSE
