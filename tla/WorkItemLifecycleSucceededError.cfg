\* One compaction item and a lease that expires before the result is applied.
SPECIFICATION Spec
CONSTANTS
    Items = {b}
    SeparateApply = {b}
    Slots = {0, 1}
    RetryPlans = {p}
    NoToken = NoToken
    NoPlan = NoPlan
    LeaseTTL = 1
    MaxDelay = 1
    MaxTime = 2
    MaxAttempts = 2
INVARIANT
    SucceededHasNoError
CHECK_DEADLOCK FALSE
