\* One section: every attempt takes position 0.
SPECIFICATION FairSpec
CONSTANTS
    Runs = {r}
    Sections = {a}
    MaxBatch = 1
    RetryPlans = {p}
    NoToken = NoToken
    NoPlan = NoPlan
    CapacityShort = FALSE
    Answers = {"claims", "retry"}
    Observations = {"nothing", "reset"}
    MaxAttempts = 3
    MaxDrains = 2
PROPERTY
    RetryIsAttempted
CHECK_DEADLOCK FALSE
