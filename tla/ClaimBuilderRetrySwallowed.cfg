\* Two sections that may fail; no capacity observation wakes the run.
SPECIFICATION Spec
CONSTANTS
    Runs = {r}
    Sections = {a, b}
    MaxBatch = 2
    RetryPlans = {p}
    NoToken = NoToken
    NoPlan = NoPlan
    CapacityShort = FALSE
    Answers = {"claims", "retry"}
    Observations = {"nothing"}
    MaxAttempts = 4
    MaxDrains = 2
INVARIANT
    RetryableHasCommand
CHECK_DEADLOCK FALSE
