\* Two runs of one section each.
SPECIFICATION Spec
CONSTANTS
    Runs = {r, q}
    Sections = {a}
    MaxBatch = 1
    RetryPlans = {p}
    NoToken = NoToken
    NoPlan = NoPlan
    CapacityShort = FALSE
    Answers = {"claims", "retry"}
    Observations = {"nothing"}
    MaxAttempts = 4
    MaxDrains = 2
INVARIANT
    LeaseWithinRun
CHECK_DEADLOCK FALSE
