\* One run of two sections, batches of two: every attempt_id can be used once.  An answer
\* without claims settles its section as one with claims does.
SPECIFICATION FairSpec
CONSTANTS
    Runs = {r}
    Sections = {a, b}
    MaxBatch = 2
    RetryPlans = {p}
    NoToken = NoToken
    NoPlan = NoPlan
    CapacityShort = TRUE
    Answers = {"claims", "retry", "terminal"}
    Observations = {"nothing", "budget"}
    MaxAttempts = 3
    MaxDrains = 2
INVARIANTS
    TypeOK
    LeaseIsWorkedOn
    OpenAttemptHoldsLease
    ClaimsFromOneAttempt
    CompletionNotMissed
PROPERTIES
    ClaimsFinalWhenEmbedding
    CompletedOnce
    CleanRunCompletes
CHECK_DEADLOCK FALSE
