\* One claim-builder item and one compaction item, two batch positions, two leases each.
SPECIFICATION FairSpec
CONSTANTS
    Items = {a, b}
    SeparateApply = {b}
    Slots = {0, 1}
    RetryPlans = {p}
    NoToken = NoToken
    NoPlan = NoPlan
    LeaseTTL = 1
    MaxDelay = 1
    MaxTime = 3
    MaxAttempts = 2
INVARIANTS
    TypeOK
    OpenAttemptHoldsLease
    AttemptsMatchLeases
    AppliedOnceByLastAttempt
PROPERTIES
    OutcomeIsFinal
    ActiveLeaseIsSafe
    SettledIsFinal
    ExpiredLeaseEnds
    ImplementsStateMachine
CHECK_DEADLOCK FALSE
