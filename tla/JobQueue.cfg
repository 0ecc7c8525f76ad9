\* Two jobs, two workers, two attempts; one crash and one failing statement.
SPECIFICATION FairSpec
CONSTANTS
    Jobs = {1, 2}
    Workers = {v, w}
    MaxAttempts = 2
    Timeout = 0
    MaxCrashes = 1
    MaxErrors = 1
INVARIANTS
    TypeOK
    ExhaustedIsSettled
    DoneWasHandled
    SoleHandler
PROPERTY
    JobsSettle
CHECK_DEADLOCK FALSE
