\* One job, two workers: both recoveries read the same stale lock.
SPECIFICATION Spec
CONSTANTS
    Jobs = {1}
    Workers = {v, w}
    MaxAttempts = 2
    Timeout = 1
    MaxCrashes = 0
    MaxErrors = 1
PROPERTY
    ReleasedOnlyWhenStale
CHECK_DEADLOCK FALSE
