\* One node, one drain and a user, on the schema the migrations leave.
SPECIFICATION FairSpec
CONSTANTS
    Nodes = {m}
    Drains = {d}
    Users = {u}
    Run = r
    Migrated = TRUE
PROPERTY
    RequestIsCompleted
CHECK_DEADLOCK FALSE
