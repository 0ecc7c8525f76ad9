\* Two nodes, two drains and a request at a time, on the schema the statements are
\* written for: the migrated one only has fewer commits.
SPECIFICATION Spec
CONSTANTS
    Nodes = {m, n}
    Drains = {d, e}
    Users = {u}
    Run = r
    Migrated = FALSE
INVARIANTS
    TypeOK
    ReviewHasWorkspace
    CompletedIsPublished
    WorkspaceIsComplete
    DeletedIsNotRetrievable
PROPERTIES
    PublishedSurfaceIsFinal
    CompletedIsKept
CHECK_DEADLOCK FALSE
