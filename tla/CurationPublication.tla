------------------------ MODULE CurationPublication ------------------------
(***************************************************************************)
(* The last phases of one knowledge extraction run: the review of its      *)
(* final claims and their publication, with the requests of users that     *)
(* interfere: pause, resume, opening the workspace, excluding claims,      *)
(* publishing and deleting the document.                                   *)
(*                                                                         *)
(* Drains run the commands RECONCILE, OPEN and PUBLISH of the command log, *)
(* each in one transaction.  Some requests are one transaction too (pause, *)
(* resume, delete), others send single statements on the pool (open,       *)
(* exclude, the second half of publish).  At READ COMMITTED a transaction  *)
(* acts on rows it read earlier; txn keeps what each has read.             *)
(***************************************************************************)
EXTENDS FiniteSets, Naturals, Sequences

Log == INSTANCE CommandLog

CONSTANTS
    Nodes,   \* final compacted nodes of the run
    Drains,  \* transactions that drain commands: poll loop and HTTP requests
    Users,   \* HTTP requests
    Run,     \* workflow_run_id
    Migrated \* TRUE when migration 077 has renamed the column fact_registry_id

ASSUME NodesAssumption == Nodes # {} /\ IsFiniteSet(Nodes)
ASSUME ActorsAssumption == Drains \cap Users = {}
ASSUME MigratedAssumption == Migrated \in BOOLEAN

VARIABLES
    document,    \* is there a knowledge_workbench_documents row
    run,         \* row of knowledge_extraction_workflow_runs
    workspace,   \* draft_claim_curation_workspaces
    items,       \* Nodes -> row of draft_claim_curation_items
    publication, \* is there a knowledge_workbench_runtime_publications row
    surface,     \* nodes with an active runtime retrieval entry
    log,         \* the command log
    txn,         \* Drains and Users -> transaction or request in progress
    torn         \* history: an HTTP open ended before its last item

rows == <<document, run, workspace, items, publication, surface, log>>
vars == <<rows, txn, torn>>

Actors == Drains \cup Users

-----------------------------------------------------------------------------
(* Rows                                                                    *)

Statuses == {"RUNNING", "PAUSED", "WAITING_FOR_REVIEW", "COMPLETED"}

\* ref: publication_ref is set.
Row == [status : Statuses \cup {"absent"}, ref : BOOLEAN]

NoRun == [status |-> "absent", ref |-> FALSE]

Keys == {"reconcile", "open", "publish"}

\* list_pending_commands orders by run_after: a command is due no later than those
\* it causes, and PUBLISH when it is requested.
Order == <<"reconcile", "open", "publish">>

Steps == {"idle", "reconcile", "open", "publish", "embedding", "replaying",
          "pausing", "resuming", "inserting", "filling", "requested",
          "deleting", "waiting"}

\* loaded: the run it read.  seen: it found the row it looked for (OPEN and DELETE: a
\* workspace, PUBLISH: a published one).  nodes: the items it publishes, inserts or
\* deletes.  keys: the commands it has locked or deletes.
Txn == [step : Steps, loaded : Row, seen : BOOLEAN, nodes : SUBSET Nodes, keys : SUBSET Keys]

Idle == [step |-> "idle", loaded |-> NoRun, seen |-> FALSE, nodes |-> {}, keys |-> {}]

TypeOK ==
    /\ document \in BOOLEAN
    /\ run \in Row
    /\ workspace \in {"none", "draft", "published"}
    /\ items \in [Nodes -> {"absent", "included", "excluded"}]
    /\ publication \in BOOLEAN
    /\ surface \in SUBSET Nodes
    /\ DOMAIN log \subseteq Keys
    /\ log \in [DOMAIN log -> Log!CommandRow({Run}, {{}})]
    /\ txn \in [Actors -> Txn]
    /\ torn \in BOOLEAN

\* The APPLY that compacted the last group has committed, with its RECONCILE.
Init ==
    /\ document = TRUE
    /\ run = [status |-> "RUNNING", ref |-> FALSE]
    /\ workspace = "none"
    /\ items = [n \in Nodes |-> "absent"]
    /\ publication = FALSE
    /\ surface = {}
    /\ log = [k \in {"reconcile"} |-> [run |-> Run, done |-> FALSE, payload |-> {}]]
    /\ txn = [a \in Actors |-> Idle]
    /\ torn = FALSE

Is(a, step) == txn[a].step = step

Included == {n \in Nodes : items[n] = "included"}

\* FOR UPDATE by a drain, or a DELETE that has not committed.
Locked(k) == \E a \in Actors : k \in txn[a].keys

Deleting(u) == txn[u].step \in {"deleting", "waiting"}

\* The rows of the workspace and its items are deleted and not committed: whoever
\* writes them waits, or is aborted with the deleter waiting for it in turn.
Doomed == \E u \in Users : Deleting(u) /\ txn[u].seen

\* Whoever writes rows that hang on the workspace.
Writable == ~Doomed

End(a) == txn' = [txn EXCEPT ![a] = Idle]

-----------------------------------------------------------------------------
(* Draining a command                                                      *)

\* Mutation: OPEN takes the workspace for granted.
Finds_Always(k) == k = "open"

Finds(k) == k = "open" /\ workspace # "none"

\* The run is read, and one pending command locked: FOR UPDATE SKIP LOCKED, LIMIT 1.
\* A paused run is not drained.  For OPEN, whether there is a workspace.
Take(d, k) ==
    /\ Is(d, "idle")
    /\ k \in Log!Pending(log) /\ ~Locked(k)
    /\ \E i \in DOMAIN Order :
           /\ k = Order[i]
           /\ \A j \in 1..(i - 1) : Order[j] \in Log!Pending(log) => Locked(Order[j])
    /\ run.status \notin {"absent", "PAUSED"}
    /\ txn' = [txn EXCEPT ![d] =
           [step |-> k, loaded |-> run, seen |-> Finds(k),
            nodes |-> {}, keys |-> {k}]]
    /\ UNCHANGED <<rows, torn>>

\* The transaction of a drain that ran its command.
Done(d) ==
    /\ log' = Log!Complete(log, CHOOSE k \in txn[d].keys : TRUE)
    /\ End(d)

\* All groups are compacted.
CommitReconcile(d) ==
    /\ Is(d, "reconcile")
    /\ log' = Log!Complete(Log!Append(log, "open", Run, {}), "reconcile")
    /\ End(d)
    /\ UNCHANGED <<document, run, workspace, items, publication, surface, torn>>

\* Mutation: the final nodes are read one page short.
Filled_Page ==
    [n \in Nodes |-> IF items[n] = "absent" /\ n # (CHOOSE x \in Nodes : TRUE)
                     THEN "included" ELSE items[n]]

\* create_workspace, items: ON CONFLICT DO NOTHING.
Filled == [n \in Nodes |-> IF items[n] = "absent" THEN "included" ELSE items[n]]

\* OPEN writes the whole row of the run it read, whatever it is now.
CommitOpen(d) ==
    /\ Is(d, "open")
    /\ IF txn[d].seen
       THEN UNCHANGED <<workspace, items>>
       ELSE /\ Writable
            /\ workspace' = IF workspace = "none" THEN "draft" ELSE workspace
            /\ items' = Filled
    /\ run' = [txn[d].loaded EXCEPT !.status = "WAITING_FOR_REVIEW"]
    /\ Done(d)
    /\ UNCHANGED <<document, publication, surface, torn>>

\* Mutation: a published workspace is published again.
Replays_Never == FALSE

\* DraftClaimCurationWorkspaceStatus.PUBLISHED: the result is replayed.
Replays == workspace = "published"

\* Mutation: a workspace without publishable items is published.
Publishable_Any == workspace # "none"

\* Otherwise the workspace exists and has an item that is not excluded.
Publishable == workspace # "none" /\ Included # {}

Readable == Replays \/ Publishable

\* get_workspace_by_workflow_run_id, then the embeddings of what is included.
ReadToPublish(a) ==
    /\ Readable
    /\ txn' = [txn EXCEPT
           ![a].step  = IF Replays THEN "replaying" ELSE "embedding",
           ![a].seen  = workspace = "published",
           ![a].nodes = IF Replays THEN {} ELSE Included]
    /\ UNCHANGED <<rows, torn>>

\* publish_curated_claims: facts reference the document, and a workspace that is
\* gone is not marked.  The INSERT of the registry names fact_registry_id: once
\* the column is registry_id it raises, and the transaction is rolled back.
Publish(a) ==
    /\ ~Migrated
    /\ document
    /\ Writable
    /\ publication' = TRUE
    /\ surface' = surface \cup txn[a].nodes
    /\ workspace' = IF workspace = "none" THEN "none" ELSE "published"

Read(d) == Is(d, "publish") /\ ReadToPublish(d)

\* PUBLISH completes the run it read, also when the publication is a replay.
CommitPublish(d) ==
    /\ \/ Is(d, "embedding") /\ Publish(d)
       \/ Is(d, "replaying") /\ UNCHANGED <<workspace, publication, surface>>
    /\ run' = [status |-> "COMPLETED", ref |-> TRUE]
    /\ Done(d)
    /\ UNCHANGED <<document, items, torn>>

\* The process dies, a statement or the handler raises, or a deadlock is broken.
Abort(d) ==
    /\ ~Is(d, "idle")
    /\ End(d)
    /\ UNCHANGED <<rows, torn>>

-----------------------------------------------------------------------------
(* Requests of users                                                       *)

Begin(u, t) ==
    /\ Is(u, "idle")
    /\ txn' = [txn EXCEPT ![u] = t]
    /\ UNCHANGED <<rows, torn>>

\* Mutation: terminal runs can be paused.
Pausable_Any(status) == status \notin {"absent", "PAUSED"}

\* _is_terminal.
Pausable(status) == status \notin {"absent", "PAUSED", "COMPLETED"}

LoadToPause(u) ==
    Pausable(run.status) /\ Begin(u, [Idle EXCEPT !.step = "pausing", !.loaded = run])

LoadToResume(u) ==
    run.status = "PAUSED" /\ Begin(u, [Idle EXCEPT !.step = "resuming", !.loaded = run])

\* Mutation: the status of the result is stored.
SavedStatus_Result(u) == IF Is(u, "pausing") THEN "manually_paused" ELSE "running"

SavedStatus(u) == IF Is(u, "pausing") THEN "PAUSED" ELSE "RUNNING"

\* save_workflow_state: every column, of the row that was read.
SaveRun(u) ==
    /\ txn[u].step \in {"pausing", "resuming"}
    /\ run' = [txn[u].loaded EXCEPT !.status = SavedStatus(u)]
    /\ End(u)
    /\ UNCHANGED <<document, workspace, items, publication, surface, log, torn>>

\* Open: the nodes are read; what follows is one statement each, not a transaction.
ReadToOpen(u) ==
    /\ run.status # "absent" /\ workspace = "none"
    /\ Begin(u, [Idle EXCEPT !.step = "inserting", !.nodes = Nodes])

InsertWorkspace(u) ==
    /\ Is(u, "inserting") /\ Writable
    /\ workspace' = IF workspace = "none" THEN "draft" ELSE workspace
    /\ txn' = [txn EXCEPT ![u].step = "filling"]
    /\ UNCHANGED <<document, run, items, publication, surface, log, torn>>

\* An item references its workspace.
InsertItem(u, n) ==
    /\ Is(u, "filling") /\ n \in txn[u].nodes
    /\ workspace # "none" /\ Writable
    /\ items' = [items EXCEPT ![n] = IF @ = "absent" THEN "included" ELSE @]
    /\ txn' = [txn EXCEPT ![u] =
           IF txn[u].nodes = {n} THEN Idle ELSE [txn[u] EXCEPT !.nodes = @ \ {n}]]
    /\ UNCHANGED <<document, run, workspace, publication, surface, log, torn>>

\* Exclude and include, at any status of the workspace.
SetExcluded(u, n, excluded) ==
    /\ Is(u, "idle")
    /\ run.status # "absent" /\ workspace # "none" /\ items[n] # "absent" /\ Writable
    /\ items' = [items EXCEPT ![n] = IF excluded THEN "excluded" ELSE "included"]
    /\ UNCHANGED <<document, run, workspace, publication, surface, log, txn, torn>>

\* Publish: the command is appended, and then drained like any other.
RequestPublish(u) ==
    /\ Is(u, "idle")
    /\ run.status # "absent"
    /\ log' = Log!Append(log, "publish", Run, {})
    /\ txn' = [txn EXCEPT ![u].step = "requested"]
    /\ UNCHANGED <<document, run, workspace, items, publication, surface, torn>>

\* When nothing is left to drain, or to drain by this request, it publishes itself.
DirectRead(u) ==
    /\ Is(u, "requested")
    /\ run.status # "absent"
    /\ \A k \in Log!Pending(log) : Locked(k)
    /\ ReadToPublish(u)

\* In a transaction of its own, which does not write the run.
DirectCommit(u) ==
    /\ \/ Is(u, "embedding") /\ Publish(u)
       \/ Is(u, "replaying") /\ UNCHANGED <<workspace, publication, surface>>
    /\ End(u)
    /\ UNCHANGED <<document, run, items, log, torn>>

\* delete_document_run, first half: entries, workspace and items.
DeleteRows(u) ==
    /\ document
    /\ \A v \in Users : ~Deleting(v)
    /\ Begin(u, [Idle EXCEPT !.step = "deleting", !.seen = workspace # "none", !.nodes = surface])

\* The commands: those its statement sees.
DeleteCommands(u) ==
    /\ Is(u, "deleting")
    /\ txn' = [txn EXCEPT ![u].step = "waiting", ![u].keys = DOMAIN log]
    /\ UNCHANGED <<rows, torn>>

\* Mutation: the rows of the document do not cascade.
Cascaded_OwnRows(u) == surface \ txn[u].nodes

\* Facts reference the document ON DELETE CASCADE, and entries their fact.
Cascaded(u) == {}

\* The drains that had locked commands have ended; the rest is deleted and all of it
\* committed.  No statement matches the publication.
DeleteRest(u) ==
    /\ Is(u, "waiting")
    /\ \A d \in Drains : txn[d].keys \cap txn[u].keys = {}
    /\ document' = FALSE
    /\ run' = NoRun
    /\ workspace' = IF txn[u].seen THEN "none" ELSE workspace
    /\ items' = IF txn[u].seen THEN [n \in Nodes |-> "absent"] ELSE items
    /\ surface' = Cascaded(u)
    /\ log' = [k \in DOMAIN log \ txn[u].keys |-> log[k]]
    /\ End(u)
    /\ UNCHANGED <<publication, torn>>

\* A request ends early: its process dies, a statement raises, the drain it ran was
\* blocked, or it is the one chosen to break a deadlock.
Die(u) ==
    /\ ~Is(u, "idle")
    /\ torn' = (torn \/ Is(u, "filling"))
    /\ End(u)
    /\ UNCHANGED rows

-----------------------------------------------------------------------------
Commit(d) == CommitReconcile(d) \/ CommitOpen(d) \/ CommitPublish(d)

Drain(d) ==
    \/ \E k \in Keys : Take(d, k)
    \/ Read(d)
    \/ Commit(d)
    \/ Abort(d)

Request(u) ==
    \/ LoadToPause(u)
    \/ LoadToResume(u)
    \/ SaveRun(u)
    \/ ReadToOpen(u)
    \/ InsertWorkspace(u)
    \/ \E n \in Nodes : InsertItem(u, n) \/ \E excluded \in BOOLEAN : SetExcluded(u, n, excluded)
    \/ RequestPublish(u)
    \/ DirectRead(u)
    \/ DirectCommit(u)
    \/ DeleteRows(u)
    \/ DeleteCommands(u)
    \/ DeleteRest(u)
    \/ Die(u)

Next == (\E d \in Drains : Drain(d)) \/ (\E u \in Users : Request(u))

Spec == Init /\ [][Next]_vars

\* The poll loop comes back to a command that is due, and no transaction stays open.
\* A step that is possible again and again, whatever rolled it back before, is taken:
\* strong, because each rollback and each other drain disables it.  A commit whose
\* statement raises every time is never possible, and nothing is assumed of it.
FairSpec ==
    /\ Spec
    /\ \A d \in Drains :
           /\ SF_vars(\E k \in Keys : Take(d, k))
           /\ SF_vars(Read(d))
           /\ SF_vars(Commit(d))
           /\ WF_vars(Abort(d))

-----------------------------------------------------------------------------
(* Safety                                                                  *)

\* A run that waits for review has a workspace to review, whoever created it.
ReviewHasWorkspace ==
    document /\ run.status = "WAITING_FOR_REVIEW" => workspace # "none"

\* A completed run is published and has something to retrieve: PUBLISH "atomically
\* writes" the surface "before the workflow is marked completed", though a replay
\* relies on what another transaction wrote.
CompletedIsPublished ==
    document /\ run.status = "COMPLETED" =>
        /\ run.ref
        /\ publication
        /\ workspace = "published"
        /\ surface # {}

\* A workspace holds an item for every final node, unless an HTTP open ended half-way:
\* nothing adds the missing items later.
WorkspaceIsComplete ==
    (workspace # "none" /\ ~torn /\ \A u \in Users : ~Is(u, "filling"))
    => \A n \in Nodes : items[n] # "absent"

\* Nothing of a deleted document can be retrieved, also when it was published
\* while it was being deleted.
DeletedIsNotRetrievable == ~document => surface = {}

-----------------------------------------------------------------------------
(* Steps                                                                   *)

\* What is published stays: only a publication that read the draft, before another was
\* committed, still writes, and it adds what was included then; nothing is withdrawn.
PublishedSurfaceIsFinal ==
    [][ workspace = "published" /\ document' =>
            \/ surface' = surface
            \/ \E a \in Actors : /\ Is(a, "embedding") /\ ~txn[a].seen
                                /\ surface' = surface \cup txn[a].nodes ]_vars

\* A completed run stays completed, but for deletion, an OPEN that runs after PUBLISH,
\* and a pause or resume that read the run before it was completed.
CompletedIsKept ==
    [][ run.status = "COMPLETED" /\ run'.status # "COMPLETED" =>
            \/ run'.status = "absent"
            \/ run'.status = "WAITING_FOR_REVIEW" /\ \E d \in Drains : Is(d, "open")
            \/ \E u \in Users : /\ txn[u].step \in {"pausing", "resuming"}
                                /\ txn[u].loaded.status # "COMPLETED" ]_vars

-----------------------------------------------------------------------------
(* What the documents ask for and the code does not keep                   *)

\* 0001-durable-capacity-window-workflow-runtime: "Publication is requested through
\* the command log and atomically writes the canonical facts [...] before the workflow
\* is marked completed".  A PUBLISH that is pending is completed, unless the run is
\* paused, nothing is included, or the document is deleted or being deleted: a deletion
\* and a drain may abort each other.  Under the migrated schema every drain of it is
\* rolled back.
RequestIsCompleted ==
    "publish" \in Log!Pending(log) ~>
        \/ "publish" \in DOMAIN log /\ log["publish"].done
        \/ run.status \in {"PAUSED", "absent"}
        \/ Included = {}
        \/ ~document \/ \E u \in Users : Deleting(u)

=============================================================================
