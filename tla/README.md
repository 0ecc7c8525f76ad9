# TLA+ specifications of the CRM bot's knowledge extraction runtime

The program (`src/src`) is a CRM assistant. Its core is a durable runtime that
takes a document through knowledge extraction with language models: units of
work are kept in Postgres, leased, executed by a provider call, recorded, and
reconciled into the next command of a saga. Many transactions of several
processes do this at once and any of them may die; they share the capacity of the
provider's routes, and at the end of a run they meet the requests of users who
review and publish its claims. Beside it a smaller queue runs background jobs.
These machines are what a unit test hardly reaches and what the modules here
describe. Paths below are relative to the repository.

## Inventory

| Component | State it keeps | Operations | Interacts with | What is hard | What makes it correct |
|---|---|---|---|---|---|
| Execution Runtime, domain (`contexts/execution_runtime/domain`, `application/use_cases`) | a work item: status, attempt count, lease, retry plan | lease, complete, fail, release, reclaim, cancel, supersede, user action | used by every repository below | transitions are legal only from some statuses | terminal statuses are final; only a leased item carries a lease |
| Execution Runtime, Postgres store (`infrastructure/postgres`) | `execution_work_items`, `execution_work_item_attempts`, `..._attempt_dispatches` | schedule, lease by id, start an attempt, record an outcome, complete after the domain applied, reclaim expired leases | called inside the transactions of the sagas and by the poll loop | provider calls outlast leases; recovery runs beside drains | a result is applied once, by the last attempt; a recorded outcome is final |
| Workflow Runtime (`contexts/workflow_runtime`) | command log, outbox, cursors, timeline, progress snapshots | append by idempotency key, complete, fail, reschedule | every saga handler | an append whose key is taken silently hands back the old command | completed commands do not run again; nothing waits without a command |
| Claim-builder extraction (`knowledge_workbench/.../handle_*claim_builder*`) | one work item per section, draft claims, retry actions in the outbox | PREPARE, EXECUTE, RECONCILE, capacity wakeups | store, command log, capacity windows | drains of one run in parallel; each decides on what it read | claims come from one attempt; the end of the phase is noticed |
| Draft claim compaction | groups, reduction tree, admission projection | PREPARE via the admission queue, EXECUTE, APPLY | store, admission queue | the result is applied by a later command than the one that recorded it | as above, over two commands |
| Capacity reservations, LLM runtime (`contexts/llm_runtime`) | `llm_route_capacity_reservations` | lock a route, read its totals, reserve, finalise | PREPARE, EXECUTE | count and insert are separate statements; the time of a PREPARE is older than its locks; several locks per transaction | reservations never exceed the window of a route; no PREPARE waits for ever; what is due has a command |
| Capacity admission queue | projections and lanes, lane claims | admit, claim a lane | compaction | lane claims expire while in use | not modelled |
| Drains and the poll loop (`interfaces/composition/knowledge_extraction_workflow_*`) | none of their own | one transaction per command, recovery on each poll | everything above | a crash rolls back, the command stays pending | progress without an open browser |
| Background job queue (`infrastructure/queue`, `queue_repository.py`) | `execution_queue` | enqueue, claim, complete, fail, release stale locks | notification and metrics handlers | every statement commits on its own; late writers | no job is lost; an exhausted job stays down |
| Curation and publication (`knowledge_workbench/curation`, the OPEN and PUBLISH sagas, `interfaces/http/knowledge.py`) | the run, its workspace and items, publication, facts and retrieval entries | open, exclude, publish, pause, resume, delete | drains and HTTP requests, command log | requests write between the reads and the writes of a drain; some are no transaction | a completed run is published; a published surface stays; nothing of a deleted document is found |
| RAG evaluation, retrieval | evaluation queue | queries | published entries | read-only | not modelled |
| Conversation orchestration (`application/orchestration`, `infrastructure/redis`) | threads, a Redis lock per thread | process a message, reply | agent graph, queue | the lock has a TTL and no owner | later |
| HTTP, Telegram, realtime, frontend, adapters | none that decides | I/O and presentation | | | not modelled |

`PROJECT.json` lists the hazards of this code at the lines where they bite.

## Modules

```
WorkItems ---------- WorkItemStateMachine      abstract: what the domain allows
    |                        ^ implements
    +--------------- WorkItemLifecycle ------- WorkItemLifecycle_proofs
    |
    +-- CommandLog - ClaimBuilderPipeline ---- ClaimBuilderPipeline_proofs
            |        composes store and command log
            +------- RouteCapacity ----------- RouteCapacity_proofs
            |             +------------------- MCRouteCapacity
            +------- CurationPublication ----- CurationPublication_proofs
                     JobQueue ---------------- JobQueue_proofs
```

**WorkItems** holds the row of a work item and the transitions of
`WorkItemStateMachine` as pure operators. A lease token is a pair (slot, item):
both dispatch preparations build it from the run, the position in the batch and
the item, and use the same text as attempt_id.

**WorkItemStateMachine** is the abstract specification: any transition of the
domain layer, on any item, at any time its own guard allows. It includes
transitions that no production code calls (cancel, user action, release, split).

**WorkItemLifecycle** is the Postgres store. An action is one repository
operation, or those that always share a transaction:

| Action | Code |
|---|---|
| `Schedule` | `ensure_work_items_scheduled.py` |
| `LeaseAndStart` | `lease_due_work_item_by_id`, then `start_llm_admitted_work_item_attempts.py` |
| `BeginCall` ... `RecordSuccess`, `RecordAndApply`, `RecordRetryable`, `RecordTerminal`, `AbandonCall` | `execute_prepared_llm_dispatch_attempt.py`: the outcome is looked up, the provider works with the transaction open, the lease is validated afterwards and the outcome recorded |
| `ApplyResult` | `complete_work_item_after_domain_apply`, from a later command |
| `ReclaimExpired` | `postgres_expired_lease_recovery_repository.py` |
| `Tick` | the clock |

The UPDATE that leases an item keeps the `retry_plan` of its last failure in the
row while the domain entity has none; `Hydrated` is the refinement mapping that
forgets it, as `_hydrate_work_item` does.

**CommandLog** gives the operators of the command log: `Append` is ON CONFLICT
DO NOTHING on the idempotency key, and `Clash` is the comparison that raises.

**ClaimBuilderPipeline** composes both. PREPARE is one step; EXECUTE and
RECONCILE are two, because other transactions commit while the provider works
and after the progress was read. A handler that raises leaves only the pending
command. What it abstracts, deliberately:

* No clock. Leases are dated from the command's `run_after`, which may be long
  past, so any lease may be found expired at any time.
* Capacity arithmetic: a PREPARE starts any batch up to `MaxBatch`, failed items
  first as `peek_due_work_items` orders them. A PREPARE that finds every window
  closed replaces itself by a later one: here it waits. `CapacityShort` admits
  the PREPARE that starts nothing although items are due and is completed without a
  command (what RouteCapacity shows in `route_stranded`); `short` is history and
  records the runs it happened to.
* The dispatch preparation is reduced to one flag, `window`: RECONCILE carries it
  into the next PREPARE, and two payloads under one key that differ in it clash.
* The content of claims, and validation and retry metadata, are an answer:
  claims, nothing, a retryable or a terminal failure.
* The capacity-queue route for this phase is switched off by the dispatch
  ownership policy; the direct route is modelled.
* A failed answer takes the retry plan of its row; that a later failure without a
  plan would write NULL over it is not told apart.
* Pausing a workflow, the order in which pending commands are picked, SPLIT
  (which has no producer) and the later phases are left out here;
  CurationPublication has the first two.

**RouteCapacity** takes one PREPARE of the claim builder apart: `Begin` takes a
command and a time, `LockRoute` and `ReadRoute` walk the routes of its payload
(`_direct_capacity_windows`), `Peek` reads the due items, `Admit` and `Skip`
decide on each, `Commit` writes leases and reservations, the follow-up commands
and wakeups. `Finish` ends the call of a reserved attempt.

* There is one clock. `occurred_at` is any time up to the present, because it is
  read from the command before the transaction waits for a lock.
* The end of a call and the RECONCILE after it are one step; ClaimBuilderPipeline
  takes them apart. An item is attempted once.
* The payload of a command is the routes of its `llm_dispatch_preparation` and a flag.
  A run starts with its configured routes; an answer whose reset time is known leaves a
  wakeup for the observed route alone (`WindowOnly`), and whatever follows from that
  wakeup keeps the narrow payload. Then the window offers what the provider said is
  left, one at least (`Offered`). That this is at most the configured limit is an
  assumption about the provider; the code does not cap it.
  Each answer has a wakeup of its own; in the code two answers with one route and one
  reset time share it.
* Payloads keep the order of their accounts, so that two PREPAREs lock in the
  same order. Postgres would break a deadlock of orders that differ by aborting
  one; the model has no deadlock detection, and `PrepareEnds` shows it needs none.
* The tokens of a set of reservations are the cardinality of the set of single
  tokens they ask for, so that sums need no recursion and can be proved about.
* Of the minute and daily limits of a route one pair is kept, requests and
  tokens; each pair is counted in the same way. The admission pass of the capacity queue, which repeats this
  arithmetic for the compaction, is not modelled.

**CurationPublication** is the end of a run. A transaction of a drain is `Take`
(lock a command, read what the handler decides on) and one of `CommitReconcile`,
`CommitOpen`, `Read` and `CommitPublish`; in between anything may commit, since the
database runs at READ COMMITTED and the run is read without a lock.

| Action | Code |
|---|---|
| `Take`, `Abort` | `drain_knowledge_extraction_workflow_commands.py:255`, the transaction in `knowledge_extraction_workflow_resume.py:486` |
| `CommitReconcile`, `CommitOpen`, `Read`, `CommitPublish` | the handlers of the three commands |
| `LoadToPause`, `LoadToResume`, `SaveRun` | `pause_...`, `resume_knowledge_extraction_workflow.py`, `save_workflow_state` |
| `ReadToOpen`, `InsertWorkspace`, `InsertItem` | the HTTP open, statement by statement on the pool |
| `SetExcluded` | exclude and include |
| `RequestPublish`, `DirectRead`, `DirectCommit` | the HTTP publish: append, drain, then publish once more |
| `DeleteRows`, `DeleteCommands`, `DeleteRest` | `delete_document_run`, split where it locks what others hold |
| `Die` | a request that ends early |

* A drained handler reads the run twice, for the pause and in the handler; both
  reads are `Take`. The check that the run exists and the append of PUBLISH are
  one step.
* RECONCILE decides ALL_GROUPS_COMPACTED: the model begins when that holds.
* Of an item only its exclusion is kept; the edit of its text is left out.
* The statements that publish name the column `fact_registry_id` of migration
  070; migration 077 renames it to `registry_id`. With `Migrated` no publication
  commits (`Publish` is never enabled), its transaction ends in `Abort`, and no run is
  ever completed: this is the program as the migrations leave it (`never_published`).
  The safety run takes `Migrated = FALSE`, the schema the statements are written for,
  because there the interesting commits exist; the migrated system has a part of its
  behaviours only, and what is proved holds for both.

**JobQueue** is `execution_queue` with the worker loop: each SQL statement is an
action, since each commits on its own. The age of a lock counts up to the first
value beyond the timeout, which keeps the model finite without stopping the
clock. `retry_delay_seconds` is accepted by `fail_job` and not used; neither is
`worker_id` when a result is written. `handled` and `wasStale` are history.

The definitions whose names end in `_Something` after the name of another
definition are mutations of it, plausible mistakes used to show that each
property notices one.

## Runs

| Run | Configuration | What it shows |
|---|---|---|
| `work_item_store` | two items (one applied with its outcome, one later), two leases each, clock to 3, TTL 1, a dating lag of 1 | fencing of late answers, recoveries and applies; leases end; the store implements the state machine |
| `claim_builder` | one run, two sections, batches of two, three attempts, two drains at once, claims or either failure as answers, `budget` wakeups, PREPAREs that fit nothing (`CapacityShort = TRUE`) | claims from one attempt, completion noticed, phase change once; a run without a failed attempt and without such a PREPARE completes |
| `job_queue` | two jobs, two workers, two attempts, timeout 0, one crash, one failing statement | no job lost, exhausted jobs down, sharing only after a stale lock |
| `route_capacity` | two items of two runs, two routes of one request each, two drains, TTL 1, one tick; the answer to the first item may tell of a reset, the second tells what is left | requests and tokens stay within the window, waiting for routes never closes a circle, every PREPARE ends |
| `curation_publication` | two final nodes, two drains, one user's request at a time | completion implies publication, the surface and the workspace are complete and stay, deletion hides everything |

The bounds cover the interesting cases: two leases of an item are a superseded
and a current attempt; a TTL of 1 with a lag of 1 includes a lease that is
expired when it is taken; two drains let RECONCILE overlap with EXECUTE and with
another RECONCILE; three attempts for two sections are a retry of either. An answer
without claims settles a section as one with claims does and is left to the proofs,
and so are several runs that lease each other's items. Two workers, a crash and an error are enough for a lost lock, a late write and a
handler run twice. A route of one request is full with one reservation, one tick
with a TTL of 1 lets it expire while the other PREPARE holds an older time; two
drains and a request are the three parties that meet in a publication, and two
nodes tell a partial workspace from a complete one. (Two requests at once with
two drains, 1.7 million states, were explored once beyond the run: the safety
properties and the inductive invariant hold there too.) Deadlock is not checked because the systems may stop:
bounded instances run out of attempts or time, and finished runs have nothing
left to do.

### Fairness

* `Recovery`: the poll loop reclaims on every poll, oldest lease first, whether
  or not the drain of a workflow raises
  (`knowledge_extraction_workflow_runtime_service.py:83-105`).
* `ClaimBuilderPipeline!Fairness`: weak for commands, which each poll tries
  again; strong for the end of an EXECUTE or RECONCILE, whose transactions may be
  abandoned and begun again any number of times (crash, rollback) but not for
  ever without one getting through. `CleanRunCompletes` needs the strong form:
  if every answer arrives after its lease, nothing completes. The property speaks of
  runs without a failed attempt, and a lease that is reclaimed, after a crash or a
  slow call, makes its attempt a failed one: an EXECUTE that dies and runs again
  while its lease lasts is covered, a recovery is not (`ExpiredLeaseEnds` and
  `LeaseIsWorkedOn` are about that). Nor does it speak of runs in `short`.
* `RouteCapacity!FairSpec`: a transaction that holds the next lock goes on; the
  lock of a route goes to a waiting transaction eventually
  (`pg_advisory_xact_lock` queues its waiters).
* `CurationPublication!FairSpec`, used by `never_published` only: strong for `Take`,
  `Read` and `Commit` of each drain, weak for `Abort` (no transaction stays open). A
  commit that is possible again and again is made at last; one whose statement raises
  every time is never possible, so nothing is assumed of it. `RequestIsCompleted`
  exempts a paused run, an empty selection and a deletion in progress: a deletion and a
  drain wait for each other's rows, and the one that is aborted may be either, each
  time. Explored beyond the runs, with `Migrated = FALSE` and the instance of
  `curation_publication` the property holds under this fairness: the renamed column is
  all that keeps PUBLISH from being completed.
* `JobQueue`: the loop leaves only on shutdown, handlers end by the timeouts of
  their calls, time passes; enqueueing, crashes and errors are never required.

### Disagreements the runs show

| Run | Promise | What happens |
|---|---|---|
| `retry_swallowed` | a due retryable item is retried (`docs/architecture/knowledge_extraction_saga_v1.md:794`) | the retry PREPARE has a key without its cause; the second one with the same plan is swallowed by the idempotent append |
| `attempt_id_reused` | same line, as progress | a retry at the batch position of the first attempt reuses its attempt_id; the INSERT fails each time |
| `foreign_item` | `claim_builder_provenance workflow_run_id must match workflow_run_id` | due items are peeked across runs |
| `succeeded_with_error` | `error_kind must be None for succeeded outcome` | recovery fills the error_kind of a succeeded attempt that was not applied in time |
| `route_stranded` | `schedule wakeup only if nothing fits.` (`docs/architecture/current_workflow_frontend_capacity_cutover_checkpoint.md:279`) | the windows are full of reservations, none has a reset to come: no wakeup is left, and the command of the batch that filled them is used already |
| `never_published` | publication "atomically writes the canonical facts [...] before the workflow is marked completed" (`docs/adr/0001-durable-capacity-window-workflow-runtime.md:48`) | the publication writes `fact_registry_id` (`postgres_draft_claim_curation_publication_repository.py:162`, 186, 231), which migration 077 renames and `tests/architecture/test_workbench_schema_contract.py:60` forbids: each drain of PUBLISH raises, is rolled back, and is tried again |
| `stale_release` | `Release jobs stuck in processing longer than timeout.` | the release checks the status only, and the job may have been claimed afresh |

Seen while modelling `CurationPublication`, in the model as steps. No run refutes
them: the properties exempt them by name and say what remains true.

* Two publications that both read the draft both write: the later one adds what was
  included when it read (`PublishedSurfaceIsFinal`), also an item excluded since.
* A pause that read the run before PUBLISH completed it writes PAUSED over
  COMPLETED, and the old `publication_ref` with it, although a "terminal knowledge
  extraction workflow cannot be paused" (`pause_knowledge_extraction_workflow.py:98`).
  `CompletedIsKept` lists this way out of completion and the next one.
* An OPEN that commits after PUBLISH puts a completed run back to
  WAITING_FOR_REVIEW: PUBLISH may be requested as soon as there is a workspace,
  which the HTTP open creates without the command.
* An HTTP open that ends half-way leaves a workspace that no later open completes
  (`WorkspaceIsComplete`, `torn`).
* An OPEN that outlives the deletion of its document writes its run again.
* `_delete_runtime_publications` looks for publications by a source they are never
  inserted with (`"draft_claim_curation_workspace"`,
  `postgres_draft_claim_curation_publication_repository.py:150`). A deletion that
  is to remove "every upload/workflow trace" (`interfaces/http/knowledge.py:3298`)
  leaves the publication, in every order of events. What counts for retrieval goes
  with the document by cascade: `DeletedIsNotRetrievable`.
* The HTTP publish, after the command was drained, publishes once more by itself,
  without completing the run when the command was held by another drain; the
  command then completes it as a replay (`CompletedIsPublished`). The counts of a
  replayed result are those of the flags at that time, not those published.

A consequence of `foreign_item` seen while modelling: with two runs,
`CompletionNotMissed` fails too, because an item without claims can be completed
under the other run, whose RECONCILE never looks at the first. `claim_builder` has
one run for this reason. What survives several runs is proved for any number of them:
the provenance check keeps claims with the run of their section
(`ClaimsFromOneAttemptAlways`), and every lease keeps its EXECUTE.

## Proofs

Every invariant and every action property that a passing run checks, and the
refinement, is also a theorem, for every value of the constants.

### The work item store

`WorkItemLifecycle_proofs`, for any sets of items, slots and plans, any TTL and any
bounds:

* `TypeCorrect`: the type invariant.
* `Fenced`: the inductive invariant `Fencing`. None of the safety properties is
  inductive alone. That a result is applied only by the last attempt needs that
  the lease names an attempt (`LeaseHasAttempt`) with the item's current number;
  that this attempt is the only one with the number needs `NumbersUnique`; that
  there is no gap (`NumbersDense`) is what makes the count comparable with the
  rows; and that an open call cannot overwrite an outcome needs
  `CallIsForOpenAttempt`. The proof goes action by action, with one lemma for the
  steps that end a lease by its own attempt (`LeaseEndedByItsAttempt`), one for
  leasing and one for the recovery.
* `OpenAttemptHoldsLeaseAlways`, `AppliedOnceByLastAttemptAlways` and
  `AttemptsMatchLeasesAlways` follow from it, and so do the action properties
  `OutcomeIsFinalAlways`, `SettledIsFinalAlways` and `ActiveLeaseIsSafeAlways`: the
  lemmas `OutcomeKept` and `RowMoves` say once, action by action, which outcomes and
  rows a step may change.
* `StoreImplementsStateMachine`: the store refines WorkItemStateMachine. A step of
  the store changes at most one row (`RowMoves`), and `HydratedMoves` carries that
  to the entities; `LeaseMaps`, `LeaseEndMaps` and `ReclaimMaps` name the transition
  of the domain it is, `StepMaps` puts them together. A row whose `retry_plan` alone
  differs is the same entity, which is where `Hydrated` is needed.

### The claim builder

`ClaimBuilderPipeline_proofs`, for any runs, sections, plans and drains that overlap
and die anywhere:

* `ExtractionAlways`: the types with the inductive invariant `Extraction`. The types
  alone are not inductive: that EXECUTE completes a command there is needs
  `AttemptHasExecute`, and that a RECONCILE writes a command needs `ReadingIsPending`,
  what it decided earlier. `ReconcileFollowsExecute` relates the two commands of an
  attempt; `EmbedMeansCompleted` says that a decision for the next phase, committed
  or only taken, stays right because completed sections stay completed.
* `TypeCorrect`, `LeaseIsWorkedOnAlways`, `OpenAttemptHoldsLeaseAlways`,
  `ClaimsFromOneAttemptAlways` and the action properties
  `ClaimsFinalWhenEmbeddingAlways` and `CompletedOnceAlways`.
* `CompletionNotMissedWithinRuns`: the embeddings are asked for before the last
  RECONCILE of a completed run ends, provided no PREPARE leases the items of another
  run (`[]LeaseWithinRun`). The invariant is `EmbedIsComing`: from the moment the last
  section is completed there is a RECONCILE that has not read an older progress,
  namely the one of the EXECUTE that completed it. The hypothesis is needed: where
  runs share their due items, as the code does, the property is false (see
  `foreign_item` above). `CompletionNotMissedInOneRun` is the case of one workflow
  run, where it holds by itself.

### The job queue

`JobQueue_proofs`, for any jobs, workers, limits and timeout, with any number of
crashes and errors up to the bounds: `QueueTypeCorrect`, `ExhaustedIsSettledAlways`,
`DoneWasHandledAlways` and `SoleHandlerAlways`. The invariant `Inv` adds that a read
stale list contains only jobs on record as stale (`StaleWasStale`, `AgeOnRecord`) and
that the worker of a job never on record has it locked (`BusyIsLocked`): that is why a
release, which looks at the status alone, cannot give a never-stale job to a second
worker.

### Route capacity

`RouteCapacity_proofs`, for any routes, windows, runs, drains and items, whatever time
a transaction uses:

* `TypeCorrect`. What an answer closes is a route only because whatever was reserved
  has one (`ReservedOnRoute`), so the two are proved together.
* `CapacityIsShared` and `TokensAreShared`: a route never carries more requests or
  tokens than its window. The invariant `Inv` says who may have read what: advisory
  locks exclude each other, a plan is made only for routes that are held, rows that
  were leased in an open transaction are due for everyone else, and what was counted
  at the (older) time, plus what is planned, plus what is left, is at most the
  window. An old time is safe because it counts more, never fewer. For tokens the sum
  (`TokensAddUp`) is claimed only when some are planned or left: a request that needs
  none is admitted whatever is left, also where reservations that have expired are
  still counted at the older time. The
  lemmas about `TokensOf` (a set adds at most what it asks for, another row adds
  exactly its need) come from those about cardinalities.
* `NoDeadlock`: if the payloads agree on an order of the routes (`OneOrder`), no set
  of transactions waits in a circle. Who holds a route holds those before it in its
  payload (`LocksFollowOrder`), hence who waits, waits further on than anything it
  holds (`WaitsAhead`), and a circle would have no last route. A payload names the
  routes of a run in their order, or one route (`PayloadsNarrow`); a wakeup that kept the
  other routes behind the observed one would close a circle, as the mutant
  `Observed_KeepsRoutes` shows. That the routes of all runs agree is a hypothesis of the
  theorem: they are made from one configured list of accounts, filtered but not
  reordered by `_capacities_for_direct_prepare`. `PrepareEnds` adds
  what needs fairness.

### Curation and publication

`CurationPublication_proofs`, for any nodes, drains and users: `TypeCorrect`,
`ReviewableHasWorkspace`, `CompletionFollowsPublication`, `WorkspacesAreComplete`,
`DeletedCannotBeRetrieved`, `PublishedStays` and `CompletionStays`. The argument is
`ReadsHold`: what a transaction read is still true when it commits, unless the
document is gone. A workspace never disappears while its document exists and a
published one stays published, so an OPEN that found one, a PUBLISH that embedded its
items and a replay may rely on it although they hold no lock. `MissingIsInserted`
makes the completeness of a workspace inductive while an HTTP open fills it.

### Assumptions and what is only model-checked

Assumptions are those named in the modules: the null values are no tokens, plans or
routes, the TTL and `MaxAttempts` are positive, jobs are positive numbers, items to be
attempted are numbers of a finite set, what they need is a natural number, limits are
numbers above 0 (`_rate_limit_positive_int`), a provider never reports more left than is
configured (`Offered`), a run has a section (`handle_schedule_claim_builder_section_work_command.py:265`), drains and
users are different, `Migrated` is TRUE or FALSE. Theorems with hypotheses of their own are named above:
`CompletionNotMissedWithinRuns`, `CompletionNotMissedInOneRun` and `NoDeadlock`.

Only model-checked: liveness under fairness (`ExpiredLeaseEnds`,
`CleanRunCompletes`, `JobsSettle`, `PrepareEnds`), which is out of the prover's
reach. The runs that refute a promise stay runs.

## Not modelled

* **Draft claim compaction** and the **capacity admission queue**. As wired, the
  compaction starts no work: its plan applier requires `expected_output_kind`
  (`draft_claim_compaction_capacity_admission_phase_plan_applier.py:294`), which no
  scheduler writes. A model would describe either nothing or another program.
* **Embedding, clustering, group building**: one command each, handled in one
  transaction, without concurrency of their own. Embedding reads at most 1000
  claims; a run whose schedule has no batch is left without a command.
* **Conversation orchestration** and its Redis lock: a candidate, see the plan.
* **RAG evaluation, retrieval, application services, domain rules, adapters,
  Telegram, realtime, frontend, tools**: reads, presentation, single statements or
  pure I/O.

## Plan

1. *Extend.* The thread lock of `infrastructure/redis/lock.py` with client messages
   and manager replies (`application/orchestration`): the lock has a TTL of 30
   seconds and no owner. Then lane claims and the admission pass of the capacity
   queue, and the compaction once it is wired.
2. *Prove.* All that the runs check, liveness aside, is proved. Next: that a transaction
   of CurationPublication implements its command as one atomic step where `ReadsHold`
   says so; the safety part of the liveness properties, as `NoCircularWait` is of
   `PrepareEnds`: that a leased item can always be ended, and that a run which is not
   finished has a due command unless a named obstacle holds.
