------------------------------ MODULE JobQueue ------------------------------
(***************************************************************************)
(* The background job queue: the table execution_queue, QueueRepository,   *)
(* and the loops of the workers that poll it.  Every statement commits on  *)
(* its own, so a worker's round is a sequence of steps other workers come  *)
(* between: read the stale locks, release them one by one, claim a job,    *)
(* handle it, write the result.                                            *)
(*                                                                         *)
(* No statement but the release looks at the status of the job it writes,  *)
(* and none at its worker_id: a worker that lost its lock still writes.    *)
(***************************************************************************)
EXTENDS Naturals, FiniteSets

CONSTANTS
    Jobs,         \* numbers: the order of created_at
    Workers,
    MaxAttempts,  \* max_attempts
    Timeout,      \* stale_timeout_minutes, in ticks
    MaxCrashes,   \* bound: worker processes that die
    MaxErrors     \* bound: statements that raise

ASSUME JobsAssumption == Jobs \subseteq Nat \ {0}
ASSUME MaxAttemptsAssumption == MaxAttempts \in Nat \ {0}
ASSUME TimeoutAssumption == Timeout \in Nat

VARIABLES
    job,       \* Jobs -> row of execution_queue
    pc,        \* Workers -> point of the worker loop
    mine,      \* Workers -> job the worker handles or writes
    stale,     \* Workers -> stale jobs read and not yet released
    handled,   \* history: jobs whose handler succeeded
    wasStale,  \* history: jobs whose lock outlived the timeout
    faults     \* crashes and errors so far

vars == <<job, pc, mine, stale, handled, wasStale, faults>>

NoJob == 0

\* The time since locked_at, up to the first value beyond the timeout.
Ages == 0..(Timeout + 1)

Row == [status   : {"absent", "pending", "processing", "done", "failed"},
        attempts : Nat,
        age      : Ages]

\* "handling" until the dispatcher returns; then the result to be written:
\* complete_job(success), complete_job(failure), fail_job.
Writing == {"success", "permanent", "transient"}
Busy    == {"handling"} \cup Writing

TypeOK ==
    /\ job \in [Jobs -> Row]
    /\ pc \in [Workers -> {"poll", "release"} \cup Busy]
    /\ mine \in [Workers -> Jobs \cup {NoJob}]
    /\ stale \in [Workers -> SUBSET Jobs]
    /\ handled \in SUBSET Jobs
    /\ wasStale \in SUBSET Jobs
    /\ faults \in [crashes : Nat, errors : Nat]

Init ==
    /\ job = [j \in Jobs |-> [status |-> "absent", attempts |-> 0, age |-> 0]]
    /\ pc = [w \in Workers |-> "poll"]
    /\ mine = [w \in Workers |-> NoJob]
    /\ stale = [w \in Workers |-> {}]
    /\ handled = {}
    /\ wasStale = {}
    /\ faults = [crashes |-> 0, errors |-> 0]

-----------------------------------------------------------------------------
\* enqueue: jobs appear in the order of their created_at.
Enqueue(j) ==
    /\ job[j].status = "absent"
    /\ \A k \in Jobs : k < j => job[k].status # "absent"
    /\ job' = [job EXCEPT ![j].status = "pending"]
    /\ UNCHANGED <<pc, mine, stale, handled, wasStale, faults>>

\* Mutation: the recovery finds nothing.
StaleJobs_None == {}

\* get_stale_locked_jobs.
StaleJobs == {j \in Jobs : job[j].status = "processing" /\ job[j].age > Timeout}

ReadStale(w) ==
    /\ pc[w] = "poll"
    /\ stale' = [stale EXCEPT ![w] = StaleJobs]
    /\ pc' = [pc EXCEPT ![w] = "release"]
    /\ UNCHANGED <<job, mine, handled, wasStale, faults>>

\* release_job checks the status again, but not the age of the lock.
Released(row) ==
    IF row.status = "processing" THEN [row EXCEPT !.status = "pending", !.age = 0] ELSE row

ReleaseStale(w, j) ==
    /\ pc[w] = "release"
    /\ j \in stale[w]
    /\ job' = [job EXCEPT ![j] = Released(job[j])]
    /\ stale' = [stale EXCEPT ![w] = stale[w] \ {j}]
    /\ UNCHANGED <<pc, mine, handled, wasStale, faults>>

\* Mutation: the claim does not look at the status.
Claimable_Processing(j) ==
    job[j].status \in {"pending", "processing"} /\ job[j].attempts < MaxAttempts

Claimable(j) == job[j].status = "pending" /\ job[j].attempts < MaxAttempts

\* claim_job: the oldest pending job, locked and updated in one statement.
Claim(w, j) ==
    /\ pc[w] = "release" /\ stale[w] = {}
    /\ Claimable(j)
    /\ \A k \in Jobs : Claimable(k) => j <= k
    /\ job' = [job EXCEPT ![j].status = "processing", ![j].age = 0]
    /\ pc' = [pc EXCEPT ![w] = "handling"]
    /\ mine' = [mine EXCEPT ![w] = j]
    /\ UNCHANGED <<stale, handled, wasStale, faults>>

Idle(w) ==
    /\ pc[w] = "release" /\ stale[w] = {}
    /\ \A j \in Jobs : ~Claimable(j)
    /\ pc' = [pc EXCEPT ![w] = "poll"]
    /\ UNCHANGED <<job, mine, stale, handled, wasStale, faults>>

\* The dispatcher returns or raises; a transient error and an unexpected one are
\* written alike.
Handle(w, result) ==
    /\ pc[w] = "handling"
    /\ pc' = [pc EXCEPT ![w] = result]
    /\ handled' = IF result = "success" THEN handled \cup {mine[w]} ELSE handled
    /\ UNCHANGED <<job, mine, stale, wasStale, faults>>

\* Mutation: the last attempt is given back once more.
FailedStatus_OneMore(row) == IF row.attempts + 1 > MaxAttempts THEN "failed" ELSE "pending"

FailedStatus(row) == IF row.attempts + 1 >= MaxAttempts THEN "failed" ELSE "pending"

\* Mutations: a permanent failure is completed like a success; a status the
\* table does not know.
Written_AllDone(row, result) ==
    IF result = "transient"
    THEN [status |-> FailedStatus(row), attempts |-> row.attempts + 1, age |-> 0]
    ELSE [row EXCEPT !.status = "done", !.age = 0]

Written_Retrying(row, result) ==
    CASE result = "success"   -> [row EXCEPT !.status = "done", !.age = 0]
      [] result = "permanent" -> [row EXCEPT !.status = "failed", !.age = 0]
      [] result = "transient" -> [row EXCEPT !.status = "retrying", !.age = 0]

\* complete_job and fail_job write whatever the status and the worker_id are.
\* retry_delay_seconds is not used: the job can be claimed again at once.
Written(row, result) ==
    CASE result = "success"   -> [row EXCEPT !.status = "done", !.age = 0]
      [] result = "permanent" -> [row EXCEPT !.status = "failed", !.age = 0]
      [] result = "transient" -> [status   |-> FailedStatus(row),
                                  attempts |-> row.attempts + 1,
                                  age      |-> 0]

Leave(w) == pc' = [pc EXCEPT ![w] = "poll"] /\ mine' = [mine EXCEPT ![w] = NoJob]

Write(w) ==
    /\ pc[w] \in Writing
    /\ job' = [job EXCEPT ![mine[w]] = Written(job[mine[w]], pc[w])]
    /\ Leave(w)
    /\ UNCHANGED <<stale, handled, wasStale, faults>>

\* complete_job raises: the handler of last resort writes a failure instead, and
\* when fail_job raises too the loop goes on with the job left processing.
WriteRaises(w) ==
    /\ pc[w] \in Writing
    /\ faults.errors < MaxErrors
    /\ faults' = [faults EXCEPT !.errors = @ + 1]
    /\ IF pc[w] # "transient"
       THEN pc' = [pc EXCEPT ![w] = "transient"] /\ UNCHANGED mine
       ELSE Leave(w)
    /\ UNCHANGED <<job, stale, handled, wasStale>>

\* A worker process dies and is started again.
Crash(w) ==
    /\ pc[w] # "poll"
    /\ faults.crashes < MaxCrashes
    /\ faults' = [faults EXCEPT !.crashes = @ + 1]
    /\ Leave(w)
    /\ stale' = [stale EXCEPT ![w] = {}]
    /\ UNCHANGED <<job, handled, wasStale>>

Locked(j) == job[j].status = "processing" /\ job[j].age <= Timeout

\* Time passes for every lock at once.
Tick ==
    /\ \E j \in Jobs : Locked(j)
    /\ job' = [j \in Jobs |-> IF Locked(j) THEN [job[j] EXCEPT !.age = @ + 1] ELSE job[j]]
    /\ wasStale' = wasStale \cup {j \in Jobs : Locked(j) /\ job[j].age = Timeout}
    /\ UNCHANGED <<pc, mine, stale, handled, faults>>

-----------------------------------------------------------------------------
Round(w) ==
    \/ ReadStale(w)
    \/ \E j \in Jobs : ReleaseStale(w, j) \/ Claim(w, j)
    \/ Idle(w)
    \/ \E result \in Writing : Handle(w, result)
    \/ Write(w)

Next ==
    \/ \E j \in Jobs : Enqueue(j)
    \/ \E w \in Workers : Round(w) \/ WriteRaises(w) \/ Crash(w)
    \/ Tick

Spec == Init /\ [][Next]_vars

\* The loop has no exit but the shutdown, handlers are bounded by the timeouts of
\* the calls they make, and time passes.
FairSpec == Spec /\ WF_vars(Tick) /\ \A w \in Workers : WF_vars(Round(w))

-----------------------------------------------------------------------------
(* Safety                                                                  *)

\* max_attempts, "Maximum attempts before permanent failure": no order of late
\* writes and releases makes an exhausted job wait or run again.  Only claim_job
\* and fail_job look at the count; release_job relies on them.
ExhaustedIsSettled ==
    \A j \in Jobs : job[j].attempts >= MaxAttempts => job[j].status \in {"done", "failed"}

\* A job is reported done only if its handler succeeded, by whichever worker.
DoneWasHandled == \A j \in Jobs : job[j].status = "done" => j \in handled

\* Two workers handle the same job only when its lock outlived the timeout at
\* some time: SKIP LOCKED and the single-statement claim exclude anything else.
SoleHandler ==
    \A v, w \in Workers :
        (v # w /\ pc[v] \in Busy /\ pc[w] \in Busy /\ mine[v] = mine[w]) => mine[v] \in wasStale

-----------------------------------------------------------------------------
(* Liveness                                                                *)

\* No job is lost to crashed workers, failed writes or stale locks: a job that
\* was enqueued is done or failed in the end, and stays so.
JobsSettle ==
    \A j \in Jobs : (job[j].status = "pending") ~> [](job[j].status \in {"done", "failed"})

-----------------------------------------------------------------------------
(* The inductive invariant                                                 *)

BusyHasJob == \A w \in Workers : pc[w] \in Busy => mine[w] \in Jobs

StaleWasStale == \A w \in Workers : stale[w] \subseteq wasStale

\* A lock beyond the timeout is on record.
AgeOnRecord == \A j \in Jobs : job[j].age > Timeout => j \in wasStale

\* The only worker of a job whose lock never went stale has it locked.
BusyIsLocked ==
    \A w \in Workers : (pc[w] \in Busy /\ mine[w] \notin wasStale) =>
        job[mine[w]].status = "processing"

SuccessWasHandled == \A w \in Workers : pc[w] = "success" => mine[w] \in handled

Inv ==
    /\ ExhaustedIsSettled
    /\ DoneWasHandled
    /\ SoleHandler
    /\ BusyHasJob
    /\ StaleWasStale
    /\ AgeOnRecord
    /\ BusyIsLocked
    /\ SuccessWasHandled

-----------------------------------------------------------------------------
(* What the documents say and the code does not keep                       *)

\* recover_stale_jobs: "Release jobs stuck in processing longer than timeout."
\* The job may have been released and claimed again since it was read.
ReleasedOnlyWhenStale ==
    [][\A j \in Jobs : \A w \in Workers :
           (job[j].status = "processing" /\ job'[j].status = "pending"
            /\ j \in stale[w] /\ j \notin stale'[w]) => job[j].age > Timeout]_vars
=============================================================================
