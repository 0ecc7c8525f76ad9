------------------------ MODULE ClaimBuilderPipeline ------------------------
(***************************************************************************)
(* Claim-builder section extraction: the commands PREPARE, EXECUTE and     *)
(* RECONCILE over the work items of the Execution Runtime and the command  *)
(* log of the Workflow Runtime, drained concurrently by any number of      *)
(* processes, with leases reclaimed underneath them.                       *)
(*                                                                         *)
(* A drain is one database transaction.  EXECUTE stays open while the      *)
(* provider works and RECONCILE reads before it writes, so each is two     *)
(* steps; a process that dies, or a handler that raises, leaves nothing    *)
(* but the pending command.  There is no clock: the lease is dated from    *)
(* the command, which may be old, so any lease may be found expired.       *)
(***************************************************************************)
EXTENDS FiniteSets, CommandLog, Naturals

CONSTANTS
    Runs,          \* workflow runs
    Sections,      \* source units of a document, one work item each
    MaxBatch,      \* bound: a PREPARE starts at most this many attempts
    RetryPlans, NoToken, NoPlan,
    CapacityShort, \* TRUE when it can happen that no capacity window fits an item
    Answers,       \* bound: what the provider and the validation may conclude
    Observations,  \* bound: what is observed of the provider's capacity
    MaxAttempts,   \* bound: attempts started altogether
    MaxDrains      \* bound: drain transactions open at once

Positions == 0..(MaxBatch - 1)

\* work_item_id names the run and the source unit; the lease token, which is
\* the attempt_id, names the run that prepares, the position and the item.
INSTANCE WorkItems WITH Items <- Runs \X Sections, Slots <- Runs \X Positions

Items == Runs \X Sections
RunOf(i) == i[1]
ItemsOf(r) == {i \in Items : RunOf(i) = r}
LeasingRun(t) == t[1][1]

ASSUME SectionsAssumption == Sections # {}
ASSUME BatchAssumption == MaxBatch \in Nat
ASSUME AnswersAssumption == Answers \subseteq {"claims", "empty", "retry", "terminal"}
ASSUME ObservationsAssumption == Observations \subseteq {"nothing", "budget", "reset"}

VARIABLES
    item,     \* Items -> Row
    attempt,  \* Token -> outcome of the attempt
    calls,    \* attempts whose EXECUTE transaction waits for the provider
    reading,  \* attempts whose RECONCILE transaction has read, with its decision
    log,      \* the command log
    action,   \* Runs -> Items -> plan of the latest retry action in the outbox
    claims,   \* Items -> attempts that persisted draft claims
    short     \* history: runs of which a PREPARE started nothing of what was due

vars == <<item, attempt, calls, reading, log, action, claims, short>>

-----------------------------------------------------------------------------
(* Commands, by idempotency key                                            *)

InitialPrepare(r)  == <<"initial", r>>     \* appended by work scheduling
RetryPrepare(r, p) == <<"retry", r, p>>    \* RECONCILE with a selected retry plan
FollowUp(S)        == <<"followup", S>>    \* RECONCILE without: the key hashes the
                                           \* PREPARE that started the attempts S
CapacityPrepare(t) == <<"capacity", t>>    \* EXECUTE, after a capacity observation
WindowPrepare(t)   == <<"window", t>>      \* EXECUTE, at the provider's reset time
Execute(t)         == <<"execute", t>>
Reconcile(t)       == <<"reconcile", t>>
Embed(r)           == <<"embed", r>>

IsPrepare(k) == k[1] \in {"initial", "retry", "followup", "capacity", "window"}

\* window: llm_dispatch_preparation is the one an observed window rewrote;
\* origin: the attempts started by the PREPARE the command descends from.
Payload == [window : BOOLEAN, origin : SUBSET Token]

NoCommand == <<"none">>

TypeOK ==
    /\ item \in [Items -> Row]
    /\ attempt \in [Token -> {"none", "open", "succeeded", "retryable_failed",
                              "terminal_failed"}]
    /\ calls \subseteq Token
    /\ DOMAIN reading \subseteq Token
    /\ \A k \in DOMAIN log : log[k] \in CommandRow(Runs, Payload)
    /\ action \in [Runs -> [Items -> RetryPlans \cup {NoPlan}]]
    /\ claims \in [Items -> SUBSET Token]
    /\ short \subseteq Runs

\* The state work scheduling leaves behind.
Init ==
    /\ item = [i \in Items |-> Scheduled]
    /\ attempt = [t \in Token |-> "none"]
    /\ calls = {}
    /\ reading = EmptyLog
    /\ log = [k \in {InitialPrepare(r) : r \in Runs} |->
                 [run |-> k[2], done |-> FALSE,
                  payload |-> [window |-> FALSE, origin |-> {}]]]
    /\ action = [r \in Runs |-> [i \in Items |-> NoPlan]]
    /\ claims = [i \in Items |-> {}]
    /\ short = {}

-----------------------------------------------------------------------------
(* PREPARE                                                                 *)

DueItems == {i \in Items : item[i].status \in Due}

\* peek_due_work_items filters on the work kind only and puts failed items
\* first; every item some capacity window fits takes the next position.
Batch(n) ==
    {f \in [0..(n - 1) -> DueItems] :
        \A p, q \in 0..(n - 1) : p < q =>
            /\ f[p] # f[q]
            /\ item[f[q]].status = "retryable_failed" => item[f[p]].status = "retryable_failed"}

TokensOf(r, f) == {<<<<r, p>>, f[p]>> : p \in DOMAIN f}

\* Mutation: the EXECUTE commands are left to a later transaction.
Prepare_NoExecute(k, f) ==
    LET r == log[k].run
        S == TokensOf(r, f)
    IN  /\ IsPrepare(k)
        /\ \A t \in S : attempt[t] = "none"
        /\ item' = [i \in Items |->
               IF \E t \in S : ItemOf(t) = i
               THEN LeaseReady(item[i], CHOOSE t \in S : ItemOf(t) = i, 1) ELSE item[i]]
        /\ attempt' = [t \in Token |-> IF t \in S THEN "open" ELSE attempt[t]]
        /\ log' = Complete(log, k)
        /\ short' = IF S = {} /\ DueItems # {} THEN short \cup {r} ELSE short
        /\ UNCHANGED <<calls, reading, action, claims>>

\* All in one transaction: the leases, the attempts, one EXECUTE per attempt and
\* the completion.  An attempt_id that was used before violates the key of
\* execution_work_item_attempt_dispatches: nothing is committed.  A PREPARE
\* that finds every window closed replaces itself by a later one: it waits; with
\* CapacityShort it may also find no window that will open, and be completed.
Prepare(k, f) ==
    LET r == log[k].run
        S == TokensOf(r, f)
    IN  /\ IsPrepare(k)
        /\ \A t \in S : attempt[t] = "none"
        /\ item' = [i \in Items |->
               IF \E t \in S : ItemOf(t) = i
               THEN LeaseReady(item[i], CHOOSE t \in S : ItemOf(t) = i, 1) ELSE item[i]]
        /\ attempt' = [t \in Token |-> IF t \in S THEN "open" ELSE attempt[t]]
        /\ log' = Complete(AppendEach(log, {Execute(t) : t \in S}, r,
                                      [window |-> log[k].payload.window, origin |-> S]), k)
        /\ short' = IF S = {} /\ DueItems # {} THEN short \cup {r} ELSE short
        /\ UNCHANGED <<calls, reading, action, claims>>

-----------------------------------------------------------------------------
(* EXECUTE                                                                 *)

DrainFree == Cardinality(calls) + Cardinality(DOMAIN reading) < MaxDrains

BeginCall(t) ==
    /\ DrainFree
    /\ Execute(t) \in Pending(log)
    /\ t \notin calls
    /\ attempt[t] = "open"
    /\ calls' = calls \cup {t}
    /\ UNCHANGED <<item, attempt, reading, log, action, claims, short>>

\* Mutation: any lease of the item will do.
HoldsLease_AnyLease(t) == item[ItemOf(t)].status = "leased"

\* _validate_current_lease.
HoldsLease(t) ==
    /\ item[ItemOf(t)].status = "leased"
    /\ item[ItemOf(t)].token = t

\* The PREPAREs a capacity observation leaves behind: one at once, one at the
\* provider's reset time when it is known.
Wakeups(L, t, observed) ==
    LET run == log[Execute(t)].run
        own == log[Execute(t)].payload
        M == IF observed = "nothing" THEN L
             ELSE Append(L, CapacityPrepare(t), run, [window |-> own.window, origin |-> {}])
    IN  IF observed = "reset"
        THEN Append(M, WindowPrepare(t), run, [window |-> TRUE, origin |-> {}])
        ELSE M

\* Mutation: no RECONCILE follows.
Executed_NoReconcile(t, observed) ==
    log' = Complete(Wakeups(log, t, observed), Execute(t))

Executed(t, observed) ==
    log' = Complete(Append(Wakeups(log, t, observed), Reconcile(t), log[Execute(t)].run,
                           log[Execute(t)].payload), Execute(t))

Answered(i, answer, plan) ==
    CASE answer = "retry"    -> FailLeasedRetryable(item[i], plan)
      [] answer = "terminal" -> FailLeasedTerminal(item[i])
      [] OTHER               -> CompleteLeased(item[i])

\* Mutation: an outcome status the schema does not know.
OutcomeOf_Deferred(answer) == IF answer = "retry" THEN "deferred" ELSE "succeeded"

OutcomeOf(answer) ==
    CASE answer = "retry"    -> "retryable_failed"
      [] answer = "terminal" -> "terminal_failed"
      [] OTHER               -> "succeeded"

\* Mutation: the provenance of the claims is not compared with the run.
SameProvenance_Unchecked(t) == TRUE

\* _claim_builder_provenance raises when the item belongs to another run.
SameProvenance(t) == RunOf(ItemOf(t)) = LeasingRun(t)

\* The provider answered and the whole transaction commits: outcome, claims,
\* completion, wakeups and RECONCILE.  A retry that waits for capacity has no plan.
FinishCall(t, answer, plan, observed) ==
    LET i == ItemOf(t) IN
    /\ t \in calls
    /\ HoldsLease(t)
    /\ answer = "claims" => SameProvenance(t)
    /\ answer # "retry" => plan = NoPlan
    /\ attempt' = [attempt EXCEPT ![t] = OutcomeOf(answer)]
    /\ item' = [item EXCEPT ![i] = Answered(i, answer, plan)]
    /\ claims' = IF answer = "claims" THEN [claims EXCEPT ![i] = @ \cup {t}] ELSE claims
    /\ action' = IF answer = "retry" THEN [action EXCEPT ![LeasingRun(t)][i] = plan] ELSE action
    /\ Executed(t, observed)
    /\ calls' = calls \ {t}
    /\ UNCHANGED <<reading, short>>

\* The outcome was recorded meanwhile (by the recovery): the provider is not
\* called, nothing is persisted, and the progress is reconciled.
Replay(t) ==
    /\ Execute(t) \in Pending(log)
    /\ t \notin calls
    /\ attempt[t] \notin {"none", "open"}
    /\ Executed(t, "nothing")
    /\ UNCHANGED <<item, attempt, calls, reading, action, claims, short>>

\* The process dies, the lease is gone when the answer comes, or a handler raises.
AbandonCall(t) ==
    /\ t \in calls
    /\ calls' = calls \ {t}
    /\ UNCHANGED <<item, attempt, reading, log, action, claims, short>>

-----------------------------------------------------------------------------
(* RECONCILE                                                               *)

\* The plan of the highest priority among the items that may still run.
SelectedPlan(r) ==
    LET live  == {i \in Items : item[i].status \in Due \cup {"leased"}}
        plans == {action[r][i] : i \in live} \ {NoPlan}
    IN  IF plans = {} THEN NoPlan ELSE CHOOSE p \in plans : TRUE

\* Mutation: completion is concluded although items are still leased.
Decision_IgnoresLeased(t) ==
    LET r == log[Reconcile(t)].run IN
    IF DueItems \cap ItemsOf(r) # {}
    THEN IF SelectedPlan(r) # NoPlan THEN RetryPrepare(r, SelectedPlan(r))
         ELSE FollowUp(log[Reconcile(t)].payload.origin)
    ELSE Embed(r)

\* _decide and _next_command.  A run that is drained with failures, or has
\* nothing due, gets no command.
Decision(t) ==
    LET r == log[Reconcile(t)].run IN
    IF DueItems \cap ItemsOf(r) # {}
    THEN IF SelectedPlan(r) # NoPlan THEN RetryPrepare(r, SelectedPlan(r))
         ELSE FollowUp(log[Reconcile(t)].payload.origin)
    ELSE IF \A i \in ItemsOf(r) : item[i].status = "completed" THEN Embed(r)
    ELSE NoCommand

ReadProgress(t) ==
    /\ DrainFree
    /\ Reconcile(t) \in Pending(log)
    /\ t \notin DOMAIN reading
    /\ reading' = [u \in DOMAIN reading \cup {t} |->
                       IF u = t THEN Decision(t) ELSE reading[u]]
    /\ UNCHANGED <<item, attempt, calls, log, action, claims, short>>

Forget(t) == reading' = [u \in DOMAIN reading \ {t} |-> reading[u]]

\* The payload of the next PREPARE carries the dispatch preparation on.
NextPayload(t) ==
    [window |-> reading[t] # Embed(log[Reconcile(t)].run) /\ log[Reconcile(t)].payload.window,
     origin |-> {}]

\* The next command is appended, unless its key is in use: then the handler
\* goes on when the payloads agree, and raises when they do not.
CommitReconcile(t) ==
    LET r == log[Reconcile(t)].run IN
    /\ t \in DOMAIN reading
    /\ IF reading[t] = NoCommand THEN log' = Complete(log, Reconcile(t))
       ELSE /\ ~Clash(log, reading[t], r, NextPayload(t))
            /\ log' = Complete(Append(log, reading[t], r, NextPayload(t)), Reconcile(t))
    /\ Forget(t)
    /\ UNCHANGED <<item, attempt, calls, action, claims, short>>

AbandonReconcile(t) ==
    /\ t \in DOMAIN reading
    /\ Forget(t)
    /\ UNCHANGED <<item, attempt, calls, log, action, claims, short>>

-----------------------------------------------------------------------------
\* Mutation: the attempt of the reclaimed item stays open.
Reclaim_LeavesAttempt(i) ==
    /\ item[i].status = "leased"
    /\ item' = [item EXCEPT ![i] = ReturnToReady(item[i])]
    /\ UNCHANGED <<attempt, calls, reading, log, action, claims, short>>

\* reclaim_expired, item by item.
Reclaim(i) ==
    /\ item[i].status = "leased"
    /\ item' = [item EXCEPT ![i] = ReturnToReady(item[i])]
    /\ attempt' = [attempt EXCEPT ![item[i].token] =
                       IF @ = "open" THEN "retryable_failed" ELSE @]
    /\ UNCHANGED <<calls, reading, log, action, claims, short>>

RunPrepare(k) ==
    \E n \in 0..MaxBatch :
        /\ Cardinality({t \in Token : attempt[t] # "none"}) + n <= MaxAttempts
        /\ n = 0 => CapacityShort \/ DueItems = {}
        /\ \E f \in Batch(n) : Prepare(k, f)

Finish(t) ==
    \E answer \in Answers, plan \in RetryPlans \cup {NoPlan},
       observed \in Observations : FinishCall(t, answer, plan, observed)

Next ==
    \/ \E k \in Pending(log) : RunPrepare(k)
    \/ \E t \in Token :
           \/ BeginCall(t) \/ Finish(t) \/ Replay(t) \/ AbandonCall(t)
           \/ ReadProgress(t) \/ CommitReconcile(t) \/ AbandonReconcile(t)
    \/ \E i \in Items : Reclaim(i)

Spec == Init /\ [][Next]_vars

\* The runtime loop drains every due workflow and reclaims expired leases on each
\* poll, so no command stays pending without being tried, and a call to the
\* provider that is made again and again is answered in the end.
Fairness ==
    /\ \A r \in Runs : WF_vars(\E k \in Pending(log) : log[k].run = r /\ RunPrepare(k))
    /\ \A t \in Token :
           /\ WF_vars(BeginCall(t))
           /\ SF_vars(Finish(t))
           /\ WF_vars(Replay(t))
           /\ WF_vars(ReadProgress(t))
           /\ SF_vars(CommitReconcile(t))
    /\ \A i \in Items : WF_vars(Reclaim(i))

FairSpec == Spec /\ Fairness

-----------------------------------------------------------------------------
(* Safety                                                                  *)

\* A leased item always has the command that works on it: the EXECUTE of its
\* lease is pending, so a lease ends even if every process dies now.
LeaseIsWorkedOn ==
    \A i \in Items : item[i].status = "leased" =>
        /\ Execute(item[i].token) \in Pending(log)
        /\ attempt[item[i].token] = "open"

\* An attempt is open only under its own lease: a command executed again after
\* a recovery does not call the provider for a lease another attempt holds.
OpenAttemptHoldsLease ==
    \A t \in Token : attempt[t] = "open" => HoldsLease(t)

\* Draft claims of an item come from one attempt, the one that completed it, and
\* from the run the item belongs to; no other attempt is left that could add its own.
ClaimsFromOneAttempt ==
    \A i \in Items : \A t \in claims[i] :
        /\ claims[i] = {t}
        /\ ItemOf(t) = i
        /\ \A u \in Token : ItemOf(u) = i => attempt[u] # "open"
        /\ attempt[t] = "succeeded"
        /\ item[i].status = "completed"
        /\ LeasingRun(t) = RunOf(i)

\* The end of the extraction is not missed: when every section is completed and
\* no RECONCILE is due or running, the embeddings have been asked for, although
\* each RECONCILE decides on what it read before the others committed.
CompletionNotMissed ==
    \A r \in Runs :
        (/\ \A i \in ItemsOf(r) : item[i].status = "completed"
         /\ \A t \in Token : ItemOf(t) \in ItemsOf(r) =>
                {Execute(t), Reconcile(t)} \cap Pending(log) = {})
        => Embed(r) \in Known(log)

\* The embeddings are asked for once, when the claims of the run are final.
ClaimsFinalWhenEmbedding ==
    [][\A r \in Runs : Embed(r) \in Known(log) =>
           \A i \in ItemsOf(r) : claims'[i] = claims[i] /\ item'[i] = item[i]]_vars

\* A command that was completed is not run again.
CompletedOnce ==
    [][\A k \in Known(log) : log[k].done => k \in Known(log') /\ log'[k].done]_vars

-----------------------------------------------------------------------------
(* The inductive invariant behind the safety properties                    *)

\* The lease token names the item it is for.
LeaseNamesItem ==
    \A i \in Items : item[i].status = "leased" =>
        item[i].token \in Token /\ ItemOf(item[i].token) = i

\* PREPARE writes the attempt and its EXECUTE command together.
AttemptHasExecute ==
    \A t \in Token : attempt[t] # "none" <=> Execute(t) \in Known(log)

\* RECONCILE is appended by the EXECUTE that ends, for the run that leased.
ReconcileFollowsExecute ==
    \A t \in Token :
        /\ Execute(t) \in Known(log) => log[Execute(t)].run = LeasingRun(t)
        /\ Reconcile(t) \in Known(log) =>
               /\ log[Reconcile(t)].run = LeasingRun(t)
               /\ Execute(t) \in Known(log) /\ log[Execute(t)].done

\* The commands a RECONCILE of the run may decide on.
NextCommands(r) ==
    {NoCommand, Embed(r)} \cup {RetryPrepare(r, p) : p \in RetryPlans}
                         \cup {FollowUp(S) : S \in SUBSET Token}

\* Only the drain that read the progress completes the RECONCILE.
ReadingIsPending ==
    \A t \in DOMAIN reading :
        /\ Reconcile(t) \in Pending(log)
        /\ reading[t] \in NextCommands(LeasingRun(t))

AllCompleted(r) == \A i \in ItemsOf(r) : item[i].status = "completed"

\* Asking for the embeddings, and the decision to do so, outlast every other
\* transaction: a completed section stays completed.
EmbedMeansCompleted ==
    \A r \in Runs :
        /\ Embed(r) \in Known(log) => AllCompleted(r)
        /\ \A t \in DOMAIN reading : reading[t] = Embed(r) => AllCompleted(r)

Extraction ==
    /\ LeaseNamesItem
    /\ AttemptHasExecute
    /\ ReconcileFollowsExecute
    /\ ReadingIsPending
    /\ LeaseIsWorkedOn
    /\ OpenAttemptHoldsLease
    /\ ClaimsFromOneAttempt
    /\ EmbedMeansCompleted

\* Between the completion of the last section and the command for the embeddings
\* some RECONCILE of the run is due that has not read an older progress.
EmbedIsComing ==
    \A r \in Runs : AllCompleted(r) /\ Embed(r) \notin Known(log) =>
        \E t \in Token :
            /\ ItemOf(t) \in ItemsOf(r) /\ LeasingRun(t) = r
            /\ Reconcile(t) \in Pending(log)
            /\ t \in DOMAIN reading => reading[t] = Embed(r)

-----------------------------------------------------------------------------
(* Liveness                                                                *)

Failed(r) == \E t \in Token : ItemOf(t) \in ItemsOf(r)
                              /\ attempt[t] \in {"retryable_failed", "terminal_failed"}

\* A run reaches the next phase, however often its transactions are abandoned and
\* repeated, unless an attempt fails, which a lease that is reclaimed counts as, or a
\* PREPARE found due items that fit nowhere and no reset to wait for: that one leaves
\* no command.
CleanRunCompletes ==
    \A r \in Runs : <>(Failed(r) \/ r \in short \/ Embed(r) \in Known(log))

-----------------------------------------------------------------------------
(* What the documents ask for and the code does not keep                   *)

Idle(r) ==
    /\ \A k \in Pending(log) : log[k].run # r
    /\ \A i \in ItemsOf(r) : item[i].status # "leased"

\* knowledge_extraction_saga_v1, safe retry conditions: "retryable failed work
\* item whose retry condition is due".  A RECONCILE whose retry PREPARE has a key
\* that was used before leaves nothing that would retry the item.
RetryableHasCommand ==
    \A r \in Runs : Idle(r) => \A i \in ItemsOf(r) : item[i].status # "retryable_failed"

\* The same condition as progress: a failed item is attempted again.  The second
\* attempt at the same batch position reuses the attempt_id of the first.
RetryIsAttempted ==
    \A i \in Items : item[i].status = "retryable_failed" ~> item[i].status # "retryable_failed"

\* _claim_builder_provenance: "claim_builder_provenance workflow_run_id must match
\* workflow_run_id".  PREPARE leases the due items of any run.
LeaseWithinRun ==
    \A i \in Items : item[i].status = "leased" => LeasingRun(item[i].token) = RunOf(i)
=============================================================================
