------------------------- MODULE WorkItemLifecycle --------------------------
(***************************************************************************)
(* The Postgres store of the Execution Runtime: the tables                 *)
(* execution_work_items, execution_work_item_attempts and                  *)
(* execution_work_item_attempt_dispatches, and the repository operations   *)
(* that change them.  An action is one repository operation (or the        *)
(* operations its callers always run in the same transaction); who calls   *)
(* them, and when, is left open here and fixed by the pipeline modules.    *)
(*                                                                         *)
(* An LLM call is not a step: the transaction that makes it is open while  *)
(* the provider works, and other transactions commit in between.           *)
(***************************************************************************)
EXTENDS WorkItems

CONSTANTS
    SeparateApply, \* items whose result a later command applies (compaction);
                   \* the others are applied when the outcome is recorded
    LeaseTTL,      \* length of a lease
    MaxDelay,      \* bound: how far the time a lease is dated from may lag
    MaxTime,       \* bound: the clock stops here
    MaxAttempts    \* bound: an item is leased at most this often

ASSUME SeparateApplyAssumption == SeparateApply \subseteq Items
ASSUME LeaseTTLAssumption == LeaseTTL \in Nat \ {0}

VARIABLES
    now,       \* wall clock
    item,      \* Items -> Row
    attempt,   \* Token -> attempt row, with its dispatch row
    calls,     \* attempts whose executing transaction is open
    applied    \* Items -> attempts whose result was persisted in the domain

vars == <<now, item, attempt, calls, applied>>

Outcome == {"none",    \* no attempt row
            "open",    \* started, outcome_status NULL
            "succeeded", "retryable_failed", "terminal_failed"}

\* error is "none" for NULL and "kind" for what the provider or the validator
\* reported; the recovery writes "lease_expired".
AttemptRow == [number : Nat, outcome : Outcome,
               error : {"none", "kind", "lease_expired"}]

NoAttempt == [number |-> 0, outcome |-> "none", error |-> "none"]

TypeOK ==
    /\ now \in Nat
    /\ item \in [Items -> Row]
    /\ attempt \in [Token -> AttemptRow]
    /\ calls \in SUBSET Token
    /\ applied \in [Items -> SUBSET Token]

Init ==
    /\ now = 0
    /\ item = [i \in Items |-> Absent]
    /\ attempt = [t \in Token |-> NoAttempt]
    /\ calls = {}
    /\ applied = [i \in Items |-> {}]

-----------------------------------------------------------------------------
\* EnsureWorkItemsScheduled: an existing item is left alone.
Schedule(i) ==
    /\ item[i].status = "absent"
    /\ item' = [item EXCEPT ![i] = Scheduled]
    /\ UNCHANGED <<now, attempt, calls, applied>>

\* Mutation: attempt_count is not incremented.
LeasedRow_SameCount(row, t, expires) ==
    [LeaseReady(row, t, expires) EXCEPT !.plan = row.plan, !.attempts = row.attempts]

\* lease_due_work_item_by_id: the UPDATE names every lease column but not
\* retry_plan, so the plan of the last failure stays in the row.
LeasedRow(row, t, expires) == [LeaseReady(row, t, expires) EXCEPT !.plan = row.plan]

\* save_started_dispatch_attempt: the attempt_id is the lease token, and the
\* dispatch is inserted without ON CONFLICT, so the token must be new; the
\* attempt number is unique per item.
CanStart(i, t) ==
    /\ attempt[t].outcome = "none"
    /\ \A u \in Token : ItemOf(u) = i => attempt[u].number # item[i].attempts + 1

\* A preparation leases an item and starts its attempt in one transaction.  The
\* lease is dated from the command that asked for it, not from the clock.
LeaseAndStart(i, s, from) ==
    LET t == <<s, i>> IN
    /\ item[i].status \in Due
    /\ item[i].attempts < MaxAttempts
    /\ from <= now /\ now <= from + MaxDelay
    /\ CanStart(i, t)
    /\ item' = [item EXCEPT ![i] = LeasedRow(item[i], t, from + LeaseTTL)]
    /\ attempt' = [attempt EXCEPT ![t] = [number  |-> item[i].attempts + 1,
                                          outcome |-> "open", error |-> "none"]]
    /\ UNCHANGED <<now, calls, applied>>

-----------------------------------------------------------------------------
\* ExecutePreparedLlmDispatchAttempt.execute, up to the provider call: the
\* dispatch exists and no outcome is recorded.  The lease is not looked at.
BeginCall(t) ==
    /\ t \notin calls
    /\ attempt[t].outcome = "open"
    /\ calls' = calls \cup {t}
    /\ UNCHANGED <<now, item, attempt, applied>>

\* Mutation: any lease of the item will do.
HoldsLease_AnyLease(t) == item[ItemOf(t)].status = "leased"

\* _validate_current_lease, under FOR UPDATE, after the provider answered.
HoldsLease(t) ==
    LET row == item[ItemOf(t)] IN
    /\ row.status = "leased"
    /\ row.token = t
    /\ row.attempts = attempt[t].number

\* Mutation: an outcome status the schema does not know.
Recorded_Deferred(t, outcome) ==
    attempt' = [attempt EXCEPT ![t].outcome =
                    IF outcome = "retryable_failed" THEN "deferred" ELSE outcome]

\* record_attempt_outcome overwrites the outcome columns of the attempt.
Recorded(t, outcome) ==
    attempt' = [attempt EXCEPT ![t].outcome = outcome,
                               ![t].error = IF outcome = "succeeded" THEN "none"
                                                                     ELSE "kind"]

EndCall(t) == t \in calls /\ calls' = calls \ {t}

\* A result that a later command applies leaves the item leased.
RecordSuccess(t) ==
    /\ EndCall(t)
    /\ ItemOf(t) \in SeparateApply
    /\ HoldsLease(t)
    /\ Recorded(t, "succeeded")
    /\ UNCHANGED <<now, item, applied>>

\* A claim-builder result is persisted, and its item completed, with the outcome.
RecordAndApply(t) ==
    LET i == ItemOf(t) IN
    /\ EndCall(t)
    /\ i \notin SeparateApply
    /\ HoldsLease(t)
    /\ Recorded(t, "succeeded")
    /\ applied' = [applied EXCEPT ![i] = applied[i] \cup {t}]
    /\ item' = [item EXCEPT ![i] = CompleteLeased(item[i])]
    /\ UNCHANGED now

RecordRetryable(t, plan) ==
    LET i == ItemOf(t) IN
    /\ EndCall(t)
    /\ HoldsLease(t)
    /\ Recorded(t, "retryable_failed")
    /\ item' = [item EXCEPT ![i] = FailLeasedRetryable(item[i], plan)]
    /\ UNCHANGED <<now, applied>>

RecordTerminal(t) ==
    LET i == ItemOf(t) IN
    /\ EndCall(t)
    /\ HoldsLease(t)
    /\ Recorded(t, "terminal_failed")
    /\ item' = [item EXCEPT ![i] = FailLeasedTerminal(item[i])]
    /\ UNCHANGED <<now, applied>>

\* The lease is gone when the provider answers, or the process dies: the
\* transaction rolls back and the command will be executed again.
AbandonCall(t) == EndCall(t) /\ UNCHANGED <<now, item, attempt, applied>>

-----------------------------------------------------------------------------
\* Mutation: completion does not validate the lease.
ApplyResult_NoLeaseCheck(t) ==
    LET i == ItemOf(t) IN
    /\ i \in SeparateApply
    /\ attempt[t].outcome = "succeeded"
    /\ applied' = [applied EXCEPT ![i] = applied[i] \cup {t}]
    /\ item' = [item EXCEPT ![i] = CompleteLeased(item[i])]
    /\ UNCHANGED <<now, attempt, calls>>

\* The result of a succeeded attempt is persisted and the item completed in one
\* transaction.  _validate_completion_lease compares the token and nothing else.
ApplyResult(t) ==
    LET i == ItemOf(t) IN
    /\ i \in SeparateApply
    /\ attempt[t].outcome = "succeeded"
    /\ item[i].status = "leased" /\ item[i].token = t
    /\ applied' = [applied EXCEPT ![i] = applied[i] \cup {t}]
    /\ item' = [item EXCEPT ![i] = CompleteLeased(item[i])]
    /\ UNCHANGED <<now, attempt, calls>>

\* Mutations: the attempt of a reclaimed item is left open; its outcome is
\* overwritten; an item whose attempt already finished is not reclaimed.
ClosedByRecovery_LeftOpen(a) == a

ClosedByRecovery_Overwritten(a) ==
    [a EXCEPT !.outcome = "retryable_failed", !.error = "lease_expired"]

ReclaimExpired_OpenOnly(S) ==
    /\ S # {}
    /\ \A i \in S : LeaseExpired(item[i], now) /\ attempt[item[i].token].outcome = "open"
    /\ item' = [i \in Items |-> IF i \in S THEN ReturnToReady(item[i]) ELSE item[i]]
    /\ attempt' = [t \in Token |->
           IF ItemOf(t) \in S /\ attempt[t].outcome = "open"
           THEN [attempt[t] EXCEPT !.outcome = "retryable_failed"]
           ELSE attempt[t]]
    /\ UNCHANGED <<now, calls, applied>>

\* closed_attempts: COALESCE keeps an outcome that is already there, and fills a
\* NULL error_kind whatever the outcome is.
ClosedByRecovery(a) ==
    [a EXCEPT !.outcome = IF a.outcome = "open" THEN "retryable_failed" ELSE a.outcome,
              !.error   = IF a.error = "none" THEN "lease_expired" ELSE a.error]

\* reclaim_expired: a batch of expired leases; rows locked by another
\* transaction are skipped, so any part of the expired items may be taken.
ReclaimExpired(S) ==
    /\ S # {}
    /\ \A i \in S : LeaseExpired(item[i], now)
    /\ item' = [i \in Items |-> IF i \in S THEN ReturnToReady(item[i]) ELSE item[i]]
    /\ attempt' = [t \in Token |->
           IF /\ ItemOf(t) \in S
              /\ attempt[t].outcome # "none"
              /\ attempt[t].number = item[ItemOf(t)].attempts
           THEN ClosedByRecovery(attempt[t])
           ELSE attempt[t]]
    /\ UNCHANGED <<now, calls, applied>>

Tick == now < MaxTime /\ now' = now + 1 /\ UNCHANGED <<item, attempt, calls, applied>>

-----------------------------------------------------------------------------
Execute(t) ==
    \/ BeginCall(t)
    \/ RecordSuccess(t)
    \/ RecordAndApply(t)
    \/ \E plan \in RetryPlans : RecordRetryable(t, plan)
    \/ RecordTerminal(t)
    \/ AbandonCall(t)

Next ==
    \/ \E i \in Items : Schedule(i)
    \/ \E i \in Items, s \in Slots, from \in 0..now : LeaseAndStart(i, s, from)
    \/ \E t \in Token : Execute(t) \/ ApplyResult(t)
    \/ \E S \in SUBSET Items : ReclaimExpired(S)
    \/ Tick

Spec == Init /\ [][Next]_vars

\* The runtime loop reclaims on every tick of its poll interval, oldest lease
\* first, whatever the drains do.
Recovery == \A i \in Items : WF_vars(ReclaimExpired({i}))

FairSpec == Spec /\ Recovery

-----------------------------------------------------------------------------
(* Safety                                                                  *)

\* An attempt without an outcome belongs to the lease the item is under: the
\* recovery leaves no attempt open behind it, so a command that is executed
\* again never calls the provider for a lease that is gone.
OpenAttemptHoldsLease ==
    \A t \in Token : attempt[t].outcome = "open" => HoldsLease(t)

Rows(i) == {t \in Token : ItemOf(t) = i /\ attempt[t].outcome # "none"}

\* Every lease left exactly one attempt row, numbered in the order of the
\* leases: attempt_count and the attempts table never disagree, although the
\* count is kept by the lease and the rows by the preparation.
AttemptsMatchLeases ==
    \A i \in Items :
        /\ {attempt[t].number : t \in Rows(i)} = 1..item[i].attempts
        /\ \A t, u \in Rows(i) : attempt[t].number = attempt[u].number => t = u

\* A result reaches the domain once, from the last attempt of its item, and
\* exactly when the item is completed: neither a late provider answer nor the
\* separate apply transaction can persist the result of a superseded attempt.
AppliedOnceByLastAttempt ==
    \A i \in Items :
        /\ item[i].status = "completed" <=> applied[i] # {}
        /\ \A t \in applied[i] :
               /\ applied[i] = {t}
               /\ ItemOf(t) = i
               /\ attempt[t].outcome = "succeeded"
               /\ attempt[t].number = item[i].attempts

\* A recorded outcome is never overwritten: the recovery's COALESCE and the
\* outcome recording, which run in different transactions, agree on who is first.
OutcomeIsFinal ==
    [][\A t \in Token : attempt[t].outcome \notin {"none", "open"} =>
           attempt'[t].outcome = attempt[t].outcome]_vars

\* A lease that has not expired is only ended by the attempt started under it.
ActiveLeaseIsSafe ==
    [][\A i \in Items :
           (item[i].status = "leased" /\ item[i].expires > now /\ item'[i] # item[i]) =>
               LET t == item[i].token IN
               \/ t \in calls /\ t \notin calls'
               \/ t \in applied'[i]]_vars

\* Completed and terminally failed items never move again, in whatever order
\* late outcomes, applies and recoveries of the same item arrive.
SettledIsFinal ==
    [][\A i \in Items : item[i].status \in Settled => item'[i] = item[i]]_vars

-----------------------------------------------------------------------------
(* The inductive invariant behind the safety properties                    *)

LeaseShapes == \A i \in Items : LeaseShape(item[i])

UnscheduledIsBlank == \A i \in Items : item[i].status = "absent" => item[i].attempts = 0

\* A lease was taken together with the attempt it names.
LeaseHasAttempt ==
    \A i \in Items : item[i].status = "leased" =>
        LET t == item[i].token IN
        /\ t \in Rows(i)
        /\ attempt[t].number = item[i].attempts
        /\ attempt[t].outcome \in {"open", "succeeded"}

AttemptsNumbered ==
    \A t \in Token : attempt[t].outcome # "none" =>
        attempt[t].number \in 1..item[ItemOf(t)].attempts

NumbersUnique ==
    \A i \in Items : \A t, u \in Rows(i) : attempt[t].number = attempt[u].number => t = u

NumbersDense ==
    \A i \in Items : \A n \in 1..item[i].attempts : \E t \in Rows(i) : attempt[t].number = n

\* A transaction that waits for the provider works for a started attempt; while
\* the lease is still that attempt's, nobody else has recorded an outcome.
CallIsForOpenAttempt ==
    \A t \in calls : attempt[t].outcome # "none" /\ (HoldsLease(t) => attempt[t].outcome = "open")

Fencing ==
    /\ LeaseShapes
    /\ UnscheduledIsBlank
    /\ LeaseHasAttempt
    /\ AttemptsNumbered
    /\ NumbersUnique
    /\ NumbersDense
    /\ OpenAttemptHoldsLease
    /\ AppliedOnceByLastAttempt
    /\ CallIsForOpenAttempt

-----------------------------------------------------------------------------
(* Liveness                                                                *)

\* "Worker crashes can no longer leave leases permanently stranded": a lease
\* that has expired does not stay.
ExpiredLeaseEnds ==
    \A t \in Token :
        LET i == ItemOf(t) IN
        (item[i].status = "leased" /\ item[i].token = t /\ item[i].expires <= now)
            ~> ~(item[i].status = "leased" /\ item[i].token = t)

-----------------------------------------------------------------------------
(* Refinement                                                              *)

\* The lease repository hydrates the entity without retry_plan, so the plan the
\* row keeps through a lease is not part of the work item the domain sees; with
\* the raw rows the store would not implement the state machine, whose
\* lease_ready clears the plan.
Hydrated == [i \in Items |->
                IF item[i].status = "leased" THEN [item[i] EXCEPT !.plan = NoPlan]
                                             ELSE item[i]]

Domain == INSTANCE WorkItemStateMachine WITH item <- Hydrated

\* Every repository operation is a transition the domain state machine allows.
ImplementsStateMachine == Domain!Spec

-----------------------------------------------------------------------------
(* What the code asserts and the store does not keep                       *)

\* RecordedWorkItemAttemptOutcome: "error_kind must be None for succeeded
\* outcome".  The recovery fills the error_kind of a succeeded attempt whose
\* result was not applied before the lease expired.
SucceededHasNoError ==
    \A t \in Token : attempt[t].outcome = "succeeded" => attempt[t].error = "none"
=============================================================================
