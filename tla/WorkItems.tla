------------------------------ MODULE WorkItems ------------------------------
(***************************************************************************)
(* The work item row of the Execution Runtime and its legal transitions,   *)
(* as pure operators: what WorkItemStateMachine computes, without deciding *)
(* who calls it.  Every module that keeps work items is built on these.    *)
(***************************************************************************)
EXTENDS Naturals

CONSTANTS
    Items,        \* work_item_id values
    Slots,        \* positions of an item in a dispatch batch
    RetryPlans,   \* values of WorkItemRetryPlan the instance tells apart
    NoToken,      \* NULL lease_token
    NoPlan        \* NULL retry_plan

\* Both dispatch preparations build the lease token from the workflow run, the
\* position of the item in the batch and the item; within one run that is a
\* pair.  The attempt_id of the attempt started under a lease is the same text.
Token == Slots \X Items

ItemOf(t) == t[2]

ASSUME NoTokenAssumption == NoToken \notin Token
ASSUME NoPlanAssumption == NoPlan \notin RetryPlans

-----------------------------------------------------------------------------
Status == {"absent",            \* no row yet
           "ready", "leased", "completed", "retryable_failed",
           "terminal_failed", "cancelled", "split_superseded",
           "user_action_required"}

Due == {"ready", "retryable_failed"}

\* Statuses no transition leaves; user_action_required is terminal for the
\* scheduler but can be resolved or cancelled.
Settled == {"completed", "terminal_failed", "cancelled", "split_superseded"}

\* The fields the runtime decides on; expires = 0 stands for NULL.
Row == [status   : Status,
        attempts : Nat,
        token    : Token \cup {NoToken},
        expires  : Nat,
        plan     : RetryPlans \cup {NoPlan}]

Absent == [status |-> "absent", attempts |-> 0, token |-> NoToken,
           expires |-> 0, plan |-> NoPlan]

Scheduled == [Absent EXCEPT !.status = "ready"]

\* Only a leased item carries lease fields, so every transition out of a lease,
\* and every transition between unleased statuses, clears them.
Unleased(row, status, plan) ==
    [row EXCEPT !.status = status, !.token = NoToken, !.expires = 0, !.plan = plan]

LeaseReady(row, token, expires) ==
    [status |-> "leased", attempts |-> row.attempts + 1, token |-> token,
     expires |-> expires, plan |-> NoPlan]

CompleteLeased(row)              == Unleased(row, "completed", NoPlan)
FailLeasedRetryable(row, plan)   == Unleased(row, "retryable_failed", plan)
FailLeasedTerminal(row)          == Unleased(row, "terminal_failed", NoPlan)
CancelItem(row)                  == Unleased(row, "cancelled", NoPlan)
MarkSplitSuperseded(row)         == Unleased(row, "split_superseded", NoPlan)
RequireUserActionLeased(row)     == Unleased(row, "user_action_required", NoPlan)
ReturnToReady(row)               == Unleased(row, "ready", NoPlan)

\* Mutation: an active lease counts as expired.
LeaseExpired_Any(row, asOf) == row.status = "leased"

LeaseExpired(row, asOf) == row.status = "leased" /\ row.expires <= asOf

\* The shape the WorkItem entity and chk_execution_work_items_lease_shape demand.
LeaseShape(row) ==
    /\ row.status = "leased" => row.token # NoToken /\ row.expires > 0
    /\ row.status # "leased" => row.token = NoToken /\ row.expires = 0
=============================================================================
