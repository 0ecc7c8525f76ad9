------------------------ MODULE WorkItemStateMachine ------------------------
(***************************************************************************)
(* The lifecycle of work items as the domain layer of the Execution        *)
(* Runtime allows it: any use case may call any transition of              *)
(* WorkItemStateMachine on any item, in one unit of work each.  It is the  *)
(* contract the Postgres repositories must keep: WorkItemLifecycle is      *)
(* shown to implement it.                                                  *)
(***************************************************************************)
EXTENDS WorkItems

CONSTANTS
    LeaseTTL,     \* longest lease a caller asks for
    MaxTime,      \* bound: the clock stops here
    MaxAttempts   \* bound: an item is leased at most this often

VARIABLES
    now,          \* wall clock
    item          \* Items -> Row

vars == <<now, item>>

Init == now = 0 /\ item = [i \in Items |-> Absent]

Moved(i, row) == item' = [item EXCEPT ![i] = row] /\ UNCHANGED now

\* WorkItem(...) is constructed READY.
Create(i) == item[i].status = "absent" /\ Moved(i, Scheduled)

\* The caller passes its own idea of the present, which may lag the clock.
Lease(i, t, expires, asOf) ==
    /\ item[i].status \in Due
    /\ expires > asOf
    /\ item[i].attempts < MaxAttempts
    /\ Moved(i, LeaseReady(item[i], t, expires))

FromLease(i, row) == item[i].status = "leased" /\ Moved(i, row)

Complete(i)              == FromLease(i, CompleteLeased(item[i]))
FailRetryable(i, p)      == FromLease(i, FailLeasedRetryable(item[i], p))
FailTerminal(i)          == FromLease(i, FailLeasedTerminal(item[i]))
SupersedeLeased(i)       == FromLease(i, MarkSplitSuperseded(item[i]))
RequireUserAction(i)     == FromLease(i, RequireUserActionLeased(item[i]))
Release(i)               == FromLease(i, ReturnToReady(item[i]))

SupersedeWaiting(i) ==
    /\ item[i].status \in Due
    /\ Moved(i, MarkSplitSuperseded(item[i]))

Cancel(i) ==
    /\ item[i].status \notin Settled \cup {"absent"}
    /\ Moved(i, CancelItem(item[i]))

ResolveToReady(i) ==
    /\ item[i].status = "user_action_required"
    /\ Moved(i, ReturnToReady(item[i]))

ResolveToRetryable(i, p) ==
    /\ item[i].status = "user_action_required"
    /\ Moved(i, FailLeasedRetryable(item[i], p))

\* Several items are reclaimed in one unit of work; those that are not leased,
\* or whose lease is active, are skipped.
Reclaim(S, asOf) ==
    /\ \A i \in S : LeaseExpired(item[i], asOf)
    /\ item' = [i \in Items |-> IF i \in S THEN ReturnToReady(item[i]) ELSE item[i]]
    /\ UNCHANGED now

Tick == now < MaxTime /\ now' = now + 1 /\ UNCHANGED item

Transition(i) ==
    \/ Create(i)
    \/ \E s \in Slots, asOf \in 0..now, length \in 0..LeaseTTL :
           Lease(i, <<s, i>>, asOf + length, asOf)
    \/ Complete(i)
    \/ \E p \in RetryPlans : FailRetryable(i, p) \/ ResolveToRetryable(i, p)
    \/ FailTerminal(i) \/ SupersedeLeased(i) \/ RequireUserAction(i)
    \/ Release(i) \/ SupersedeWaiting(i) \/ Cancel(i) \/ ResolveToReady(i)

Next ==
    \/ \E i \in Items : Transition(i)
    \/ \E S \in SUBSET Items, asOf \in 0..now : Reclaim(S, asOf)
    \/ Tick

Spec == Init /\ [][Next]_vars
=============================================================================
