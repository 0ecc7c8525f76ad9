--------------------------- MODULE RouteCapacity ---------------------------
(***************************************************************************)
(* The capacity of an LLM route (provider, account, model), shared by all  *)
(* processes: llm_route_capacity_reservations and the direct PREPARE of    *)
(* the claim builder, which locks the routes of its payload one by one,    *)
(* reads what is reserved on each, gives the due items the first window    *)
(* they fit, and commits leases and reservations together.                 *)
(*                                                                         *)
(* A PREPARE is one database transaction; its time, occurred_at, was read  *)
(* before it waited for any lock.  The call of a reserved attempt, and the *)
(* RECONCILE that follows it, is one step here and is taken apart in       *)
(* ClaimBuilderPipeline.                                                   *)
(***************************************************************************)
EXTENDS FiniteSets, Integers, Sequences

Log == INSTANCE CommandLog

CONSTANTS
    Routes, NoRoute,
    Runs,        \* workflow runs
    Attempts,    \* work items to be attempted, once each: numbers, in due order
    Drains,      \* processes that drain commands
    RunOf,       \* Attempts -> Runs
    Need,        \* Attempts -> required_window_tokens
    Requests,    \* Routes -> planned requests of the window
    Tokens,      \* Routes -> planned tokens of the window
    Accounts,    \* Runs -> the configured routes of the run's commands, in order
    TTL,         \* 90 seconds, in ticks
    Batch,       \* scheduled_work_item_count
    Observations,\* bound: Attempts -> what its answer may tell of the provider's
                 \* capacity: nothing, what is left, or also the time of its reset
    NoCommand,
    MaxTime      \* bound

ASSUME AttemptsAssumption == Attempts \subseteq Nat /\ IsFiniteSet(Attempts)
ASSUME RunOfAssumption == RunOf \in [Attempts -> Runs]
ASSUME NeedAssumption == Need \in [Attempts -> Nat]
ASSUME WindowAssumption == Requests \in [Routes -> Nat \ {0}] /\ Tokens \in [Routes -> Nat \ {0}]
ASSUME AccountsAssumption == Accounts \in [Runs -> Seq(Routes)]
ASSUME TTLAssumption == TTL \in Nat /\ Batch \in Nat
ASSUME ObservationsAssumption == Observations \in [Attempts -> SUBSET {"nothing", "budget", "reset"}]
ASSUME NoRouteAssumption == NoRoute \notin Routes

VARIABLES
    now,
    reservation, \* Attempts -> row of llm_route_capacity_reservations
    closed,      \* routes whose latest observation is a failure with a reset to come
    log,         \* the command log: the PREPAREs
    pc,          \* Drains -> point of the PREPARE transaction
    command,     \* Drains -> the PREPARE it drains
    at,          \* Drains -> its occurred_at
    held,        \* Drains -> routes it has locked
    window,      \* Drains -> those it has read -> what is left of them
    due,         \* Drains -> the due items it peeked
    seen,        \* Drains -> those it has decided on
    plan         \* Drains -> items leased in the transaction -> route

shared == <<now, reservation, closed, log>>
local  == <<pc, command, at, held, window, due, seen, plan>>
vars   == <<shared, local>>

-----------------------------------------------------------------------------
(* PREPARE commands, by idempotency key                                    *)

Initial(r)  == <<"initial", r>>   \* work scheduling
FollowUp(S) == <<"followup", S>>  \* RECONCILE: the key hashes the PREPARE of batch S
Capacity(a) == <<"capacity", a>>  \* EXECUTE, after an observation of the provider
Wakeup(a)   == <<"wakeup", a>>    \* the same, for the time its window is reset

Keys == {Initial(r) : r \in Runs} \cup {FollowUp(S) : S \in SUBSET Attempts}
            \cup {Capacity(a) : a \in Attempts} \cup {Wakeup(a) : a \in Attempts}

\* llm_dispatch_preparation: the routes of a payload, and whether what they hold
\* is what a provider said of them.
Payload == [accounts : Seq(Routes), observed : BOOLEAN]

Configured(r) == [accounts |-> Accounts[r], observed |-> FALSE]

\* _capacity_window_prepare_payload: the observed route alone.
WindowOnly(r) == [accounts |-> <<r>>, observed |-> TRUE]

\* status "due" is a work item without a reservation; batch, run and payload are
\* those of the PREPARE that reserved.
Row == [status  : {"due", "active", "committed", "released"},
        route   : Routes \cup {NoRoute},
        expires : Nat,
        batch   : SUBSET Attempts,
        run     : Runs,
        payload : Payload]

Window == [requests : Nat, tokens : Nat, open : BOOLEAN]

EmptyMap == [x \in {} |-> x]

TypeOK ==
    /\ now \in Nat
    /\ closed \subseteq Routes
    /\ reservation \in [Attempts -> Row]
    /\ DOMAIN log \subseteq Keys
    /\ log \in [DOMAIN log -> Log!CommandRow(Runs, Payload)]
    /\ pc \in [Drains -> {"idle", "locking", "admitting"}]
    /\ DOMAIN command = Drains
    /\ \A d \in Drains : pc[d] # "idle" => command[d] \in DOMAIN log
    /\ at \in [Drains -> Nat]
    /\ held \in [Drains -> SUBSET Routes]
    /\ DOMAIN window = Drains
    /\ \A d \in Drains : /\ DOMAIN window[d] \subseteq Routes
                         /\ \A r \in DOMAIN window[d] : window[d][r] \in Window
    /\ due \in [Drains -> SUBSET Attempts]
    /\ seen \in [Drains -> SUBSET Attempts]
    /\ DOMAIN plan = Drains
    /\ \A d \in Drains : /\ DOMAIN plan[d] \subseteq Attempts
                         /\ plan[d] \in [DOMAIN plan[d] -> Routes]

\* The state work scheduling leaves behind.
Init ==
    /\ now = 0
    /\ reservation = [a \in Attempts |-> [status |-> "due", route |-> NoRoute, expires |-> 0,
                                          batch |-> {}, run |-> RunOf[a],
                                          payload |-> Configured(RunOf[a])]]
    /\ closed = {}
    /\ log = [k \in {Initial(r) : r \in Runs} |-> [run |-> k[2], done |-> FALSE,
                                                       payload |-> Configured(k[2])]]
    /\ pc = [d \in Drains |-> "idle"]
    /\ command = [d \in Drains |-> NoCommand]
    /\ at = [d \in Drains |-> 0]
    /\ held = [d \in Drains |-> {}]
    /\ window = [d \in Drains |-> EmptyMap]
    /\ due = [d \in Drains |-> {}]
    /\ seen = [d \in Drains |-> {}]
    /\ plan = [d \in Drains |-> EmptyMap]

-----------------------------------------------------------------------------
(* The reservation repository                                              *)

\* active_totals: the rows it counts, at the time the caller passes.
Counted(r, t) ==
    {a \in Attempts : /\ reservation[a].status = "active"
                      /\ reservation[a].route = r
                      /\ reservation[a].expires > t}

\* What the rows of S ask for, token by token: sums are cardinalities.
TokensAsked(S) == UNION {{a} \X (1..Need[a]) : a \in S}

TokensOf(S) == Cardinality(TokensAsked(S))

\* Mutation: the payload's accounts are locked in the order of an unordered set.
LockOrder_Any(d) ==
    CASE d = CHOOSE e \in Drains : TRUE -> log[command[d]].payload.accounts
      [] OTHER -> LET s == log[command[d]].payload.accounts
                  IN  [i \in DOMAIN s |-> s[Len(s) + 1 - i]]

\* _capacities_for_direct_prepare keeps the order of the payload.
LockOrder(d) == log[command[d]].payload.accounts

\* Mutation: the lock of a route is not taken.
Free_Always(r) == TRUE

Free(r) == \A e \in Drains : r \notin held[e]

-----------------------------------------------------------------------------
(* PREPARE                                                                 *)

Begin(d, k) ==
    /\ pc[d] = "idle"
    /\ k \in Log!Pending(log)
    /\ \A e \in Drains : command[e] # k
    /\ pc' = [pc EXCEPT ![d] = "locking"]
    /\ command' = [command EXCEPT ![d] = k]
    /\ \E t \in 0..now : at' = [at EXCEPT ![d] = t]
    /\ UNCHANGED <<shared, held, window, due, seen, plan>>

\* The first route of the payload that is not locked, when the others are read.
IsNextRoute(d, r) ==
    /\ pc[d] = "locking"
    /\ held[d] = DOMAIN window[d]
    /\ r \notin held[d]
    /\ \E i \in 1..Len(LockOrder(d)) :
           r = LockOrder(d)[i] /\ \A j \in 1..(i - 1) : LockOrder(d)[j] \in held[d]

\* lock_route: an advisory lock that is kept until the transaction ends.
LockRoute(d, r) ==
    /\ IsNextRoute(d, r)
    /\ Free(r)
    /\ held' = [held EXCEPT ![d] = @ \cup {r}]
    /\ UNCHANGED <<shared, pc, command, at, window, due, seen, plan>>

Remaining(planned, reserved) == IF planned > reserved THEN planned - reserved ELSE 0

\* What a payload says a window holds: the limits of the route, or what the
\* provider said is left of them, one at least.
Offered(p, r) ==
    IF p.observed THEN [requests : 1..Requests[r], tokens : 1..Tokens[r]]
    ELSE {[requests |-> Requests[r], tokens |-> Tokens[r]]}

\* active_totals and the latest observation, read under the lock.
ReadRoute(d, r) ==
    /\ pc[d] = "locking"
    /\ r \in held[d] \ DOMAIN window[d]
    /\ \E offered \in Offered(log[command[d]].payload, r) :
           window' = [window EXCEPT ![d] =
               [q \in DOMAIN window[d] \cup {r} |->
                   IF q # r THEN window[d][q]
                   ELSE [requests |-> Remaining(offered.requests, Cardinality(Counted(r, at[d]))),
                         tokens   |-> Remaining(offered.tokens, TokensOf(Counted(r, at[d]))),
                         open     |-> r \notin closed]]]
    /\ UNCHANGED <<shared, pc, command, at, held, due, seen, plan>>

\* The transaction ends: its locks are released.
End(d) ==
    /\ pc' = [pc EXCEPT ![d] = "idle"]
    /\ command' = [command EXCEPT ![d] = NoCommand]
    /\ at' = [at EXCEPT ![d] = 0]
    /\ held' = [held EXCEPT ![d] = {}]
    /\ window' = [window EXCEPT ![d] = EmptyMap]
    /\ due' = [due EXCEPT ![d] = {}]
    /\ seen' = [seen EXCEPT ![d] = {}]
    /\ plan' = [plan EXCEPT ![d] = EmptyMap]

LoadedAll(d) ==
    /\ pc[d] = "locking"
    /\ \A i \in 1..Len(LockOrder(d)) : LockOrder(d)[i] \in DOMAIN window[d]

SomeClosed(d) == \E r \in DOMAIN window[d] : ~window[d][r].open

\* Every window is closed: the command is replaced by itself at the reset time.
WaitForWindow(d) ==
    /\ LoadedAll(d)
    /\ SomeClosed(d) /\ \A r \in DOMAIN window[d] : ~window[d][r].open
    /\ End(d)
    /\ UNCHANGED shared

IsDue(a) == reservation[a].status = "due"

\* peek_due_work_items: the first items that are due, of whatever run.
Peek(d) ==
    /\ LoadedAll(d)
    /\ ~SomeClosed(d) \/ \E r \in DOMAIN window[d] : window[d][r].open
    /\ pc' = [pc EXCEPT ![d] = "admitting"]
    /\ due' = [due EXCEPT ![d] =
           {a \in Attempts : IsDue(a) /\ Cardinality({b \in Attempts : IsDue(b) /\ b < a}) < Batch}]
    /\ UNCHANGED <<shared, command, at, held, window, seen, plan>>

\* Mutation: the local windows are not reduced by what the batch takes.
Taken_Nothing(w, a) == w

\* reserve_locally.
Taken(w, a) == [requests |-> Remaining(w.requests, 1),
                tokens   |-> Remaining(w.tokens, Need[a]),
                open     |-> w.open]

Fits(w, a) == w.open /\ w.requests > 0 /\ Need[a] <= w.tokens

\* _first_capacity_window_index_that_fits: r is the first in payload order.
FirstFit(d, a, r) ==
    \E i \in 1..Len(LockOrder(d)) :
        /\ r = LockOrder(d)[i]
        /\ Fits(window[d][r], a)
        /\ \A j \in 1..(i - 1) : ~Fits(window[d][LockOrder(d)[j]], a)

\* The row of the item is free: no other transaction has leased it.
Leasable(d, a) ==
    /\ IsDue(a)
    /\ \A e \in Drains : a \notin DOMAIN plan[e]

\* The due items are taken in order.
IsNext(d, a) ==
    /\ pc[d] = "admitting"
    /\ a \in due[d] \ seen[d]
    /\ \A b \in due[d] \ seen[d] : a <= b

\* lease_due_work_item_by_id, the attempt and the reservation, for the first
\* window that fits.
Admit(d, a, r) ==
    /\ IsNext(d, a)
    /\ Leasable(d, a)
    /\ FirstFit(d, a, r)
    /\ plan' = [plan EXCEPT ![d] =
           [b \in DOMAIN plan[d] \cup {a} |-> IF b = a THEN r ELSE plan[d][b]]]
    /\ window' = [window EXCEPT ![d][r] = Taken(@, a)]
    /\ seen' = [seen EXCEPT ![d] = @ \cup {a}]
    /\ UNCHANGED <<shared, pc, command, at, held, due>>

\* One item that fits nowhere, or was leased meanwhile, does not block the others.
Skip(d, a) ==
    /\ IsNext(d, a)
    /\ ~Leasable(d, a) \/ \A r \in DOMAIN window[d] : ~FirstFit(d, a, r)
    /\ seen' = [seen EXCEPT ![d] = @ \cup {a}]
    /\ UNCHANGED <<shared, pc, command, at, held, window, due, plan>>

\* The reservations become visible with the leases and the completion.  A batch
\* that started nothing waits for a closed window, when there is one.
Commit(d) ==
    /\ pc[d] = "admitting"
    /\ seen[d] = due[d]
    /\ reservation' = [a \in Attempts |->
           IF a \in DOMAIN plan[d]
           THEN [status  |-> "active", route |-> plan[d][a], expires |-> at[d] + TTL,
                 batch   |-> DOMAIN plan[d], run |-> log[command[d]].run,
                 payload |-> log[command[d]].payload]
           ELSE reservation[a]]
    /\ log' = IF due[d] # {} /\ DOMAIN plan[d] = {} /\ SomeClosed(d)
              THEN log ELSE Log!Complete(log, command[d])
    /\ End(d)
    /\ UNCHANGED <<now, closed>>

\* The process dies, a statement raises, or the database breaks a deadlock.
Abort(d) ==
    /\ pc[d] # "idle"
    /\ End(d)
    /\ UNCHANGED shared

-----------------------------------------------------------------------------
\* Mutation: a status the table does not know.
FinalStatus_Failed(observed) == IF observed = "nothing" THEN "failed" ELSE "committed"

\* The tokens really used are known from the observation.
FinalStatus(observed) == IF observed = "nothing" THEN "released" ELSE "committed"

\* Mutation: the wakeup keeps the other routes, and moves the observed one behind them.
Observed_KeepsRoutes(L, a, observed) ==
    LET row    == reservation[a]
        others == SelectSeq(row.payload.accounts, LAMBDA r : r # row.route)
        M      == IF observed = "reset"
                  THEN Log!Append(L, Wakeup(a), row.run,
                                  [accounts |-> Append(others, row.route), observed |-> TRUE])
                  ELSE L
    IN  IF observed = "nothing" THEN L ELSE Log!Append(M, Capacity(a), row.run, row.payload)

\* The PREPAREs an observation leaves behind: one at once, with the payload of the
\* EXECUTE, and one at the reset, for the observed route.
Observed(L, a, observed) ==
    LET row == reservation[a]
        M   == IF observed = "reset"
               THEN Log!Append(L, Wakeup(a), row.run, WindowOnly(row.route)) ELSE L
    IN  IF observed = "nothing" THEN L ELSE Log!Append(M, Capacity(a), row.run, row.payload)

\* EXECUTE, which finalizes the reservation, and the RECONCILE after it: what
\* the provider's answer tells of its capacity, and the next PREPARE of the run.
Finish(a, observed) ==
    LET row  == reservation[a]
        L1   == Observed(log, a, observed)
        more == \E b \in Attempts : RunOf[b] = row.run /\ IsDue(b)
    IN  /\ row.status = "active"
        /\ reservation' = [reservation EXCEPT ![a].status = FinalStatus(observed)]
        /\ log' = IF more THEN Log!Append(L1, FollowUp(row.batch), row.run, row.payload) ELSE L1
        /\ closed' = IF observed = "reset" THEN closed \cup {row.route} ELSE closed
        /\ UNCHANGED <<now, local>>

Reopen(r) ==
    /\ r \in closed
    /\ closed' = closed \ {r}
    /\ UNCHANGED <<now, reservation, log, local>>

Tick ==
    /\ now < MaxTime
    /\ now' = now + 1
    /\ UNCHANGED <<reservation, closed, log, local>>

Drain(d) ==
    \/ \E k \in Log!Pending(log) : Begin(d, k)
    \/ \E r \in Routes : LockRoute(d, r) \/ ReadRoute(d, r)
    \/ WaitForWindow(d)
    \/ Peek(d)
    \/ \E a \in Attempts : Skip(d, a) \/ \E r \in DOMAIN window[d] : Admit(d, a, r)
    \/ Commit(d)

Next ==
    \/ \E d \in Drains : Drain(d) \/ Abort(d)
    \/ \E a \in Attempts : \E observed \in Observations[a] : Finish(a, observed)
    \/ \E r \in Routes : Reopen(r)
    \/ Tick

Spec == Init /\ [][Next]_vars

\* A transaction that is not blocked goes on, and waiters for a lock are queued: a
\* lock that is released again and again is granted.
FairSpec == Spec /\ \A d \in Drains : WF_vars(Drain(d)) /\ SF_vars(\E r \in Routes : LockRoute(d, r))

-----------------------------------------------------------------------------
(* Safety                                                                  *)

Load(r) == Counted(r, now)

\* "Concurrent replicas share an atomic capacity budget": whatever transactions
\* overlap, and however old the time they read, no route carries more requests
\* than its window.  active_totals and reserve are separate statements.
RequestsWithinWindow == \A r \in Routes : Cardinality(Load(r)) <= Requests[r]

\* The same for the tokens the requests asked for.
TokensWithinWindow == \A r \in Routes : TokensOf(Load(r)) <= Tokens[r]

Awaits(d, e) == \E r \in held[e] : IsNextRoute(d, r)

\* Transactions that wait for each other's routes never close a circle, however many
\* they are: the database has no deadlock to break.
NoCircularWait ==
    \A S \in (SUBSET Drains) \ {{}} : \E d \in S : \A e \in S : ~Awaits(d, e)

-----------------------------------------------------------------------------
(* Liveness                                                                *)

\* No transaction waits for ever for a route: they lock in the same order.
PrepareEnds == \A d \in Drains : pc[d] # "idle" ~> pc[d] = "idle"

-----------------------------------------------------------------------------
(* The inductive invariant                                                 *)

\* The advisory lock of a route has one holder.
LocksExclude == \A d, e \in Drains : d # e => held[d] \cap held[e] = {}

\* A transaction reads, and plans for, the routes it holds.
UnderLock ==
    \A d \in Drains :
        /\ pc[d] = "idle" => held[d] = {}
        /\ DOMAIN window[d] \subseteq held[d]
        /\ \A a \in DOMAIN plan[d] : plan[d][a] \in DOMAIN window[d]

\* The rows a transaction has leased are due for everyone else, and locked.
PlansExclude ==
    \A d \in Drains : \A a \in DOMAIN plan[d] :
        /\ IsDue(a)
        /\ \A e \in Drains : a \in DOMAIN plan[e] => e = d

FromThePast == \A d \in Drains : at[d] <= now

Planned(d, r) == {a \in DOMAIN plan[d] : plan[d][a] = r}

\* What was counted, what is planned and what is left add up to the window.
WindowAddsUp ==
    \A d \in Drains : \A r \in DOMAIN window[d] :
        (Planned(d, r) # {} \/ window[d][r].requests > 0) =>
            Cardinality(Counted(r, at[d])) + Cardinality(Planned(d, r)) + window[d][r].requests
                <= Requests[r]

\* What has been reserved, has been reserved on a route.
ReservedOnRoute == \A a \in Attempts : ~IsDue(a) => reservation[a].route \in Routes

Inv ==
    /\ RequestsWithinWindow
    /\ LocksExclude
    /\ UnderLock
    /\ PlansExclude
    /\ FromThePast
    /\ WindowAddsUp

\* The same for tokens, of which a request may need none.
TokensAddUp ==
    \A d \in Drains : \A r \in DOMAIN window[d] :
        (TokensOf(Planned(d, r)) > 0 \/ window[d][r].tokens > 0) =>
            TokensOf(Counted(r, at[d])) + TokensOf(Planned(d, r)) + window[d][r].tokens
                <= Tokens[r]

TokenInv ==
    /\ TokensWithinWindow
    /\ TokensAddUp

\* A payload names what the run is configured for, or one route.
PayloadsNarrow ==
    /\ \A k \in DOMAIN log : \/ \E r \in Runs : log[k].payload.accounts = Accounts[r]
                             \/ Len(log[k].payload.accounts) = 1
    /\ \A a \in Attempts : \/ \E r \in Runs : reservation[a].payload.accounts = Accounts[r]
                           \/ Len(reservation[a].payload.accounts) = 1

\* Who holds a route holds those before it in the payload.
LocksFollowOrder ==
    \A d \in Drains : \A r \in held[d] :
        /\ pc[d] # "idle"
        /\ \E i \in 1..Len(LockOrder(d)) :
               r = LockOrder(d)[i] /\ \A j \in 1..(i - 1) : LockOrder(d)[j] \in held[d]

-----------------------------------------------------------------------------
(* What the documents ask for and the code does not keep                   *)

\* The capacity cutover checkpoint, admission: "immediately try again; schedule
\* wakeup only if nothing fits."  A PREPARE that fits nothing because the windows
\* are full of reservations leaves no wakeup, and the FollowUp of the batch that
\* filled them may have been used already.
DueHasWakeup ==
    (/\ Log!Pending(log) = {}
     /\ \A a \in Attempts : reservation[a].status # "active")
    => \A a \in Attempts : reservation[a].status # "due"
=============================================================================
