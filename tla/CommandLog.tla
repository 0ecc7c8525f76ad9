----------------------------- MODULE CommandLog -----------------------------
(***************************************************************************)
(* The durable command log of the Workflow Runtime, as operators on one    *)
(* log: a function from the idempotency keys in use to command rows.  A    *)
(* drain transaction takes one pending command, runs its handler, and      *)
(* either commits with the command completed or leaves the log as it was.  *)
(***************************************************************************)

\* The part of a command row its handlers decide on.
CommandRow(Runs, Payload) == [run : Runs, done : BOOLEAN, payload : Payload]

EmptyLog == [k \in {} |-> {}]

Known(L) == DOMAIN L

Pending(L) == {k \in DOMAIN L : ~L[k].done}

\* _assert_idempotent_conflict_is_same: the key is taken by another command.
Clash(L, k, run, payload) ==
    k \in DOMAIN L /\ (L[k].run # run \/ L[k].payload # payload)

\* Mutation: a conflicting append makes the existing command pending again.
AppendEach_Reopens(L, K, run, payload) ==
    [j \in DOMAIN L \cup K |->
        IF j \in K THEN [run |-> run, done |-> FALSE, payload |-> payload] ELSE L[j]]

\* append_pending_command, for each key of K: ON CONFLICT (idempotency_key) DO
\* NOTHING.  The caller is handed the existing command, whatever its status, and
\* goes on.
AppendEach(L, K, run, payload) ==
    [j \in DOMAIN L \cup K |->
        IF j \in DOMAIN L THEN L[j]
        ELSE [run |-> run, done |-> FALSE, payload |-> payload]]

Append(L, k, run, payload) == AppendEach(L, {k}, run, payload)

\* mark_command_completed.
Complete(L, k) == [L EXCEPT ![k].done = TRUE]
=============================================================================
