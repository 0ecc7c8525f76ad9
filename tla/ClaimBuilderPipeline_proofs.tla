--------------------- MODULE ClaimBuilderPipeline_proofs --------------------
(***************************************************************************)
(* Proofs about claim-builder section extraction, for any number of runs,  *)
(* sections, batch positions, drains and attempts.  Typing comes first,    *)
(* then the inductive invariant Extraction, then what follows from it.     *)
(***************************************************************************)
EXTENDS ClaimBuilderPipeline, TLAPS

-----------------------------------------------------------------------------
(* Tokens, rows and keys                                                   *)

\* A token names the run that prepares, the position and the item.
LEMMA TokenParts ==
    /\ \A t \in Token : ItemOf(t) \in Items /\ LeasingRun(t) \in Runs
    /\ \A r \in Runs, p \in Positions, i \in Items :
           /\ <<<<r, p>>, i>> \in Token
           /\ ItemOf(<<<<r, p>>, i>>) = i
           /\ LeasingRun(<<<<r, p>>, i>>) = r
BY DEF Token, ItemOf, Items, LeasingRun

\* An item names its run.
LEMMA ItemParts ==
    /\ \A i \in Items : RunOf(i) \in Runs
    /\ \A r \in Runs : ItemsOf(r) \subseteq Items
    /\ \A r \in Runs : ItemsOf(r) # {}
<1>1. PICK s : s \in Sections
  BY SectionsAssumption
<1>2. \A r \in Runs : <<r, s>> \in ItemsOf(r)
  BY <1>1 DEF Items, ItemsOf, RunOf
<1> QED
  BY <1>2 DEF Items, ItemsOf, RunOf

\* Leaving a lease keeps the row a row and clears the lease.
LEMMA UnleasedRow ==
    ASSUME NEW row \in Row, NEW status \in Status, NEW plan \in RetryPlans \cup {NoPlan}
    PROVE  /\ Unleased(row, status, plan) \in Row
           /\ Unleased(row, status, plan).status = status
BY DEF Unleased, Row

\* The row a lease writes.
LEMMA LeasedRow ==
    ASSUME NEW row \in Row, NEW t \in Token
    PROVE  /\ LeaseReady(row, t, 1) \in Row
           /\ LeaseReady(row, t, 1).status = "leased"
           /\ LeaseReady(row, t, 1).token = t
BY DEF LeaseReady, Row, Status

\* The row work scheduling inserts.
LEMMA ScheduledRow == Scheduled \in Row /\ Scheduled.status = "ready"
BY DEF Scheduled, Absent, Row, Status

\* What an answer makes of the leased row and of the attempt.
LEMMA AnsweredRow ==
    ASSUME TypeOK, NEW i \in Items, NEW answer, NEW plan \in RetryPlans \cup {NoPlan}
    PROVE  /\ Answered(i, answer, plan) \in Row
           /\ Answered(i, answer, plan).status # "leased"
           /\ OutcomeOf(answer) \in {"succeeded", "retryable_failed", "terminal_failed"}
           /\ answer = "claims" => /\ Answered(i, answer, plan).status = "completed"
                                   /\ OutcomeOf(answer) = "succeeded"
<1>1. item[i] \in Row
  BY DEF TypeOK
<1>2. /\ "retryable_failed" \in Status /\ "terminal_failed" \in Status
      /\ "completed" \in Status /\ NoPlan \in RetryPlans \cup {NoPlan}
  BY DEF Status
<1>3. Answered(i, answer, plan) =
          Unleased(item[i], CASE answer = "retry"    -> "retryable_failed"
                              [] answer = "terminal" -> "terminal_failed"
                              [] OTHER               -> "completed",
                            IF answer = "retry" THEN plan ELSE NoPlan)
  BY DEF Answered, FailLeasedRetryable, FailLeasedTerminal, CompleteLeased
<1> QED
  BY <1>1, <1>2, <1>3, UnleasedRow DEF OutcomeOf

\* The keys of commands of different kinds differ, and the keys of EXECUTE and
\* RECONCILE name their attempt.
LEMMA KeysDiffer ==
    /\ \A t, u : Execute(t) = Execute(u) => t = u
    /\ \A t, u : Reconcile(t) = Reconcile(u) => t = u
    /\ \A t, u : /\ Execute(t) # Reconcile(u)
                 /\ CapacityPrepare(t) # Execute(u) /\ CapacityPrepare(t) # Reconcile(u)
                 /\ WindowPrepare(t) # Execute(u) /\ WindowPrepare(t) # Reconcile(u)
    /\ \A t, r : /\ Embed(r) # Execute(t) /\ Embed(r) # Reconcile(t)
                 /\ Embed(r) # CapacityPrepare(t) /\ Embed(r) # WindowPrepare(t)
                 /\ InitialPrepare(r) # Execute(t) /\ InitialPrepare(r) # Reconcile(t)
    /\ \A r, q : Embed(r) = Embed(q) => r = q
    /\ \A r, q : InitialPrepare(r) # Embed(q)
    /\ \A r : NoCommand # Embed(r)
    /\ \A k : IsPrepare(k) => /\ \A t : k # Execute(t) /\ k # Reconcile(t)
                              /\ \A r : k # Embed(r)
BY DEF Execute, Reconcile, Embed, CapacityPrepare, WindowPrepare, InitialPrepare,
       NoCommand, IsPrepare

\* RECONCILE never decides on an EXECUTE or a RECONCILE.
LEMMA NextCommandKinds ==
    ASSUME NEW r, NEW k \in NextCommands(r)
    PROVE  /\ \A t : k # Execute(t) /\ k # Reconcile(t)
           /\ \A q : k = Embed(q) => q = r
BY DEF NextCommands, NoCommand, Embed, RetryPrepare, FollowUp, Execute, Reconcile

-----------------------------------------------------------------------------
(* What each handler does to the command log                               *)

LogTyped(L) == \A k \in DOMAIN L : L[k] \in CommandRow(Runs, Payload)

\* append_pending_command, as every handler uses it.
LEMMA AppendLog ==
    ASSUME NEW L, LogTyped(L), NEW k, NEW run \in Runs, NEW payload \in Payload
    PROVE  /\ DOMAIN Append(L, k, run, payload) = DOMAIN L \cup {k}
           /\ \A j \in DOMAIN L : Append(L, k, run, payload)[j] = L[j]
           /\ LogTyped(Append(L, k, run, payload))
BY DEF LogTyped, Append, AppendEach, CommandRow

\* The PREPAREs an observation leaves behind are new commands, nothing else.
LEMMA WakeupsLog ==
    ASSUME TypeOK, NEW t \in Token, Execute(t) \in Known(log), NEW observed
    PROVE  LET W == Wakeups(log, t, observed) IN
           /\ DOMAIN log \subseteq DOMAIN W
           /\ DOMAIN W \subseteq DOMAIN log \cup {CapacityPrepare(t), WindowPrepare(t)}
           /\ \A j \in DOMAIN log : W[j] = log[j]
           /\ LogTyped(W)
<1> DEFINE run == log[Execute(t)].run
           own == log[Execute(t)].payload
           P1 == [window |-> own.window, origin |-> {}]
           P2 == [window |-> TRUE, origin |-> {}]
           M == IF observed = "nothing" THEN log ELSE Append(log, CapacityPrepare(t), run, P1)
           W == IF observed = "reset" THEN Append(M, WindowPrepare(t), run, P2) ELSE M
<1>1. LogTyped(log) /\ run \in Runs /\ P1 \in Payload /\ P2 \in Payload
  <2>1. LogTyped(log)
    BY DEF TypeOK, LogTyped
  <2>2. run \in Runs /\ own \in Payload
    BY <2>1 DEF LogTyped, CommandRow, Known
  <2> QED
    BY <2>1, <2>2 DEF Payload
<1>2. /\ DOMAIN log \subseteq DOMAIN M /\ DOMAIN M \subseteq DOMAIN log \cup {CapacityPrepare(t)}
      /\ \A j \in DOMAIN log : M[j] = log[j]
      /\ LogTyped(M)
  <2>1. CASE observed = "nothing"
    BY <2>1, <1>1
  <2>2. CASE observed # "nothing"
    <3> DEFINE A == Append(log, CapacityPrepare(t), run, P1)
    <3>1. /\ DOMAIN A = DOMAIN log \cup {CapacityPrepare(t)}
          /\ \A j \in DOMAIN log : A[j] = log[j]
          /\ LogTyped(A)
      BY <1>1, AppendLog
    <3>2. M = A
      BY <2>2
    <3> HIDE DEF M, A
    <3> QED
      BY <3>1, <3>2
  <2> QED
    BY <2>1, <2>2
<1>3. /\ DOMAIN M \subseteq DOMAIN W /\ DOMAIN W \subseteq DOMAIN M \cup {WindowPrepare(t)}
      /\ \A j \in DOMAIN M : W[j] = M[j]
      /\ LogTyped(W)
  <2> HIDE DEF M, run, P1, P2
  <2>1. CASE observed = "reset"
    <3> DEFINE A == Append(M, WindowPrepare(t), run, P2)
    <3>1. /\ DOMAIN A = DOMAIN M \cup {WindowPrepare(t)}
          /\ \A j \in DOMAIN M : A[j] = M[j]
          /\ LogTyped(A)
      BY <1>1, <1>2, AppendLog
    <3>2. W = A
      BY <2>1
    <3> HIDE DEF W, A
    <3> QED
      BY <3>1, <3>2
  <2>2. CASE observed # "reset"
    BY <2>2, <1>2
  <2> QED
    BY <2>1, <2>2
<1>4. W = Wakeups(log, t, observed)
  BY DEF Wakeups
<1> HIDE DEF W, M
<1> QED
  BY <1>2, <1>3, <1>4

\* The end of an EXECUTE transaction: the command is completed and its RECONCILE
\* known; besides them only PREPAREs are added.
LEMMA ExecutedLog ==
    ASSUME TypeOK, NEW t \in Token, Execute(t) \in Pending(log), NEW observed,
           Executed(t, observed)
    PROVE  /\ Known(log) \cup {Reconcile(t)} \subseteq Known(log')
           /\ Known(log') \subseteq Known(log) \cup
                  {Reconcile(t), CapacityPrepare(t), WindowPrepare(t)}
           /\ \A j \in Known(log) \ {Execute(t)} : log'[j] = log[j]
           /\ log'[Execute(t)].run = log[Execute(t)].run /\ log'[Execute(t)].done
           /\ Reconcile(t) \notin Known(log) =>
                  /\ log'[Reconcile(t)].run = log[Execute(t)].run
                  /\ log'[Reconcile(t)].done = FALSE
           /\ LogTyped(log')
<1> DEFINE run == log[Execute(t)].run
           own == log[Execute(t)].payload
           W == Wakeups(log, t, observed)
           A == Append(W, Reconcile(t), run, own)
<1>0. LogTyped(log) /\ Execute(t) \in DOMAIN log
  BY DEF TypeOK, LogTyped, Pending
<1>1. run \in Runs /\ own \in Payload
  BY <1>0 DEF LogTyped, CommandRow
<1>2. /\ DOMAIN log \subseteq DOMAIN W
      /\ DOMAIN W \subseteq DOMAIN log \cup {CapacityPrepare(t), WindowPrepare(t)}
      /\ \A j \in DOMAIN log : W[j] = log[j]
      /\ LogTyped(W)
  BY <1>0, WakeupsLog DEF Known
<1>3. log' = Complete(A, Execute(t))
  BY DEF Executed
<1> HIDE DEF W, run, own
<1>4. /\ DOMAIN A = DOMAIN W \cup {Reconcile(t)}
      /\ \A j \in DOMAIN W : A[j] = W[j]
      /\ LogTyped(A)
  BY <1>1, <1>2, AppendLog
<1>5. Reconcile(t) \notin DOMAIN W => A[Reconcile(t)] = [run |-> run, done |-> FALSE, payload |-> own]
  BY DEF Append, AppendEach
<1> HIDE DEF A
<1>6. Execute(t) \in DOMAIN A /\ A[Execute(t)] = log[Execute(t)]
  BY <1>0, <1>2, <1>4
<1>7. A[Execute(t)] \in CommandRow(Runs, Payload)
  BY <1>4, <1>6 DEF LogTyped
<1>8. /\ DOMAIN log' = DOMAIN A
      /\ \A j \in DOMAIN A \ {Execute(t)} : log'[j] = A[j]
      /\ log'[Execute(t)] \in CommandRow(Runs, Payload)
      /\ log'[Execute(t)].run = A[Execute(t)].run
      /\ log'[Execute(t)].done = TRUE
  BY <1>3, <1>6, <1>7 DEF Complete, CommandRow
<1>9. LogTyped(log')
  BY <1>4, <1>8 DEF LogTyped
<1>10. Reconcile(t) \notin DOMAIN log => Reconcile(t) \notin DOMAIN W
  BY <1>2, KeysDiffer
<1>11. Reconcile(t) # Execute(t)
  BY KeysDiffer
<1>12. Reconcile(t) \notin DOMAIN log =>
           log'[Reconcile(t)].run = run /\ log'[Reconcile(t)].done = FALSE
  BY <1>4, <1>5, <1>8, <1>10, <1>11
<1>13. run = log[Execute(t)].run
  BY DEF run
<1> QED
  BY <1>0, <1>2, <1>4, <1>6, <1>8, <1>9, <1>12, <1>13 DEF Known

\* The end of a PREPARE transaction: the command is completed, and an EXECUTE is
\* pending for every attempt it started.
LEMMA PreparedLog ==
    ASSUME TypeOK, NEW k \in Pending(log), NEW f, Prepare(k, f),
           TokensOf(log[k].run, f) \subseteq Token
    PROVE  LET S == TokensOf(log[k].run, f) IN
           /\ Known(log') = Known(log) \cup {Execute(t) : t \in S}
           /\ \A j \in Known(log) \ {k} : log'[j] = log[j]
           /\ log'[k].run = log[k].run /\ log'[k].done
           /\ \A t \in S : Execute(t) \notin Known(log) =>
                  /\ log'[Execute(t)].run = log[k].run
                  /\ log'[Execute(t)].done = FALSE
           /\ LogTyped(log')
<1> DEFINE run == log[k].run
           S == TokensOf(run, f)
           own == [window |-> log[k].payload.window, origin |-> S]
           K == {Execute(t) : t \in S}
           A == AppendEach(log, K, run, own)
<1>0. LogTyped(log) /\ k \in DOMAIN log
  BY DEF TypeOK, LogTyped, Pending
<1>1. run \in Runs /\ own \in Payload
  <2>1. run \in Runs /\ log[k].payload \in Payload
    BY <1>0 DEF LogTyped, CommandRow
  <2>2. S \in SUBSET Token
    OBVIOUS
  <2> HIDE DEF S
  <2> QED
    BY <2>1, <2>2 DEF Payload
<1>2. log' = Complete(A, k) /\ IsPrepare(k)
  BY DEF Prepare
<1> HIDE DEF run, S, own
<1>3. /\ DOMAIN A = DOMAIN log \cup K
      /\ \A j \in DOMAIN log : A[j] = log[j]
      /\ \A j \in K \ DOMAIN log : A[j] = [run |-> run, done |-> FALSE, payload |-> own]
  BY DEF AppendEach
<1>4. LogTyped(A)
  BY <1>0, <1>1 DEF LogTyped, AppendEach, CommandRow
<1> HIDE DEF A
<1>5. k \in DOMAIN A /\ A[k] = log[k] /\ A[k] \in CommandRow(Runs, Payload)
  BY <1>0, <1>3 DEF LogTyped
<1>6. /\ DOMAIN log' = DOMAIN A
      /\ \A j \in DOMAIN A \ {k} : log'[j] = A[j]
      /\ log'[k] \in CommandRow(Runs, Payload)
      /\ log'[k].run = A[k].run
      /\ log'[k].done = TRUE
  BY <1>2, <1>5 DEF Complete, CommandRow
<1>7. LogTyped(log')
  BY <1>4, <1>6 DEF LogTyped
<1>8. \A t \in S : Execute(t) \in K /\ Execute(t) # k
  BY <1>2, KeysDiffer
<1>9. \A t \in S : Execute(t) \notin DOMAIN log =>
          log'[Execute(t)].run = run /\ log'[Execute(t)].done = FALSE
  BY <1>3, <1>6, <1>8
<1>10. run = log[k].run /\ S = TokensOf(log[k].run, f)
  BY DEF run, S
<1> QED
  BY <1>0, <1>3, <1>5, <1>6, <1>7, <1>9, <1>10 DEF Known

\* The end of a RECONCILE transaction: the command is completed; the next one,
\* if it is not there yet, is added.
LEMMA ReconciledLog ==
    ASSUME TypeOK, NEW t \in DOMAIN reading, Reconcile(t) \in Pending(log), CommitReconcile(t)
    PROVE  /\ Known(log) \subseteq Known(log')
           /\ Known(log') \subseteq Known(log) \cup {reading[t]}
           /\ reading[t] # NoCommand => reading[t] \in Known(log')
           /\ \A j \in Known(log) \ {Reconcile(t)} : log'[j] = log[j]
           /\ log'[Reconcile(t)].run = log[Reconcile(t)].run /\ log'[Reconcile(t)].done
           /\ LogTyped(log')
<1> DEFINE run == log[Reconcile(t)].run
           next == NextPayload(t)
           A == IF reading[t] = NoCommand THEN log ELSE Append(log, reading[t], run, next)
<1>0. LogTyped(log) /\ Reconcile(t) \in DOMAIN log
  BY DEF TypeOK, LogTyped, Pending
<1>1. run \in Runs /\ log[Reconcile(t)].payload \in Payload
  BY <1>0 DEF LogTyped, CommandRow
<1>2. next \in Payload
  <2> DEFINE w == reading[t] # Embed(log[Reconcile(t)].run) /\ log[Reconcile(t)].payload.window
  <2>1. w \in BOOLEAN
    OBVIOUS
  <2>2. next = [window |-> w, origin |-> {}]
    BY DEF NextPayload
  <2> HIDE DEF w, next
  <2> QED
    BY <2>1, <2>2 DEF Payload
<1>3. log' = Complete(A, Reconcile(t))
  BY DEF CommitReconcile
<1> HIDE DEF run, next
<1>4. /\ DOMAIN log \subseteq DOMAIN A /\ DOMAIN A \subseteq DOMAIN log \cup {reading[t]}
      /\ reading[t] # NoCommand => reading[t] \in DOMAIN A
      /\ \A j \in DOMAIN log : A[j] = log[j]
      /\ LogTyped(A)
  <2>1. CASE reading[t] = NoCommand
    BY <2>1, <1>0
  <2>2. CASE reading[t] # NoCommand
    <3> DEFINE B == Append(log, reading[t], run, next)
    <3>1. /\ DOMAIN B = DOMAIN log \cup {reading[t]}
          /\ \A j \in DOMAIN log : B[j] = log[j]
          /\ LogTyped(B)
      BY <1>0, <1>1, <1>2, AppendLog DEF run
    <3>2. A = B
      BY <2>2
    <3> HIDE DEF A, B
    <3> QED
      BY <3>1, <3>2
  <2> QED
    BY <2>1, <2>2
<1> HIDE DEF A
<1>5. Reconcile(t) \in DOMAIN A /\ A[Reconcile(t)] = log[Reconcile(t)]
      /\ A[Reconcile(t)] \in CommandRow(Runs, Payload)
  BY <1>0, <1>4 DEF LogTyped
<1>6. /\ DOMAIN log' = DOMAIN A
      /\ \A j \in DOMAIN A \ {Reconcile(t)} : log'[j] = A[j]
      /\ log'[Reconcile(t)] \in CommandRow(Runs, Payload)
      /\ log'[Reconcile(t)].run = A[Reconcile(t)].run
      /\ log'[Reconcile(t)].done = TRUE
  BY <1>3, <1>5 DEF Complete, CommandRow
<1>7. LogTyped(log')
  BY <1>4, <1>6 DEF LogTyped
<1> QED
  BY <1>0, <1>4, <1>5, <1>6, <1>7 DEF Known

-----------------------------------------------------------------------------
(* What PREPARE does to the items                                          *)

\* The attempts S are started together, for due items, one item each.
StartsTogether(S, r) ==
    /\ r \in Runs /\ S \subseteq Token
    /\ \A t \in S : /\ LeasingRun(t) = r /\ item[ItemOf(t)].status \in Due
                    /\ attempt[t] = "none"
    /\ \A t, u \in S : ItemOf(t) = ItemOf(u) => t = u

\* A batch position holds one item and no item has two positions.
LEMMA BatchStartsTogether ==
    ASSUME TypeOK, NEW k \in Pending(log), NEW n \in 0..MaxBatch, NEW f \in Batch(n),
           Prepare(k, f)
    PROVE  StartsTogether(TokensOf(log[k].run, f), log[k].run)
<1> DEFINE r == log[k].run
           S == TokensOf(r, f)
<1>1. r \in Runs
  BY DEF TypeOK, Pending, CommandRow
<1>2. f \in [0..(n - 1) -> DueItems] /\ DOMAIN f = 0..(n - 1)
  BY DEF Batch
<1>3. \A p \in 0..(n - 1) : /\ p \in Positions /\ f[p] \in Items
                            /\ item[f[p]].status \in Due
  BY <1>2, BatchAssumption DEF Positions, DueItems
<1>4. \A p, q \in 0..(n - 1) : f[p] = f[q] => p = q
  BY DEF Batch
<1>5. \A t \in S : \E p \in 0..(n - 1) : t = <<<<r, p>>, f[p]>>
  BY <1>2 DEF TokensOf
<1>6. \A p \in 0..(n - 1) : LET t == <<<<r, p>>, f[p]>> IN
          t \in Token /\ ItemOf(t) = f[p] /\ LeasingRun(t) = r
  BY <1>1, <1>3, TokenParts
<1>7. \A t \in S : attempt[t] = "none"
  BY DEF Prepare
<1> HIDE DEF r, S
<1>8. S \subseteq Token
  BY <1>5, <1>6
<1>9. \A t \in S : LeasingRun(t) = r /\ item[ItemOf(t)].status \in Due
  <2> TAKE t \in S
  <2>1. PICK p \in 0..(n - 1) : t = <<<<r, p>>, f[p]>>
    BY <1>5
  <2> QED
    BY <2>1, <1>3, <1>6
<1>10. \A t, u \in S : ItemOf(t) = ItemOf(u) => t = u
  <2> SUFFICES ASSUME NEW t \in S, NEW u \in S, ItemOf(t) = ItemOf(u)
               PROVE  t = u
    OBVIOUS
  <2>1. PICK p \in 0..(n - 1) : t = <<<<r, p>>, f[p]>>
    BY <1>5
  <2>2. PICK q \in 0..(n - 1) : u = <<<<r, q>>, f[q]>>
    BY <1>5
  <2>3. f[p] = f[q]
    BY <2>1, <2>2, <1>6
  <2>4. p = q
    BY <2>3, <1>4
  <2> QED
    BY <2>1, <2>2, <2>4
<1>11. StartsTogether(S, r)
  BY <1>1, <1>7, <1>8, <1>9, <1>10 DEF StartsTogether
<1> QED
  BY <1>11 DEF r, S

\* The leases and attempts a PREPARE writes; every other row stays.
LEMMA PreparedRows ==
    ASSUME TypeOK, NEW k \in Pending(log), NEW f, Prepare(k, f),
           NEW S, S = TokensOf(log[k].run, f), StartsTogether(S, log[k].run)
    PROVE  /\ \A t \in S : item'[ItemOf(t)] = LeaseReady(item[ItemOf(t)], t, 1)
           /\ \A i \in Items : (\A t \in S : ItemOf(t) # i) => item'[i] = item[i]
           /\ \A t \in S : attempt'[t] = "open"
           /\ \A t \in Token \ S : attempt'[t] = attempt[t]
           /\ DOMAIN item' = Items /\ DOMAIN attempt' = Token
<1>1. /\ item' = [i \in Items |->
              IF \E t \in S : ItemOf(t) = i
              THEN LeaseReady(item[i], CHOOSE t \in S : ItemOf(t) = i, 1) ELSE item[i]]
      /\ attempt' = [t \in Token |-> IF t \in S THEN "open" ELSE attempt[t]]
  BY DEF Prepare
<1>2. S \subseteq Token /\ \A t, u \in S : ItemOf(t) = ItemOf(u) => t = u
  BY DEF StartsTogether
<1>3. ASSUME NEW t \in S PROVE item'[ItemOf(t)] = LeaseReady(item[ItemOf(t)], t, 1)
  <2>1. (CHOOSE u \in S : ItemOf(u) = ItemOf(t)) = t
    BY <1>2
  <2>2. ItemOf(t) \in Items
    BY <1>2, TokenParts
  <2> QED
    BY <1>1, <2>1, <2>2
<1> QED
  BY <1>1, <1>2, <1>3

-----------------------------------------------------------------------------
(* Typing                                                                  *)

AttemptStatus == {"none", "open", "succeeded", "retryable_failed", "terminal_failed"}

\* An attempt that holds its lease is open, and its EXECUTE is pending: the
\* provider's answer meets the command it belongs to.
LEMMA LeaseHolderIsPending ==
    ASSUME Extraction, NEW t \in Token, HoldsLease(t)
    PROVE  Execute(t) \in Pending(log) /\ attempt[t] = "open"
BY TokenParts DEF Extraction, LeaseIsWorkedOn, HoldsLease

\* Every handler writes rows of the right types.  This needs Extraction: an
\* EXECUTE or a RECONCILE that was not in the log would have no run to copy.
LEMMA TypeOKInductive == TypeOK /\ Extraction /\ [Next]_vars => TypeOK'
<1> SUFFICES ASSUME TypeOK, Extraction, [Next]_vars PROVE TypeOK'
  OBVIOUS
<1>0. /\ item \in [Items -> Row]
      /\ attempt \in [Token -> AttemptStatus]
      /\ calls \subseteq Token
      /\ DOMAIN reading \subseteq Token
      /\ LogTyped(log)
      /\ action \in [Runs -> [Items -> RetryPlans \cup {NoPlan}]]
      /\ claims \in [Items -> SUBSET Token]
      /\ short \subseteq Runs
  BY DEF TypeOK, LogTyped, AttemptStatus
<1>T. ASSUME item' \in [Items -> Row], attempt' \in [Token -> AttemptStatus],
             calls' \subseteq Token, DOMAIN reading' \subseteq Token, LogTyped(log'),
             action' \in [Runs -> [Items -> RetryPlans \cup {NoPlan}]],
             claims' \in [Items -> SUBSET Token], short' \subseteq Runs
      PROVE  TypeOK'
  BY <1>T DEF TypeOK, LogTyped, AttemptStatus
<1>1. ASSUME NEW k \in Pending(log), RunPrepare(k) PROVE TypeOK'
  <2>1. PICK n \in 0..MaxBatch : \E f \in Batch(n) : Prepare(k, f)
    BY <1>1 DEF RunPrepare
  <2>2. PICK f \in Batch(n) : Prepare(k, f)
    BY <2>1
  <2> DEFINE S == TokensOf(log[k].run, f)
  <2>3. StartsTogether(S, log[k].run)
    BY <2>2, BatchStartsTogether
  <2>4. LogTyped(log')
    BY <2>2, <2>3, PreparedLog DEF StartsTogether
  <2> HIDE DEF S
  <2>5. S \subseteq Token
    BY <2>3 DEF StartsTogether
  <2>6. /\ \A t \in S : item'[ItemOf(t)] = LeaseReady(item[ItemOf(t)], t, 1)
        /\ \A i \in Items : (\A t \in S : ItemOf(t) # i) => item'[i] = item[i]
        /\ \A t \in S : attempt'[t] = "open"
        /\ \A t \in Token \ S : attempt'[t] = attempt[t]
    BY <2>2, <2>3, PreparedRows DEF S
  <2>7. ASSUME NEW i \in Items PROVE item'[i] \in Row
    <3>1. CASE \A t \in S : ItemOf(t) # i
      BY <1>0, <2>6, <3>1
    <3>2. ASSUME NEW t \in S, ItemOf(t) = i PROVE item'[i] \in Row
      <4>1. item'[i] = LeaseReady(item[i], t, 1)
        BY <2>6, <3>2
      <4>2. item[i] \in Row /\ t \in Token
        BY <1>0, <2>5
      <4> QED
        BY <4>1, <4>2, LeasedRow
    <3> QED
      BY <3>1, <3>2
  <2>8. item' \in [Items -> Row]
    BY <2>2, <2>7 DEF Prepare
  <2>9. attempt' \in [Token -> AttemptStatus]
    BY <1>0, <2>2 DEF Prepare, AttemptStatus
  <2>10. log[k].run \in Runs
    BY <1>0, <1>1 DEF LogTyped, Pending, CommandRow
  <2>11. short' \subseteq Runs
    BY <1>0, <2>2, <2>10 DEF Prepare
  <2> QED
    BY <1>0, <1>T, <2>2, <2>4, <2>8, <2>9, <2>11 DEF Prepare
<1>2. ASSUME NEW t \in Token, Finish(t) PROVE TypeOK'
  <2>1. PICK answer \in Answers, plan \in RetryPlans \cup {NoPlan}, observed \in Observations :
            FinishCall(t, answer, plan, observed)
    BY <1>2 DEF Finish
  <2>2. ItemOf(t) \in Items /\ LeasingRun(t) \in Runs
    BY TokenParts
  <2>3. LogTyped(log')
    <3>1. Executed(t, observed) /\ HoldsLease(t)
      BY <2>1 DEF FinishCall
    <3> QED
      BY <3>1, LeaseHolderIsPending, ExecutedLog
  <2>4. item' \in [Items -> Row]
    BY <1>0, <2>1, <2>2, AnsweredRow DEF FinishCall
  <2>5. attempt' \in [Token -> AttemptStatus]
    BY <1>0, <2>1, <2>2, AnsweredRow DEF FinishCall, AttemptStatus
  <2>6. claims' \in [Items -> SUBSET Token]
    BY <1>0, <2>1, <2>2 DEF FinishCall
  <2>7. action' \in [Runs -> [Items -> RetryPlans \cup {NoPlan}]]
    <3>1. action' = action \/ action' = [action EXCEPT ![LeasingRun(t)][ItemOf(t)] = plan]
      BY <2>1 DEF FinishCall
    <3> QED
      BY <1>0, <2>2, <3>1
  <2> QED
    BY <1>0, <1>T, <2>1, <2>3, <2>4, <2>5, <2>6, <2>7 DEF FinishCall
<1>3. ASSUME NEW t \in Token, Replay(t) PROVE TypeOK'
  <2>1. Executed(t, "nothing") /\ Execute(t) \in Pending(log)
    BY <1>3 DEF Replay
  <2>2. LogTyped(log')
    BY <2>1, ExecutedLog
  <2> QED
    BY <1>0, <1>3, <1>T, <2>2 DEF Replay
<1>4. ASSUME NEW t \in Token, BeginCall(t) \/ AbandonCall(t) PROVE TypeOK'
  BY <1>0, <1>4, <1>T DEF BeginCall, AbandonCall
<1>5. ASSUME NEW t \in Token, ReadProgress(t) \/ AbandonReconcile(t) PROVE TypeOK'
  BY <1>0, <1>5, <1>T DEF ReadProgress, AbandonReconcile, Forget
<1>6. ASSUME NEW t \in Token, CommitReconcile(t) PROVE TypeOK'
  <2>1. t \in DOMAIN reading
    BY <1>6 DEF CommitReconcile
  <2>2. LogTyped(log')
    BY <1>6, <2>1, ReconciledLog DEF Extraction, ReadingIsPending
  <2> QED
    BY <1>0, <1>6, <1>T, <2>2 DEF CommitReconcile, Forget
<1>7. ASSUME NEW i \in Items, Reclaim(i) PROVE TypeOK'
  BY <1>0, <1>7, <1>T, UnleasedRow DEF Reclaim, ReturnToReady, Status, AttemptStatus
<1>8. CASE UNCHANGED vars
  BY <1>0, <1>8, <1>T DEF vars
<1> QED
  BY <1>1, <1>2, <1>3, <1>4, <1>5, <1>6, <1>7, <1>8 DEF Next

-----------------------------------------------------------------------------
(* The extraction invariant, handler by handler                            *)

\* Where the items that are completed stay, and no command for the embeddings is
\* added or decided on, the embeddings still mean a completed run.
LEMMA EmbedKept ==
    ASSUME EmbedMeansCompleted,
           \A i \in Items : item[i].status = "completed" => item'[i].status = "completed",
           \A r \in Runs : Embed(r) \in Known(log') => Embed(r) \in Known(log),
           \A t \in DOMAIN reading' : t \in DOMAIN reading /\ reading'[t] = reading[t]
    PROVE  EmbedMeansCompleted'
BY ItemParts DEF EmbedMeansCompleted, AllCompleted

\* The commands of attempts keep their rows, apart from those a step completes.
LEMMA CommandsKept ==
    ASSUME ReconcileFollowsExecute,
           \A k \in Known(log) : /\ k \in Known(log') /\ log'[k].run = log[k].run
                                 /\ log[k].done => log'[k].done,
           \A t \in Token : Execute(t) \in Known(log') => Execute(t) \in Known(log),
           \A t \in Token : Reconcile(t) \in Known(log') => Reconcile(t) \in Known(log)
    PROVE  ReconcileFollowsExecute'
BY DEF ReconcileFollowsExecute

\* PREPARE: leases, attempts and EXECUTE commands come together, for items that
\* were not leased, and none of them was there before.
LEMMA PrepareKeeps ==
    ASSUME TypeOK, Extraction, NEW k \in Pending(log), NEW n \in 0..MaxBatch,
           NEW f \in Batch(n), Prepare(k, f)
    PROVE  Extraction'
<1> DEFINE r == log[k].run
           S == TokensOf(r, f)
<1>1. StartsTogether(S, r)
  BY BatchStartsTogether
<1>2. S \subseteq Token
  BY <1>1 DEF StartsTogether
<1>3. /\ Known(log') = Known(log) \cup {Execute(t) : t \in S}
      /\ \A j \in Known(log) \ {k} : log'[j] = log[j]
      /\ log'[k].run = log[k].run /\ log'[k].done
      /\ \A t \in S : Execute(t) \notin Known(log) =>
             log'[Execute(t)].run = r /\ log'[Execute(t)].done = FALSE
  BY <1>2, PreparedLog
<1>4. /\ \A t \in S : item'[ItemOf(t)] = LeaseReady(item[ItemOf(t)], t, 1)
      /\ \A i \in Items : (\A t \in S : ItemOf(t) # i) => item'[i] = item[i]
      /\ \A t \in S : attempt'[t] = "open"
      /\ \A t \in Token \ S : attempt'[t] = attempt[t]
  BY <1>1, PreparedRows
<1>5. IsPrepare(k) /\ calls' = calls /\ reading' = reading /\ claims' = claims
  BY DEF Prepare
<1>6. r \in Runs
  BY <1>1 DEF StartsTogether
<1> HIDE DEF r, S
<1>7. \A t \in S : /\ LeasingRun(t) = r /\ item[ItemOf(t)].status \in Due
                   /\ ItemOf(t) \in Items /\ Execute(t) \notin Known(log)
  <2>1. \A t \in S : /\ LeasingRun(t) = r /\ item[ItemOf(t)].status \in Due
                     /\ attempt[t] = "none"
    BY <1>1 DEF StartsTogether
  <2> QED
    BY <1>2, <2>1, TokenParts DEF Extraction, AttemptHasExecute
<1>8. /\ \A t \in Token : /\ Execute(t) # k /\ Reconcile(t) # k
                          /\ Reconcile(t) \notin {Execute(u) : u \in S}
                          /\ Execute(t) \in {Execute(u) : u \in S} => t \in S
      /\ \A q \in Runs : Embed(q) \notin {Execute(u) : u \in S}
  BY <1>5, KeysDiffer
<1>9. \A t \in S : /\ item'[ItemOf(t)].status = "leased" /\ item'[ItemOf(t)].token = t
  BY <1>2, <1>4, <1>7, LeasedRow DEF TypeOK
<1>10. \A i \in Items : item'[i] = item[i] \/ \E t \in S : ItemOf(t) = i
  BY <1>4
<1>11. \A i \in Items : item[i].status \notin Due => item'[i] = item[i]
  BY <1>7, <1>10
<1>12. LeaseNamesItem'
  BY <1>2, <1>9, <1>10 DEF Extraction, LeaseNamesItem
<1>13. AttemptHasExecute'
  <2> SUFFICES ASSUME NEW t \in Token
               PROVE  attempt'[t] # "none" <=> Execute(t) \in Known(log')
    BY DEF AttemptHasExecute
  <2>1. CASE t \in S
    BY <1>3, <1>4, <2>1
  <2>2. CASE t \notin S
    <3>1. Execute(t) \in Known(log') <=> Execute(t) \in Known(log)
      BY <1>3, <1>8, <2>2
    <3> QED
      BY <1>4, <2>2, <3>1 DEF Extraction, AttemptHasExecute
  <2> QED
    BY <2>1, <2>2
<1>14. ReconcileFollowsExecute'
  <2> SUFFICES ASSUME NEW t \in Token
               PROVE  /\ Execute(t) \in Known(log') => log'[Execute(t)].run = LeasingRun(t)
                      /\ Reconcile(t) \in Known(log') =>
                             /\ log'[Reconcile(t)].run = LeasingRun(t)
                             /\ Execute(t) \in Known(log') /\ log'[Execute(t)].done
    BY DEF ReconcileFollowsExecute
  <2>1. CASE Execute(t) \in Known(log)
    BY <1>3, <1>8, <2>1 DEF Extraction, ReconcileFollowsExecute
  <2>2. CASE Execute(t) \notin Known(log)
    <3>1. Reconcile(t) \notin Known(log')
      BY <1>3, <1>8, <2>2 DEF Extraction, ReconcileFollowsExecute
    <3>2. Execute(t) \in Known(log') => t \in S
      BY <1>3, <1>8, <2>2
    <3> QED
      BY <1>3, <1>7, <3>1, <3>2
  <2> QED
    BY <2>1, <2>2
<1>15. ReadingIsPending'
  <2>1. \A t \in DOMAIN reading : t \in Token
    BY DEF TypeOK
  <2>2. \A t \in Token : Reconcile(t) \in Pending(log) => Reconcile(t) \in Pending(log')
    BY <1>3, <1>8 DEF Pending, Known
  <2> QED
    BY <1>5, <2>1, <2>2 DEF Extraction, ReadingIsPending
<1>16. LeaseIsWorkedOn'
  <2> SUFFICES ASSUME NEW i \in Items, item'[i].status = "leased"
               PROVE  /\ Execute(item'[i].token) \in Pending(log')
                      /\ attempt'[item'[i].token] = "open"
    BY DEF LeaseIsWorkedOn
  <2>1. ASSUME NEW t \in S, ItemOf(t) = i
        PROVE  /\ Execute(item'[i].token) \in Pending(log')
               /\ attempt'[item'[i].token] = "open"
    <3>1. item'[i].token = t /\ attempt'[t] = "open"
      BY <1>4, <1>9, <2>1
    <3>2. Execute(t) \in Known(log') /\ log'[Execute(t)].done = FALSE
      BY <1>3, <1>7
    <3> QED
      BY <3>1, <3>2 DEF Pending, Known
  <2>2. CASE \A t \in S : ItemOf(t) # i
    <3>1. item'[i] = item[i]
      BY <1>4, <2>2
    <3>2. /\ item[i].token \in Token \ S
          /\ Execute(item[i].token) \in Pending(log) /\ attempt[item[i].token] = "open"
      BY <2>2, <3>1 DEF Extraction, LeaseNamesItem, LeaseIsWorkedOn
    <3> QED
      BY <1>3, <1>4, <1>8, <3>1, <3>2 DEF Pending, Known
  <2> QED
    BY <2>1, <2>2
<1>17. OpenAttemptHoldsLease'
  <2> SUFFICES ASSUME NEW t \in Token, attempt'[t] = "open"
               PROVE  item'[ItemOf(t)].status = "leased" /\ item'[ItemOf(t)].token = t
    BY DEF OpenAttemptHoldsLease, HoldsLease
  <2>1. CASE t \in S
    BY <1>9, <2>1
  <2>2. CASE t \notin S
    <3>1. item[ItemOf(t)].status = "leased" /\ item[ItemOf(t)].token = t
      BY <1>4, <2>2 DEF Extraction, OpenAttemptHoldsLease, HoldsLease
    <3>2. item'[ItemOf(t)] = item[ItemOf(t)]
      BY <1>11, <3>1, TokenParts DEF Due
    <3> QED
      BY <3>1, <3>2
  <2> QED
    BY <2>1, <2>2
<1>18. ClaimsFromOneAttempt'
  <2> SUFFICES ASSUME NEW i \in Items, NEW t \in claims[i]
               PROVE  /\ claims[i] = {t}
                      /\ ItemOf(t) = i
                      /\ \A u \in Token : ItemOf(u) = i => attempt'[u] # "open"
                      /\ attempt'[t] = "succeeded"
                      /\ item'[i].status = "completed"
                      /\ LeasingRun(t) = RunOf(i)
    BY <1>5 DEF ClaimsFromOneAttempt
  <2>1. /\ claims[i] = {t} /\ ItemOf(t) = i /\ t \in Token
        /\ \A u \in Token : ItemOf(u) = i => attempt[u] # "open"
        /\ attempt[t] = "succeeded" /\ item[i].status = "completed"
        /\ LeasingRun(t) = RunOf(i)
    BY DEF TypeOK, Extraction, ClaimsFromOneAttempt
  <2>2. \A u \in Token : ItemOf(u) = i => u \notin S
    BY <1>7, <2>1 DEF Due
  <2> QED
    BY <1>4, <1>11, <2>1, <2>2 DEF Due
<1>19. EmbedMeansCompleted'
  <2>1. \A i \in Items : item[i].status = "completed" => item'[i].status = "completed"
    BY <1>11 DEF Due
  <2>2. \A q \in Runs : Embed(q) \in Known(log') => Embed(q) \in Known(log)
    BY <1>3, <1>8
  <2> QED
    BY <1>5, <2>1, <2>2, EmbedKept DEF Extraction
<1> QED
  BY <1>12, <1>13, <1>14, <1>15, <1>16, <1>17, <1>18, <1>19 DEF Extraction

\* What the end of an EXECUTE leaves of the invariant about commands: nothing
\* else is completed, and the RECONCILE it adds is new and of the same run.
LEMMA ExecutedKeeps ==
    ASSUME TypeOK, Extraction, NEW t \in Token, Execute(t) \in Pending(log), NEW observed,
           Executed(t, observed)
    PROVE  /\ ReconcileFollowsExecute'
           /\ \A u \in Token : Execute(u) \in Known(log') <=> Execute(u) \in Known(log)
           /\ \A u \in Token \ {t} : Execute(u) \in Pending(log) => Execute(u) \in Pending(log')
           /\ \A u \in Token : Reconcile(u) \in Pending(log) => Reconcile(u) \in Pending(log')
           /\ \A r \in Runs : Embed(r) \in Known(log') => Embed(r) \in Known(log)
           /\ Reconcile(t) \notin Known(log) /\ Reconcile(t) \in Pending(log')
<1>1. /\ Known(log) \cup {Reconcile(t)} \subseteq Known(log')
      /\ Known(log') \subseteq Known(log) \cup
             {Reconcile(t), CapacityPrepare(t), WindowPrepare(t)}
      /\ \A j \in Known(log) \ {Execute(t)} : log'[j] = log[j]
      /\ log'[Execute(t)].run = log[Execute(t)].run /\ log'[Execute(t)].done
      /\ Reconcile(t) \notin Known(log) =>
             /\ log'[Reconcile(t)].run = log[Execute(t)].run
             /\ log'[Reconcile(t)].done = FALSE
  BY ExecutedLog
<1>2. Execute(t) \in Known(log) /\ ~log[Execute(t)].done
  BY DEF Pending, Known
<1>3. Reconcile(t) \notin Known(log)
  BY <1>2 DEF Extraction, ReconcileFollowsExecute
<1>4. \A u \in Token : Execute(u) \in Known(log') <=> Execute(u) \in Known(log)
  BY <1>1, KeysDiffer
<1>5. \A u \in Token \ {t} : Execute(u) \in Pending(log) => Execute(u) \in Pending(log')
  BY <1>1, KeysDiffer DEF Pending, Known
<1>6. \A u \in Token : Reconcile(u) \in Pending(log) => Reconcile(u) \in Pending(log')
  BY <1>1, KeysDiffer DEF Pending, Known
<1>7. \A r \in Runs : Embed(r) \in Known(log') => Embed(r) \in Known(log)
  BY <1>1, KeysDiffer
<1>8. Reconcile(t) \in Pending(log')
  BY <1>1, <1>3 DEF Pending, Known
<1>9. ReconcileFollowsExecute'
  <2> SUFFICES ASSUME NEW u \in Token
               PROVE  /\ Execute(u) \in Known(log') => log'[Execute(u)].run = LeasingRun(u)
                      /\ Reconcile(u) \in Known(log') =>
                             /\ log'[Reconcile(u)].run = LeasingRun(u)
                             /\ Execute(u) \in Known(log') /\ log'[Execute(u)].done
    BY DEF ReconcileFollowsExecute
  <2>1. CASE u = t
    BY <1>1, <1>2, <1>3, <2>1 DEF Extraction, ReconcileFollowsExecute
  <2>2. CASE u # t
    <3>1. /\ Execute(u) # Execute(t) /\ Reconcile(u) # Execute(t)
          /\ Reconcile(u) \in Known(log') => Reconcile(u) \in Known(log)
      BY <1>1, <2>2, KeysDiffer
    <3> QED
      BY <1>1, <1>4, <3>1 DEF Extraction, ReconcileFollowsExecute
  <2> QED
    BY <2>1, <2>2
<1> QED
  BY <1>3, <1>4, <1>5, <1>6, <1>7, <1>8, <1>9

\* EXECUTE: the attempt whose lease is checked after the provider answered ends
\* that lease; its item is nobody else's, and the leases of others are not touched.
LEMMA FinishKeeps ==
    ASSUME TypeOK, Extraction, NEW t \in Token, NEW answer,
           NEW plan \in RetryPlans \cup {NoPlan}, NEW observed,
           FinishCall(t, answer, plan, observed)
    PROVE  Extraction'
<1> DEFINE i == ItemOf(t)
<1>1. HoldsLease(t) /\ Executed(t, observed) /\ reading' = reading
  BY DEF FinishCall
<1>2. i \in Items /\ Execute(t) \in Pending(log) /\ attempt[t] = "open"
  BY <1>1, LeaseHolderIsPending, TokenParts
<1>3. item[i].status = "leased" /\ item[i].token = t
  BY <1>1 DEF HoldsLease
<1>4. /\ ReconcileFollowsExecute'
      /\ \A u \in Token : Execute(u) \in Known(log') <=> Execute(u) \in Known(log)
      /\ \A u \in Token \ {t} : Execute(u) \in Pending(log) => Execute(u) \in Pending(log')
      /\ \A u \in Token : Reconcile(u) \in Pending(log) => Reconcile(u) \in Pending(log')
      /\ \A r \in Runs : Embed(r) \in Known(log') => Embed(r) \in Known(log)
  BY <1>1, <1>2, ExecutedKeeps
<1>5. /\ item'[i].status # "leased"
      /\ attempt'[t] \in {"succeeded", "retryable_failed", "terminal_failed"}
      /\ answer = "claims" => item'[i].status = "completed" /\ attempt'[t] = "succeeded"
  <2>1. item'[i] = Answered(i, answer, plan) /\ attempt'[t] = OutcomeOf(answer)
    BY <1>2 DEF FinishCall, TypeOK
  <2> QED
    BY <1>2, <2>1, AnsweredRow
<1>6. /\ \A j \in Items \ {i} : item'[j] = item[j]
      /\ \A u \in Token \ {t} : attempt'[u] = attempt[u]
  BY <1>2 DEF FinishCall, TypeOK
<1>7. /\ \A j \in Items \ {i} : claims'[j] = claims[j]
      /\ claims'[i] = IF answer = "claims" THEN claims[i] \cup {t} ELSE claims[i]
      /\ answer = "claims" => RunOf(i) = LeasingRun(t)
  BY <1>2 DEF FinishCall, TypeOK, SameProvenance
<1>8. LeaseNamesItem'
  BY <1>5, <1>6 DEF Extraction, LeaseNamesItem
<1>9. AttemptHasExecute'
  BY <1>2, <1>4, <1>5, <1>6 DEF Extraction, AttemptHasExecute
<1>10. ReadingIsPending'
  <2>1. \A u \in DOMAIN reading : u \in Token
    BY DEF TypeOK
  <2> QED
    BY <1>1, <1>4, <2>1 DEF Extraction, ReadingIsPending
<1>11. LeaseIsWorkedOn'
  <2> SUFFICES ASSUME NEW j \in Items, item'[j].status = "leased"
               PROVE  /\ Execute(item'[j].token) \in Pending(log')
                      /\ attempt'[item'[j].token] = "open"
    BY DEF LeaseIsWorkedOn
  <2>1. j # i /\ item'[j] = item[j]
    BY <1>5, <1>6
  <2>2. item[j].token \in Token \ {t}
    BY <2>1 DEF Extraction, LeaseNamesItem
  <2> QED
    BY <1>4, <1>6, <2>1, <2>2 DEF Extraction, LeaseIsWorkedOn
<1>12. OpenAttemptHoldsLease'
  <2> SUFFICES ASSUME NEW u \in Token, attempt'[u] = "open"
               PROVE  item'[ItemOf(u)].status = "leased" /\ item'[ItemOf(u)].token = u
    BY DEF OpenAttemptHoldsLease, HoldsLease
  <2>1. u # t /\ item[ItemOf(u)].status = "leased" /\ item[ItemOf(u)].token = u
    BY <1>5, <1>6 DEF Extraction, OpenAttemptHoldsLease, HoldsLease
  <2>2. ItemOf(u) \in Items \ {i}
    BY <1>3, <2>1, TokenParts
  <2> QED
    BY <1>6, <2>1, <2>2
<1>13. ClaimsFromOneAttempt'
  <2> SUFFICES ASSUME NEW j \in Items, NEW u \in claims'[j]
               PROVE  /\ claims'[j] = {u}
                      /\ ItemOf(u) = j
                      /\ \A v \in Token : ItemOf(v) = j => attempt'[v] # "open"
                      /\ attempt'[u] = "succeeded"
                      /\ item'[j].status = "completed"
                      /\ LeasingRun(u) = RunOf(j)
    BY DEF ClaimsFromOneAttempt
  <2>1. claims[i] = {}
    BY <1>2, <1>3 DEF Extraction, ClaimsFromOneAttempt
  <2>2. CASE j = i
    <3>1. answer = "claims" /\ claims'[j] = {t} /\ u = t
      BY <1>7, <2>1, <2>2
    <3>2. \A v \in Token : ItemOf(v) = i => v = t \/ attempt[v] # "open"
      BY <1>3 DEF Extraction, OpenAttemptHoldsLease, HoldsLease
    <3> QED
      BY <1>5, <1>6, <1>7, <2>2, <3>1, <3>2
  <2>3. CASE j # i
    <3>1. /\ claims[j] = {u} /\ ItemOf(u) = j /\ u \in Token
          /\ \A v \in Token : ItemOf(v) = j => attempt[v] # "open"
          /\ attempt[u] = "succeeded" /\ item[j].status = "completed"
          /\ LeasingRun(u) = RunOf(j) /\ claims'[j] = claims[j]
      BY <1>7, <2>3 DEF TypeOK, Extraction, ClaimsFromOneAttempt
    <3> QED
      BY <1>6, <2>3, <3>1
  <2> QED
    BY <2>2, <2>3
<1>14. EmbedMeansCompleted'
  <2>1. \A j \in Items : item[j].status = "completed" => item'[j].status = "completed"
    BY <1>3, <1>6
  <2> QED
    BY <1>1, <1>4, <2>1, EmbedKept DEF Extraction
<1> QED
  BY <1>4, <1>8, <1>9, <1>10, <1>11, <1>12, <1>13, <1>14 DEF Extraction

\* EXECUTE of an attempt whose outcome is already recorded: it holds no lease, so
\* the command it completes is not the one a leased item waits for.
LEMMA ReplayKeeps ==
    ASSUME TypeOK, Extraction, NEW t \in Token, Replay(t)
    PROVE  Extraction'
<1>1. /\ Execute(t) \in Pending(log) /\ attempt[t] # "open" /\ Executed(t, "nothing")
      /\ item' = item /\ attempt' = attempt /\ reading' = reading /\ claims' = claims
  BY DEF Replay
<1>2. /\ ReconcileFollowsExecute'
      /\ \A u \in Token : Execute(u) \in Known(log') <=> Execute(u) \in Known(log)
      /\ \A u \in Token \ {t} : Execute(u) \in Pending(log) => Execute(u) \in Pending(log')
      /\ \A u \in Token : Reconcile(u) \in Pending(log) => Reconcile(u) \in Pending(log')
      /\ \A r \in Runs : Embed(r) \in Known(log') => Embed(r) \in Known(log)
  BY <1>1, ExecutedKeeps
<1>3. LeaseNamesItem' /\ AttemptHasExecute'
  BY <1>1, <1>2 DEF Extraction, LeaseNamesItem, AttemptHasExecute
<1>4. ReadingIsPending'
  <2>1. \A u \in DOMAIN reading : u \in Token
    BY DEF TypeOK
  <2> QED
    BY <1>1, <1>2, <2>1 DEF Extraction, ReadingIsPending
<1>5. LeaseIsWorkedOn'
  <2>1. \A j \in Items : item[j].status = "leased" => item[j].token \in Token \ {t}
    BY <1>1 DEF Extraction, LeaseNamesItem, LeaseIsWorkedOn
  <2> QED
    BY <1>1, <1>2, <2>1 DEF Extraction, LeaseIsWorkedOn
<1>6. OpenAttemptHoldsLease' /\ ClaimsFromOneAttempt'
  BY <1>1 DEF Extraction, OpenAttemptHoldsLease, HoldsLease, ClaimsFromOneAttempt
<1>7. EmbedMeansCompleted'
  BY <1>1, <1>2, EmbedKept DEF Extraction
<1> QED
  BY <1>2, <1>3, <1>4, <1>5, <1>6, <1>7 DEF Extraction

\* The recovery of one item closes the attempt of the lease it takes away, and no
\* other attempt: each open attempt is the one of its item's lease.
LEMMA ReclaimKeeps ==
    ASSUME TypeOK, Extraction, NEW i \in Items, Reclaim(i)
    PROVE  Extraction'
<1> DEFINE t == item[i].token
<1>1. /\ item[i].status = "leased" /\ t \in Token /\ ItemOf(t) = i /\ attempt[t] = "open"
  BY DEF Reclaim, Extraction, LeaseNamesItem, LeaseIsWorkedOn
<1>2. /\ reading' = reading /\ log' = log /\ claims' = claims
      /\ item'[i].status = "ready"
      /\ \A j \in Items \ {i} : item'[j] = item[j]
  <2>1. item' = [item EXCEPT ![i] = Unleased(item[i], "ready", NoPlan)]
    BY DEF Reclaim, ReturnToReady
  <2>2. item[i] \in Row /\ "ready" \in Status
    BY DEF TypeOK, Status
  <2>3. Unleased(item[i], "ready", NoPlan).status = "ready"
    BY <2>2, UnleasedRow
  <2> QED
    BY <2>1, <2>3 DEF Reclaim, TypeOK
<1>3. attempt'[t] = "retryable_failed" /\ \A u \in Token \ {t} : attempt'[u] = attempt[u]
  BY <1>1 DEF Reclaim, TypeOK
<1> HIDE DEF t
<1>4. \A j \in Items : item'[j].status = "leased" =>
          /\ j # i /\ item'[j] = item[j] /\ item[j].token \in Token \ {t}
  BY <1>1, <1>2 DEF Extraction, LeaseNamesItem
<1>5. LeaseNamesItem'
  BY <1>4 DEF Extraction, LeaseNamesItem
<1>6. AttemptHasExecute'
  BY <1>1, <1>2, <1>3 DEF Extraction, AttemptHasExecute
<1>7. ReconcileFollowsExecute' /\ ReadingIsPending'
  BY <1>2 DEF Extraction, ReconcileFollowsExecute, ReadingIsPending
<1>8. LeaseIsWorkedOn'
  BY <1>2, <1>3, <1>4 DEF Extraction, LeaseIsWorkedOn
<1>9. OpenAttemptHoldsLease'
  <2> SUFFICES ASSUME NEW u \in Token, attempt'[u] = "open"
               PROVE  item'[ItemOf(u)].status = "leased" /\ item'[ItemOf(u)].token = u
    BY DEF OpenAttemptHoldsLease, HoldsLease
  <2>1. u # t /\ item[ItemOf(u)].status = "leased" /\ item[ItemOf(u)].token = u
    BY <1>3 DEF Extraction, OpenAttemptHoldsLease, HoldsLease
  <2>2. ItemOf(u) \in Items \ {i}
    BY <2>1, TokenParts DEF t
  <2> QED
    BY <1>2, <2>1, <2>2
<1>10. ClaimsFromOneAttempt'
  <2> SUFFICES ASSUME NEW j \in Items, NEW u \in claims[j]
               PROVE  /\ claims[j] = {u}
                      /\ ItemOf(u) = j
                      /\ \A v \in Token : ItemOf(v) = j => attempt'[v] # "open"
                      /\ attempt'[u] = "succeeded"
                      /\ item'[j].status = "completed"
                      /\ LeasingRun(u) = RunOf(j)
    BY <1>2 DEF ClaimsFromOneAttempt
  <2>1. /\ claims[j] = {u} /\ ItemOf(u) = j /\ u \in Token
        /\ \A v \in Token : ItemOf(v) = j => attempt[v] # "open"
        /\ attempt[u] = "succeeded" /\ item[j].status = "completed"
        /\ LeasingRun(u) = RunOf(j)
    BY DEF TypeOK, Extraction, ClaimsFromOneAttempt
  <2>2. j # i
    BY <1>1, <2>1
  <2> QED
    BY <1>1, <1>2, <1>3, <2>1, <2>2
<1>11. EmbedMeansCompleted'
  <2>1. \A j \in Items : item[j].status = "completed" => item'[j].status = "completed"
    BY <1>1, <1>2
  <2> QED
    BY <1>2, <2>1, EmbedKept DEF Extraction
<1> QED
  BY <1>5, <1>6, <1>7, <1>8, <1>9, <1>10, <1>11 DEF Extraction

\* RECONCILE decides on one of four commands, on the embeddings only when every
\* section of the run is completed.
LEMMA DecisionFacts ==
    ASSUME TypeOK, Extraction, NEW t \in Token, Reconcile(t) \in Pending(log)
    PROVE  /\ Decision(t) \in NextCommands(LeasingRun(t))
           /\ \A q \in Runs : Decision(t) = Embed(q) => AllCompleted(q)
<1> DEFINE r == LeasingRun(t)
           origin == log[Reconcile(t)].payload.origin
<1>1. log[Reconcile(t)].run = r /\ r \in Runs
  BY TokenParts DEF Extraction, ReconcileFollowsExecute, Pending, Known
<1>2. origin \in SUBSET Token
  BY DEF TypeOK, Pending, CommandRow, Payload
<1>3. SelectedPlan(r) # NoPlan => SelectedPlan(r) \in RetryPlans
  <2> DEFINE plans == {action[r][i] : i \in {j \in Items : item[j].status \in Due \cup {"leased"}}}
                          \ {NoPlan}
  <2>1. plans \subseteq RetryPlans
    BY <1>1 DEF TypeOK
  <2>2. SelectedPlan(r) = IF plans = {} THEN NoPlan ELSE CHOOSE p \in plans : TRUE
    BY DEF SelectedPlan
  <2> HIDE DEF plans
  <2> QED
    BY <2>1, <2>2
<1>4. Decision(t) =
          IF DueItems \cap ItemsOf(r) # {}
          THEN IF SelectedPlan(r) # NoPlan THEN RetryPrepare(r, SelectedPlan(r))
               ELSE FollowUp(origin)
          ELSE IF AllCompleted(r) THEN Embed(r) ELSE NoCommand
  BY <1>1 DEF Decision, AllCompleted
<1> HIDE DEF r, origin
<1>5. Decision(t) \in NextCommands(r)
  BY <1>2, <1>3, <1>4 DEF NextCommands
<1>6. /\ \A p : RetryPrepare(r, p) # Embed(r)
      /\ FollowUp(origin) # Embed(r) /\ NoCommand # Embed(r)
  BY DEF RetryPrepare, FollowUp, NoCommand, Embed
<1>7. Decision(t) = Embed(r) => AllCompleted(r)
  BY <1>4, <1>6
<1>8. \A q \in Runs : Decision(t) = Embed(q) => q = r
  BY <1>5, NextCommandKinds
<1> QED
  BY <1>5, <1>7, <1>8 DEF r

\* RECONCILE, first step: the progress is read and the next command decided on.
LEMMA ReadKeeps ==
    ASSUME TypeOK, Extraction, NEW t \in Token, ReadProgress(t)
    PROVE  Extraction'
<1>1. /\ Reconcile(t) \in Pending(log) /\ DOMAIN reading' = DOMAIN reading \cup {t}
      /\ reading'[t] = Decision(t) /\ t \notin DOMAIN reading
      /\ \A u \in DOMAIN reading : reading'[u] = reading[u]
      /\ item' = item /\ attempt' = attempt /\ log' = log /\ claims' = claims
  BY DEF ReadProgress
<1>2. /\ Decision(t) \in NextCommands(LeasingRun(t))
      /\ \A q \in Runs : Decision(t) = Embed(q) => AllCompleted(q)
  BY <1>1, DecisionFacts
<1>3. ReadingIsPending'
  BY <1>1, <1>2 DEF Extraction, ReadingIsPending
<1>4. EmbedMeansCompleted'
  BY <1>1, <1>2 DEF Extraction, EmbedMeansCompleted, AllCompleted
<1> QED
  BY <1>1, <1>3, <1>4 DEF Extraction, LeaseNamesItem, AttemptHasExecute,
     ReconcileFollowsExecute, LeaseIsWorkedOn, OpenAttemptHoldsLease, HoldsLease,
     ClaimsFromOneAttempt

\* RECONCILE, second step: what was decided is still true when it is committed.
LEMMA CommitKeeps ==
    ASSUME TypeOK, Extraction, NEW t \in Token, CommitReconcile(t)
    PROVE  Extraction'
<1>1. /\ t \in DOMAIN reading /\ DOMAIN reading' = DOMAIN reading \ {t}
      /\ \A u \in DOMAIN reading' : reading'[u] = reading[u]
      /\ item' = item /\ attempt' = attempt /\ claims' = claims
  BY DEF CommitReconcile, Forget
<1>2. Reconcile(t) \in Pending(log) /\ reading[t] \in NextCommands(LeasingRun(t))
  BY <1>1 DEF Extraction, ReadingIsPending
<1>3. /\ Known(log) \subseteq Known(log') /\ Known(log') \subseteq Known(log) \cup {reading[t]}
      /\ \A j \in Known(log) \ {Reconcile(t)} : log'[j] = log[j]
      /\ log'[Reconcile(t)].run = log[Reconcile(t)].run /\ log'[Reconcile(t)].done
  BY <1>1, <1>2, ReconciledLog
<1>4. \A u \in Token : /\ Execute(u) \in Known(log') <=> Execute(u) \in Known(log)
                       /\ Reconcile(u) \in Known(log') <=> Reconcile(u) \in Known(log)
  BY <1>2, <1>3, NextCommandKinds
<1>5. \A u \in Token : Execute(u) \in Pending(log) => Execute(u) \in Pending(log')
  BY <1>3, KeysDiffer DEF Pending, Known
<1>6. ReconcileFollowsExecute'
  <2>1. \A k \in Known(log) : /\ k \in Known(log') /\ log'[k].run = log[k].run
                              /\ log[k].done => log'[k].done
    BY <1>3
  <2> QED
    BY <1>4, <2>1, CommandsKept DEF Extraction
<1>7. ReadingIsPending'
  <2>1. \A u \in DOMAIN reading' : u \in Token \ {t} /\ u \in DOMAIN reading
    BY <1>1 DEF TypeOK
  <2>2. \A u \in Token \ {t} : Reconcile(u) \in Pending(log) => Reconcile(u) \in Pending(log')
    BY <1>3, KeysDiffer DEF Pending, Known
  <2> QED
    BY <1>1, <2>1, <2>2 DEF Extraction, ReadingIsPending
<1>8. EmbedMeansCompleted'
  <2>1. \A r \in Runs : Embed(r) \in Known(log') =>
            Embed(r) \in Known(log) \/ reading[t] = Embed(r)
    BY <1>3
  <2> QED
    BY <1>1, <2>1 DEF Extraction, EmbedMeansCompleted, AllCompleted
<1>9. AttemptHasExecute' /\ LeaseIsWorkedOn'
  BY <1>1, <1>4, <1>5 DEF Extraction, AttemptHasExecute, LeaseNamesItem, LeaseIsWorkedOn
<1> QED
  BY <1>1, <1>6, <1>7, <1>8, <1>9 DEF Extraction, LeaseNamesItem, OpenAttemptHoldsLease,
     HoldsLease, ClaimsFromOneAttempt

\* A rolled-back transaction and the start of a call leave nothing behind that
\* the invariant depends on.
LEMMA QuietKeeps ==
    ASSUME Extraction, item' = item, attempt' = attempt, log' = log, claims' = claims,
           \A t \in DOMAIN reading' : t \in DOMAIN reading /\ reading'[t] = reading[t]
    PROVE  Extraction'
BY DEF Extraction, LeaseNamesItem, AttemptHasExecute, ReconcileFollowsExecute,
       ReadingIsPending, LeaseIsWorkedOn, OpenAttemptHoldsLease, HoldsLease,
       ClaimsFromOneAttempt, EmbedMeansCompleted, AllCompleted

\* Extraction survives every handler.
LEMMA ExtractionInductive == TypeOK /\ Extraction /\ [Next]_vars => Extraction'
<1> SUFFICES ASSUME TypeOK, Extraction, [Next]_vars PROVE Extraction'
  OBVIOUS
<1>1. ASSUME NEW k \in Pending(log), RunPrepare(k) PROVE Extraction'
  BY <1>1, PrepareKeeps DEF RunPrepare
<1>2. ASSUME NEW t \in Token, Finish(t) PROVE Extraction'
  BY <1>2, FinishKeeps DEF Finish
<1>3. ASSUME NEW t \in Token, BeginCall(t) \/ AbandonCall(t) \/ AbandonReconcile(t)
      PROVE Extraction'
  BY <1>3, QuietKeeps DEF BeginCall, AbandonCall, AbandonReconcile, Forget
<1>4. CASE UNCHANGED vars
  BY <1>4, QuietKeeps DEF vars
<1> QED
  BY <1>1, <1>2, <1>3, <1>4, ReplayKeeps, ReadKeeps, CommitKeeps, ReclaimKeeps DEF Next

\* The state work scheduling leaves behind satisfies both.
LEMMA Initially == Init => TypeOK /\ Extraction
<1> SUFFICES ASSUME Init PROVE TypeOK /\ Extraction
  OBVIOUS
<1>1. Known(log) = {InitialPrepare(r) : r \in Runs} /\ DOMAIN reading = {}
  BY DEF Init, Known, EmptyLog
<1>2. \A t \in Token : Execute(t) \notin Known(log) /\ Reconcile(t) \notin Known(log)
  BY <1>1, KeysDiffer
<1>3. \A r \in Runs : Embed(r) \notin Known(log)
  BY <1>1, KeysDiffer
<1>4. TypeOK
  <2>1. LogTyped(log)
    <3> SUFFICES ASSUME NEW k \in DOMAIN log PROVE log[k] \in CommandRow(Runs, Payload)
      BY DEF LogTyped
    <3>1. PICK r \in Runs : k = InitialPrepare(r)
      BY <1>1 DEF Known
    <3>2. log[k] = [run |-> k[2], done |-> FALSE, payload |-> [window |-> FALSE, origin |-> {}]]
      BY DEF Init
    <3>3. k[2] = r
      BY <3>1 DEF InitialPrepare
    <3> QED
      BY <3>2, <3>3 DEF CommandRow, Payload
  <2> QED
    BY <1>1, <2>1, ScheduledRow DEF Init, TypeOK, LogTyped
<1>5. Extraction
  BY <1>1, <1>2, <1>3, ScheduledRow DEF Init, Extraction, LeaseNamesItem, AttemptHasExecute,
     ReconcileFollowsExecute, ReadingIsPending, LeaseIsWorkedOn, OpenAttemptHoldsLease,
     ClaimsFromOneAttempt, EmbedMeansCompleted
<1> QED
  BY <1>4, <1>5

-----------------------------------------------------------------------------
(* The invariant, and what follows from it                                 *)

\* PREPARE, EXECUTE, RECONCILE and the recovery, interleaved in any order and
\* rolled back at any point, keep leases, attempts and commands in agreement.
THEOREM ExtractionAlways == Spec => [](TypeOK /\ Extraction)
<1>1. (TypeOK /\ Extraction) /\ [Next]_vars => (TypeOK /\ Extraction)'
  BY TypeOKInductive, ExtractionInductive
<1> QED
  BY <1>1, Initially, PTL DEF Spec

\* Every row and every command has its columns' types.
THEOREM TypeCorrect == Spec => []TypeOK
BY ExtractionAlways, PTL

\* A leased item always has a pending EXECUTE for an open attempt: whoever dies,
\* some command is left that ends the lease.
THEOREM LeaseIsWorkedOnAlways == Spec => []LeaseIsWorkedOn
<1>1. Extraction => LeaseIsWorkedOn
  BY DEF Extraction
<1> QED
  BY <1>1, ExtractionAlways, PTL

\* An attempt is open only under its own lease.
THEOREM OpenAttemptHoldsLeaseAlways == Spec => []OpenAttemptHoldsLease
<1>1. Extraction => OpenAttemptHoldsLease
  BY DEF Extraction
<1> QED
  BY <1>1, ExtractionAlways, PTL

\* Draft claims come from the one attempt that completed the item, in the item's
\* own run.
THEOREM ClaimsFromOneAttemptAlways == Spec => []ClaimsFromOneAttempt
<1>1. Extraction => ClaimsFromOneAttempt
  BY DEF Extraction
<1> QED
  BY <1>1, ExtractionAlways, PTL

\* A completed item and its claims are left alone by every handler: PREPARE takes
\* due items, EXECUTE and the recovery leased ones.
LEMMA CompletedItemKept ==
    ASSUME TypeOK, Extraction, [Next]_vars, NEW i \in Items, item[i].status = "completed"
    PROVE  item'[i] = item[i] /\ claims'[i] = claims[i]
<1>1. ASSUME NEW k \in Pending(log), RunPrepare(k)
      PROVE  item'[i] = item[i] /\ claims'[i] = claims[i]
  <2>1. PICK n \in 0..MaxBatch : \E f \in Batch(n) : Prepare(k, f)
    BY <1>1 DEF RunPrepare
  <2>2. PICK f \in Batch(n) : Prepare(k, f)
    BY <2>1
  <2> DEFINE S == TokensOf(log[k].run, f)
  <2>3. StartsTogether(S, log[k].run)
    BY <2>2, BatchStartsTogether
  <2> HIDE DEF S
  <2>4. \A t \in S : ItemOf(t) # i
    BY <2>3 DEF StartsTogether, Due
  <2>5. \A j \in Items : (\A t \in S : ItemOf(t) # j) => item'[j] = item[j]
    BY <2>2, <2>3, PreparedRows DEF S
  <2> QED
    BY <2>2, <2>4, <2>5 DEF Prepare
<1>2. ASSUME NEW t \in Token, Finish(t) PROVE item'[i] = item[i] /\ claims'[i] = claims[i]
  <2>1. ItemOf(t) \in Items /\ ItemOf(t) # i
    BY <1>2, TokenParts DEF Finish, FinishCall, HoldsLease
  <2> QED
    BY <1>2, <2>1 DEF Finish, FinishCall, TypeOK
<1>3. ASSUME NEW j \in Items, Reclaim(j) PROVE item'[i] = item[i] /\ claims'[i] = claims[i]
  <2>1. j # i
    BY <1>3 DEF Reclaim
  <2> QED
    BY <1>3, <2>1 DEF Reclaim, TypeOK
<1>4. CASE \/ \E t \in Token : \/ BeginCall(t) \/ Replay(t) \/ AbandonCall(t)
                              \/ ReadProgress(t) \/ CommitReconcile(t) \/ AbandonReconcile(t)
           \/ UNCHANGED vars
  BY <1>4 DEF BeginCall, Replay, AbandonCall, ReadProgress, CommitReconcile,
              AbandonReconcile, vars
<1> QED
  BY <1>1, <1>2, <1>3, <1>4 DEF Next

\* Once the embeddings are asked for, the claims and the items of the run are final.
THEOREM ClaimsFinalWhenEmbeddingAlways == Spec => ClaimsFinalWhenEmbedding
<1>1. TypeOK /\ Extraction /\ [Next]_vars =>
          [\A r \in Runs : Embed(r) \in Known(log) =>
               \A i \in ItemsOf(r) : claims'[i] = claims[i] /\ item'[i] = item[i]]_vars
  <2> SUFFICES ASSUME TypeOK, Extraction, [Next]_vars, NEW r \in Runs,
                      Embed(r) \in Known(log), NEW i \in ItemsOf(r)
               PROVE  claims'[i] = claims[i] /\ item'[i] = item[i]
    OBVIOUS
  <2>1. i \in Items /\ item[i].status = "completed"
    BY ItemParts DEF Extraction, EmbedMeansCompleted, AllCompleted
  <2> QED
    BY <2>1, CompletedItemKept
<1> QED
  BY <1>1, ExtractionAlways, PTL DEF Spec, ClaimsFinalWhenEmbedding

\* What every step does to the log: rows stay, and a completed command stays
\* completed.
LEMMA LogGrows ==
    ASSUME TypeOK, Extraction, [Next]_vars, NEW k \in Known(log)
    PROVE  k \in Known(log') /\ (log[k].done => log'[k].done)
<1>1. ASSUME NEW c \in Pending(log), RunPrepare(c)
      PROVE  k \in Known(log') /\ (log[k].done => log'[k].done)
  <2>1. PICK n \in 0..MaxBatch : \E f \in Batch(n) : Prepare(c, f)
    BY <1>1 DEF RunPrepare
  <2>2. PICK f \in Batch(n) : Prepare(c, f)
    BY <2>1
  <2>3. TokensOf(log[c].run, f) \subseteq Token
    BY <2>2, BatchStartsTogether DEF StartsTogether
  <2>4. /\ Known(log) \subseteq Known(log') /\ log'[c].done
        /\ \A j \in Known(log) \ {c} : log'[j] = log[j]
    BY <2>2, <2>3, PreparedLog
  <2> QED
    BY <2>4
<1>2. ASSUME NEW t \in Token, NEW observed, Executed(t, observed), Execute(t) \in Pending(log)
      PROVE  k \in Known(log') /\ (log[k].done => log'[k].done)
  BY <1>2, ExecutedLog
<1>3. ASSUME NEW t \in Token, Finish(t)
      PROVE  k \in Known(log') /\ (log[k].done => log'[k].done)
  <2>1. PICK observed \in Observations : Executed(t, observed) /\ HoldsLease(t)
    BY <1>3 DEF Finish, FinishCall
  <2> QED
    BY <1>2, <2>1, LeaseHolderIsPending
<1>4. ASSUME NEW t \in Token, Replay(t)
      PROVE  k \in Known(log') /\ (log[k].done => log'[k].done)
  BY <1>2, <1>4 DEF Replay
<1>5. ASSUME NEW t \in Token, CommitReconcile(t)
      PROVE  k \in Known(log') /\ (log[k].done => log'[k].done)
  <2>1. t \in DOMAIN reading /\ Reconcile(t) \in Pending(log)
    BY <1>5 DEF CommitReconcile, Extraction, ReadingIsPending
  <2> QED
    BY <1>5, <2>1, ReconciledLog
<1>6. CASE \/ \E t \in Token : \/ BeginCall(t) \/ AbandonCall(t)
                              \/ ReadProgress(t) \/ AbandonReconcile(t)
           \/ \E i \in Items : Reclaim(i)
           \/ UNCHANGED vars
  BY <1>6 DEF BeginCall, AbandonCall, ReadProgress, AbandonReconcile, Reclaim, vars
<1> QED
  BY <1>1, <1>3, <1>4, <1>5, <1>6 DEF Next

\* A command that was completed is not run again.
THEOREM CompletedOnceAlways == Spec => CompletedOnce
<1>1. TypeOK /\ Extraction /\ [Next]_vars =>
          [\A k \in Known(log) : log[k].done => k \in Known(log') /\ log'[k].done]_vars
  BY LogGrows
<1> QED
  BY <1>1, ExtractionAlways, PTL DEF Spec, CompletedOnce

-----------------------------------------------------------------------------
(* The end of the extraction is not missed                                 *)

\* A RECONCILE of a completed run that reads now asks for the embeddings.
LEMMA CompletedDecision ==
    ASSUME Extraction, NEW r \in Runs, NEW t \in Token, LeasingRun(t) = r,
           Reconcile(t) \in Pending(log), AllCompleted(r)
    PROVE  Decision(t) = Embed(r)
<1>1. log[Reconcile(t)].run = r
  BY DEF Extraction, ReconcileFollowsExecute, Pending, Known
<1>2. DueItems \cap ItemsOf(r) = {}
  BY DEF AllCompleted, DueItems, Due
<1> QED
  BY <1>1, <1>2 DEF Decision, AllCompleted

\* Only an EXECUTE completes an item.
LEMMA OnlyFinishCompletes ==
    ASSUME TypeOK, Extraction, [Next]_vars, NEW i \in Items,
           item'[i].status = "completed", item[i].status # "completed"
    PROVE  \E t \in Token : ItemOf(t) = i /\ Finish(t)
<1>1. ASSUME NEW k \in Pending(log), RunPrepare(k) PROVE FALSE
  <2>1. PICK n \in 0..MaxBatch : \E f \in Batch(n) : Prepare(k, f)
    BY <1>1 DEF RunPrepare
  <2>2. PICK f \in Batch(n) : Prepare(k, f)
    BY <2>1
  <2> DEFINE S == TokensOf(log[k].run, f)
  <2>3. StartsTogether(S, log[k].run)
    BY <2>2, BatchStartsTogether
  <2> HIDE DEF S
  <2>4. /\ \A t \in S : item'[ItemOf(t)] = LeaseReady(item[ItemOf(t)], t, 1)
        /\ (\A t \in S : ItemOf(t) # i) => item'[i] = item[i]
    BY <2>2, <2>3, PreparedRows DEF S
  <2>5. PICK t \in S : ItemOf(t) = i
    BY <2>4
  <2>6. t \in Token /\ item[i] \in Row
    BY <2>3, <2>5 DEF StartsTogether, TypeOK
  <2>7. item'[i] = LeaseReady(item[i], t, 1)
    BY <2>4, <2>5
  <2> QED
    BY <2>6, <2>7, LeasedRow
<1>2. ASSUME NEW t \in Token, Finish(t) PROVE ItemOf(t) = i
  BY <1>2, TokenParts DEF Finish, FinishCall, TypeOK
<1>3. ASSUME NEW j \in Items, Reclaim(j) PROVE FALSE
  <2>1. item[j] \in Row /\ "ready" \in Status /\ NoPlan \in RetryPlans \cup {NoPlan}
    BY DEF TypeOK, Status
  <2>2. ReturnToReady(item[j]).status = "ready"
    BY <2>1, UnleasedRow DEF ReturnToReady
  <2> QED
    BY <1>3, <2>2 DEF Reclaim, TypeOK
<1>4. CASE \/ \E t \in Token : \/ BeginCall(t) \/ Replay(t) \/ AbandonCall(t)
                              \/ ReadProgress(t) \/ CommitReconcile(t) \/ AbandonReconcile(t)
           \/ UNCHANGED vars
  BY <1>4 DEF BeginCall, Replay, AbandonCall, ReadProgress, CommitReconcile,
              AbandonReconcile, vars
<1> QED
  BY <1>1, <1>2, <1>3, <1>4 DEF Next

\* A RECONCILE that is due and has not read an older progress stays so, until it
\* has asked for the embeddings.
LEMMA DueReconcileStays ==
    ASSUME TypeOK, Extraction, [Next]_vars, NEW r \in Runs, AllCompleted(r),
           Embed(r) \notin Known(log'),
           NEW t \in Token, LeasingRun(t) = r, Reconcile(t) \in Pending(log),
           t \in DOMAIN reading => reading[t] = Embed(r)
    PROVE  /\ Reconcile(t) \in Pending(log')
           /\ t \in DOMAIN reading' => reading'[t] = Embed(r)
<1> DEFINE Goal == /\ Reconcile(t) \in Pending(log')
                   /\ t \in DOMAIN reading' => reading'[t] = Embed(r)
<1>1. ASSUME NEW k \in Pending(log), RunPrepare(k) PROVE Goal
  <2>1. PICK n \in 0..MaxBatch : \E f \in Batch(n) : Prepare(k, f)
    BY <1>1 DEF RunPrepare
  <2>2. PICK f \in Batch(n) : Prepare(k, f)
    BY <2>1
  <2>3. TokensOf(log[k].run, f) \subseteq Token
    BY <2>2, BatchStartsTogether DEF StartsTogether
  <2>4. /\ Known(log) \subseteq Known(log')
        /\ \A j \in Known(log) \ {k} : log'[j] = log[j]
    BY <2>2, <2>3, PreparedLog
  <2>5. IsPrepare(k) /\ reading' = reading
    BY <2>2 DEF Prepare
  <2>6. Reconcile(t) # k
    BY <2>5, KeysDiffer
  <2> QED
    BY <2>4, <2>5, <2>6 DEF Pending, Known
<1>2. ASSUME NEW u \in Token, Finish(u) \/ Replay(u) PROVE Goal
  <2>1. reading' = reading /\ \E observed : Executed(u, observed)
    BY <1>2 DEF Finish, FinishCall, Replay
  <2>2. Execute(u) \in Pending(log)
    BY <1>2, LeaseHolderIsPending DEF Finish, FinishCall, Replay
  <2> QED
    BY <2>1, <2>2, ExecutedKeeps
<1>3. ASSUME NEW u \in Token, ReadProgress(u) PROVE Goal
  <2>1. Decision(t) = Embed(r)
    BY CompletedDecision
  <2> QED
    BY <1>3, <2>1 DEF ReadProgress
<1>4. ASSUME NEW u \in Token, CommitReconcile(u) PROVE Goal
  <2>1. u \in DOMAIN reading /\ Reconcile(u) \in Pending(log)
    BY <1>4 DEF CommitReconcile, Extraction, ReadingIsPending
  <2>2. /\ Known(log) \subseteq Known(log')
        /\ reading[u] # NoCommand => reading[u] \in Known(log')
        /\ \A j \in Known(log) \ {Reconcile(u)} : log'[j] = log[j]
    BY <1>4, <2>1, ReconciledLog
  <2>3. u # t
    BY <2>1, <2>2, KeysDiffer
  <2>4. Reconcile(t) # Reconcile(u)
    BY <2>3, KeysDiffer
  <2>5. Reconcile(t) \in Pending(log')
    BY <2>2, <2>4 DEF Pending, Known
  <2> QED
    BY <1>4, <2>5 DEF CommitReconcile, Forget
<1>5. CASE \/ \E u \in Token : BeginCall(u) \/ AbandonCall(u) \/ AbandonReconcile(u)
           \/ \E i \in Items : Reclaim(i)
           \/ UNCHANGED vars
  BY <1>5 DEF BeginCall, AbandonCall, AbandonReconcile, Forget, Reclaim, vars
<1> QED
  BY <1>1, <1>2, <1>3, <1>4, <1>5 DEF Next

\* The transaction that completes the last section leaves its own RECONCILE
\* behind, of the run the section belongs to when leases stay within their run.
LEMMA EmbedIsComingInductive ==
    TypeOK /\ Extraction /\ LeaseWithinRun /\ EmbedIsComing /\ [Next]_vars => EmbedIsComing'
<1> SUFFICES ASSUME TypeOK, Extraction, LeaseWithinRun, EmbedIsComing, [Next]_vars,
                    NEW r \in Runs, AllCompleted(r)', Embed(r) \notin Known(log')
             PROVE  \E t \in Token :
                        /\ ItemOf(t) \in ItemsOf(r) /\ LeasingRun(t) = r
                        /\ Reconcile(t) \in Pending(log')
                        /\ t \in DOMAIN reading' => reading'[t] = Embed(r)
  BY DEF EmbedIsComing
<1>1. CASE AllCompleted(r)
  <2>1. Embed(r) \notin Known(log)
    BY LogGrows
  <2>2. PICK t \in Token : /\ ItemOf(t) \in ItemsOf(r) /\ LeasingRun(t) = r
                           /\ Reconcile(t) \in Pending(log)
                           /\ t \in DOMAIN reading => reading[t] = Embed(r)
    BY <1>1, <2>1 DEF EmbedIsComing
  <2>3. /\ Reconcile(t) \in Pending(log')
        /\ t \in DOMAIN reading' => reading'[t] = Embed(r)
    BY <1>1, <2>2, DueReconcileStays
  <2> QED
    BY <2>2, <2>3
<1>2. CASE ~AllCompleted(r)
  <2>1. PICK i \in ItemsOf(r) : item[i].status # "completed"
    BY <1>2 DEF AllCompleted
  <2>2. i \in Items /\ RunOf(i) = r /\ item'[i].status = "completed"
    BY <2>1 DEF AllCompleted, ItemsOf
  <2>3. PICK t \in Token : ItemOf(t) = i /\ Finish(t)
    BY <2>1, <2>2, OnlyFinishCompletes
  <2>4. HoldsLease(t) /\ reading' = reading /\ \E observed : Executed(t, observed)
    BY <2>3 DEF Finish, FinishCall
  <2>5. Execute(t) \in Pending(log)
    BY <2>4, LeaseHolderIsPending
  <2>6. Reconcile(t) \notin Known(log) /\ Reconcile(t) \in Pending(log')
    BY <2>4, <2>5, ExecutedKeeps
  <2>7. t \notin DOMAIN reading
    BY <2>6 DEF Extraction, ReadingIsPending, Pending, Known
  <2>8. LeasingRun(t) = r
    BY <2>2, <2>3, <2>4 DEF LeaseWithinRun, HoldsLease
  <2> QED
    BY <2>1, <2>3, <2>4, <2>6, <2>7, <2>8
<1> QED
  BY <1>1, <1>2

\* While no PREPARE leases an item of another run, the embeddings of a completed
\* run are asked for before its last RECONCILE ends.
THEOREM CompletionNotMissedWithinRuns ==
    Spec /\ []LeaseWithinRun => []CompletionNotMissed
<1>1. Init => EmbedIsComing
  <2> SUFFICES ASSUME Init, NEW r \in Runs PROVE ~AllCompleted(r)
    BY DEF EmbedIsComing
  <2>1. PICK i : i \in ItemsOf(r)
    BY ItemParts
  <2>2. item[i].status = "ready"
    BY <2>1, ItemParts, ScheduledRow DEF Init
  <2> QED
    BY <2>1, <2>2 DEF AllCompleted
<1>2. (TypeOK /\ Extraction) /\ LeaseWithinRun /\ EmbedIsComing /\ [Next]_vars => EmbedIsComing'
  BY EmbedIsComingInductive
<1>3. EmbedIsComing => CompletionNotMissed
  BY DEF EmbedIsComing, CompletionNotMissed, AllCompleted
<1> QED
  BY <1>1, <1>2, <1>3, ExtractionAlways, PTL DEF Spec

\* With one workflow run every lease is within the run.
LEMMA OneRunLeases ==
    ASSUME \A r, q \in Runs : r = q
    PROVE  TypeOK /\ Extraction => LeaseWithinRun
<1> SUFFICES ASSUME TypeOK, Extraction, NEW i \in Items, item[i].status = "leased"
             PROVE  LeasingRun(item[i].token) = RunOf(i)
  BY DEF LeaseWithinRun
<1>1. item[i].token \in Token
  BY DEF Extraction, LeaseNamesItem
<1>2. LeasingRun(item[i].token) \in Runs /\ RunOf(i) \in Runs
  BY <1>1, TokenParts, ItemParts
<1> QED
  BY <1>2

\* One workflow run, as in the run claim_builder: the completion is never missed,
\* however many drains work on it and wherever they die.
THEOREM CompletionNotMissedInOneRun ==
    ASSUME \A r, q \in Runs : r = q
    PROVE  Spec => []CompletionNotMissed
<1>1. TypeOK /\ Extraction => LeaseWithinRun
  BY OneRunLeases
<1> QED
  BY <1>1, ExtractionAlways, CompletionNotMissedWithinRuns, PTL
=============================================================================
