--------------------------- MODULE JobQueue_proofs ---------------------------
(***************************************************************************)
(* The safety properties of the job queue, for any number of jobs, workers *)
(* and attempts, any timeout, and any number of crashes and errors.        *)
(***************************************************************************)
EXTENDS JobQueue, TLAPS

\* What a worker writes to a row, for each of the three results: the row stays a
\* row of the table, leaves "processing", and is exhausted only when settled.
LEMMA WrittenFacts ==
    ASSUME NEW row \in Row, NEW result \in Writing
    PROVE  /\ Written(row, result) \in Row
           /\ Written(row, result).status \in {"pending", "done", "failed"}
           /\ Written(row, result).status = "done" => result = "success"
           /\ Written(row, result).age = 0
           /\ Written(row, result).status = "pending" =>
                  ~(Written(row, result).attempts >= MaxAttempts)
<1>1. row.attempts \in Nat /\ 0 \in Ages
  BY TimeoutAssumption DEF Row, Ages
<1>2. CASE result = "success"
  <2>1. Written(row, result) = [row EXCEPT !.status = "done", !.age = 0]
    BY <1>2 DEF Written
  <2> QED
    BY <1>1, <1>2, <2>1 DEF Row
<1>3. CASE result = "permanent"
  <2>1. Written(row, result) = [row EXCEPT !.status = "failed", !.age = 0]
    BY <1>3 DEF Written
  <2> QED
    BY <1>1, <1>3, <2>1 DEF Row
<1>4. CASE result = "transient"
  <2>1. Written(row, result) =
            [status |-> FailedStatus(row), attempts |-> row.attempts + 1, age |-> 0]
    BY <1>4 DEF Written
  <2> QED
    BY <1>1, <1>4, <2>1, MaxAttemptsAssumption DEF Row, FailedStatus
<1> QED
  BY <1>2, <1>3, <1>4 DEF Writing

\* Releasing a row never settles it and never touches its attempts.
LEMMA ReleasedFacts ==
    ASSUME NEW row \in Row
    PROVE  /\ Released(row) \in Row
           /\ Released(row).attempts = row.attempts
           /\ row.status = "processing" => Released(row).status = "pending"
           /\ row.status # "processing" => Released(row) = row
           /\ Released(row).age \in {0, row.age}
<1>1. 0 \in Ages
  BY TimeoutAssumption DEF Ages
<1> QED
  BY <1>1 DEF Released, Row

\* Every step keeps the variables in their types.
LEMMA TypeOKInductive ==
    ASSUME TypeOK, BusyHasJob, [Next]_vars
    PROVE  TypeOK'
<1> USE DEF TypeOK
<1>0. 0 \in Ages
  BY TimeoutAssumption DEF Ages
<1>1. ASSUME NEW j \in Jobs, Enqueue(j) PROVE TypeOK'
  BY <1>1 DEF Enqueue, Row
<1>2. ASSUME NEW w \in Workers, ReadStale(w) PROVE TypeOK'
  BY <1>2 DEF ReadStale, StaleJobs, Busy
<1>3. ASSUME NEW w \in Workers, NEW j \in Jobs, ReleaseStale(w, j) PROVE TypeOK'
  <2>1. Released(job[j]) \in Row
    BY ReleasedFacts
  <2> QED BY <1>3, <2>1 DEF ReleaseStale
<1>4. ASSUME NEW w \in Workers, NEW j \in Jobs, Claim(w, j) PROVE TypeOK'
  <2>1. [job[j] EXCEPT !.status = "processing", !.age = 0] \in Row
    BY <1>0 DEF Row
  <2>2. job' \in [Jobs -> Row]
    BY <1>4, <2>1 DEF Claim
  <2> QED
    BY <1>4, <2>2 DEF Claim, Busy
<1>5. ASSUME NEW w \in Workers, Idle(w) PROVE TypeOK'
  BY <1>5 DEF Idle
<1>6. ASSUME NEW w \in Workers, NEW result \in Writing, Handle(w, result) PROVE TypeOK'
  <2>1. mine[w] \in Jobs
    BY <1>6 DEF Handle, BusyHasJob, Busy
  <2> QED BY <1>6, <2>1 DEF Handle, Busy
<1>7. ASSUME NEW w \in Workers, Write(w) PROVE TypeOK'
  <2>1. mine[w] \in Jobs
    BY <1>7 DEF Write, BusyHasJob, Busy
  <2>2. Written(job[mine[w]], pc[w]) \in Row
    BY <1>7, <2>1, WrittenFacts DEF Write
  <2> QED BY <1>7, <2>1, <2>2 DEF Write, Leave
<1>8. ASSUME NEW w \in Workers, WriteRaises(w) PROVE TypeOK'
  BY <1>8 DEF WriteRaises, Leave, Busy, Writing
<1>9. ASSUME NEW w \in Workers, Crash(w) PROVE TypeOK'
  BY <1>9 DEF Crash, Leave
<1>10. ASSUME Tick PROVE TypeOK'
  BY <1>10, TimeoutAssumption DEF Tick, Locked, Row, Ages
<1>11. ASSUME UNCHANGED vars PROVE TypeOK'
  BY <1>11 DEF vars
<1> QED BY <1>1, <1>2, <1>3, <1>4, <1>5, <1>6, <1>7, <1>8, <1>9, <1>10, <1>11
        DEF Next, Round

-----------------------------------------------------------------------------
(* The inductive invariant                                                 *)

\* No job is claimed, handled or written before the workers start.
LEMMA InitInv == Init => TypeOK /\ Inv
<1> SUFFICES ASSUME Init PROVE TypeOK /\ Inv
  OBVIOUS
<1>1. 0 \in Ages
  BY TimeoutAssumption DEF Ages
<1>2. TypeOK
  BY <1>1 DEF Init, TypeOK, Row
<1>3. /\ ExhaustedIsSettled /\ AgeOnRecord
  BY MaxAttemptsAssumption, TimeoutAssumption DEF Init, ExhaustedIsSettled, AgeOnRecord
<1>4. /\ DoneWasHandled /\ SoleHandler /\ BusyHasJob
      /\ StaleWasStale /\ BusyIsLocked /\ SuccessWasHandled
  BY DEF Init, DoneWasHandled, SoleHandler, BusyHasJob, StaleWasStale, BusyIsLocked,
         SuccessWasHandled, Busy, Writing
<1> QED
  BY <1>2, <1>3, <1>4 DEF Inv

\* A busy worker has a job, and keeps it until it leaves.
LEMMA BusyHasJobKept ==
    ASSUME TypeOK, BusyHasJob, [Next]_vars
    PROVE  BusyHasJob'
<1> USE DEF TypeOK, BusyHasJob, Busy, Writing
<1>1. ASSUME NEW w \in Workers, Round(w) PROVE BusyHasJob'
  <2>1. CASE ReadStale(w) \/ Idle(w)
    BY <2>1 DEF ReadStale, Idle
  <2>2. ASSUME NEW j \in Jobs, ReleaseStale(w, j) PROVE BusyHasJob'
    BY <2>2 DEF ReleaseStale
  <2>3. ASSUME NEW j \in Jobs, Claim(w, j) PROVE BusyHasJob'
    BY <2>3 DEF Claim
  <2>4. ASSUME NEW result \in Writing, Handle(w, result) PROVE BusyHasJob'
    BY <2>4 DEF Handle
  <2>5. CASE Write(w)
    BY <2>5 DEF Write, Leave
  <2> QED
    BY <1>1, <2>1, <2>2, <2>3, <2>4, <2>5 DEF Round
<1>2. ASSUME NEW w \in Workers, WriteRaises(w) \/ Crash(w) PROVE BusyHasJob'
  BY <1>2 DEF WriteRaises, Crash, Leave
<1>3. CASE UNCHANGED <<pc, mine>>
  BY <1>3
<1> QED
  BY <1>1, <1>2, <1>3 DEF Next, Enqueue, Tick, vars

\* The locks a recovery has read went stale before it read them.
LEMMA StaleRecordKept ==
    ASSUME TypeOK, BusyHasJob, StaleWasStale, AgeOnRecord, [Next]_vars
    PROVE  StaleWasStale' /\ AgeOnRecord' /\ wasStale \subseteq wasStale'
<1> USE TimeoutAssumption DEF TypeOK, StaleWasStale, AgeOnRecord
<1>1. ASSUME NEW j \in Jobs, Enqueue(j) PROVE StaleWasStale' /\ AgeOnRecord' /\ wasStale' = wasStale
  BY <1>1 DEF Enqueue, Row, Ages
<1>2. ASSUME NEW w \in Workers, ReadStale(w)
      PROVE  StaleWasStale' /\ AgeOnRecord' /\ wasStale' = wasStale
  BY <1>2 DEF ReadStale, StaleJobs
<1>3. ASSUME NEW w \in Workers, NEW j \in Jobs, ReleaseStale(w, j)
      PROVE  StaleWasStale' /\ AgeOnRecord' /\ wasStale' = wasStale
  <2>1. Released(job[j]).age \in {0, job[j].age}
    BY ReleasedFacts
  <2> QED
    BY <1>3, <2>1 DEF ReleaseStale, Row, Ages
<1>4. ASSUME NEW w \in Workers, NEW j \in Jobs, Claim(w, j)
      PROVE  StaleWasStale' /\ AgeOnRecord' /\ wasStale' = wasStale
  BY <1>4 DEF Claim, Row, Ages
<1>5. ASSUME NEW w \in Workers, Idle(w) \/ \E result \in Writing : Handle(w, result)
      PROVE  StaleWasStale' /\ AgeOnRecord' /\ wasStale' = wasStale
  BY <1>5 DEF Idle, Handle
<1>6. ASSUME NEW w \in Workers, Write(w)
      PROVE  StaleWasStale' /\ AgeOnRecord' /\ wasStale' = wasStale
  <2>1. mine[w] \in Jobs
    BY <1>6 DEF Write, BusyHasJob, Busy
  <2>2. Written(job[mine[w]], pc[w]).age = 0
    BY <1>6, <2>1, WrittenFacts DEF Write
  <2> QED
    BY <1>6, <2>1, <2>2 DEF Write, Leave
<1>7. ASSUME NEW w \in Workers, WriteRaises(w) \/ Crash(w)
      PROVE  StaleWasStale' /\ AgeOnRecord' /\ wasStale' = wasStale
  BY <1>7 DEF WriteRaises, Crash
<1>8. ASSUME Tick PROVE StaleWasStale' /\ AgeOnRecord' /\ wasStale \subseteq wasStale'
  <2>1. StaleWasStale' /\ wasStale \subseteq wasStale'
    BY <1>8 DEF Tick
  <2>2. ASSUME NEW j \in Jobs, job'[j].age > Timeout PROVE j \in wasStale'
    <3>1. CASE Locked(j)
      <4>1. job[j].age \in Nat /\ job[j].age <= Timeout /\ job'[j].age = job[j].age + 1
        BY <1>8, <3>1 DEF Tick, Locked, Row, Ages
      <4>2. job[j].age = Timeout
        BY <2>2, <4>1
      <4> QED
        BY <1>8, <3>1, <4>2 DEF Tick
    <3>2. CASE ~Locked(j)
      BY <1>8, <2>2, <3>2 DEF Tick
    <3> QED
      BY <3>1, <3>2
  <2> QED
    BY <2>1, <2>2
<1>9. ASSUME UNCHANGED vars PROVE StaleWasStale' /\ AgeOnRecord' /\ wasStale' = wasStale
  BY <1>9 DEF vars
<1> QED
  BY <1>1, <1>2, <1>3, <1>4, <1>5, <1>6, <1>7, <1>8, <1>9 DEF Next, Round

\* Failures are counted by fail_job alone, which settles the job at the limit;
\* nothing but a successful handler leads to "done".
LEMMA SettledKept ==
    ASSUME TypeOK, BusyHasJob, ExhaustedIsSettled, DoneWasHandled, SuccessWasHandled,
           [Next]_vars
    PROVE  ExhaustedIsSettled' /\ DoneWasHandled' /\ SuccessWasHandled'
<1> DEFINE Kept == ExhaustedIsSettled' /\ DoneWasHandled' /\ SuccessWasHandled'
<1> USE DEF TypeOK, ExhaustedIsSettled, DoneWasHandled, SuccessWasHandled
<1>1. ASSUME NEW j \in Jobs, Enqueue(j) PROVE Kept
  BY <1>1 DEF Enqueue, Row
<1>2. ASSUME NEW w \in Workers, ReadStale(w) \/ Idle(w) PROVE Kept
  BY <1>2 DEF ReadStale, Idle
<1>3. ASSUME NEW w \in Workers, NEW j \in Jobs, ReleaseStale(w, j) PROVE Kept
  <2>1. /\ Released(job[j]).attempts = job[j].attempts
        /\ job[j].status = "processing" => Released(job[j]).status = "pending"
        /\ job[j].status # "processing" => Released(job[j]) = job[j]
    BY ReleasedFacts
  <2> QED
    BY <1>3, <2>1 DEF ReleaseStale
<1>4. ASSUME NEW w \in Workers, NEW j \in Jobs, Claim(w, j) PROVE Kept
  <2>1. ~(job[j].attempts >= MaxAttempts)
    BY <1>4, MaxAttemptsAssumption DEF Claim, Claimable, Row
  <2> QED
    BY <1>4, <2>1 DEF Claim, Row
<1>5. ASSUME NEW w \in Workers, NEW result \in Writing, Handle(w, result) PROVE Kept
  BY <1>5 DEF Handle
<1>6. ASSUME NEW w \in Workers, Write(w) PROVE Kept
  <2>1. mine[w] \in Jobs /\ pc[w] \in Writing
    BY <1>6 DEF Write, BusyHasJob, Busy
  <2>2. /\ Written(job[mine[w]], pc[w]).status \in {"pending", "done", "failed"}
        /\ Written(job[mine[w]], pc[w]).status = "done" => pc[w] = "success"
        /\ Written(job[mine[w]], pc[w]).status = "pending" =>
               ~(Written(job[mine[w]], pc[w]).attempts >= MaxAttempts)
    BY <2>1, WrittenFacts
  <2> QED
    BY <1>6, <2>1, <2>2 DEF Write, Leave
<1>7. ASSUME NEW w \in Workers, WriteRaises(w) \/ Crash(w) PROVE Kept
  BY <1>7 DEF WriteRaises, Crash, Leave
<1>8. ASSUME Tick PROVE Kept
  <2>1. \A j \in Jobs : job'[j].status = job[j].status /\ job'[j].attempts = job[j].attempts
    BY <1>8 DEF Tick, Row
  <2> QED
    BY <1>8, <2>1 DEF Tick
<1>9. ASSUME UNCHANGED vars PROVE Kept
  BY <1>9 DEF vars
<1> QED
  BY <1>1, <1>2, <1>3, <1>4, <1>5, <1>6, <1>7, <1>8, <1>9 DEF Next, Round

\* A job whose lock never went stale is claimed from "pending", when nobody has
\* it, and stays locked until its worker writes the result.
LEMMA SoleHandlerKept ==
    ASSUME TypeOK, Inv, [Next]_vars, StaleWasStale', wasStale \subseteq wasStale'
    PROVE  SoleHandler' /\ BusyIsLocked'
<1> DEFINE Kept == SoleHandler' /\ BusyIsLocked'
<1> USE DEF TypeOK, SoleHandler, BusyIsLocked
<1>0. BusyHasJob /\ StaleWasStale
  BY DEF Inv
<1>i. SoleHandler /\ BusyIsLocked
  BY DEF Inv
<1>1. ASSUME NEW j \in Jobs, Enqueue(j) PROVE Kept
  BY <1>0, <1>i, <1>1 DEF Enqueue, BusyHasJob
<1>2. ASSUME NEW w \in Workers, ReadStale(w) \/ Idle(w) PROVE Kept
  BY <1>i, <1>2 DEF ReadStale, Idle, Busy, Writing
<1>3. ASSUME NEW w \in Workers, NEW j \in Jobs, ReleaseStale(w, j) PROVE Kept
  BY <1>0, <1>i, <1>3 DEF ReleaseStale, StaleWasStale
<1>4. ASSUME NEW w \in Workers, NEW j \in Jobs, Claim(w, j) PROVE Kept
  <2>1. \A v \in Workers : pc[v] \in Busy /\ mine[v] = j => j \in wasStale
    BY <1>i, <1>4 DEF Claim, Claimable
  <2>2. /\ job' = [job EXCEPT ![j].status = "processing", ![j].age = 0]
        /\ pc' = [pc EXCEPT ![w] = "handling"] /\ mine' = [mine EXCEPT ![w] = j]
        /\ wasStale' = wasStale
    BY <1>4 DEF Claim
  <2>3. BusyIsLocked'
    <3> SUFFICES ASSUME NEW v \in Workers, pc'[v] \in Busy, mine'[v] \notin wasStale
                 PROVE  job'[mine'[v]].status = "processing"
      BY <2>2
    <3>1. CASE v = w
      BY <2>2, <3>1 DEF Row
    <3>2. CASE v # w
      BY <1>0, <1>i, <2>1, <2>2, <3>2 DEF BusyHasJob
    <3> QED
      BY <3>1, <3>2
  <2>4. SoleHandler'
    BY <1>i, <2>1, <2>2
  <2> QED
    BY <2>3, <2>4
<1>5. ASSUME NEW w \in Workers, NEW result \in Writing, Handle(w, result) PROVE Kept
  BY <1>i, <1>5 DEF Handle, Busy, Writing
<1>6. ASSUME NEW w \in Workers, Write(w) PROVE Kept
  BY <1>0, <1>i, <1>6 DEF Write, Leave, Busy, Writing, BusyHasJob
<1>7. ASSUME NEW w \in Workers, WriteRaises(w) \/ Crash(w) PROVE Kept
  BY <1>i, <1>7 DEF WriteRaises, Crash, Leave, Busy, Writing
<1>8. ASSUME Tick PROVE Kept
  <2>1. \A j \in Jobs : job'[j].status = job[j].status
    BY <1>8 DEF Tick, Row
  <2> QED
    BY <1>0, <1>i, <1>8, <2>1 DEF Tick, BusyHasJob
<1>9. ASSUME UNCHANGED vars PROVE Kept
  BY <1>i, <1>9 DEF vars
<1> QED
  BY <1>1, <1>2, <1>3, <1>4, <1>5, <1>6, <1>7, <1>8, <1>9 DEF Next, Round

\* The conjuncts of the invariant, step by step.
LEMMA InvInductive == TypeOK /\ Inv /\ [Next]_vars => TypeOK' /\ Inv'
<1> SUFFICES ASSUME TypeOK, Inv, [Next]_vars PROVE TypeOK' /\ Inv'
  OBVIOUS
<1>1. /\ BusyHasJob /\ StaleWasStale /\ AgeOnRecord
      /\ ExhaustedIsSettled /\ DoneWasHandled /\ SuccessWasHandled
  BY DEF Inv
<1>2. TypeOK' /\ BusyHasJob'
  BY <1>1, TypeOKInductive, BusyHasJobKept
<1>3. StaleWasStale' /\ AgeOnRecord' /\ wasStale \subseteq wasStale'
  BY <1>1, StaleRecordKept
<1>4. ExhaustedIsSettled' /\ DoneWasHandled' /\ SuccessWasHandled'
  BY <1>1, SettledKept
<1>5. SoleHandler' /\ BusyIsLocked'
  BY <1>3, SoleHandlerKept
<1> QED
  BY <1>2, <1>3, <1>4, <1>5 DEF Inv

LEMMA Invariant == Spec => [](TypeOK /\ Inv)
BY InitInv, InvInductive, PTL DEF Spec

-----------------------------------------------------------------------------
(* Theorems                                                                *)

\* The rows of execution_queue and the workers' program points are well typed.
THEOREM QueueTypeCorrect == Spec => []TypeOK
BY Invariant, PTL

\* max_attempts: an exhausted job neither waits nor runs, however many workers
\* write late results of it.
THEOREM ExhaustedIsSettledAlways == Spec => []ExhaustedIsSettled
<1>1. Inv => ExhaustedIsSettled
  BY DEF Inv
<1> QED
  BY <1>1, Invariant, PTL

\* complete_job(success): a job is reported done only after its handler succeeded.
THEOREM DoneWasHandledAlways == Spec => []DoneWasHandled
<1>1. Inv => DoneWasHandled
  BY DEF Inv
<1> QED
  BY <1>1, Invariant, PTL

\* claim_job: two workers have the same job only after its lock went stale.
THEOREM SoleHandlerAlways == Spec => []SoleHandler
<1>1. Inv => SoleHandler
  BY DEF Inv
<1> QED
  BY <1>1, Invariant, PTL
=============================================================================
