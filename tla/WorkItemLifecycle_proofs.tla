---------------------- MODULE WorkItemLifecycle_proofs ----------------------
(***************************************************************************)
(* Proofs about the store of the Execution Runtime, for every set of items,*)
(* batch positions and retry plans and every bound.  The typing theorem    *)
(* comes first; then the inductive invariant Fencing, from which the safety*)
(* properties of WorkItemLifecycle follow.                                 *)
(***************************************************************************)
EXTENDS WorkItemLifecycle, TLAPS

-----------------------------------------------------------------------------
(* The operators the model is built from                                   *)

\* A token names its item: the last component of the lease token text.
LEMMA TokenFacts ==
    /\ \A s \in Slots, i \in Items : <<s, i>> \in Token /\ ItemOf(<<s, i>>) = i
    /\ \A t \in Token : ItemOf(t) \in Items
    /\ \A t \in Token : t # NoToken
BY NoTokenAssumption DEF Token, ItemOf

\* Leaving a lease, as every transition of the state machine out of it does,
\* keeps the attempt count and clears the lease.
LEMMA UnleasedFacts ==
    ASSUME NEW row \in Row, NEW status \in Status \ {"leased"},
           NEW plan \in RetryPlans \cup {NoPlan}
    PROVE  /\ Unleased(row, status, plan) \in Row
           /\ Unleased(row, status, plan).status = status
           /\ Unleased(row, status, plan).attempts = row.attempts
           /\ Unleased(row, status, plan).token = NoToken
           /\ Unleased(row, status, plan).expires = 0
BY DEF Unleased, Row

\* The row a lease writes: leased_by the token, one more attempt.
LEMMA LeasedRowFacts ==
    ASSUME NEW row \in Row, NEW t \in Token, NEW e \in Nat
    PROVE  /\ LeasedRow(row, t, e) \in Row
           /\ LeasedRow(row, t, e).status = "leased"
           /\ LeasedRow(row, t, e).attempts = row.attempts + 1
           /\ LeasedRow(row, t, e).token = t
           /\ LeasedRow(row, t, e).expires = e
BY DEF LeasedRow, LeaseReady, Row, Status

\* The blank row and the freshly scheduled row are rows.
LEMMA BlankRowFacts ==
    /\ Absent \in Row /\ Scheduled \in Row /\ NoAttempt \in AttemptRow
    /\ Absent.status = "absent" /\ Absent.attempts = 0
    /\ Absent.token = NoToken /\ Absent.expires = 0
    /\ Scheduled.status = "ready" /\ Scheduled.attempts = 0
    /\ Scheduled.token = NoToken /\ Scheduled.expires = 0
    /\ NoAttempt.number = 0 /\ NoAttempt.outcome = "none"
BY DEF Absent, Scheduled, Row, Status, NoAttempt, AttemptRow, Outcome

\* COALESCE in the recovery: the number stays, an open outcome is closed, any
\* other outcome is kept.
LEMMA ClosedByRecoveryFacts ==
    ASSUME NEW a \in AttemptRow
    PROVE  /\ ClosedByRecovery(a) \in AttemptRow
           /\ ClosedByRecovery(a).number = a.number
           /\ ClosedByRecovery(a).outcome =
                 IF a.outcome = "open" THEN "retryable_failed" ELSE a.outcome
BY DEF ClosedByRecovery, AttemptRow, Outcome

\* Recording an outcome touches one attempt row and keeps its number.
LEMMA RecordedFacts ==
    ASSUME TypeOK, NEW t \in Token, NEW o \in Outcome, Recorded(t, o)
    PROVE  /\ attempt' \in [Token -> AttemptRow]
           /\ attempt'[t].number = attempt[t].number
           /\ attempt'[t].outcome = o
           /\ \A u \in Token \ {t} : attempt'[u] = attempt[u]
BY DEF TypeOK, Recorded, AttemptRow

\* The rows the named transitions produce are all instances of Unleased.
LEMMA TransitionFacts ==
    ASSUME NEW row \in Row, NEW plan \in RetryPlans
    PROVE  /\ CompleteLeased(row) = Unleased(row, "completed", NoPlan)
           /\ FailLeasedRetryable(row, plan) = Unleased(row, "retryable_failed", plan)
           /\ FailLeasedTerminal(row) = Unleased(row, "terminal_failed", NoPlan)
           /\ ReturnToReady(row) = Unleased(row, "ready", NoPlan)
BY DEF CompleteLeased, FailLeasedRetryable, FailLeasedTerminal, ReturnToReady

-----------------------------------------------------------------------------
(* Typing                                                                  *)

\* Every repository operation writes rows of the right types.
LEMMA TypeOKInductive == TypeOK /\ [Next]_vars => TypeOK'
<1> SUFFICES ASSUME TypeOK, [Next]_vars PROVE TypeOK'
  OBVIOUS
<1>0. /\ now \in Nat /\ item \in [Items -> Row]
      /\ attempt \in [Token -> AttemptRow]
      /\ calls \in SUBSET Token /\ applied \in [Items -> SUBSET Token]
  BY DEF TypeOK
<1>1. ASSUME NEW i \in Items, Schedule(i) PROVE TypeOK'
  BY <1>0, <1>1, BlankRowFacts DEF Schedule, TypeOK
<1>2. ASSUME NEW i \in Items, NEW s \in Slots, NEW from \in 0..now, LeaseAndStart(i, s, from)
      PROVE TypeOK'
  <2>1. from \in Nat /\ from + LeaseTTL \in Nat
    BY <1>0, LeaseTTLAssumption
  <2>2. <<s, i>> \in Token
    BY TokenFacts
  <2>3. item' \in [Items -> Row]
    BY <1>0, <1>2, <2>1, <2>2, LeasedRowFacts DEF LeaseAndStart
  <2>4. [number |-> item[i].attempts + 1, outcome |-> "open", error |-> "none"] \in AttemptRow
    BY <1>0 DEF Row, AttemptRow, Outcome
  <2>5. attempt' \in [Token -> AttemptRow]
    BY <1>0, <1>2, <2>2, <2>4 DEF LeaseAndStart
  <2> QED
    BY <1>0, <1>2, <2>3, <2>5 DEF LeaseAndStart, TypeOK
<1>3. ASSUME NEW t \in Token, Execute(t) PROVE TypeOK'
  <2>0. ItemOf(t) \in Items
    BY TokenFacts
  <2>1. CASE BeginCall(t)
    BY <1>0, <2>1 DEF BeginCall, TypeOK
  <2>2. CASE RecordSuccess(t)
    BY <1>0, <2>2, RecordedFacts DEF RecordSuccess, EndCall, TypeOK, Outcome
  <2>3. CASE RecordAndApply(t)
    <3>1. item' \in [Items -> Row]
      BY <1>0, <2>0, <2>3, TransitionFacts, UnleasedFacts DEF RecordAndApply, Status, CompleteLeased
    <3> QED
      BY <1>0, <2>0, <2>3, <3>1, RecordedFacts DEF RecordAndApply, EndCall, TypeOK, Outcome
  <2>4. CASE \E plan \in RetryPlans : RecordRetryable(t, plan)
    <3>1. PICK plan \in RetryPlans : RecordRetryable(t, plan)
      BY <2>4
    <3>2. item' \in [Items -> Row]
      BY <1>0, <2>0, <3>1, UnleasedFacts DEF RecordRetryable, Status, FailLeasedRetryable
    <3> QED
      BY <1>0, <3>1, <3>2, RecordedFacts DEF RecordRetryable, EndCall, TypeOK, Outcome
  <2>5. CASE RecordTerminal(t)
    <3>1. item' \in [Items -> Row]
      BY <1>0, <2>0, <2>5, UnleasedFacts DEF RecordTerminal, Status, FailLeasedTerminal
    <3> QED
      BY <1>0, <2>5, <3>1, RecordedFacts DEF RecordTerminal, EndCall, TypeOK, Outcome
  <2>6. CASE AbandonCall(t)
    BY <1>0, <2>6 DEF AbandonCall, EndCall, TypeOK
  <2> QED
    BY <1>3, <2>1, <2>2, <2>3, <2>4, <2>5, <2>6 DEF Execute
<1>4. ASSUME NEW t \in Token, ApplyResult(t) PROVE TypeOK'
  <2>0. ItemOf(t) \in Items
    BY TokenFacts
  <2>1. item' \in [Items -> Row]
    BY <1>0, <1>4, <2>0, UnleasedFacts DEF ApplyResult, Status, CompleteLeased
  <2> QED
    BY <1>0, <1>4, <2>0, <2>1 DEF ApplyResult, TypeOK
<1>5. ASSUME NEW S \in SUBSET Items, ReclaimExpired(S) PROVE TypeOK'
  <2>1. item' \in [Items -> Row]
    BY <1>0, <1>5, UnleasedFacts DEF ReclaimExpired, Status, ReturnToReady
  <2>2. attempt' \in [Token -> AttemptRow]
    BY <1>0, <1>5, ClosedByRecoveryFacts DEF ReclaimExpired
  <2> QED
    BY <1>0, <1>5, <2>1, <2>2 DEF ReclaimExpired, TypeOK
<1>6. CASE Tick
  BY <1>0, <1>6 DEF Tick, TypeOK
<1>7. CASE UNCHANGED vars
  BY <1>0, <1>7 DEF vars, TypeOK
<1> QED
  BY <1>1, <1>2, <1>3, <1>4, <1>5, <1>6, <1>7 DEF Next

\* Every row of the three tables has its columns' types, whatever the clients do.
THEOREM TypeCorrect == Spec => []TypeOK
<1>1. Init => TypeOK
  BY BlankRowFacts DEF Init, TypeOK
<1> QED
  BY <1>1, TypeOKInductive, PTL DEF Spec
-----------------------------------------------------------------------------
(* Fencing                                                                 *)

\* A step that neither leases an item nor starts an attempt leaves the numbering
\* of the attempts as it was.
LEMMA NumberingKept ==
    ASSUME AttemptsNumbered, NumbersUnique, NumbersDense,
           \A t \in Token : /\ attempt'[t].number = attempt[t].number
                            /\ attempt'[t].outcome = "none" <=> attempt[t].outcome = "none",
           \A i \in Items : item'[i].attempts = item[i].attempts
    PROVE  AttemptsNumbered' /\ NumbersUnique' /\ NumbersDense'
<1>1. \A i \in Items : Rows(i)' = Rows(i)
  BY DEF Rows
<1>2. \A i \in Items : \A t \in Rows(i) : t \in Token
  BY DEF Rows
<1>3. AttemptsNumbered'
  BY TokenFacts DEF AttemptsNumbered
<1>4. NumbersUnique'
  BY <1>1, <1>2 DEF NumbersUnique
<1>5. NumbersDense'
  BY <1>1, <1>2 DEF NumbersDense
<1> QED
  BY <1>3, <1>4, <1>5

\* A lease taken with its attempt appends one number to the item's attempts.
LEMMA NumberingExtended ==
    ASSUME TypeOK, AttemptsNumbered, NumbersUnique, NumbersDense,
           NEW i \in Items, NEW s \in Slots, NEW from \in Nat, LeaseAndStart(i, s, from)
    PROVE  AttemptsNumbered' /\ NumbersUnique' /\ NumbersDense'
<1> DEFINE t == <<s, i>>
           n == item[i].attempts + 1
<1>1. t \in Token /\ ItemOf(t) = i
  BY TokenFacts
<1>2. item[i] \in Row /\ item[i].attempts \in Nat /\ from + LeaseTTL \in Nat
  BY LeaseTTLAssumption DEF TypeOK, Row
<1>3. /\ item'[i].attempts = n
      /\ \A j \in Items \ {i} : item'[j] = item[j]
  <2>1. LeasedRow(item[i], t, from + LeaseTTL).attempts = n
    BY <1>1, <1>2, LeasedRowFacts
  <2>2. item' = [item EXCEPT ![i] = LeasedRow(item[i], t, from + LeaseTTL)]
    BY DEF LeaseAndStart
  <2> QED
    BY <2>1, <2>2 DEF TypeOK
<1>4. /\ attempt'[t].number = n /\ attempt'[t].outcome = "open"
      /\ \A u \in Token \ {t} : attempt'[u] = attempt[u]
      /\ attempt[t].outcome = "none"
  BY <1>1 DEF LeaseAndStart, TypeOK, CanStart
<1>5. \A u \in Token : attempt[u].number \in Nat
  BY DEF TypeOK, AttemptRow
<1>6. \A j \in Items : item[j].attempts \in Nat
  BY DEF TypeOK, Row
<1>7. /\ Rows(i)' = Rows(i) \cup {t}
      /\ \A j \in Items \ {i} : Rows(j)' = Rows(j) /\ t \notin Rows(j)'
      /\ t \notin Rows(i)
  BY <1>1, <1>4 DEF Rows
<1>8. \A j \in Items : Rows(j) \subseteq Token
  BY DEF Rows
<1>9. AttemptsNumbered'
  <2> SUFFICES ASSUME NEW u \in Token, attempt'[u].outcome # "none"
               PROVE  attempt'[u].number \in 1..item'[ItemOf(u)].attempts
    BY DEF AttemptsNumbered
  <2>1. CASE u = t
    BY <2>1, <1>1, <1>2, <1>3, <1>4
  <2>2. CASE u # t
    <3>1. attempt'[u].number \in 1..item[ItemOf(u)].attempts
      BY <2>2, <1>4 DEF AttemptsNumbered
    <3>2. ItemOf(u) \in Items
      BY TokenFacts
    <3>3. ItemOf(u) = i \/ item'[ItemOf(u)].attempts = item[ItemOf(u)].attempts
      BY <3>2, <1>3
    <3> QED
      BY <3>1, <3>2, <3>3, <1>2, <1>3, <1>6
  <2> QED
    BY <2>1, <2>2
<1>10. \A u \in Rows(i) : attempt[u].number \in 1..item[i].attempts
  BY DEF AttemptsNumbered, Rows
<1>11. NumbersUnique'
  <2> SUFFICES ASSUME NEW j \in Items, NEW u \in Rows(j)', NEW v \in Rows(j)',
                      attempt'[u].number = attempt'[v].number
               PROVE  u = v
    BY DEF NumbersUnique
  <2>1. CASE j = i
    <3>1. \A w \in Rows(i) : attempt'[w].number # n
      BY <1>2, <1>4, <1>7, <1>8, <1>10
    <3> QED
      BY <2>1, <3>1, <1>4, <1>7, <1>8 DEF NumbersUnique
  <2>2. CASE j # i
    BY <2>2, <1>4, <1>7, <1>8 DEF NumbersUnique
  <2> QED
    BY <2>1, <2>2
<1>12. NumbersDense'
  <2> SUFFICES ASSUME NEW j \in Items, NEW k \in 1..item'[j].attempts
               PROVE  \E u \in Rows(j)' : attempt'[u].number = k
    BY DEF NumbersDense
  <2>1. CASE j = i /\ k = n
    BY <2>1, <1>4, <1>7
  <2>2. CASE j = i /\ k # n
    <3>1. k \in 1..item[i].attempts
      BY <2>2, <1>2, <1>3
    <3>2. PICK u \in Rows(i) : attempt[u].number = k
      BY <3>1 DEF NumbersDense
    <3> QED
      BY <2>2, <3>2, <1>4, <1>7, <1>8
  <2>3. CASE j # i
    <3>1. PICK u \in Rows(j) : attempt[u].number = k
      BY <2>3, <1>3 DEF NumbersDense
    <3> QED
      BY <2>3, <3>1, <1>4, <1>7, <1>8
  <2> QED
    BY <2>1, <2>2, <2>3
<1> QED
  BY <1>9, <1>11, <1>12

\* The attempt that holds a lease ends it: its outcome is recorded, its item
\* leaves the lease and, when it completes, its result is persisted.  Recording
\* an outcome and applying a recorded result are both of this form.
LEMMA LeaseEndedByItsAttempt ==
    ASSUME TypeOK, TypeOK', Fencing,
           NEW t \in Token, HoldsLease(t),
           NEW status \in {"completed", "retryable_failed", "terminal_failed"},
           NEW plan \in RetryPlans \cup {NoPlan},
           item' = [item EXCEPT ![ItemOf(t)] = Unleased(item[ItemOf(t)], status, plan)],
           attempt'[t].number = attempt[t].number,
           attempt'[t].outcome = IF status = "completed" THEN "succeeded" ELSE status,
           \A u \in Token \ {t} : attempt'[u] = attempt[u],
           applied' = IF status = "completed"
                      THEN [applied EXCEPT ![ItemOf(t)] = applied[ItemOf(t)] \cup {t}]
                      ELSE applied,
           calls' = calls \ {t}
    PROVE  Fencing'
<1> DEFINE i == ItemOf(t)
<1>1. i \in Items
  BY TokenFacts
<1>2. /\ item'[i].status = status /\ item'[i].attempts = item[i].attempts
      /\ item'[i].token = NoToken /\ item'[i].expires = 0
  <2>1. item[i] \in Row /\ status \in Status \ {"leased"}
    BY <1>1 DEF TypeOK, Status
  <2>2. item'[i] = Unleased(item[i], status, plan)
    BY <1>1 DEF TypeOK
  <2> QED
    BY <2>1, <2>2, UnleasedFacts
<1>3. \A j \in Items \ {i} : item'[j] = item[j]
  BY <1>1 DEF TypeOK
<1>4. item[i].status = "leased" /\ item[i].token = t /\ item[i].attempts = attempt[t].number
  BY DEF HoldsLease
<1>5. attempt[t].outcome # "none" /\ attempt'[t].outcome \notin {"none", "open"}
  BY <1>1, <1>4 DEF Fencing, LeaseHasAttempt
<1>6. AttemptsNumbered' /\ NumbersUnique' /\ NumbersDense'
  <2>1. \A u \in Token : /\ attempt'[u].number = attempt[u].number
                         /\ attempt'[u].outcome = "none" <=> attempt[u].outcome = "none"
    BY <1>5
  <2>2. \A j \in Items : item'[j].attempts = item[j].attempts
    BY <1>2, <1>3
  <2> QED
    BY <2>1, <2>2, NumberingKept DEF Fencing
<1>7. LeaseShapes'
  BY <1>2, <1>3 DEF Fencing, LeaseShapes, LeaseShape
<1>8. UnscheduledIsBlank'
  BY <1>2, <1>3 DEF Fencing, UnscheduledIsBlank
<1>9. LeaseHasAttempt'
  <2> SUFFICES ASSUME NEW j \in Items, item'[j].status = "leased"
               PROVE  LET u == item'[j].token IN
                      /\ u \in Rows(j)'
                      /\ attempt'[u].number = item'[j].attempts
                      /\ attempt'[u].outcome \in {"open", "succeeded"}
    BY DEF LeaseHasAttempt
  <2>1. j # i /\ item'[j] = item[j]
    BY <1>2, <1>3
  <2>2. item[j].token \in Rows(j)
    BY <2>1 DEF Fencing, LeaseHasAttempt
  <2>3. item[j].token \in Token \ {t}
    BY <2>1, <2>2 DEF Rows
  <2> QED
    BY <2>1, <2>2, <2>3 DEF Fencing, LeaseHasAttempt, Rows
<1>10. OpenAttemptHoldsLease'
  <2> SUFFICES ASSUME NEW u \in Token, attempt'[u].outcome = "open"
               PROVE  HoldsLease(u)'
    BY DEF OpenAttemptHoldsLease
  <2>1. u # t /\ attempt'[u] = attempt[u] /\ HoldsLease(u)
    BY <1>5 DEF Fencing, OpenAttemptHoldsLease
  <2>2. ItemOf(u) \in Items \ {i}
    BY <2>1, <1>4, TokenFacts DEF HoldsLease
  <2> QED
    BY <2>1, <2>2, <1>3 DEF HoldsLease
<1>11. AppliedOnceByLastAttempt'
  <2> SUFFICES ASSUME NEW j \in Items
               PROVE  /\ item'[j].status = "completed" <=> applied'[j] # {}
                      /\ \A u \in applied'[j] :
                             /\ applied'[j] = {u} /\ ItemOf(u) = j
                             /\ attempt'[u].outcome = "succeeded"
                             /\ attempt'[u].number = item'[j].attempts
    BY DEF AppliedOnceByLastAttempt
  <2>1. CASE j = i
    <3>1. applied[i] = {}
      BY <1>1, <1>4 DEF Fencing, AppliedOnceByLastAttempt
    <3>2. CASE status = "completed"
      <4>1. applied'[i] = {t}
        BY <3>1, <3>2, <1>1 DEF TypeOK
      <4> QED
        BY <2>1, <3>2, <4>1, <1>2, <1>4
    <3>3. CASE status # "completed"
      BY <2>1, <3>1, <3>3, <1>2
    <3> QED
      BY <3>2, <3>3
  <2>2. CASE j # i
    <3>1. applied'[j] = applied[j] /\ item'[j] = item[j]
      BY <2>2, <1>1, <1>3 DEF TypeOK
    <3>2. \A u \in applied[j] : u \in Token \ {t}
      BY <2>2 DEF TypeOK, Fencing, AppliedOnceByLastAttempt
    <3> QED
      BY <3>1, <3>2 DEF Fencing, AppliedOnceByLastAttempt
  <2> QED
    BY <2>1, <2>2
<1>12. CallIsForOpenAttempt'
  <2> SUFFICES ASSUME NEW u \in calls'
               PROVE  attempt'[u].outcome # "none"
                      /\ (HoldsLease(u)' => attempt'[u].outcome = "open")
    BY DEF CallIsForOpenAttempt
  <2>1. u \in calls /\ u \in Token \ {t} /\ attempt'[u] = attempt[u]
    BY DEF TypeOK
  <2>2. HoldsLease(u)' => HoldsLease(u)
    <3>1. CASE ItemOf(u) = i
      BY <3>1, <1>2 DEF HoldsLease
    <3>2. CASE ItemOf(u) # i
      BY <2>1, <3>2, <1>3, TokenFacts DEF HoldsLease
    <3> QED
      BY <3>1, <3>2
  <2> QED
    BY <2>1, <2>2 DEF Fencing, CallIsForOpenAttempt
<1> QED
  BY <1>6, <1>7, <1>8, <1>9, <1>10, <1>11, <1>12 DEF Fencing

\* Taking a lease together with its attempt: the token is new, so no open call
\* or recorded outcome of an earlier lease can pass for this one.
LEMMA LeaseAndStartFenced ==
    ASSUME TypeOK, Fencing, NEW i \in Items, NEW s \in Slots, NEW from \in Nat,
           LeaseAndStart(i, s, from)
    PROVE  Fencing'
<1> DEFINE t == <<s, i>>
<1>1. t \in Token /\ ItemOf(t) = i /\ t # NoToken
  BY TokenFacts
<1>2. item[i] \in Row /\ item[i].attempts \in Nat /\ from + LeaseTTL \in Nat /\ from + LeaseTTL > 0
  BY LeaseTTLAssumption DEF TypeOK, Row
<1>3. /\ item'[i].status = "leased" /\ item'[i].attempts = item[i].attempts + 1
      /\ item'[i].token = t /\ item'[i].expires = from + LeaseTTL
  <2>1. item'[i] = LeasedRow(item[i], t, from + LeaseTTL)
    BY DEF LeaseAndStart, TypeOK
  <2>2. /\ LeasedRow(item[i], t, from + LeaseTTL).status = "leased"
        /\ LeasedRow(item[i], t, from + LeaseTTL).attempts = item[i].attempts + 1
        /\ LeasedRow(item[i], t, from + LeaseTTL).token = t
        /\ LeasedRow(item[i], t, from + LeaseTTL).expires = from + LeaseTTL
    <3>1. item[i] \in Row /\ t \in Token /\ from + LeaseTTL \in Nat
      BY <1>1, <1>2
    <3> HIDE DEF t
    <3> QED
      BY <3>1, LeasedRowFacts
  <2> QED
    BY <2>1, <2>2
<1>4. \A j \in Items \ {i} : item'[j] = item[j]
  BY DEF LeaseAndStart, TypeOK
<1>5. /\ attempt'[t].number = item[i].attempts + 1 /\ attempt'[t].outcome = "open"
      /\ \A u \in Token \ {t} : attempt'[u] = attempt[u]
      /\ attempt[t].outcome = "none"
      /\ calls' = calls /\ applied' = applied
  BY <1>1 DEF LeaseAndStart, TypeOK, CanStart
<1>6. item[i].status \in Due
  BY DEF LeaseAndStart
<1>7. \A u \in Token : attempt[u].outcome = "open" => ItemOf(u) # i
  BY <1>6 DEF Fencing, OpenAttemptHoldsLease, HoldsLease, Due
<1>8. AttemptsNumbered' /\ NumbersUnique' /\ NumbersDense'
  BY NumberingExtended DEF Fencing
<1>9. LeaseShapes' /\ UnscheduledIsBlank'
  BY <1>1, <1>2, <1>3, <1>4 DEF Fencing, LeaseShapes, LeaseShape, UnscheduledIsBlank
<1>10. LeaseHasAttempt'
  <2> SUFFICES ASSUME NEW j \in Items, item'[j].status = "leased"
               PROVE  LET u == item'[j].token IN
                      /\ u \in Rows(j)'
                      /\ attempt'[u].number = item'[j].attempts
                      /\ attempt'[u].outcome \in {"open", "succeeded"}
    BY DEF LeaseHasAttempt
  <2>1. CASE j = i
    BY <2>1, <1>1, <1>3, <1>5 DEF Rows
  <2>2. CASE j # i
    <3>1. item'[j] = item[j] /\ item[j].token \in Rows(j)
      BY <2>2, <1>4 DEF Fencing, LeaseHasAttempt
    <3>2. item[j].token \in Token \ {t}
      BY <2>2, <3>1, <1>1 DEF Rows
    <3> QED
      BY <2>2, <3>1, <3>2, <1>5 DEF Fencing, LeaseHasAttempt, Rows
  <2> QED
    BY <2>1, <2>2
<1>11. OpenAttemptHoldsLease'
  <2> SUFFICES ASSUME NEW u \in Token, attempt'[u].outcome = "open"
               PROVE  HoldsLease(u)'
    BY DEF OpenAttemptHoldsLease
  <2>1. CASE u = t
    BY <2>1, <1>1, <1>3, <1>5 DEF HoldsLease
  <2>2. CASE u # t
    <3>1. attempt'[u] = attempt[u] /\ ItemOf(u) \in Items \ {i}
      BY <2>2, <1>5, <1>7, TokenFacts
    <3> QED
      BY <3>1, <1>4 DEF Fencing, OpenAttemptHoldsLease, HoldsLease
  <2> QED
    BY <2>1, <2>2
<1>12. AppliedOnceByLastAttempt'
  <2>1. applied[i] = {}
    BY <1>6 DEF Fencing, AppliedOnceByLastAttempt, Due
  <2>2. \A j \in Items : \A u \in applied[j] : u \in Token
    BY DEF TypeOK
  <2>3. \A j \in Items \ {i} : \A u \in applied[j] : u # t
    BY <1>1 DEF Fencing, AppliedOnceByLastAttempt
  <2> QED
    BY <2>1, <2>2, <2>3, <1>3, <1>4, <1>5 DEF Fencing, AppliedOnceByLastAttempt
<1>13. CallIsForOpenAttempt'
  <2> SUFFICES ASSUME NEW u \in calls
               PROVE  attempt'[u].outcome # "none"
                      /\ (HoldsLease(u)' => attempt'[u].outcome = "open")
    BY <1>5 DEF CallIsForOpenAttempt
  <2>1. u \in Token \ {t} /\ attempt'[u] = attempt[u] /\ attempt[u].outcome # "none"
    BY <1>5 DEF TypeOK, Fencing, CallIsForOpenAttempt
  <2>2. HoldsLease(u)' => HoldsLease(u)
    <3>1. CASE ItemOf(u) = i
      BY <2>1, <3>1, <1>3 DEF HoldsLease
    <3>2. CASE ItemOf(u) # i
      BY <2>1, <3>2, <1>4, TokenFacts DEF HoldsLease
    <3> QED
      BY <3>1, <3>2
  <2> QED
    BY <2>1, <2>2 DEF Fencing, CallIsForOpenAttempt
<1> QED
  BY <1>8, <1>9, <1>10, <1>11, <1>12, <1>13 DEF Fencing

\* The recovery: every attempt it leaves behind is closed, because an open
\* attempt has the number the recovery looks for.
LEMMA ReclaimFenced ==
    ASSUME TypeOK, TypeOK', Fencing, NEW S \in SUBSET Items, ReclaimExpired(S)
    PROVE  Fencing'
<1>1. /\ \A j \in S : /\ item[j].status = "leased"
                      /\ item'[j].status = "ready" /\ item'[j].attempts = item[j].attempts
                      /\ item'[j].token = NoToken /\ item'[j].expires = 0
      /\ \A j \in Items \ S : item'[j] = item[j]
  <2>1. \A j \in S : item'[j] = ReturnToReady(item[j]) /\ item[j].status = "leased"
    BY DEF ReclaimExpired, LeaseExpired
  <2>2. \A j \in S : item[j] \in Row
    BY DEF TypeOK
  <2>3. ASSUME NEW j \in S
        PROVE  /\ item'[j].status = "ready" /\ item'[j].attempts = item[j].attempts
               /\ item'[j].token = NoToken /\ item'[j].expires = 0
    <3>1. item'[j] = Unleased(item[j], "ready", NoPlan) /\ item[j] \in Row
      BY <2>1, <2>2, <2>3 DEF ReturnToReady
    <3>2. "ready" \in Status /\ NoPlan \in RetryPlans \cup {NoPlan}
      BY DEF Status
    <3> QED
      BY <3>1, <3>2, UnleasedFacts
  <2>4. \A j \in Items \ S : item'[j] = item[j]
    BY DEF ReclaimExpired
  <2> QED
    BY <2>1, <2>3, <2>4
<1>2. \A u \in Token : /\ attempt'[u].number = attempt[u].number
                       /\ attempt'[u].outcome \in {attempt[u].outcome, "retryable_failed"}
                       /\ attempt[u].outcome # "open" => attempt'[u].outcome = attempt[u].outcome
                       /\ ItemOf(u) \notin S => attempt'[u] = attempt[u]
                       /\ ItemOf(u) \in S => attempt'[u].outcome # "open"
  <2> SUFFICES ASSUME NEW u \in Token
               PROVE  /\ attempt'[u].number = attempt[u].number
                      /\ attempt'[u].outcome \in {attempt[u].outcome, "retryable_failed"}
                      /\ attempt[u].outcome # "open" => attempt'[u].outcome = attempt[u].outcome
                      /\ ItemOf(u) \notin S => attempt'[u] = attempt[u]
                      /\ ItemOf(u) \in S => attempt'[u].outcome # "open"
    OBVIOUS
  <2>1. attempt[u] \in AttemptRow
    BY DEF TypeOK
  <2>2. CASE /\ ItemOf(u) \in S
             /\ attempt[u].outcome # "none"
             /\ attempt[u].number = item[ItemOf(u)].attempts
    <3>1. attempt'[u] = ClosedByRecovery(attempt[u])
      BY <2>2 DEF ReclaimExpired
    <3> QED
      BY <2>1, <2>2, <3>1, ClosedByRecoveryFacts
  <2>3. CASE ~ /\ ItemOf(u) \in S
               /\ attempt[u].outcome # "none"
               /\ attempt[u].number = item[ItemOf(u)].attempts
    <3>1. attempt'[u] = attempt[u]
      BY <2>3 DEF ReclaimExpired
    <3>2. ItemOf(u) \in S => attempt[u].outcome # "open"
      BY <2>3 DEF Fencing, OpenAttemptHoldsLease, HoldsLease
    <3> QED
      BY <3>1, <3>2
  <2> QED
    BY <2>2, <2>3
<1>3. calls' = calls /\ applied' = applied
  BY DEF ReclaimExpired
<1>4. AttemptsNumbered' /\ NumbersUnique' /\ NumbersDense'
  <2>1. \A u \in Token : attempt'[u].outcome = "none" <=> attempt[u].outcome = "none"
    BY <1>2
  <2>2. \A j \in Items : item'[j].attempts = item[j].attempts
    BY <1>1
  <2> QED
    BY <1>2, <2>1, <2>2, NumberingKept DEF Fencing
<1>5. LeaseShapes' /\ UnscheduledIsBlank'
  BY <1>1 DEF Fencing, LeaseShapes, LeaseShape, UnscheduledIsBlank
<1>6. LeaseHasAttempt'
  <2> SUFFICES ASSUME NEW j \in Items, item'[j].status = "leased"
               PROVE  LET u == item'[j].token IN
                      /\ u \in Rows(j)'
                      /\ attempt'[u].number = item'[j].attempts
                      /\ attempt'[u].outcome \in {"open", "succeeded"}
    BY DEF LeaseHasAttempt
  <2>1. j \notin S /\ item'[j] = item[j]
    BY <1>1
  <2>2. item[j].token \in Rows(j)
    BY <2>1 DEF Fencing, LeaseHasAttempt
  <2>3. attempt'[item[j].token] = attempt[item[j].token]
    BY <2>1, <2>2, <1>2 DEF Rows
  <2> QED
    BY <2>1, <2>2, <2>3 DEF Fencing, LeaseHasAttempt, Rows
<1>7. OpenAttemptHoldsLease'
  <2> SUFFICES ASSUME NEW u \in Token, attempt'[u].outcome = "open"
               PROVE  HoldsLease(u)'
    BY DEF OpenAttemptHoldsLease
  <2>1. ItemOf(u) \in Items \ S /\ attempt'[u] = attempt[u]
    BY <1>2, TokenFacts
  <2> QED
    BY <2>1, <1>1 DEF Fencing, OpenAttemptHoldsLease, HoldsLease
<1>8. AppliedOnceByLastAttempt'
  <2> SUFFICES ASSUME NEW j \in Items
               PROVE  /\ item'[j].status = "completed" <=> applied[j] # {}
                      /\ \A u \in applied[j] :
                             /\ applied[j] = {u} /\ ItemOf(u) = j
                             /\ attempt'[u].outcome = "succeeded"
                             /\ attempt'[u].number = item'[j].attempts
    BY <1>3 DEF AppliedOnceByLastAttempt
  <2>1. CASE j \in S
    <3>1. applied[j] = {}
      BY <2>1, <1>1 DEF Fencing, AppliedOnceByLastAttempt
    <3> QED
      BY <2>1, <3>1, <1>1
  <2>2. CASE j \notin S
    <3>1. \A u \in applied[j] : u \in Token /\ attempt'[u] = attempt[u]
      BY <2>2, <1>2 DEF TypeOK, Fencing, AppliedOnceByLastAttempt
    <3> QED
      BY <2>2, <3>1, <1>1 DEF Fencing, AppliedOnceByLastAttempt
  <2> QED
    BY <2>1, <2>2
<1>9. CallIsForOpenAttempt'
  <2> SUFFICES ASSUME NEW u \in calls
               PROVE  attempt'[u].outcome # "none"
                      /\ (HoldsLease(u)' => attempt'[u].outcome = "open")
    BY <1>3 DEF CallIsForOpenAttempt
  <2>1. u \in Token /\ attempt'[u].outcome # "none"
    BY <1>2 DEF TypeOK, Fencing, CallIsForOpenAttempt
  <2>2. HoldsLease(u)' => ItemOf(u) \in Items \ S /\ HoldsLease(u)
    BY <2>1, <1>1, <1>2, TokenFacts DEF HoldsLease
  <2> QED
    BY <2>1, <2>2, <1>2 DEF Fencing, CallIsForOpenAttempt
<1> QED
  BY <1>4, <1>5, <1>6, <1>7, <1>8, <1>9 DEF Fencing

\* Fencing survives every repository operation.
LEMMA FencingInductive == TypeOK /\ TypeOK' /\ Fencing /\ [Next]_vars => Fencing'
<1> SUFFICES ASSUME TypeOK, TypeOK', Fencing, [Next]_vars PROVE Fencing'
  OBVIOUS
<1>1. ASSUME NEW i \in Items, Schedule(i) PROVE Fencing'
  <2>1. /\ item[i].status = "absent" /\ item[i].attempts = 0
        /\ item'[i].status = "ready" /\ item'[i].attempts = 0
        /\ item'[i].token = NoToken /\ item'[i].expires = 0
        /\ \A j \in Items \ {i} : item'[j] = item[j]
        /\ attempt' = attempt /\ calls' = calls /\ applied' = applied
    BY <1>1, BlankRowFacts DEF Schedule, TypeOK, Fencing, UnscheduledIsBlank
  <2>2. AttemptsNumbered' /\ NumbersUnique' /\ NumbersDense'
    <3>1. \A j \in Items : item'[j].attempts = item[j].attempts
      BY <2>1
    <3> QED
      BY <2>1, <3>1, NumberingKept DEF Fencing
  <2>3. LeaseShapes' /\ UnscheduledIsBlank'
    BY <2>1 DEF Fencing, LeaseShapes, LeaseShape, UnscheduledIsBlank
  <2>4. \A j \in Items : item'[j].status = "leased" => item'[j] = item[j]
    BY <2>1
  <2>5. LeaseHasAttempt'
    BY <2>1, <2>4 DEF Fencing, LeaseHasAttempt, Rows
  <2>6. OpenAttemptHoldsLease'
    <3>1. \A u \in Token : HoldsLease(u) => HoldsLease(u)'
      BY <2>1, TokenFacts DEF HoldsLease
    <3> QED
      BY <2>1, <3>1 DEF Fencing, OpenAttemptHoldsLease
  <2>7. AppliedOnceByLastAttempt'
    BY <2>1 DEF Fencing, AppliedOnceByLastAttempt
  <2>8. CallIsForOpenAttempt'
    <3>1. \A u \in Token : HoldsLease(u)' => HoldsLease(u)
      BY <2>1, TokenFacts DEF HoldsLease
    <3> QED
      BY <2>1, <3>1 DEF TypeOK, Fencing, CallIsForOpenAttempt
  <2> QED
    BY <2>2, <2>3, <2>5, <2>6, <2>7, <2>8 DEF Fencing
<1>2. ASSUME NEW i \in Items, NEW s \in Slots, NEW from \in 0..now, LeaseAndStart(i, s, from)
      PROVE Fencing'
  <2>1. from \in Nat
    BY DEF TypeOK
  <2> QED
    BY <1>2, <2>1, LeaseAndStartFenced
<1>3. ASSUME NEW t \in Token, Execute(t) PROVE Fencing'
  <2>0. ItemOf(t) \in Items /\ t \in Token
    BY TokenFacts
  <2>1. CASE BeginCall(t) \/ AbandonCall(t)
    <3>1. /\ item' = item /\ attempt' = attempt /\ applied' = applied
          /\ \A u \in calls' : u \in calls \/ attempt[u].outcome = "open"
      BY <2>1 DEF BeginCall, AbandonCall, EndCall
    <3>2. \A u \in Token : HoldsLease(u)' <=> HoldsLease(u)
      BY <3>1 DEF HoldsLease
    <3>3. \A i \in Items : item'[i].attempts = item[i].attempts
      BY <3>1
    <3>4. AttemptsNumbered' /\ NumbersUnique' /\ NumbersDense'
      BY <3>1, <3>3, NumberingKept DEF Fencing
    <3>5. LeaseShapes' /\ UnscheduledIsBlank' /\ LeaseHasAttempt' /\ AppliedOnceByLastAttempt'
      BY <3>1 DEF Fencing, LeaseShapes, UnscheduledIsBlank, LeaseHasAttempt, Rows,
                  AppliedOnceByLastAttempt
    <3>6. OpenAttemptHoldsLease'
      BY <3>1, <3>2 DEF Fencing, OpenAttemptHoldsLease
    <3>7. CallIsForOpenAttempt'
      BY <3>1, <3>2 DEF TypeOK, Fencing, CallIsForOpenAttempt
    <3> QED
      BY <3>4, <3>5, <3>6, <3>7 DEF Fencing
  <2>2. CASE RecordSuccess(t)
    <3>1. /\ item' = item /\ applied' = applied /\ calls' = calls \ {t}
          /\ HoldsLease(t) /\ t \in calls
      BY <2>2 DEF RecordSuccess, EndCall
    <3>2. /\ attempt'[t].number = attempt[t].number /\ attempt'[t].outcome = "succeeded"
          /\ \A u \in Token \ {t} : attempt'[u] = attempt[u]
      BY <2>2, RecordedFacts DEF RecordSuccess, Outcome
    <3>3. attempt[t].outcome = "open"
      BY <3>1 DEF Fencing, CallIsForOpenAttempt
    <3>4. \A u \in Token : HoldsLease(u)' <=> HoldsLease(u)
      BY <3>1, <3>2 DEF HoldsLease
    <3>5. \A u \in Token : /\ attempt'[u].number = attempt[u].number
                           /\ attempt'[u].outcome = "none" <=> attempt[u].outcome = "none"
      BY <3>2, <3>3
    <3>6. \A i \in Items : item'[i].attempts = item[i].attempts
      BY <3>1
    <3>7. AttemptsNumbered' /\ NumbersUnique' /\ NumbersDense'
      BY <3>5, <3>6, NumberingKept DEF Fencing
    <3>8. LeaseShapes' /\ UnscheduledIsBlank'
      BY <3>1 DEF Fencing, LeaseShapes, UnscheduledIsBlank
    <3>9. LeaseHasAttempt'
      <4> SUFFICES ASSUME NEW i \in Items, item[i].status = "leased"
                   PROVE  LET u == item[i].token IN
                          /\ u \in Rows(i)'
                          /\ attempt'[u].number = item[i].attempts
                          /\ attempt'[u].outcome \in {"open", "succeeded"}
        BY <3>1 DEF LeaseHasAttempt
      <4>1. item[i].token \in Rows(i) /\ item[i].token \in Token
        BY DEF Fencing, LeaseHasAttempt, Rows
      <4>2. item[i].token = t \/ attempt'[item[i].token] = attempt[item[i].token]
        BY <4>1, <3>2
      <4> QED
        BY <4>1, <4>2, <3>2, <3>5 DEF Fencing, LeaseHasAttempt, Rows
    <3>10. OpenAttemptHoldsLease'
      BY <3>2, <3>4 DEF Fencing, OpenAttemptHoldsLease
    <3>11. AppliedOnceByLastAttempt'
      <4>1. \A i \in Items : \A u \in applied[i] : u \in Token \ {t}
        BY <3>3 DEF TypeOK, Fencing, AppliedOnceByLastAttempt
      <4> QED
        BY <4>1, <3>1, <3>2 DEF Fencing, AppliedOnceByLastAttempt
    <3>12. CallIsForOpenAttempt'
      BY <3>1, <3>2, <3>4 DEF TypeOK, Fencing, CallIsForOpenAttempt
    <3> QED
      BY <3>7, <3>8, <3>9, <3>10, <3>11, <3>12 DEF Fencing
  <2>3. CASE RecordAndApply(t)
    <3>1. /\ item' = [item EXCEPT ![ItemOf(t)] = Unleased(item[ItemOf(t)], "completed", NoPlan)]
          /\ applied' = [applied EXCEPT ![ItemOf(t)] = applied[ItemOf(t)] \cup {t}]
          /\ calls' = calls \ {t} /\ HoldsLease(t)
      BY <2>3 DEF RecordAndApply, EndCall, CompleteLeased
    <3>2. /\ attempt'[t].number = attempt[t].number /\ attempt'[t].outcome = "succeeded"
          /\ \A u \in Token \ {t} : attempt'[u] = attempt[u]
      BY <2>3, RecordedFacts DEF RecordAndApply, Outcome
    <3> QED
      BY <3>1, <3>2, LeaseEndedByItsAttempt
  <2>4. CASE \E plan \in RetryPlans : RecordRetryable(t, plan)
    <3>0. PICK plan \in RetryPlans : RecordRetryable(t, plan)
      BY <2>4
    <3>1. /\ item' = [item EXCEPT ![ItemOf(t)] =
                                Unleased(item[ItemOf(t)], "retryable_failed", plan)]
          /\ applied' = applied /\ calls' = calls \ {t} /\ HoldsLease(t)
      BY <3>0 DEF RecordRetryable, EndCall, FailLeasedRetryable
    <3>2. /\ attempt'[t].number = attempt[t].number /\ attempt'[t].outcome = "retryable_failed"
          /\ \A u \in Token \ {t} : attempt'[u] = attempt[u]
      BY <3>0, RecordedFacts DEF RecordRetryable, Outcome
    <3> QED
      BY <3>1, <3>2, LeaseEndedByItsAttempt
  <2>5. CASE RecordTerminal(t)
    <3>1. /\ item' = [item EXCEPT ![ItemOf(t)] =
                                Unleased(item[ItemOf(t)], "terminal_failed", NoPlan)]
          /\ applied' = applied /\ calls' = calls \ {t} /\ HoldsLease(t)
      BY <2>5 DEF RecordTerminal, EndCall, FailLeasedTerminal
    <3>2. /\ attempt'[t].number = attempt[t].number /\ attempt'[t].outcome = "terminal_failed"
          /\ \A u \in Token \ {t} : attempt'[u] = attempt[u]
      BY <2>5, RecordedFacts DEF RecordTerminal, Outcome
    <3> QED
      BY <3>1, <3>2, LeaseEndedByItsAttempt
  <2> QED
    BY <1>3, <2>1, <2>2, <2>3, <2>4, <2>5 DEF Execute
<1>4. ASSUME NEW t \in Token, ApplyResult(t) PROVE Fencing'
  <2>1. ItemOf(t) \in Items
    BY TokenFacts
  <2>2. /\ item' = [item EXCEPT ![ItemOf(t)] = Unleased(item[ItemOf(t)], "completed", NoPlan)]
        /\ applied' = [applied EXCEPT ![ItemOf(t)] = applied[ItemOf(t)] \cup {t}]
        /\ calls' = calls /\ attempt' = attempt /\ attempt[t].outcome = "succeeded"
        /\ item[ItemOf(t)].status = "leased" /\ item[ItemOf(t)].token = t
    BY <1>4 DEF ApplyResult, CompleteLeased
  <2>3. HoldsLease(t)
    BY <2>1, <2>2 DEF Fencing, LeaseHasAttempt, HoldsLease
  <2>4. calls' = calls \ {t}
    BY <2>2, <2>3 DEF Fencing, CallIsForOpenAttempt
  <2> QED
    BY <2>2, <2>3, <2>4, LeaseEndedByItsAttempt
<1>5. ASSUME NEW S \in SUBSET Items, ReclaimExpired(S) PROVE Fencing'
  BY <1>5, ReclaimFenced
<1>6. CASE Tick \/ UNCHANGED vars
  <2>1. /\ item' = item /\ attempt' = attempt /\ calls' = calls /\ applied' = applied
    BY <1>6 DEF Tick, vars
  <2>2. \A u \in Token : HoldsLease(u)' <=> HoldsLease(u)
    BY <2>1 DEF HoldsLease
  <2>3. \A i \in Items : item'[i].attempts = item[i].attempts
    BY <2>1
  <2>4. AttemptsNumbered' /\ NumbersUnique' /\ NumbersDense'
    BY <2>1, <2>3, NumberingKept DEF Fencing
  <2>5. LeaseShapes' /\ UnscheduledIsBlank' /\ LeaseHasAttempt' /\ AppliedOnceByLastAttempt'
    BY <2>1 DEF Fencing, LeaseShapes, UnscheduledIsBlank, LeaseHasAttempt, Rows,
                AppliedOnceByLastAttempt
  <2>6. OpenAttemptHoldsLease' /\ CallIsForOpenAttempt'
    BY <2>1, <2>2 DEF TypeOK, Fencing, OpenAttemptHoldsLease, CallIsForOpenAttempt
  <2> QED
    BY <2>4, <2>5, <2>6 DEF Fencing
<1> QED
  BY <1>1, <1>2, <1>3, <1>4, <1>5, <1>6 DEF Next

\* The leases fence the attempts: whatever workers, recoveries and applies do,
\* an open attempt is the one its item is leased for.
THEOREM Fenced == Spec => []Fencing
<1>1. Init => Fencing
  BY BlankRowFacts, TokenFacts
     DEF Init, Fencing, LeaseShapes, LeaseShape, UnscheduledIsBlank, LeaseHasAttempt,
         AttemptsNumbered, NumbersUnique, NumbersDense, Rows, OpenAttemptHoldsLease,
         AppliedOnceByLastAttempt, CallIsForOpenAttempt
<1>2. TypeOK /\ TypeOK' /\ Fencing /\ [Next]_vars => Fencing'
  BY FencingInductive
<1> QED
  BY <1>1, <1>2, TypeCorrect, PTL DEF Spec

-----------------------------------------------------------------------------
(* What follows from it                                                    *)

\* A command that is executed again never calls the provider for a lost lease.
THEOREM OpenAttemptHoldsLeaseAlways == Spec => []OpenAttemptHoldsLease
<1>1. Fencing => OpenAttemptHoldsLease
  BY DEF Fencing
<1> QED
  BY <1>1, Fenced, PTL

\* A result is persisted at most once, by the last attempt of its item.
THEOREM AppliedOnceByLastAttemptAlways == Spec => []AppliedOnceByLastAttempt
<1>1. Fencing => AppliedOnceByLastAttempt
  BY DEF Fencing
<1> QED
  BY <1>1, Fenced, PTL

\* attempt_count and the attempts table agree.
THEOREM AttemptsMatchLeasesAlways == Spec => []AttemptsMatchLeases
<1>1. Fencing => AttemptsMatchLeases
  <2> SUFFICES ASSUME Fencing, NEW i \in Items
               PROVE  /\ {attempt[t].number : t \in Rows(i)} = 1..item[i].attempts
                      /\ \A t, u \in Rows(i) : attempt[t].number = attempt[u].number => t = u
    BY DEF AttemptsMatchLeases
  <2>1. \A t \in Rows(i) : attempt[t].number \in 1..item[i].attempts
    BY DEF Fencing, AttemptsNumbered, Rows
  <2>2. \A n \in 1..item[i].attempts : \E t \in Rows(i) : attempt[t].number = n
    BY DEF Fencing, NumbersDense
  <2>3. \A t, u \in Rows(i) : attempt[t].number = attempt[u].number => t = u
    BY DEF Fencing, NumbersUnique
  <2> QED
    BY <2>1, <2>2, <2>3
<1> QED
  BY <1>1, Fenced, PTL

-----------------------------------------------------------------------------
(* What a step may never do                                                *)

\* The recovery and the recording of outcomes, which run in different
\* transactions, agree on who is first: an outcome is recorded only for an
\* attempt that has none, because the lease it checks is that attempt's.
LEMMA OutcomeKept ==
    ASSUME TypeOK, Fencing, [Next]_vars,
           NEW t \in Token, attempt[t].outcome \notin {"none", "open"}
    PROVE  attempt'[t].outcome = attempt[t].outcome
<1>1. ASSUME NEW i \in Items, NEW s \in Slots, NEW from \in 0..now, LeaseAndStart(i, s, from)
      PROVE attempt'[t].outcome = attempt[t].outcome
  <2>1. <<s, i>> \in Token /\ attempt[<<s, i>>].outcome = "none"
    BY <1>1, TokenFacts DEF LeaseAndStart, CanStart
  <2> QED
    BY <1>1, <2>1 DEF LeaseAndStart, TypeOK
<1>2. ASSUME NEW u \in Token, Execute(u)
      PROVE attempt'[t].outcome = attempt[t].outcome
  <2>1. ASSUME NEW o \in Outcome, Recorded(u, o), u \in calls, HoldsLease(u)
        PROVE  attempt'[t] = attempt[t]
    <3>1. attempt[u].outcome = "open"
      BY <2>1 DEF Fencing, CallIsForOpenAttempt
    <3> QED
      BY <2>1, <3>1, RecordedFacts
  <2>2. CASE BeginCall(u) \/ AbandonCall(u)
    BY <2>2 DEF BeginCall, AbandonCall
  <2>3. CASE \/ RecordSuccess(u) \/ RecordAndApply(u) \/ RecordTerminal(u)
             \/ \E plan \in RetryPlans : RecordRetryable(u, plan)
    <3>1. \E o \in Outcome : Recorded(u, o) /\ u \in calls /\ HoldsLease(u)
      BY <2>3 DEF RecordSuccess, RecordAndApply, RecordTerminal, RecordRetryable,
                  EndCall, Outcome
    <3> QED
      BY <3>1, <2>1
  <2> QED
    BY <1>2, <2>2, <2>3 DEF Execute
<1>3. ASSUME NEW S \in SUBSET Items, ReclaimExpired(S)
      PROVE attempt'[t].outcome = attempt[t].outcome
  <2>1. attempt[t] \in AttemptRow
    BY DEF TypeOK
  <2>2. attempt'[t] \in {ClosedByRecovery(attempt[t]), attempt[t]}
    BY <1>3 DEF ReclaimExpired
  <2> QED
    BY <2>1, <2>2, ClosedByRecoveryFacts
<1>4. CASE \/ \E i \in Items : Schedule(i)
           \/ \E u \in Token : ApplyResult(u)
           \/ Tick \/ UNCHANGED vars
  BY <1>4 DEF Schedule, ApplyResult, Tick, vars
<1> QED
  BY <1>1, <1>2, <1>3, <1>4 DEF Next

\* A recorded outcome is never overwritten.
THEOREM OutcomeIsFinalAlways == Spec => OutcomeIsFinal
<1>1. TypeOK /\ Fencing /\ [Next]_vars =>
          [\A t \in Token : attempt[t].outcome \notin {"none", "open"} =>
               attempt'[t].outcome = attempt[t].outcome]_vars
  BY OutcomeKept
<1> QED
  BY <1>1, TypeCorrect, Fenced, PTL DEF Spec, OutcomeIsFinal

\* What each repository operation does to the rows of items: those it does not
\* name stay, and the one it names is the row the state machine computes.
LEMMA RowMoves ==
    ASSUME TypeOK, [Next]_vars, NEW i \in Items, item'[i] # item[i]
    PROVE  \/ Schedule(i)
           \/ \E s \in Slots, from \in 0..now : LeaseAndStart(i, s, from)
           \/ \E t \in Token :
                  /\ ItemOf(t) = i /\ item[i].status = "leased" /\ item[i].token = t
                  /\ \/ t \in calls /\ t \notin calls'
                     \/ t \in applied'[i]
           \/ LeaseExpired(item[i], now)
<1>0. item \in [Items -> Row] /\ applied \in [Items -> SUBSET Token]
  BY DEF TypeOK
<1>1. CASE \E j \in Items : Schedule(j)
  BY <1>0, <1>1 DEF Schedule
<1>2. CASE \E j \in Items, s \in Slots, from \in 0..now : LeaseAndStart(j, s, from)
  BY <1>0, <1>2 DEF LeaseAndStart
<1>3. ASSUME NEW t \in Token, Execute(t)
      PROVE  /\ ItemOf(t) = i /\ item[i].status = "leased" /\ item[i].token = t
             /\ t \in calls /\ t \notin calls'
  <2>1. CASE BeginCall(t) \/ RecordSuccess(t) \/ AbandonCall(t)
    BY <2>1 DEF BeginCall, RecordSuccess, AbandonCall
  <2>2. CASE \/ RecordAndApply(t) \/ RecordTerminal(t)
             \/ \E plan \in RetryPlans : RecordRetryable(t, plan)
    BY <1>0, <2>2 DEF RecordAndApply, RecordTerminal, RecordRetryable, EndCall, HoldsLease
  <2> QED
    BY <1>3, <2>1, <2>2 DEF Execute
<1>4. ASSUME NEW t \in Token, ApplyResult(t)
      PROVE  /\ ItemOf(t) = i /\ item[i].status = "leased" /\ item[i].token = t
             /\ t \in applied'[i]
  BY <1>0, <1>4 DEF ApplyResult
<1>5. ASSUME NEW S \in SUBSET Items, ReclaimExpired(S) PROVE LeaseExpired(item[i], now)
  BY <1>0, <1>5 DEF ReclaimExpired
<1>6. ~(Tick \/ UNCHANGED vars)
  BY DEF Tick, vars
<1> QED
  BY <1>1, <1>2, <1>3, <1>4, <1>5, <1>6 DEF Next

\* Completed and terminally failed items never move again.
THEOREM SettledIsFinalAlways == Spec => SettledIsFinal
<1>1. TypeOK /\ [Next]_vars =>
          [\A i \in Items : item[i].status \in Settled => item'[i] = item[i]]_vars
  <2> SUFFICES ASSUME TypeOK, [Next]_vars, NEW i \in Items,
                      item[i].status \in Settled, item'[i] # item[i]
               PROVE  FALSE
    OBVIOUS
  <2>1. item[i].status \notin Due \cup {"absent", "leased"}
    BY DEF Settled, Due
  <2> QED
    BY <2>1, RowMoves DEF Schedule, LeaseAndStart, LeaseExpired
<1> QED
  BY <1>1, TypeCorrect, PTL DEF Spec, SettledIsFinal

\* A lease that has not expired is only ended by the attempt started under it.
THEOREM ActiveLeaseIsSafeAlways == Spec => ActiveLeaseIsSafe
<1>1. TypeOK /\ [Next]_vars =>
          [\A i \in Items :
               (item[i].status = "leased" /\ item[i].expires > now /\ item'[i] # item[i]) =>
                   LET t == item[i].token IN
                   \/ t \in calls /\ t \notin calls'
                   \/ t \in applied'[i]]_vars
  <2> SUFFICES ASSUME TypeOK, [Next]_vars, NEW i \in Items,
                      item[i].status = "leased", item[i].expires > now, item'[i] # item[i]
               PROVE  LET t == item[i].token IN
                      \/ t \in calls /\ t \notin calls'
                      \/ t \in applied'[i]
    OBVIOUS
  <2>1. item[i].expires \in Nat /\ now \in Nat
    BY DEF TypeOK, Row
  <2>2. ~LeaseExpired(item[i], now)
    BY <2>1 DEF LeaseExpired
  <2>3. item[i].status \notin Due \cup {"absent"}
    BY DEF Due
  <2> QED
    BY <2>2, <2>3, RowMoves DEF Schedule, LeaseAndStart
<1> QED
  BY <1>1, TypeCorrect, PTL DEF Spec, ActiveLeaseIsSafe

-----------------------------------------------------------------------------
(* The store implements the domain state machine                           *)

\* The entity the lease repository hydrates differs from its row in the plan
\* only, and only while the item is leased.
LEMMA HydratedFacts ==
    ASSUME TypeOK, NEW i \in Items
    PROVE  /\ Hydrated[i].status = item[i].status
           /\ Hydrated[i].attempts = item[i].attempts
           /\ Hydrated[i].token = item[i].token
           /\ Hydrated[i].expires = item[i].expires
           /\ item[i].status # "leased" => Hydrated[i] = item[i]
BY DEF Hydrated, TypeOK, Row

\* A transition out of a lease writes the plan, so it makes the same entity of
\* the row as of the hydrated work item.
LEMMA UnleasedHydrated ==
    ASSUME TypeOK, NEW i \in Items, NEW status, NEW plan
    PROVE  Domain!Unleased(Hydrated[i], status, plan) = Unleased(item[i], status, plan)
<1>1. item[i] \in Row
  BY DEF TypeOK
<1>2. CASE item[i].status = "leased"
  <2>1. Hydrated[i] = [item[i] EXCEPT !.plan = NoPlan]
    BY <1>2 DEF Hydrated
  <2> QED
    BY <1>1, <2>1 DEF Unleased, Domain!Unleased, Row
<1>3. CASE item[i].status # "leased"
  BY <1>3, HydratedFacts DEF Unleased, Domain!Unleased
<1> QED
  BY <1>2, <1>3

\* A step that replaces one row replaces one entity.
LEMMA HydratedMoves ==
    ASSUME TypeOK, NEW i \in Items, NEW row, item' = [item EXCEPT ![i] = row]
    PROVE  Hydrated' = [Hydrated EXCEPT ![i] =
               IF row.status = "leased" THEN [row EXCEPT !.plan = NoPlan] ELSE row]
BY DEF Hydrated, TypeOK

\* Complete, FailRetryable and FailTerminal of the domain are what the repository
\* does to a leased row.
LEMMA LeaseEndMaps ==
    ASSUME TypeOK, NEW i \in Items, item[i].status = "leased",
           NEW status \in Status \ {"leased"}, NEW plan \in RetryPlans \cup {NoPlan},
           item' = [item EXCEPT ![i] = Unleased(item[i], status, plan)], now' = now
    PROVE  Domain!FromLease(i, Domain!Unleased(Hydrated[i], status, plan))
<1>1. item[i] \in Row
  BY DEF TypeOK
<1>2. Unleased(item[i], status, plan).status # "leased"
  BY <1>1, UnleasedFacts
<1>3. Hydrated' = [Hydrated EXCEPT ![i] = Unleased(item[i], status, plan)]
  BY <1>2, HydratedMoves
<1>4. Hydrated[i].status = "leased"
  BY HydratedFacts
<1> QED
  BY <1>3, <1>4, UnleasedHydrated DEF Domain!FromLease, Domain!Moved

\* The lease repository leaves retry_plan in the row and hydrates the entity
\* without it: together that is the lease_ready of the state machine.
LEMMA LeaseMaps ==
    ASSUME TypeOK, NEW i \in Items, NEW s \in Slots, NEW from \in 0..now,
           LeaseAndStart(i, s, from)
    PROVE  Domain!Lease(i, <<s, i>>, from + LeaseTTL, from)
<1> DEFINE t == <<s, i>>
           e == from + LeaseTTL
<1>1. item[i] \in Row /\ from \in Nat /\ e \in Nat /\ e > from /\ t \in Token
  BY LeaseTTLAssumption, TokenFacts DEF TypeOK
<1>2. item[i].status \in Due /\ item[i].attempts < MaxAttempts
      /\ item' = [item EXCEPT ![i] = LeasedRow(item[i], t, e)] /\ now' = now
  BY DEF LeaseAndStart
<1>3. Hydrated[i] = item[i]
  BY <1>2, HydratedFacts DEF Due
<1>4. [LeasedRow(item[i], t, e) EXCEPT !.plan = NoPlan] = Domain!LeaseReady(item[i], t, e)
  <2>1. LeasedRow(item[i], t, e) =
            [status |-> "leased", attempts |-> item[i].attempts + 1, token |-> t,
             expires |-> e, plan |-> item[i].plan]
    BY DEF LeasedRow, LeaseReady
  <2> QED
    BY <2>1 DEF Domain!LeaseReady
<1>5. LeasedRow(item[i], t, e).status = "leased"
  BY <1>1, LeasedRowFacts
<1>6. Hydrated' = [Hydrated EXCEPT ![i] = Domain!LeaseReady(Hydrated[i], t, e)]
  <2>1. Hydrated' = [Hydrated EXCEPT ![i] =
            IF LeasedRow(item[i], t, e).status = "leased"
            THEN [LeasedRow(item[i], t, e) EXCEPT !.plan = NoPlan]
            ELSE LeasedRow(item[i], t, e)]
    BY <1>2, HydratedMoves
  <2> QED
    BY <2>1, <1>3, <1>4, <1>5
<1> QED
  BY <1>1, <1>2, <1>3, <1>6 DEF Domain!Lease, Domain!Moved, Domain!Due, Due

\* The recovery's UPDATE is the batch the domain reclaims in one unit of work.
LEMMA ReclaimMaps ==
    ASSUME TypeOK, NEW S \in SUBSET Items, ReclaimExpired(S)
    PROVE  Domain!Reclaim(S, now)
<1>1. /\ \A i \in S : LeaseExpired(item[i], now)
      /\ item' = [i \in Items |-> IF i \in S THEN ReturnToReady(item[i]) ELSE item[i]]
      /\ now' = now
  BY DEF ReclaimExpired
<1>2. \A i \in S : Domain!LeaseExpired(Hydrated[i], now)
  BY <1>1, HydratedFacts DEF LeaseExpired, Domain!LeaseExpired
<1>3. ASSUME NEW i \in Items
      PROVE  Hydrated'[i] = IF i \in S THEN Domain!ReturnToReady(Hydrated[i]) ELSE Hydrated[i]
  <2>1. CASE i \in S
    <3>1. item'[i] = Unleased(item[i], "ready", NoPlan)
      BY <1>1, <2>1 DEF ReturnToReady
    <3>2. item'[i].status = "ready"
      BY <3>1, UnleasedFacts DEF TypeOK, Status
    <3>3. Hydrated'[i] = item'[i]
      BY <3>2 DEF Hydrated
    <3> QED
      BY <2>1, <3>1, <3>3, UnleasedHydrated DEF Domain!ReturnToReady
  <2>2. CASE i \notin S
    BY <1>1, <2>2 DEF Hydrated
  <2> QED
    BY <2>1, <2>2
<1>4. Hydrated' = [i \in Items |->
                      IF i \in S THEN Domain!ReturnToReady(Hydrated[i]) ELSE Hydrated[i]]
  BY <1>3 DEF Hydrated
<1> QED
  BY <1>1, <1>2, <1>4 DEF Domain!Reclaim

\* Every repository operation is one transition of the state machine, or leaves
\* the work items as they are.
LEMMA StepMaps ==
    ASSUME TypeOK, [Next]_vars
    PROVE  [Domain!Next]_(Domain!vars)
<1>0. item \in [Items -> Row] /\ now \in Nat /\ now \in 0..now
  BY DEF TypeOK
<1>1. ASSUME NEW i \in Items, Schedule(i) PROVE Domain!Create(i)
  <2>1. item[i].status = "absent" /\ item' = [item EXCEPT ![i] = Scheduled] /\ now' = now
    BY <1>1 DEF Schedule
  <2>2. Scheduled.status # "leased" /\ Scheduled = Domain!Scheduled
    BY BlankRowFacts DEF Scheduled, Absent, Domain!Scheduled, Domain!Absent
  <2>3. Hydrated' = [Hydrated EXCEPT ![i] =
            IF Scheduled.status = "leased" THEN [Scheduled EXCEPT !.plan = NoPlan] ELSE Scheduled]
    BY <2>1, HydratedMoves
  <2> QED
    BY <2>1, <2>2, <2>3, HydratedFacts DEF Domain!Create, Domain!Moved
<1>2. ASSUME NEW i \in Items, NEW s \in Slots, NEW from \in 0..now, LeaseAndStart(i, s, from)
      PROVE  Domain!Transition(i)
  <2>1. Domain!Lease(i, <<s, i>>, from + LeaseTTL, from)
    BY <1>2, LeaseMaps
  <2>2. LeaseTTL \in 0..LeaseTTL
    BY LeaseTTLAssumption
  <2> QED
    BY <2>1, <2>2 DEF Domain!Transition
<1>3. ASSUME NEW t \in Token, Execute(t)
      PROVE  UNCHANGED <<now, Hydrated>> \/ Domain!Transition(ItemOf(t))
  <2>0. ItemOf(t) \in Items
    BY TokenFacts
  <2>1. CASE BeginCall(t) \/ RecordSuccess(t) \/ AbandonCall(t)
    BY <2>1 DEF BeginCall, RecordSuccess, AbandonCall, Hydrated
  <2>2. CASE RecordAndApply(t)
    <3>1. /\ item[ItemOf(t)].status = "leased" /\ now' = now
          /\ item' = [item EXCEPT ![ItemOf(t)] = Unleased(item[ItemOf(t)], "completed", NoPlan)]
      BY <2>2 DEF RecordAndApply, HoldsLease, CompleteLeased
    <3>2. Domain!FromLease(ItemOf(t), Domain!Unleased(Hydrated[ItemOf(t)], "completed", NoPlan))
      BY <2>0, <3>1, LeaseEndMaps DEF Status
    <3> QED
      BY <3>2 DEF Domain!Transition, Domain!Complete, Domain!CompleteLeased
  <2>3. CASE \E plan \in RetryPlans : RecordRetryable(t, plan)
    <3>0. PICK plan \in RetryPlans : RecordRetryable(t, plan)
      BY <2>3
    <3>1. /\ item[ItemOf(t)].status = "leased" /\ now' = now
          /\ item' = [item EXCEPT ![ItemOf(t)] =
                          Unleased(item[ItemOf(t)], "retryable_failed", plan)]
      BY <3>0 DEF RecordRetryable, HoldsLease, FailLeasedRetryable
    <3>2. Domain!FromLease(ItemOf(t),
              Domain!Unleased(Hydrated[ItemOf(t)], "retryable_failed", plan))
      BY <2>0, <3>1, LeaseEndMaps DEF Status
    <3>3. Domain!FailRetryable(ItemOf(t), plan)
      BY <3>2 DEF Domain!FailRetryable, Domain!FailLeasedRetryable
    <3> QED
      BY <3>3 DEF Domain!Transition
  <2>4. CASE RecordTerminal(t)
    <3>1. /\ item[ItemOf(t)].status = "leased" /\ now' = now
          /\ item' = [item EXCEPT ![ItemOf(t)] =
                          Unleased(item[ItemOf(t)], "terminal_failed", NoPlan)]
      BY <2>4 DEF RecordTerminal, HoldsLease, FailLeasedTerminal
    <3>2. Domain!FromLease(ItemOf(t),
              Domain!Unleased(Hydrated[ItemOf(t)], "terminal_failed", NoPlan))
      BY <2>0, <3>1, LeaseEndMaps DEF Status
    <3> QED
      BY <3>2 DEF Domain!Transition, Domain!FailTerminal, Domain!FailLeasedTerminal
  <2> QED
    BY <1>3, <2>1, <2>2, <2>3, <2>4 DEF Execute
<1>4. ASSUME NEW t \in Token, ApplyResult(t) PROVE Domain!Transition(ItemOf(t))
  <2>0. ItemOf(t) \in Items
    BY TokenFacts
  <2>1. /\ item[ItemOf(t)].status = "leased" /\ now' = now
        /\ item' = [item EXCEPT ![ItemOf(t)] = Unleased(item[ItemOf(t)], "completed", NoPlan)]
    BY <1>4 DEF ApplyResult, CompleteLeased
  <2>2. Domain!FromLease(ItemOf(t), Domain!Unleased(Hydrated[ItemOf(t)], "completed", NoPlan))
    BY <2>0, <2>1, LeaseEndMaps DEF Status
  <2> QED
    BY <2>2 DEF Domain!Transition, Domain!Complete, Domain!CompleteLeased
<1>5. ASSUME NEW S \in SUBSET Items, ReclaimExpired(S)
      PROVE  \E asOf \in 0..now : Domain!Reclaim(S, asOf)
  BY <1>0, <1>5, ReclaimMaps
<1>6. ASSUME Tick PROVE Domain!Tick
  BY <1>6 DEF Tick, Domain!Tick, Hydrated
<1>7. ASSUME UNCHANGED vars PROVE UNCHANGED <<now, Hydrated>>
  BY <1>7 DEF vars, Hydrated
<1>8. \A t \in Token : ItemOf(t) \in Items
  BY TokenFacts
<1>9. ASSUME Domain!Next \/ UNCHANGED <<now, Hydrated>>
      PROVE  [Domain!Next]_(Domain!vars)
  BY <1>9 DEF Domain!vars
<1>10. ASSUME NEW i \in Items, Domain!Create(i) PROVE Domain!Transition(i)
  BY <1>10 DEF Domain!Transition
<1>11. ASSUME NEW i \in Items, Domain!Transition(i) PROVE [Domain!Next]_(Domain!vars)
  BY <1>9, <1>11 DEF Domain!Next
<1>12. ASSUME NEW S \in SUBSET Items, ReclaimExpired(S) PROVE [Domain!Next]_(Domain!vars)
  BY <1>5, <1>9, <1>12 DEF Domain!Next
<1>13. CASE Tick
  BY <1>6, <1>9, <1>13 DEF Domain!Next
<1>14. CASE UNCHANGED vars
  BY <1>7, <1>9, <1>14
<1> QED
  BY <1>1, <1>2, <1>3, <1>4, <1>8, <1>9, <1>10, <1>11, <1>12, <1>13, <1>14 DEF Next

\* The repositories implement the contract of the domain layer: no behaviour of
\* the store takes an item along a transition WorkItemStateMachine refuses.
THEOREM StoreImplementsStateMachine == Spec => ImplementsStateMachine
<1>1. Init => Domain!Init
  BY BlankRowFacts DEF Init, Domain!Init, Hydrated, Absent, Domain!Absent
<1>2. TypeOK /\ [Next]_vars => [Domain!Next]_(Domain!vars)
  BY StepMaps
<1> QED
  BY <1>1, <1>2, TypeCorrect, PTL DEF Spec, ImplementsStateMachine, Domain!Spec
=============================================================================
