------------------------ MODULE RouteCapacity_proofs ------------------------
(***************************************************************************)
(* No route carries more requests than its window, for any number of       *)
(* routes, runs, work items and processes, and any order of accounts.      *)
(***************************************************************************)
EXTENDS RouteCapacity, FiniteSetTheorems, WellFoundedInduction, TLAPS

LogType(L) == L \in [DOMAIN L -> Log!CommandRow(Runs, Payload)]

\* Completing a command and appending another keep the log a log.
LEMMA CompleteTyped ==
    ASSUME NEW L, LogType(L), NEW k
    PROVE  LogType(Log!Complete(L, k)) /\ DOMAIN Log!Complete(L, k) = DOMAIN L
BY DEF LogType, Log!Complete, Log!CommandRow

LEMMA AppendTyped ==
    ASSUME NEW L, LogType(L), NEW k, NEW r \in Runs, NEW p \in Payload
    PROVE  LogType(Log!Append(L, k, r, p)) /\ DOMAIN Log!Append(L, k, r, p) = DOMAIN L \cup {k}
BY DEF LogType, Log!Append, Log!AppendEach, Log!CommandRow

\* What runs are configured with, and one route, are payloads.
LEMMA PayloadsTyped ==
    /\ \A r \in Runs : Configured(r) \in Payload
    /\ \A r \in Routes : WindowOnly(r) \in Payload
BY AccountsAssumption DEF Configured, WindowOnly, Payload

-----------------------------------------------------------------------------
(* Sums of tokens                                                          *)

\* Need[a] tokens are asked for by a alone.
LEMMA OneAsks ==
    ASSUME NEW a \in Attempts
    PROVE  /\ IsFiniteSet({a} \X (1..Need[a]))
           /\ Cardinality({a} \X (1..Need[a])) = Need[a]
<1>1. Need[a] \in Nat
  BY NeedAssumption
<1>2. IsFiniteSet(1..Need[a]) /\ Cardinality(1..Need[a]) = Need[a]
  BY <1>1, FS_Interval
<1>3. IsFiniteSet({a}) /\ Cardinality({a}) = 1
  BY FS_Singleton
<1>4. /\ IsFiniteSet({a} \X (1..Need[a]))
      /\ Cardinality({a} \X (1..Need[a])) = 1 * Need[a]
  BY <1>2, <1>3, FS_Product
<1> QED
  BY <1>1, <1>4

LEMMA TokensFinite ==
    ASSUME NEW S \in SUBSET Attempts
    PROVE  IsFiniteSet(TokensAsked(S)) /\ TokensOf(S) \in Nat
<1> DEFINE T == {{a} \X (1..Need[a]) : a \in S}
           f == [a \in S |-> {a} \X (1..Need[a])]
<1>1. IsFiniteSet(S)
  BY AttemptsAssumption, FS_Subset
<1>2. f \in Surjection(S, T)
  BY DEF Surjection
<1>3. IsFiniteSet(T)
  <2> HIDE DEF f, T
  <2> QED
    BY <1>1, <1>2, FS_Surjection
<1>4. \A A \in T : IsFiniteSet(A)
  BY OneAsks
<1>5. IsFiniteSet(UNION T)
  <2> HIDE DEF T
  <2> QED
    BY <1>3, <1>4, FS_UNION
<1> QED
  BY <1>5, FS_CardinalityType DEF TokensAsked, TokensOf

LEMMA NoTokens == TokensOf({}) = 0
<1>1. TokensAsked({}) = {}
  BY DEF TokensAsked
<1> QED
  BY <1>1, FS_EmptySet DEF TokensOf

\* Fewer rows ask for fewer tokens.
LEMMA TokensMonotone ==
    ASSUME NEW T \in SUBSET Attempts, NEW S \in SUBSET T
    PROVE  TokensOf(S) <= TokensOf(T)
<1>1. TokensAsked(S) \subseteq TokensAsked(T)
  BY DEF TokensAsked
<1> QED
  BY <1>1, TokensFinite, FS_Subset DEF TokensOf

LEMMA TokensOfUnion ==
    ASSUME NEW S \in SUBSET Attempts, NEW T \in SUBSET Attempts
    PROVE  TokensOf(S \cup T) <= TokensOf(S) + TokensOf(T)
<1>1. TokensAsked(S \cup T) = TokensAsked(S) \cup TokensAsked(T)
  BY DEF TokensAsked
<1>2. IsFiniteSet(TokensAsked(S)) /\ IsFiniteSet(TokensAsked(T))
  BY TokensFinite
<1>3. Cardinality(TokensAsked(S) \cap TokensAsked(T)) \in Nat
  BY <1>2, FS_Intersection, FS_CardinalityType
<1>4. Cardinality(TokensAsked(S) \cup TokensAsked(T)) =
          TokensOf(S) + TokensOf(T) - Cardinality(TokensAsked(S) \cap TokensAsked(T))
  BY <1>2, FS_Union DEF TokensOf
<1>5. TokensOf(S) \in Nat /\ TokensOf(T) \in Nat
  BY TokensFinite
<1>6. TokensOf(S \cup T) = Cardinality(TokensAsked(S) \cup TokensAsked(T))
  BY <1>1 DEF TokensOf
<1> QED
  BY <1>3, <1>4, <1>5, <1>6

\* Another row adds what it needs.
LEMMA TokensAdd ==
    ASSUME NEW S \in SUBSET Attempts, NEW a \in Attempts, a \notin S
    PROVE  TokensOf(S \cup {a}) = TokensOf(S) + Need[a]
<1> DEFINE A == {a} \X (1..Need[a])
<1>1. TokensAsked(S \cup {a}) = TokensAsked(S) \cup A
  BY DEF TokensAsked
<1>2. TokensAsked(S) \cap A = {}
  BY DEF TokensAsked
<1>3. IsFiniteSet(TokensAsked(S)) /\ IsFiniteSet(A) /\ Cardinality(A) = Need[a]
  BY TokensFinite, OneAsks
<1> HIDE DEF A
<1>4. Cardinality(TokensAsked(S) \cup A) = TokensOf(S) + Cardinality(A) - Cardinality({})
  BY <1>2, <1>3, FS_Union DEF TokensOf
<1>5. TokensOf(S) \in Nat /\ Need[a] \in Nat /\ Cardinality({}) = 0
  BY TokensFinite, NeedAssumption, FS_EmptySet
<1>6. TokensOf(S \cup {a}) = Cardinality(TokensAsked(S) \cup A)
  BY <1>1 DEF TokensOf
<1> QED
  BY <1>3, <1>4, <1>5, <1>6

-----------------------------------------------------------------------------
(* Types                                                                   *)

\* Finalizing keeps a row a row.
LEMMA FinalRow ==
    ASSUME NEW row \in Row, NEW observed
    PROVE  [row EXCEPT !.status = FinalStatus(observed)] \in Row
BY DEF Row, FinalStatus

\* The end of a transaction, whatever it commits.
LEMMA EndTyped ==
    ASSUME TypeOK, NEW d \in Drains, End(d), now' = now,
           reservation' \in [Attempts -> Row],
           closed' = closed,
           log' \in [DOMAIN log -> Log!CommandRow(Runs, Payload)]
    PROVE  TypeOK'
<1> USE DEF TypeOK, End
<1>1. \A e \in Drains : window'[e] = window[e] \/ DOMAIN window'[e] = {}
  BY DEF EmptyMap
<1>2. \A e \in Drains : plan'[e] = plan[e] \/ plan'[e] \in [{} -> Routes]
  BY DEF EmptyMap
<1>3. /\ pc' \in [Drains -> {"idle", "locking", "admitting"}]
      /\ DOMAIN command' = Drains
      /\ \A e \in Drains : pc'[e] # "idle" => command'[e] \in DOMAIN log
      /\ at' \in [Drains -> Nat]
      /\ held' \in [Drains -> SUBSET Routes]
      /\ DOMAIN window' = Drains /\ DOMAIN plan' = Drains
      /\ due' \in [Drains -> SUBSET Attempts]
      /\ seen' \in [Drains -> SUBSET Attempts]
  OBVIOUS
<1>4. \A e \in Drains : /\ DOMAIN plan'[e] \subseteq Attempts
                        /\ plan'[e] \in [DOMAIN plan'[e] -> Routes]
  BY <1>2
<1>5. \A e \in Drains :
          /\ DOMAIN window'[e] \subseteq Routes
          /\ \A r \in DOMAIN window'[e] : window'[e][r] \in Window
  BY <1>1
<1>6. DOMAIN log' \subseteq Keys
  OBVIOUS
<1> QED
  BY <1>3, <1>4, <1>5, <1>6

\* A payload offers at most the limits of a route, whoever said so.
LEMMA OfferedWithinLimits ==
    ASSUME NEW p, NEW r \in Routes, NEW offered \in Offered(p, r)
    PROVE  /\ offered.requests \in Nat /\ offered.requests <= Requests[r]
           /\ offered.tokens \in Nat /\ offered.tokens <= Tokens[r]
BY WindowAssumption DEF Offered

\* An observation leaves a log that has kept its commands.
LEMMA ObservedTyped ==
    ASSUME TypeOK, ReservedOnRoute, NEW a \in Attempts, ~IsDue(a), NEW observed
    PROVE  /\ LogType(Observed(log, a, observed))
           /\ DOMAIN log \subseteq DOMAIN Observed(log, a, observed)
           /\ DOMAIN Observed(log, a, observed) \subseteq Keys
<1> DEFINE row == reservation[a]
           W   == Log!Append(log, Wakeup(a), row.run, WindowOnly(row.route))
           M   == IF observed = "reset" THEN W ELSE log
           C   == Log!Append(M, Capacity(a), row.run, row.payload)
<1>1. row.run \in Runs /\ row.payload \in Payload /\ WindowOnly(row.route) \in Payload
  BY PayloadsTyped DEF TypeOK, Row, ReservedOnRoute
<1>2. Wakeup(a) \in Keys /\ Capacity(a) \in Keys /\ DOMAIN log \subseteq Keys /\ LogType(log)
  BY DEF Keys, TypeOK, LogType
<1>3. LogType(W) /\ DOMAIN W = DOMAIN log \cup {Wakeup(a)}
  BY <1>1, <1>2, AppendTyped
<1> HIDE DEF W
<1>4. LogType(M) /\ DOMAIN log \subseteq DOMAIN M /\ DOMAIN M \subseteq Keys
  BY <1>2, <1>3
<1> HIDE DEF M
<1>5. LogType(C) /\ DOMAIN C = DOMAIN M \cup {Capacity(a)}
  BY <1>1, <1>4, AppendTyped
<1>6. Observed(log, a, observed) = IF observed = "nothing" THEN log ELSE C
  BY DEF Observed, M, W
<1> HIDE DEF C
<1> QED
  BY <1>2, <1>4, <1>5, <1>6

\* So does the RECONCILE after it.
LEMMA FinishTyped ==
    ASSUME TypeOK, ReservedOnRoute, NEW a \in Attempts, NEW observed, Finish(a, observed)
    PROVE  LogType(log') /\ DOMAIN log \subseteq DOMAIN log' /\ DOMAIN log' \subseteq Keys
<1> DEFINE row == reservation[a]
           L1  == Observed(log, a, observed)
           L2  == Log!Append(L1, FollowUp(row.batch), row.run, row.payload)
<1>1. row.run \in Runs /\ row.payload \in Payload /\ FollowUp(row.batch) \in Keys
  BY DEF TypeOK, Row, Keys
<1>2. LogType(L1) /\ DOMAIN log \subseteq DOMAIN L1 /\ DOMAIN L1 \subseteq Keys
  BY ObservedTyped DEF Finish, IsDue
<1>3. log' = L1 \/ log' = L2
  BY DEF Finish
<1> HIDE DEF L1
<1>4. LogType(L2) /\ DOMAIN L2 = DOMAIN L1 \cup {FollowUp(row.batch)}
  BY <1>1, <1>2, AppendTyped
<1> HIDE DEF L2
<1> QED
  BY <1>1, <1>2, <1>3, <1>4

\* Every step keeps the variables in their types: the route of what has been reserved
\* is what an answer closes.
LEMMA TypeInductive ==
    ASSUME TypeOK, ReservedOnRoute, [Next]_vars
    PROVE  TypeOK'
<1> USE DEF TypeOK, shared
<1>1. ASSUME NEW d \in Drains, NEW k \in Log!Pending(log), Begin(d, k) PROVE TypeOK'
  BY <1>1 DEF Begin, Log!Pending
<1>2. ASSUME NEW d \in Drains, NEW r \in Routes, LockRoute(d, r) PROVE TypeOK'
  BY <1>2 DEF LockRoute, IsNextRoute
<1>3. ASSUME NEW d \in Drains, NEW r \in Routes, ReadRoute(d, r) PROVE TypeOK'
  <2>1. Cardinality(Counted(r, at[d])) \in Nat
    BY AttemptsAssumption, FS_Subset, FS_CardinalityType DEF Counted
  <2>2. TokensOf(Counted(r, at[d])) \in Nat
    BY TokensFinite DEF Counted
  <2>3. PICK offered \in Offered(log[command[d]].payload, r) :
            window' = [window EXCEPT ![d] =
                [q \in DOMAIN window[d] \cup {r} |->
                    IF q # r THEN window[d][q]
                    ELSE [requests |-> Remaining(offered.requests, Cardinality(Counted(r, at[d]))),
                          tokens   |-> Remaining(offered.tokens, TokensOf(Counted(r, at[d]))),
                          open     |-> r \notin closed]]]
    BY <1>3 DEF ReadRoute
  <2>4. offered.requests \in Nat /\ offered.tokens \in Nat
    BY OfferedWithinLimits
  <2>5. [requests |-> Remaining(offered.requests, Cardinality(Counted(r, at[d]))),
         tokens   |-> Remaining(offered.tokens, TokensOf(Counted(r, at[d]))),
         open     |-> r \notin closed] \in Window
    BY <2>1, <2>2, <2>4 DEF Remaining, Window
  <2> QED
    BY <1>3, <2>3, <2>5 DEF ReadRoute
<1>4. ASSUME NEW d \in Drains, WaitForWindow(d) PROVE TypeOK'
  BY <1>4, EndTyped DEF WaitForWindow
<1>5. ASSUME NEW d \in Drains, Peek(d) PROVE TypeOK'
  <2>1. due'[d] \in SUBSET Attempts /\ due' = [due EXCEPT ![d] = due'[d]]
    BY <1>5 DEF Peek
  <2>2. due' \in [Drains -> SUBSET Attempts]
    BY <2>1
  <2> QED
    BY <1>5, <2>2 DEF Peek, LoadedAll
<1>6. ASSUME NEW d \in Drains, NEW a \in Attempts, Skip(d, a) PROVE TypeOK'
  BY <1>6 DEF Skip
<1>7. ASSUME NEW d \in Drains, NEW a \in Attempts, NEW r \in DOMAIN window[d], Admit(d, a, r)
      PROVE  TypeOK'
  <2>1. window'[d][r] = Taken(window[d][r], a) /\ DOMAIN window'[d] = DOMAIN window[d]
    BY <1>7 DEF Admit
  <2>2. \A e \in Drains : \A q \in DOMAIN window[e] :
            e # d \/ q # r => window'[e][q] = window[e][q]
    BY <1>7 DEF Admit
  <2>3. \A e \in Drains : DOMAIN window'[e] = DOMAIN window[e]
    BY <1>7 DEF Admit
  <2>4. Taken(window[d][r], a) \in Window
    <3>1. window[d][r] \in Window /\ Need[a] \in Nat
      BY NeedAssumption
    <3> QED
      BY <3>1 DEF Taken, Remaining, Window
  <2>5. DOMAIN window' = Drains
    BY <1>7 DEF Admit
  <2>6. \A e \in Drains : /\ DOMAIN plan'[e] \subseteq Attempts
                          /\ plan'[e] \in [DOMAIN plan'[e] -> Routes]
    BY <1>7 DEF Admit
  <2>7. UNCHANGED <<shared, pc, command, at, held, due>> /\ seen' \in [Drains -> SUBSET Attempts]
        /\ DOMAIN plan' = Drains
    BY <1>7 DEF Admit
  <2>8. \A e \in Drains : DOMAIN window'[e] \subseteq Routes
    BY <2>3
  <2>9. \A e \in Drains : \A q \in DOMAIN window'[e] : window'[e][q] \in Window
    BY <2>1, <2>2, <2>3, <2>4
  <2> QED
    BY <2>5, <2>6, <2>7, <2>8, <2>9
<1>8. ASSUME NEW d \in Drains, Commit(d) PROVE TypeOK'
  <2>1. /\ pc[d] # "idle" /\ command[d] \in DOMAIN log /\ log[command[d]].run \in Runs
        /\ log[command[d]].payload \in Payload
    BY <1>8 DEF Commit, Log!CommandRow
  <2>2. reservation' \in [Attempts -> Row]
    <3>1. \A a \in DOMAIN plan[d] : plan[d][a] \in Routes
      OBVIOUS
    <3>2. at[d] + TTL \in Nat
      BY TTLAssumption
    <3>3. DOMAIN plan[d] \in SUBSET Attempts
      OBVIOUS
    <3>4. \A a \in DOMAIN plan[d] :
             [status |-> "active", route |-> plan[d][a], expires |-> at[d] + TTL,
              batch |-> DOMAIN plan[d], run |-> log[command[d]].run,
              payload |-> log[command[d]].payload] \in Row
      BY <2>1, <3>1, <3>2, <3>3 DEF Row
    <3> QED
      BY <1>8, <3>4 DEF Commit
  <2>3. log' \in [DOMAIN log' -> Log!CommandRow(Runs, Payload)] /\ DOMAIN log' = DOMAIN log
    <3>1. log' = log \/ log' = Log!Complete(log, command[d])
      BY <1>8 DEF Commit
    <3>2. LogType(log)
      BY DEF LogType
    <3>3. LogType(Log!Complete(log, command[d])) /\ DOMAIN Log!Complete(log, command[d]) = DOMAIN log
      BY <3>2, CompleteTyped
    <3>4. LogType(log') /\ DOMAIN log' = DOMAIN log
      BY <3>1, <3>2, <3>3
    <3> QED
      BY <3>4 DEF LogType
  <2>4. End(d) /\ UNCHANGED <<now, closed>>
    BY <1>8 DEF Commit
  <2> QED
    BY <2>2, <2>3, <2>4, EndTyped
<1>9. ASSUME NEW d \in Drains, Abort(d) PROVE TypeOK'
  BY <1>9, EndTyped DEF Abort
<1>10. ASSUME NEW a \in Attempts, NEW observed \in Observations[a], Finish(a, observed) PROVE TypeOK'
  <2>2. reservation' \in [Attempts -> Row]
    <3>1. [reservation[a] EXCEPT !.status = FinalStatus(observed)] \in Row
      BY FinalRow
    <3>2. reservation' =
              [reservation EXCEPT ![a] = [reservation[a] EXCEPT !.status = FinalStatus(observed)]]
      BY <1>10 DEF Finish
    <3> QED
      BY <3>1, <3>2
  <2>3. /\ log' \in [DOMAIN log' -> Log!CommandRow(Runs, Payload)]
        /\ DOMAIN log \subseteq DOMAIN log' /\ DOMAIN log' \subseteq Keys
    BY <1>10, FinishTyped DEF LogType
  <2>4. UNCHANGED <<now, local>>
    BY <1>10 DEF Finish
  <2>5. closed' \subseteq Routes
    BY <1>10 DEF Finish, ReservedOnRoute, IsDue
  <2> QED
    BY <2>2, <2>3, <2>4, <2>5 DEF local
<1>11. ASSUME NEW r \in Routes, Reopen(r) PROVE TypeOK'
  BY <1>11 DEF Reopen, local
<1>12. ASSUME Tick PROVE TypeOK'
  BY <1>12 DEF Tick, local
<1>13. ASSUME UNCHANGED vars PROVE TypeOK'
  BY <1>13 DEF vars, local
<1> QED
  BY <1>1, <1>2, <1>3, <1>4, <1>5, <1>6, <1>7, <1>8, <1>9, <1>10, <1>11, <1>12, <1>13
     DEF Next, Drain

-----------------------------------------------------------------------------
\* The sets that are counted are finite.
LEMMA CountedFinite ==
    ASSUME NEW r, NEW t
    PROVE  IsFiniteSet(Counted(r, t)) /\ Cardinality(Counted(r, t)) \in Nat
BY AttemptsAssumption, FS_Subset, FS_CardinalityType DEF Counted

LEMMA PlannedFinite ==
    ASSUME TypeOK, NEW d \in Drains, NEW r
    PROVE  IsFiniteSet(Planned(d, r)) /\ Cardinality(Planned(d, r)) \in Nat
<1>1. Planned(d, r) \in SUBSET Attempts
  BY DEF Planned, TypeOK
<1> QED
  BY <1>1, AttemptsAssumption, FS_Subset, FS_CardinalityType

\* So is what is left of a window that was read.
LEMMA LeftIsNat ==
    ASSUME TypeOK, NEW d \in Drains, NEW r \in DOMAIN window[d]
    PROVE  /\ window[d][r].requests \in Nat /\ Requests[r] \in Nat
           /\ window[d][r].tokens \in Nat /\ Tokens[r] \in Nat
BY WindowAssumption DEF TypeOK, Window

\* A transaction keeps the invariant when it ends without committing.
LEMMA EndInv ==
    ASSUME TypeOK, Inv, NEW d \in Drains, End(d), UNCHANGED shared
    PROVE  Inv'
<1> USE DEF Inv, TypeOK, End, shared
<1>1. \A e \in Drains : e # d =>
          /\ pc'[e] = pc[e] /\ at'[e] = at[e] /\ held'[e] = held[e]
          /\ window'[e] = window[e] /\ plan'[e] = plan[e]
  OBVIOUS
<1>2. /\ held'[d] = {} /\ DOMAIN window'[d] = {} /\ DOMAIN plan'[d] = {} /\ at'[d] = 0
  BY DEF EmptyMap
<1>3. \A r, t : Counted(r, t)' = Counted(r, t)
  BY DEF Counted
<1>4. \A e \in Drains : e # d => \A r : Planned(e, r)' = Planned(e, r)
  BY <1>1 DEF Planned
<1>5. RequestsWithinWindow'
  BY <1>3 DEF RequestsWithinWindow, Load
<1>6. LocksExclude' /\ UnderLock' /\ PlansExclude' /\ FromThePast'
  BY <1>1, <1>2 DEF LocksExclude, UnderLock, PlansExclude, FromThePast, IsDue
<1>7. WindowAddsUp'
  BY <1>1, <1>2, <1>3, <1>4 DEF WindowAddsUp
<1> QED
  BY <1>5, <1>6, <1>7

\* Steps that leave the reservations and the plans alone.
LEMMA QuietInv ==
    ASSUME TypeOK, Inv, UNCHANGED <<now, reservation, plan>>, UnderLock', LocksExclude',
           FromThePast',
           \A e \in Drains : \A r \in DOMAIN window'[e] :
               \/ r \in DOMAIN window[e] /\ window'[e][r] = window[e][r] /\ at'[e] = at[e]
               \/ /\ Planned(e, r) = {}
                  /\ window'[e][r].requests > 0 =>
                        Cardinality(Counted(r, at'[e])) + window'[e][r].requests <= Requests[r]
    PROVE  Inv'
<1> USE DEF Inv
<1>3. RequestsWithinWindow'
  BY DEF RequestsWithinWindow, Load, Counted
<1>4. PlansExclude'
  BY DEF PlansExclude, IsDue
<1>5. ASSUME NEW e \in Drains, NEW r \in DOMAIN window'[e],
             Planned(e, r) # {} \/ window'[e][r].requests > 0
      PROVE  Cardinality(Counted(r, at'[e])) + Cardinality(Planned(e, r)) + window'[e][r].requests
                <= Requests[r]
  <2>1. CASE r \in DOMAIN window[e] /\ window'[e][r] = window[e][r] /\ at'[e] = at[e]
    BY <1>5, <2>1 DEF WindowAddsUp
  <2>2. CASE /\ Planned(e, r) = {}
             /\ window'[e][r].requests > 0 =>
                   Cardinality(Counted(r, at'[e])) + window'[e][r].requests <= Requests[r]
    <3>1. Cardinality(Planned(e, r)) = 0
      BY <2>2, FS_EmptySet
    <3>2. Cardinality(Counted(r, at'[e])) \in Nat
      BY CountedFinite
    <3>3. window'[e][r].requests > 0
      BY <1>5, <2>2
    <3> QED
      BY <2>2, <3>1, <3>2, <3>3
  <2> QED
    BY <2>1, <2>2
<1>6. WindowAddsUp'
  <2>1. \A e, r : Planned(e, r)' = Planned(e, r)
    BY DEF Planned
  <2>2. \A e, r : Counted(r, at[e])' = Counted(r, at'[e])
    BY DEF Counted
  <2> QED
    BY <1>5, <2>1, <2>2 DEF WindowAddsUp
<1> QED
  BY <1>3, <1>4, <1>6

\* Admitting an item moves one request from what is left to what is planned.
LEMMA AdmitInv ==
    ASSUME TypeOK, Inv, NEW d \in Drains, NEW a \in Attempts, NEW r \in DOMAIN window[d],
           Admit(d, a, r)
    PROVE  Inv'
<1> USE DEF Inv, TypeOK, shared
<1>1. /\ UNCHANGED <<now, reservation, pc, at, held>>
      /\ DOMAIN plan'[d] = DOMAIN plan[d] \cup {a} /\ plan'[d][a] = r
      /\ \A b \in DOMAIN plan[d] : b # a => plan'[d][b] = plan[d][b]
      /\ DOMAIN window'[d] = DOMAIN window[d]
      /\ window'[d][r] = Taken(window[d][r], a)
      /\ \A q \in DOMAIN window[d] : q # r => window'[d][q] = window[d][q]
      /\ \A e \in Drains : e # d => plan'[e] = plan[e] /\ window'[e] = window[e]
  BY DEF Admit
<1>2. /\ IsDue(a) /\ \A e \in Drains : a \notin DOMAIN plan[e]
      /\ window[d][r].requests > 0
  BY DEF Admit, Leasable, FirstFit, Fits
<1>3. \A q, t : Counted(q, t)' = Counted(q, t')
  BY <1>1 DEF Counted
<1>4. RequestsWithinWindow'
  BY <1>1 DEF RequestsWithinWindow, Load, Counted
<1>5. LocksExclude' /\ UnderLock' /\ FromThePast'
  <2>1. LocksExclude' /\ FromThePast'
    BY <1>1 DEF LocksExclude, FromThePast
  <2>2. \A e \in Drains : DOMAIN window'[e] = DOMAIN window[e]
    BY <1>1
  <2>3. ASSUME NEW e \in Drains, NEW b \in DOMAIN plan'[e]
        PROVE  plan'[e][b] \in DOMAIN window[e]
    <3>1. CASE e = d /\ b = a
      BY <1>1, <3>1
    <3>2. CASE ~(e = d /\ b = a)
      <4>1. b \in DOMAIN plan[e] /\ plan'[e][b] = plan[e][b]
        BY <1>1, <2>3, <3>2
      <4> QED
        BY <4>1 DEF UnderLock
    <3> QED
      BY <3>1, <3>2
  <2>4. UnderLock'
    BY <1>1, <2>2, <2>3 DEF UnderLock
  <2> QED
    BY <2>1, <2>4
<1>6. PlansExclude'
  <2>1. \A b \in Attempts : IsDue(b)' <=> IsDue(b)
    BY <1>1 DEF IsDue
  <2>2. \A e \in Drains : \A b \in DOMAIN plan'[e] :
            b \in DOMAIN plan[e] \/ (e = d /\ b = a)
    BY <1>1
  <2>3. ASSUME NEW e \in Drains, NEW b \in DOMAIN plan'[e]
        PROVE  IsDue(b)' /\ \A f \in Drains : b \in DOMAIN plan'[f] => f = e
    <3>1. CASE b = a
      BY <1>2, <2>1, <2>2, <2>3, <3>1
    <3>2. CASE b # a
      <4>1. b \in DOMAIN plan[e] /\ b \in Attempts
        BY <2>2, <2>3, <3>2
      <4>2. IsDue(b) /\ \A f \in Drains : b \in DOMAIN plan[f] => f = e
        BY <4>1 DEF PlansExclude
      <4> QED
        BY <2>1, <2>2, <3>2, <4>1, <4>2
    <3> QED
      BY <3>1, <3>2
  <2> QED
    BY <2>3 DEF PlansExclude
<1>7. \A e \in Drains : \A q : e # d \/ q # r => Planned(e, q)' = Planned(e, q)
  BY <1>1, <1>2 DEF Planned
<1>8. Planned(d, r)' = Planned(d, r) \cup {a} /\ a \notin Planned(d, r)
  BY <1>1, <1>2 DEF Planned
<1>9. Cardinality(Planned(d, r)') = Cardinality(Planned(d, r)) + 1
  BY <1>8, PlannedFinite, FS_AddElement
<1>10. window'[d][r].requests = window[d][r].requests - 1
  BY <1>1, <1>2, LeftIsNat DEF Taken, Remaining
<1>11. ASSUME NEW e \in Drains, NEW q \in DOMAIN window[e], e # d \/ q # r
       PROVE  window'[e][q] = window[e][q]
  BY <1>1, <1>11
<1>12. \A e \in Drains : DOMAIN window'[e] = DOMAIN window[e]
  BY <1>1
<1>13. Cardinality(Counted(r, at[d])) + Cardinality(Planned(d, r)) + window[d][r].requests
          <= Requests[r]
  BY <1>2 DEF WindowAddsUp
<1>14. ASSUME NEW e \in Drains, NEW q \in DOMAIN window'[e],
              Planned(e, q)' # {} \/ window'[e][q].requests > 0
       PROVE  Cardinality(Counted(q, at[e])') + Cardinality(Planned(e, q)')
                  + window'[e][q].requests <= Requests[q]
  <2>1. Counted(q, at[e])' = Counted(q, at[e])
    BY <1>1 DEF Counted
  <2>2. CASE e # d \/ q # r
    BY <1>7, <1>11, <1>12, <1>14, <2>1, <2>2 DEF WindowAddsUp
  <2>3. CASE e = d /\ q = r
    <3>1. Cardinality(Counted(r, at[d])) \in Nat /\ Cardinality(Planned(d, r)) \in Nat
      BY CountedFinite, PlannedFinite
    <3>2. window[d][r].requests \in Nat /\ Requests[r] \in Nat
      BY LeftIsNat
    <3> QED
      BY <1>9, <1>10, <1>13, <2>1, <2>3, <3>1, <3>2
  <2> QED
    BY <2>2, <2>3
<1>15. WindowAddsUp'
  BY <1>14 DEF WindowAddsUp
<1> QED
  BY <1>4, <1>5, <1>6, <1>15

\* Committing makes the planned requests visible, within what the locks protect.
LEMMA CommitInv ==
    ASSUME TypeOK, Inv, NEW d \in Drains, Commit(d)
    PROVE  Inv'
<1> USE DEF Inv, TypeOK
<1>1. \A e \in Drains : e # d =>
          /\ pc'[e] = pc[e] /\ at'[e] = at[e] /\ held'[e] = held[e]
          /\ window'[e] = window[e] /\ plan'[e] = plan[e]
  BY DEF Commit, End
<1>2. /\ held'[d] = {} /\ DOMAIN window'[d] = {} /\ DOMAIN plan'[d] = {} /\ at'[d] = 0
      /\ now' = now
  BY DEF Commit, End, EmptyMap
<1>3. /\ \A a \in DOMAIN plan[d] : reservation'[a].route = plan[d][a]
      /\ \A a \in Attempts \ DOMAIN plan[d] : reservation'[a] = reservation[a]
  BY DEF Commit
<1>5. ASSUME NEW r \in Routes
      PROVE  Cardinality(Load(r)') <= Requests[r]
  <2>1. Load(r)' \subseteq Load(r) \cup Planned(d, r)
    BY <1>2, <1>3 DEF Load, Counted, Planned
  <2>2. CASE Planned(d, r) = {}
    <3>1. Cardinality(Load(r)') <= Cardinality(Load(r))
      BY <2>1, <2>2, CountedFinite, FS_Subset DEF Load
    <3>2. Cardinality(Load(r)) <= Requests[r]
      BY DEF RequestsWithinWindow
    <3>3. Cardinality(Load(r)) \in Nat /\ Requests[r] \in Nat
      BY CountedFinite, WindowAssumption DEF Load
    <3>4. Cardinality(Load(r)') \in Nat
      BY <2>1, <2>2, CountedFinite, FS_Subset, FS_CardinalityType DEF Load
    <3> QED
      BY <3>1, <3>2, <3>3, <3>4
  <2>3. CASE Planned(d, r) # {}
    <3> DEFINE C == Counted(r, at[d])
               P == Planned(d, r)
    <3>1. r \in DOMAIN window[d]
      BY <2>3 DEF Planned, UnderLock
    <3>2. Cardinality(C) + Cardinality(P) + window[d][r].requests <= Requests[r]
      BY <2>3, <3>1 DEF WindowAddsUp
    <3>3. Load(r) \subseteq C
      BY DEF Load, Counted, FromThePast, Row
    <3>4. Load(r)' \subseteq C \cup P
      BY <2>1, <3>3
    <3>5. /\ IsFiniteSet(C) /\ Cardinality(C) \in Nat
          /\ IsFiniteSet(P) /\ Cardinality(P) \in Nat
      BY CountedFinite, PlannedFinite
    <3> HIDE DEF C, P
    <3>6. /\ IsFiniteSet(C \cup P) /\ IsFiniteSet(C \cap P)
          /\ Cardinality(C \cup P) = Cardinality(C) + Cardinality(P) - Cardinality(C \cap P)
      BY <3>5, FS_Union, FS_Subset
    <3>7. Cardinality(C \cap P) \in Nat /\ Cardinality(C \cup P) \in Nat
      BY <3>6, FS_CardinalityType
    <3>8. Cardinality(Load(r)') <= Cardinality(C \cup P) /\ IsFiniteSet(Load(r)')
      BY <3>4, <3>6, FS_Subset
    <3>9. Cardinality(Load(r)') \in Nat
      BY <3>8, FS_CardinalityType
    <3>10. window[d][r].requests \in Nat /\ Requests[r] \in Nat
      BY <3>1, LeftIsNat
    <3> QED
      BY <3>2, <3>5, <3>6, <3>7, <3>8, <3>9, <3>10
  <2> QED
    BY <2>2, <2>3
<1>6. RequestsWithinWindow'
  BY <1>5 DEF RequestsWithinWindow
<1>7. LocksExclude' /\ UnderLock' /\ FromThePast'
  <2>1. LocksExclude'
    BY <1>1, <1>2 DEF LocksExclude
  <2>2. UnderLock'
    BY <1>1, <1>2 DEF UnderLock
  <2>3. FromThePast'
    BY <1>1, <1>2 DEF FromThePast
  <2> QED
    BY <2>1, <2>2, <2>3
<1>8. PlansExclude'
  <2>1. ASSUME NEW e \in Drains, NEW a \in DOMAIN plan'[e]
        PROVE  IsDue(a)' /\ \A f \in Drains : a \in DOMAIN plan'[f] => f = e
    <3>1. e # d /\ a \in DOMAIN plan[e] /\ a \in Attempts
      BY <1>1, <1>2, <2>1
    <3>2. a \notin DOMAIN plan[d] /\ IsDue(a)
      BY <3>1 DEF PlansExclude
    <3> QED
      BY <1>1, <1>2, <1>3, <3>1, <3>2 DEF PlansExclude, IsDue
  <2> QED
    BY <2>1 DEF PlansExclude
<1>9. ASSUME NEW e \in Drains, NEW r \in DOMAIN window'[e],
             Planned(e, r)' # {} \/ window'[e][r].requests > 0
      PROVE  Cardinality(Counted(r, at[e])') + Cardinality(Planned(e, r)')
                 + window'[e][r].requests <= Requests[r]
  <2>1. e # d /\ r \in DOMAIN window[e] /\ window'[e] = window[e] /\ at'[e] = at[e]
    BY <1>1, <1>2, <1>9
  <2>2. Planned(e, r)' = Planned(e, r)
    BY <1>1, <2>1 DEF Planned
  <2>3. Planned(d, r) = {}
    BY <2>1 DEF Planned, UnderLock, LocksExclude
  <2>4. Counted(r, at[e])' \subseteq Counted(r, at[e])
    BY <1>3, <2>1, <2>3 DEF Counted, Planned
  <2>5. /\ Cardinality(Counted(r, at[e])') <= Cardinality(Counted(r, at[e]))
        /\ Cardinality(Counted(r, at[e])') \in Nat
    BY <2>4, CountedFinite, FS_Subset, FS_CardinalityType
  <2>6. Cardinality(Counted(r, at[e])) + Cardinality(Planned(e, r)) + window[e][r].requests
            <= Requests[r]
    BY <1>9, <2>1, <2>2 DEF WindowAddsUp
  <2>7. /\ Cardinality(Counted(r, at[e])) \in Nat /\ Cardinality(Planned(e, r)) \in Nat
        /\ window[e][r].requests \in Nat /\ Requests[r] \in Nat
    BY <2>1, CountedFinite, PlannedFinite, LeftIsNat
  <2> QED
    BY <2>1, <2>2, <2>5, <2>6, <2>7
<1>10. WindowAddsUp'
  BY <1>9 DEF WindowAddsUp
<1> QED
  BY <1>6, <1>7, <1>8, <1>10

\* Finalizing takes a row out of what is counted.
LEMMA FinishInv ==
    ASSUME TypeOK, Inv, NEW a \in Attempts, NEW observed, Finish(a, observed)
    PROVE  Inv'
<1> USE DEF Inv, TypeOK
<1>1. /\ UNCHANGED <<now, local>> /\ reservation[a].status = "active"
      /\ reservation'[a].status \in {"committed", "released"}
      /\ \A b \in Attempts : b # a => reservation'[b] = reservation[b]
  BY DEF Finish, FinalStatus, Row
<1>2. RequestsWithinWindow'
  <2>1. ASSUME NEW r \in Routes PROVE Cardinality(Load(r)') <= Requests[r]
    <3>1. Load(r)' \subseteq Load(r)
      BY <1>1 DEF Load, Counted
    <3>2. /\ Cardinality(Load(r)') <= Cardinality(Load(r)) /\ Cardinality(Load(r)') \in Nat
          /\ Cardinality(Load(r)) \in Nat /\ Requests[r] \in Nat
      BY <3>1, CountedFinite, FS_Subset, FS_CardinalityType, WindowAssumption DEF Load
    <3> QED
      BY <3>2 DEF RequestsWithinWindow
  <2> QED
    BY <2>1 DEF RequestsWithinWindow
<1>3. LocksExclude' /\ UnderLock' /\ FromThePast'
  BY <1>1 DEF local, LocksExclude, UnderLock, FromThePast
<1>4. PlansExclude'
  BY <1>1 DEF local, PlansExclude, IsDue
<1>5. ASSUME NEW e \in Drains, NEW r \in DOMAIN window'[e],
             Planned(e, r)' # {} \/ window'[e][r].requests > 0
      PROVE  Cardinality(Counted(r, at[e])') + Cardinality(Planned(e, r)')
                 + window'[e][r].requests <= Requests[r]
  <2>1. window' = window /\ at' = at /\ plan' = plan
    BY <1>1 DEF local
  <2>2. Planned(e, r)' = Planned(e, r)
    BY <2>1 DEF Planned
  <2>3. Counted(r, at[e])' \subseteq Counted(r, at[e])
    BY <1>1, <2>1 DEF Counted
  <2>4. /\ Cardinality(Counted(r, at[e])') <= Cardinality(Counted(r, at[e]))
        /\ Cardinality(Counted(r, at[e])') \in Nat
    BY <2>3, CountedFinite, FS_Subset, FS_CardinalityType
  <2>5. Cardinality(Counted(r, at[e])) + Cardinality(Planned(e, r)) + window[e][r].requests
            <= Requests[r]
    BY <1>5, <2>1, <2>2 DEF WindowAddsUp
  <2>6. /\ Cardinality(Counted(r, at[e])) \in Nat /\ Cardinality(Planned(e, r)) \in Nat
        /\ window[e][r].requests \in Nat /\ Requests[r] \in Nat
    BY <2>1, CountedFinite, PlannedFinite, LeftIsNat
  <2> QED
    BY <2>1, <2>2, <2>4, <2>5, <2>6
<1>6. WindowAddsUp'
  BY <1>5 DEF WindowAddsUp
<1> QED
  BY <1>2, <1>3, <1>4, <1>6

\* Time passes: less is counted, and what was read stays read.
LEMMA TickInv ==
    ASSUME TypeOK, Inv, Tick
    PROVE  Inv'
<1> USE DEF Inv, TypeOK
<1>1. now' = now + 1 /\ UNCHANGED <<reservation, local>>
  BY DEF Tick
<1>2. ASSUME NEW r \in Routes PROVE Cardinality(Load(r)') <= Requests[r]
  <2>1. Load(r)' \subseteq Load(r)
    BY <1>1 DEF Load, Counted, Row
  <2>2. /\ Cardinality(Load(r)') <= Cardinality(Load(r)) /\ Cardinality(Load(r)') \in Nat
        /\ Cardinality(Load(r)) \in Nat /\ Requests[r] \in Nat
    BY <2>1, CountedFinite, FS_Subset, FS_CardinalityType, WindowAssumption DEF Load
  <2> QED
    BY <2>2 DEF RequestsWithinWindow
<1>3. RequestsWithinWindow'
  BY <1>2 DEF RequestsWithinWindow
<1>4. LocksExclude' /\ UnderLock' /\ PlansExclude' /\ FromThePast'
  BY <1>1 DEF local, LocksExclude, UnderLock, PlansExclude, IsDue, FromThePast
<1>5. WindowAddsUp'
  BY <1>1 DEF local, WindowAddsUp, Counted, Planned
<1> QED
  BY <1>3, <1>4, <1>5

LEMMA InvInductive ==
    ASSUME TypeOK, Inv, [Next]_vars
    PROVE  Inv'
<1>1. ASSUME NEW d \in Drains, NEW k \in Log!Pending(log), Begin(d, k) PROVE Inv'
  <2>1. /\ UNCHANGED <<now, reservation, plan, window, held>>
        /\ pc[d] = "idle" /\ \A e \in Drains : e # d => pc'[e] = pc[e]
        /\ \A e \in Drains : e # d => at'[e] = at[e]
        /\ now \in Nat /\ at'[d] \in 0..now
    BY <1>1 DEF Begin, shared, TypeOK
  <2>2. held[d] = {} /\ DOMAIN window[d] = {}
    BY <2>1 DEF Inv, UnderLock
  <2>3. UnderLock' /\ LocksExclude' /\ FromThePast'
    <3>1. held'[d] = {} /\ DOMAIN window'[d] = {} /\ \A b \in DOMAIN plan'[d] : FALSE
      BY <2>1, <2>2 DEF Inv, UnderLock
    <3>2. UnderLock'
      BY <2>1, <3>1 DEF Inv, UnderLock
    <3>3. LocksExclude' /\ FromThePast'
      BY <2>1 DEF Inv, LocksExclude, FromThePast
    <3> QED
      BY <3>2, <3>3
  <2> QED
    BY <2>1, <2>2, <2>3, QuietInv
<1>2. ASSUME NEW d \in Drains, NEW r \in Routes, LockRoute(d, r) PROVE Inv'
  <2>1. /\ UNCHANGED <<now, reservation, plan, window, at, pc>>
        /\ held' = [held EXCEPT ![d] = held[d] \cup {r}]
        /\ pc[d] # "idle" /\ \A e \in Drains : r \notin held[e]
    BY <1>2 DEF LockRoute, IsNextRoute, Free, shared
  <2>2. UnderLock' /\ LocksExclude' /\ FromThePast'
    BY <2>1 DEF Inv, UnderLock, LocksExclude, FromThePast, TypeOK
  <2> QED
    BY <2>1, <2>2, QuietInv
<1>3. ASSUME NEW d \in Drains, NEW r \in Routes, ReadRoute(d, r) PROVE Inv'
  <2>1. /\ UNCHANGED <<now, reservation, plan, at, pc, held>>
        /\ r \in held[d] /\ r \notin DOMAIN window[d]
        /\ DOMAIN window'[d] = DOMAIN window[d] \cup {r}
        /\ \A q \in DOMAIN window[d] : window'[d][q] = window[d][q]
        /\ \E offered \in Offered(log[command[d]].payload, r) :
               window'[d][r].requests = Remaining(offered.requests, Cardinality(Counted(r, at[d])))
        /\ \A e \in Drains : e # d => window'[e] = window[e]
    BY <1>3 DEF ReadRoute, shared, TypeOK
  <2>2. UnderLock' /\ LocksExclude' /\ FromThePast'
    BY <2>1 DEF Inv, UnderLock, LocksExclude, FromThePast
  <2>3. Planned(d, r) = {}
    BY <2>1 DEF Inv, UnderLock, Planned
  <2>4. window'[d][r].requests > 0 =>
            Cardinality(Counted(r, at[d])) + window'[d][r].requests <= Requests[r]
    BY <2>1, CountedFinite, OfferedWithinLimits, WindowAssumption DEF Remaining
  <2>5. ASSUME NEW e \in Drains, NEW q \in DOMAIN window'[e]
        PROVE  \/ q \in DOMAIN window[e] /\ window'[e][q] = window[e][q] /\ at'[e] = at[e]
               \/ /\ Planned(e, q) = {}
                  /\ window'[e][q].requests > 0 =>
                        Cardinality(Counted(q, at'[e])) + window'[e][q].requests <= Requests[q]
    <3>1. at'[e] = at[e]
      BY <2>1
    <3>2. CASE e = d /\ q = r
      BY <2>3, <2>4, <3>1, <3>2
    <3>3. CASE e # d \/ q # r
      BY <2>1, <3>3
    <3> QED
      BY <3>2, <3>3
  <2> QED
    BY <2>1, <2>2, <2>5, QuietInv
<1>4. ASSUME NEW d \in Drains, WaitForWindow(d) \/ Abort(d) PROVE Inv'
  BY <1>4, EndInv DEF WaitForWindow, Abort
<1>5. ASSUME NEW d \in Drains, Peek(d) \/ \E a \in Attempts : Skip(d, a) PROVE Inv'
  <2>1. /\ UNCHANGED <<now, reservation, plan, at, held, window>>
        /\ pc'[d] # "idle" /\ \A e \in Drains : e # d => pc'[e] = pc[e]
    BY <1>5 DEF Peek, LoadedAll, Skip, IsNext, shared, TypeOK
  <2>2. \A e \in Drains : pc'[e] = "idle" => pc[e] = "idle"
    BY <2>1
  <2>3. UnderLock' /\ LocksExclude' /\ FromThePast'
    BY <2>1, <2>2 DEF Inv, UnderLock, LocksExclude, FromThePast
  <2> QED
    BY <2>1, <2>3, QuietInv
<1>6. ASSUME NEW d \in Drains, NEW a \in Attempts, NEW r \in DOMAIN window[d], Admit(d, a, r)
      PROVE  Inv'
  BY <1>6, AdmitInv
<1>7. ASSUME NEW d \in Drains, Commit(d) PROVE Inv'
  BY <1>7, CommitInv
<1>8. ASSUME NEW a \in Attempts, NEW observed \in Observations[a], Finish(a, observed) PROVE Inv'
  BY <1>8, FinishInv
<1>9. ASSUME Tick PROVE Inv'
  BY <1>9, TickInv
<1>10. ASSUME (\E r \in Routes : Reopen(r)) \/ UNCHANGED vars PROVE Inv'
  <2>1. UNCHANGED <<now, reservation, local>>
    BY <1>10 DEF Reopen, vars, shared
  <2>2. UnderLock' /\ LocksExclude' /\ FromThePast'
    BY <2>1 DEF Inv, UnderLock, LocksExclude, FromThePast, local
  <2>3. UNCHANGED <<plan, window, at>>
    BY <2>1 DEF local
  <2> QED
    BY <2>1, <2>2, <2>3, QuietInv
<1> QED
  BY <1>1, <1>2, <1>3, <1>4, <1>5, <1>6, <1>7, <1>8, <1>9, <1>10 DEF Next, Drain

LEMMA InitInv ==
    ASSUME Init
    PROVE  TypeOK /\ Inv
<1>1. \A r, t : Counted(r, t) = {}
  BY DEF Init, Counted
<1>2. ASSUME NEW r \in Routes PROVE Cardinality(Load(r)) <= Requests[r]
  <2>1. Load(r) = {}
    BY <1>1 DEF Load
  <2>2. Cardinality(Load(r)) = 0
    BY <2>1, FS_EmptySet
  <2>3. Requests[r] \in Nat
    BY WindowAssumption
  <2> QED
    BY <2>2, <2>3
<1> USE DEF Init, EmptyMap
<1>3. reservation \in [Attempts -> Row]
  BY RunOfAssumption, PayloadsTyped DEF Row
<1>4. \A r \in Runs : Initial(r)[2] = r
  BY DEF Initial
<1>5. log \in [DOMAIN log -> Log!CommandRow(Runs, Payload)]
  BY <1>4, PayloadsTyped DEF Log!CommandRow
<1>6. TypeOK
  BY <1>3, <1>5 DEF TypeOK, Keys
<1>7. Inv
  BY <1>2 DEF Inv, RequestsWithinWindow, LocksExclude, UnderLock, PlansExclude, FromThePast,
              WindowAddsUp
<1> QED
  BY <1>6, <1>7

\* What has been reserved stays on the route it was planned for.
LEMMA RouteKept ==
    ASSUME TypeOK, ReservedOnRoute, [Next]_vars
    PROVE  ReservedOnRoute'
<1>1. ASSUME NEW d \in Drains, Commit(d) PROVE ReservedOnRoute'
  BY <1>1 DEF Commit, ReservedOnRoute, IsDue, TypeOK
<1>2. ASSUME NEW a \in Attempts, NEW observed \in Observations[a], Finish(a, observed)
      PROVE  ReservedOnRoute'
  BY <1>2 DEF Finish, ReservedOnRoute, IsDue, TypeOK, Row
<1>3. CASE UNCHANGED reservation
  BY <1>3 DEF ReservedOnRoute, IsDue
<1> QED
  BY <1>1, <1>2, <1>3
  DEF Next, Drain, Begin, LockRoute, ReadRoute, WaitForWindow, Peek, Skip, Admit, Abort, Reopen, Tick,
      vars, shared

\* Locks, reads, plans and reservations agree in every reachable state.
THEOREM Invariant == Spec => [](TypeOK /\ ReservedOnRoute /\ Inv)
<1>1. Init => TypeOK /\ Inv
  BY InitInv
<1>2. Init => ReservedOnRoute
  BY DEF Init, ReservedOnRoute, IsDue
<1>3. TypeOK /\ ReservedOnRoute /\ Inv /\ [Next]_vars => TypeOK' /\ ReservedOnRoute' /\ Inv'
  BY TypeInductive, RouteKept, InvInductive
<1> QED
  BY <1>1, <1>2, <1>3, PTL DEF Spec

\* Every row, command and window that was read stays well formed: what is left of a
\* window is never negative, and only routes are closed.
THEOREM TypeCorrect == Spec => []TypeOK
BY Invariant, PTL

\* Concurrent replicas share an atomic capacity budget: no order of locks, reads,
\* commits, aborts and late answers puts more requests on a route than its window.
THEOREM CapacityIsShared == Spec => []RequestsWithinWindow
<1>1. Inv => RequestsWithinWindow
  BY DEF Inv
<1> QED
  BY <1>1, Invariant, PTL

-----------------------------------------------------------------------------
(* Tokens                                                                  *)

LEMMA TokensAreNat ==
    ASSUME TypeOK, NEW d \in Drains, NEW r, NEW t
    PROVE  /\ Counted(r, t) \in SUBSET Attempts /\ TokensOf(Counted(r, t)) \in Nat
           /\ Planned(d, r) \in SUBSET Attempts /\ TokensOf(Planned(d, r)) \in Nat
<1>1. Counted(r, t) \in SUBSET Attempts /\ Planned(d, r) \in SUBSET Attempts
  BY DEF Counted, Planned, TypeOK
<1> QED
  BY <1>1, TokensFinite

\* A route that carries fewer rows carries fewer tokens.
LEMMA LessLoad ==
    ASSUME TokensWithinWindow, \A r \in Routes : Load(r)' \subseteq Load(r)
    PROVE  TokensWithinWindow'
<1>1. ASSUME NEW r \in Routes
      PROVE  TokensOf(Load(r)') <= Tokens[r]
  <2>1. Load(r) \in SUBSET Attempts /\ Load(r)' \in SUBSET Load(r)
    BY DEF Load, Counted
  <2>2. TokensOf(Load(r)') <= TokensOf(Load(r)) /\ TokensOf(Load(r)) <= Tokens[r]
    BY <2>1, TokensMonotone DEF TokensWithinWindow
  <2>3. TokensOf(Load(r)') \in Nat /\ TokensOf(Load(r)) \in Nat /\ Tokens[r] \in Nat
    BY <2>1, TokensFinite, WindowAssumption
  <2> QED
    BY <2>2, <2>3
<1> QED
  BY <1>1 DEF TokensWithinWindow

\* The sums still fit when no more is counted, and what has just been read is read right.
LEMMA SumsKept ==
    ASSUME TypeOK, TypeOK', TokensAddUp,
           \A e \in Drains : \A r \in DOMAIN window'[e] :
               \/ /\ r \in DOMAIN window[e] /\ window'[e][r] = window[e][r]
                  /\ Planned(e, r)' = Planned(e, r)
                  /\ Counted(r, at[e])' \subseteq Counted(r, at[e])
               \/ /\ Planned(e, r)' = {}
                  /\ window'[e][r].tokens > 0 =>
                        TokensOf(Counted(r, at[e])') + window'[e][r].tokens <= Tokens[r]
    PROVE  TokensAddUp'
<1>1. ASSUME NEW e \in Drains, NEW r \in DOMAIN window'[e],
             TokensOf(Planned(e, r)') > 0 \/ window'[e][r].tokens > 0
      PROVE  TokensOf(Counted(r, at[e])') + TokensOf(Planned(e, r)') + window'[e][r].tokens <= Tokens[r]
  <2>1. TokensOf(Counted(r, at[e])') \in Nat
    <3>1. Counted(r, at[e])' \in SUBSET Attempts
      BY DEF Counted
    <3> QED
      BY <3>1, TokensFinite
  <2>2. CASE /\ r \in DOMAIN window[e] /\ window'[e][r] = window[e][r]
             /\ Planned(e, r)' = Planned(e, r)
             /\ Counted(r, at[e])' \subseteq Counted(r, at[e])
    <3>1. TokensOf(Counted(r, at[e])) + TokensOf(Planned(e, r)) + window[e][r].tokens <= Tokens[r]
      BY <1>1, <2>2 DEF TokensAddUp
    <3>2. TokensOf(Counted(r, at[e])') <= TokensOf(Counted(r, at[e]))
      BY <2>2, TokensAreNat, TokensMonotone
    <3>3. /\ TokensOf(Counted(r, at[e])) \in Nat /\ TokensOf(Planned(e, r)) \in Nat
          /\ window[e][r].tokens \in Nat /\ Tokens[r] \in Nat
      BY <2>2, TokensAreNat, LeftIsNat
    <3>4. TokensOf(Planned(e, r)') = TokensOf(Planned(e, r)) /\ window'[e][r].tokens = window[e][r].tokens
      BY <2>2
    <3> QED
      BY <2>1, <3>1, <3>2, <3>3, <3>4
  <2>3. CASE /\ Planned(e, r)' = {}
             /\ window'[e][r].tokens > 0 =>
                   TokensOf(Counted(r, at[e])') + window'[e][r].tokens <= Tokens[r]
    <3>1. TokensOf(Planned(e, r)') = 0
      BY <2>3, NoTokens
    <3>2. window'[e][r].tokens > 0
      BY <1>1, <3>1
    <3>3. window'[e][r].tokens \in Nat
      BY DEF TypeOK, Window
    <3> QED
      BY <2>1, <2>3, <3>1, <3>2, <3>3
  <2> QED
    BY <2>2, <2>3
<1> QED
  BY <1>1 DEF TokensAddUp

\* Admitting an item moves what it needs from what is left to what is planned.
LEMMA AdmitTokens ==
    ASSUME TypeOK, TokenInv, NEW d \in Drains, NEW a \in Attempts, NEW r \in DOMAIN window[d],
           Admit(d, a, r)
    PROVE  TokenInv'
<1> USE DEF TokenInv
<1>1. /\ UNCHANGED <<now, reservation, at>>
      /\ DOMAIN plan'[d] = DOMAIN plan[d] \cup {a} /\ plan'[d][a] = r
      /\ \A b \in DOMAIN plan[d] : b # a => plan'[d][b] = plan[d][b]
      /\ DOMAIN window'[d] = DOMAIN window[d]
      /\ window'[d][r] = Taken(window[d][r], a)
      /\ \A q \in DOMAIN window[d] : q # r => window'[d][q] = window[d][q]
      /\ \A e \in Drains : e # d => plan'[e] = plan[e] /\ window'[e] = window[e]
  BY DEF Admit, TypeOK, shared
<1>2. /\ a \notin DOMAIN plan[d]
      /\ Need[a] <= window[d][r].tokens
  BY DEF Admit, Leasable, FirstFit, Fits
<1>3. Planned(d, r)' = Planned(d, r) \cup {a} /\ a \notin Planned(d, r)
  BY <1>1, <1>2 DEF Planned
<1>4. TokensOf(Planned(d, r)') = TokensOf(Planned(d, r)) + Need[a]
  BY <1>3, TokensAreNat, TokensAdd
<1>5. /\ window[d][r].tokens \in Nat /\ Tokens[r] \in Nat /\ Need[a] \in Nat
      /\ TokensOf(Planned(d, r)) \in Nat /\ TokensOf(Counted(r, at[d])) \in Nat
  BY LeftIsNat, TokensAreNat, NeedAssumption
<1>6. window'[d][r].tokens = window[d][r].tokens - Need[a]
  BY <1>1, <1>2, <1>5 DEF Taken, Remaining
<1>7. ASSUME NEW e \in Drains, NEW q \in DOMAIN window'[e],
             TokensOf(Planned(e, q)') > 0 \/ window'[e][q].tokens > 0
      PROVE  TokensOf(Counted(q, at[e])') + TokensOf(Planned(e, q)') + window'[e][q].tokens <= Tokens[q]
  <2>1. Counted(q, at[e])' = Counted(q, at[e])
    BY <1>1 DEF Counted
  <2>2. CASE e # d \/ q # r
    <3>1. q \in DOMAIN window[e] /\ window'[e][q] = window[e][q]
      BY <1>1, <1>7, <2>2
    <3>2. Planned(e, q)' = Planned(e, q)
      BY <1>1, <1>2, <2>2 DEF Planned
    <3> QED
      BY <1>7, <2>1, <3>1, <3>2 DEF TokensAddUp
  <2>3. CASE e = d /\ q = r
    <3>1. TokensOf(Planned(d, r)) > 0 \/ window[d][r].tokens > 0
      BY <1>4, <1>5, <1>6, <1>2, <1>7, <2>3
    <3>2. TokensOf(Counted(r, at[d])) + TokensOf(Planned(d, r)) + window[d][r].tokens <= Tokens[r]
      BY <3>1 DEF TokensAddUp
    <3> QED
      BY <1>4, <1>5, <1>6, <2>1, <2>3, <3>2
  <2> QED
    BY <2>2, <2>3
<1>8. TokensAddUp'
  BY <1>7 DEF TokensAddUp
<1>9. TokensWithinWindow'
  BY <1>1, LessLoad DEF Load, Counted
<1> QED
  BY <1>8, <1>9

\* Committing makes the planned tokens visible.
LEMMA CommitTokens ==
    ASSUME TypeOK, TypeOK', Inv, TokenInv, NEW d \in Drains, Commit(d)
    PROVE  TokenInv'
<1> USE DEF TokenInv
<1>1. \A e \in Drains : e # d => at'[e] = at[e] /\ window'[e] = window[e] /\ plan'[e] = plan[e]
  BY DEF Commit, End, TypeOK
<1>2. DOMAIN window'[d] = {} /\ now' = now
  BY DEF Commit, End, EmptyMap, TypeOK
<1>3. /\ \A a \in DOMAIN plan[d] : reservation'[a].route = plan[d][a]
      /\ \A a \in Attempts \ DOMAIN plan[d] : reservation'[a] = reservation[a]
  BY DEF Commit, TypeOK
<1>4. ASSUME NEW r \in Routes
      PROVE  TokensOf(Load(r)') <= Tokens[r]
  <2> DEFINE C == Counted(r, at[d])
             P == Planned(d, r)
  <2>1. Load(r)' \subseteq Load(r) \cup P
    BY <1>2, <1>3 DEF Load, Counted, Planned
  <2>2. /\ Load(r) \in SUBSET Attempts /\ Load(r)' \in SUBSET Attempts
        /\ C \in SUBSET Attempts /\ P \in SUBSET Attempts
    BY TokensAreNat DEF Load, Counted
  <2>3. Load(r) \subseteq C
    BY DEF Load, Counted, Inv, FromThePast, TypeOK, Row
  <2>4. TokensOf(P) > 0 =>
            window[d][r].tokens \in Nat /\ TokensOf(C) + TokensOf(P) + window[d][r].tokens <= Tokens[r]
    <3>1. SUFFICES ASSUME TokensOf(P) > 0
                   PROVE  /\ window[d][r].tokens \in Nat
                          /\ TokensOf(C) + TokensOf(P) + window[d][r].tokens <= Tokens[r]
      OBVIOUS
    <3>2. P # {}
      BY <3>1, NoTokens
    <3>3. r \in DOMAIN window[d]
      BY <3>2 DEF Planned, Inv, UnderLock
    <3> QED
      BY <3>1, <3>3, LeftIsNat DEF TokensAddUp
  <2>5. TokensOf(Load(r)) <= Tokens[r]
    BY DEF TokensWithinWindow
  <2> HIDE DEF C, P
  <2>6. /\ TokensOf(Load(r)) \in Nat /\ TokensOf(Load(r)') \in Nat /\ Tokens[r] \in Nat
        /\ TokensOf(C) \in Nat /\ TokensOf(P) \in Nat
    BY <2>2, TokensFinite, WindowAssumption
  <2>7. /\ TokensOf(Load(r) \cup P) \in Nat
        /\ TokensOf(Load(r)') <= TokensOf(Load(r) \cup P)
        /\ TokensOf(Load(r) \cup P) <= TokensOf(Load(r)) + TokensOf(P)
    <3>1. Load(r) \cup P \in SUBSET Attempts /\ Load(r)' \in SUBSET (Load(r) \cup P)
      BY <2>1, <2>2
    <3> QED
      BY <2>2, <3>1, TokensFinite, TokensMonotone, TokensOfUnion
  <2>8. TokensOf(Load(r)) <= TokensOf(C)
    BY <2>2, <2>3, TokensMonotone
  <2> QED
    BY <2>4, <2>5, <2>6, <2>7, <2>8
<1>5. TokensWithinWindow'
  BY <1>4 DEF TokensWithinWindow
<1>6. ASSUME NEW e \in Drains, NEW r \in DOMAIN window'[e]
      PROVE  /\ r \in DOMAIN window[e] /\ window'[e][r] = window[e][r]
             /\ Planned(e, r)' = Planned(e, r)
             /\ Counted(r, at[e])' \subseteq Counted(r, at[e])
  <2>1. e # d /\ r \in DOMAIN window[e]
    BY <1>1, <1>2, <1>6
  <2>2. Planned(d, r) = {}
    BY <2>1 DEF Planned, Inv, UnderLock, LocksExclude
  <2>3. Counted(r, at[e])' \subseteq Counted(r, at[e])
    BY <1>1, <1>3, <2>1, <2>2 DEF Counted, Planned
  <2> QED
    BY <1>1, <2>1, <2>3 DEF Planned
<1>7. TokensAddUp'
  BY <1>6, SumsKept
<1> QED
  BY <1>5, <1>7

\* Whatever happens between the statements, the tokens add up.
LEMMA TokenInductive ==
    ASSUME TypeOK, TypeOK', Inv, TokenInv, [Next]_vars
    PROVE  TokenInv'
<1> DEFINE NoMoreLoad == \A r \in Routes : Load(r)' \subseteq Load(r)
           Kept(e, r) == /\ r \in DOMAIN window[e] /\ window'[e][r] = window[e][r]
                         /\ Planned(e, r)' = Planned(e, r)
                         /\ Counted(r, at[e])' \subseteq Counted(r, at[e])
           AllKept == \A e \in Drains : \A r \in DOMAIN window'[e] : Kept(e, r)
<1>0. NoMoreLoad /\ AllKept => TokenInv'
  BY LessLoad, SumsKept DEF TokenInv
<1>1. ASSUME NEW d \in Drains, NEW k \in Log!Pending(log), Begin(d, k) PROVE TokenInv'
  <2>1. /\ UNCHANGED <<now, reservation, plan, window>>
        /\ \A e \in Drains : e # d => at'[e] = at[e]
        /\ DOMAIN window[d] = {}
    BY <1>1 DEF Begin, shared, TypeOK, Inv, UnderLock
  <2> QED
    BY <1>0, <2>1 DEF Load, Counted, Planned
<1>2. ASSUME UNCHANGED <<now, reservation, plan, window, at>> PROVE TokenInv'
  BY <1>0, <1>2 DEF Load, Counted, Planned
<1>3. ASSUME NEW d \in Drains, NEW r \in Routes, ReadRoute(d, r) PROVE TokenInv'
  <2>1. /\ UNCHANGED <<now, reservation, plan, at>>
        /\ r \notin DOMAIN window[d]
        /\ DOMAIN window'[d] = DOMAIN window[d] \cup {r}
        /\ \A q \in DOMAIN window[d] : window'[d][q] = window[d][q]
        /\ \E offered \in Offered(log[command[d]].payload, r) :
               window'[d][r].tokens = Remaining(offered.tokens, TokensOf(Counted(r, at[d])))
        /\ \A e \in Drains : e # d => window'[e] = window[e]
    BY <1>3 DEF ReadRoute, shared, TypeOK
  <2>2. \A e \in Drains : \A q : /\ Counted(q, at[e])' = Counted(q, at[e])
                                 /\ Planned(e, q)' = Planned(e, q)
    BY <2>1 DEF Counted, Planned
  <2>3. Planned(d, r) = {}
    BY <2>1 DEF Inv, UnderLock, Planned
  <2>4. window'[d][r].tokens > 0 =>
            TokensOf(Counted(r, at[d])) + window'[d][r].tokens <= Tokens[r]
    BY <2>1, TokensAreNat, OfferedWithinLimits, WindowAssumption DEF Remaining
  <2>5. ASSUME NEW e \in Drains, NEW q \in DOMAIN window'[e]
        PROVE  \/ Kept(e, q)
               \/ /\ Planned(e, q)' = {}
                  /\ window'[e][q].tokens > 0 =>
                        TokensOf(Counted(q, at[e])') + window'[e][q].tokens <= Tokens[q]
    <3>1. CASE e = d /\ q = r
      BY <2>2, <2>3, <2>4, <3>1
    <3>2. CASE e # d \/ q # r
      BY <2>1, <2>2, <3>2
    <3> QED
      BY <3>1, <3>2
  <2>6. TokensAddUp'
    BY <2>5, SumsKept DEF TokenInv
  <2>7. TokensWithinWindow'
    BY <2>1, LessLoad DEF Load, Counted, TokenInv
  <2> QED
    BY <2>6, <2>7 DEF TokenInv
<1>4. ASSUME NEW d \in Drains, End(d), UNCHANGED <<now, reservation>> PROVE TokenInv'
  <2>1. /\ DOMAIN window'[d] = {}
        /\ \A e \in Drains : e # d => window'[e] = window[e] /\ plan'[e] = plan[e] /\ at'[e] = at[e]
    BY <1>4 DEF End, EmptyMap, TypeOK
  <2> QED
    BY <1>0, <1>4, <2>1 DEF Load, Counted, Planned
<1>5. ASSUME NEW a \in Attempts, NEW observed \in Observations[a], Finish(a, observed) PROVE TokenInv'
  <2>1. /\ UNCHANGED <<now, local>> /\ reservation'[a].status \in {"committed", "released"}
        /\ \A b \in Attempts : b # a => reservation'[b] = reservation[b]
    BY <1>5 DEF Finish, FinalStatus, TypeOK, Row
  <2> QED
    BY <1>0, <2>1 DEF Load, Counted, Planned, local
<1>6. ASSUME Tick PROVE TokenInv'
  <2>1. now' = now + 1 /\ UNCHANGED <<reservation, local>>
    BY <1>6 DEF Tick
  <2> QED
    BY <1>0, <2>1 DEF Load, Counted, Planned, local, TypeOK, Row
<1>7. ASSUME NEW d \in Drains, Drain(d) \/ Abort(d) PROVE TokenInv'
  BY <1>1, <1>2, <1>3, <1>4, <1>7, AdmitTokens, CommitTokens
  DEF Drain, LockRoute, WaitForWindow, Peek, Skip, Abort, shared
<1>8. CASE (\E r \in Routes : Reopen(r)) \/ UNCHANGED vars
  BY <1>2, <1>8 DEF Reopen, local, vars, shared
<1> QED
  BY <1>5, <1>6, <1>7, <1>8 DEF Next

LEMMA TokenInit ==
    ASSUME Init
    PROVE  TokenInv
<1>1. \A r : Load(r) = {}
  BY DEF Init, Load, Counted
<1>2. TokensWithinWindow
  BY <1>1, NoTokens, WindowAssumption DEF TokensWithinWindow
<1> QED
  BY <1>2 DEF Init, EmptyMap, TokenInv, TokensAddUp

\* The same budget for tokens: also an item that needs none, which fits a window that
\* is used up, does not break it.
THEOREM TokensAreShared == Spec => []TokensWithinWindow
<1>1. Init => TokenInv
  BY TokenInit
<1>2. TypeOK /\ TypeOK' /\ Inv /\ TokenInv /\ [Next]_vars => TokenInv'
  BY TokenInductive
<1>3. TokenInv => TokensWithinWindow
  BY DEF TokenInv
<1> QED
  BY <1>1, <1>2, <1>3, Invariant, PTL DEF Spec

-----------------------------------------------------------------------------
(* Waiting for routes                                                      *)

\* The payload of a command is the one it was appended with.
LEMMA PayloadKept ==
    ASSUME TypeOK, [Next]_vars, NEW k \in DOMAIN log
    PROVE  k \in DOMAIN log' /\ log'[k].payload = log[k].payload
<1> DEFINE Keeps(L) == k \in DOMAIN L /\ L[k].payload = log[k].payload
<1>1. ASSUME NEW c PROVE Keeps(Log!Complete(log, c))
  BY DEF Log!Complete, TypeOK, Log!CommandRow
<1>2. ASSUME NEW L, Keeps(L), NEW c, NEW r, NEW p
      PROVE  Keeps(Log!Append(L, c, r, p))
  BY <1>2 DEF Log!Append, Log!AppendEach
<1>3. ASSUME NEW d \in Drains, Commit(d) PROVE Keeps(log')
  <2> HIDE DEF Keeps
  <2>1. Keeps(log)
    BY DEF Keeps
  <2> QED
    BY <1>1, <1>3, <2>1 DEF Commit
<1>4. ASSUME NEW a \in Attempts, NEW observed \in Observations[a], Finish(a, observed)
      PROVE  Keeps(log')
  <2> HIDE DEF Keeps
  <2>1. Keeps(log)
    BY DEF Keeps
  <2>2. Keeps(Observed(log, a, observed))
    BY <1>2, <2>1 DEF Observed
  <2> QED
    BY <1>2, <1>4, <2>2 DEF Finish
<1>5. CASE UNCHANGED log
  BY <1>5
<1> QED
  BY <1>3, <1>4, <1>5
  DEF Next, Drain, Begin, LockRoute, ReadRoute, WaitForWindow, Peek, Skip, Admit, Abort, Reopen, Tick,
      vars, shared

\* A transaction that goes on drains the same command, so its order stays.
LEMMA OrderKept ==
    ASSUME TypeOK, [Next]_vars, NEW d \in Drains, pc[d] # "idle", command'[d] = command[d]
    PROVE  LockOrder(d)' = LockOrder(d)
<1>1. command[d] \in DOMAIN log
  BY DEF TypeOK
<1> QED
  BY <1>1, PayloadKept DEF LockOrder

\* Whose locks and command stay, keeps the order.
LEMMA FollowsOn ==
    ASSUME TypeOK, [Next]_vars, LocksFollowOrder, NEW e \in Drains,
           held'[e] = {} \/ (held'[e] = held[e] /\ command'[e] = command[e] /\ pc'[e] # "idle")
    PROVE  \A r \in held'[e] :
               /\ pc'[e] # "idle"
               /\ \E i \in 1..Len(LockOrder(e)') :
                      r = LockOrder(e)'[i] /\ \A j \in 1..(i - 1) : LockOrder(e)'[j] \in held'[e]
<1> SUFFICES ASSUME NEW r \in held'[e]
             PROVE  /\ pc'[e] # "idle"
                    /\ \E i \in 1..Len(LockOrder(e)') :
                           r = LockOrder(e)'[i] /\ \A j \in 1..(i - 1) : LockOrder(e)'[j] \in held'[e]
  OBVIOUS
<1>1. held'[e] = held[e] /\ command'[e] = command[e] /\ pc'[e] # "idle" /\ pc[e] # "idle"
  BY DEF LocksFollowOrder
<1>2. LockOrder(e)' = LockOrder(e)
  BY <1>1, OrderKept
<1> QED
  BY <1>1, <1>2 DEF LocksFollowOrder

LEMMA OrderInductive ==
    ASSUME TypeOK, Inv, LocksFollowOrder, [Next]_vars
    PROVE  LocksFollowOrder'
<1> DEFINE GoesOn(e) == \/ held'[e] = {}
                        \/ held'[e] = held[e] /\ command'[e] = command[e] /\ pc'[e] # "idle"
           Follows(e) == \A r \in held'[e] :
                             /\ pc'[e] # "idle"
                             /\ \E i \in 1..Len(LockOrder(e)') :
                                    /\ r = LockOrder(e)'[i]
                                    /\ \A j \in 1..(i - 1) : LockOrder(e)'[j] \in held'[e]
<1>1. \A e \in Drains : GoesOn(e) => Follows(e)
  BY FollowsOn
<1>2. ASSUME NEW d \in Drains, NEW r \in Routes, LockRoute(d, r), NEW e \in Drains PROVE Follows(e)
  <2>1. /\ UNCHANGED <<pc, command>> /\ pc[d] = "locking"
        /\ held'[d] = held[d] \cup {r} /\ \A f \in Drains : f # d => held'[f] = held[f]
    BY <1>2 DEF LockRoute, IsNextRoute, TypeOK
  <2>2. CASE e # d
    BY <1>1, <2>1, <2>2 DEF LocksFollowOrder
  <2>3. CASE e = d
    <3>1. LockOrder(d)' = LockOrder(d)
      BY <2>1, OrderKept
    <3>2. PICK i \in 1..Len(LockOrder(d)) :
              r = LockOrder(d)[i] /\ \A j \in 1..(i - 1) : LockOrder(d)[j] \in held[d]
      BY <1>2 DEF LockRoute, IsNextRoute
    <3> QED
      BY <2>1, <2>3, <3>1, <3>2 DEF LocksFollowOrder
  <2> QED
    BY <2>2, <2>3
<1>3. ASSUME NEW d \in Drains, NEW k, Begin(d, k), NEW e \in Drains PROVE GoesOn(e)
  BY <1>3 DEF Begin, TypeOK, Inv, UnderLock, LocksFollowOrder
<1>4. ASSUME NEW d \in Drains, End(d), NEW e \in Drains PROVE GoesOn(e)
  BY <1>4 DEF End, TypeOK, LocksFollowOrder
<1>5. ASSUME NEW d \in Drains, Peek(d), NEW e \in Drains PROVE GoesOn(e)
  BY <1>5 DEF Peek, LoadedAll, TypeOK, LocksFollowOrder
<1>6. ASSUME UNCHANGED <<pc, command, held>>, NEW e \in Drains PROVE GoesOn(e)
  BY <1>6 DEF LocksFollowOrder
<1>7. \A e \in Drains : Follows(e)
  <2> SUFFICES ASSUME NEW e \in Drains PROVE Follows(e)
    OBVIOUS
  <2> HIDE DEF GoesOn, Follows
  <2>1. ASSUME NEW d \in Drains, Drain(d) \/ Abort(d) PROVE Follows(e)
    BY <1>1, <1>2, <1>3, <1>4, <1>5, <1>6, <2>1
    DEF Drain, ReadRoute, WaitForWindow, Skip, Admit, Commit, Abort
  <2>2. ASSUME ~\E d \in Drains : Drain(d) \/ Abort(d) PROVE Follows(e)
    <3>1. UNCHANGED <<pc, command, held>>
      BY <2>2 DEF Next, Finish, Reopen, Tick, vars, local
    <3> QED
      BY <1>1, <1>6, <3>1
  <2> QED
    BY <2>1, <2>2
<1> QED
  BY <1>7 DEF LocksFollowOrder

\* What a payload may name: all a run is configured for, or one route.
Narrow(s) == (\E r \in Runs : s = Accounts[r]) \/ Len(s) = 1

\* Wakeups narrow a payload, and what follows from them keeps it.
LEMMA NarrowInductive ==
    ASSUME TypeOK, PayloadsNarrow, [Next]_vars
    PROVE  PayloadsNarrow'
<1> DEFINE LogNarrow(L) == \A k \in DOMAIN L : Narrow(L[k].payload.accounts)
           RowsNarrow(f) == \A a \in Attempts : Narrow(f[a].payload.accounts)
<1>0. LogNarrow(log) /\ RowsNarrow(reservation)
  BY DEF PayloadsNarrow, Narrow
<1>1. ASSUME NEW L, LogNarrow(L), NEW k, NEW r, NEW p, Narrow(p.accounts)
      PROVE  LogNarrow(Log!Append(L, k, r, p))
  BY <1>1 DEF Log!Append, Log!AppendEach
<1>2. ASSUME NEW d \in Drains, Commit(d) PROVE LogNarrow(log') /\ RowsNarrow(reservation')
  <2>1. log' = log \/ log' = Log!Complete(log, command[d])
    BY <1>2 DEF Commit
  <2>2. LogNarrow(log')
    BY <1>0, <2>1 DEF Log!Complete, TypeOK, Log!CommandRow
  <2>3. Narrow(log[command[d]].payload.accounts)
    BY <1>0, <1>2 DEF Commit, TypeOK
  <2>4. RowsNarrow(reservation')
    BY <1>0, <1>2, <2>3 DEF Commit
  <2> QED
    BY <2>2, <2>4
<1>3. ASSUME NEW a \in Attempts, NEW observed, Finish(a, observed)
      PROVE  LogNarrow(log') /\ RowsNarrow(reservation')
  <2>1. RowsNarrow(reservation')
    BY <1>0, <1>3 DEF Finish, TypeOK, Row
  <2>2. Narrow(reservation[a].payload.accounts)
    BY <1>0
  <2>3. Narrow(WindowOnly(reservation[a].route).accounts)
    BY DEF Narrow, WindowOnly
  <2> HIDE DEF LogNarrow, RowsNarrow
  <2>4. LogNarrow(Observed(log, a, observed))
    BY <1>0, <1>1, <2>2, <2>3 DEF Observed
  <2> QED
    BY <1>1, <1>3, <2>1, <2>2, <2>4 DEF Finish
<1>4. ASSUME UNCHANGED <<log, reservation>> PROVE LogNarrow(log') /\ RowsNarrow(reservation')
  BY <1>0, <1>4
<1>5. LogNarrow(log') /\ RowsNarrow(reservation')
  <2> HIDE DEF LogNarrow, RowsNarrow
  <2> QED
    BY <1>2, <1>3, <1>4
    DEF Next, Drain, Begin, LockRoute, ReadRoute, WaitForWindow, Peek, Skip, Admit, Abort, Reopen,
        Tick, vars, shared
<1> QED
  BY <1>5 DEF PayloadsNarrow, Narrow

LEMMA NarrowInit ==
    ASSUME Init
    PROVE  PayloadsNarrow
BY RunOfAssumption DEF Init, PayloadsNarrow, Configured, Initial

\* The accounts of all runs agree on an order of the routes.
Ordered(Rank, s) == \A i, j \in 1..Len(s) : i < j => Rank[s[j]] < Rank[s[i]]

OneOrder(Rank) ==
    /\ Rank \in [Routes -> Nat]
    /\ \A r \in Runs : Ordered(Rank, Accounts[r])

\* Who waits for a route holds only routes that come before it.
LEMMA WaitsAhead ==
    ASSUME TypeOK, LocksFollowOrder, PayloadsNarrow, NEW Rank, OneOrder(Rank),
           NEW e \in Drains, NEW r \in held[e], NEW q \in Routes, IsNextRoute(e, q)
    PROVE  Rank[q] < Rank[r]
<1> DEFINE order == LockOrder(e)
<1>1. PICK j \in 1..Len(order) : r = order[j] /\ \A k \in 1..(j - 1) : order[k] \in held[e]
  BY DEF LocksFollowOrder
<1>2. PICK i \in 1..Len(order) : q = order[i] /\ \A k \in 1..(i - 1) : order[k] \in held[e]
  BY DEF IsNextRoute
<1>3. q \notin held[e] /\ pc[e] # "idle"
  BY DEF IsNextRoute
<1>4. Ordered(Rank, order)
  <2>1. (\E p \in Runs : order = Accounts[p]) \/ Len(order) = 1
    BY <1>3 DEF LockOrder, TypeOK, PayloadsNarrow
  <2> HIDE DEF order
  <2>2. CASE \E p \in Runs : order = Accounts[p]
    BY <2>2 DEF OneOrder
  <2>3. CASE Len(order) = 1
    BY <2>3 DEF Ordered
  <2> QED
    BY <2>1, <2>2, <2>3
<1>5. Len(order) \in Nat
  <2>1. order \in Seq(Routes)
    BY <1>3 DEF LockOrder, TypeOK, Log!CommandRow, Payload
  <2> QED
    BY <2>1
<1> HIDE DEF order
<1>6. j < i
  <2>1. CASE i = j
    BY <1>1, <1>2, <1>3, <2>1
  <2>2. CASE i < j
    <3>1. i \in 1..(j - 1)
      BY <1>5, <2>2
    <3> QED
      BY <1>1, <1>2, <1>3, <3>1
  <2> QED
    BY <1>5, <2>1, <2>2
<1> QED
  BY <1>1, <1>2, <1>4, <1>6 DEF Ordered

LEMMA OrderPreventsCircle ==
    ASSUME TypeOK, LocksFollowOrder, PayloadsNarrow, NEW Rank, OneOrder(Rank)
    PROVE  NoCircularWait
<1> SUFFICES ASSUME NEW S \in SUBSET Drains, S # {}, \A d \in S : \E e \in S : Awaits(d, e)
             PROVE  FALSE
  BY DEF NoCircularWait
<1> DEFINE Waited == {r \in Routes : \E d, e \in S : r \in held[e] /\ IsNextRoute(d, r)}
           Ranks  == {Rank[r] : r \in Waited}
<1>1. \A e \in S : held[e] \subseteq Routes
  BY DEF TypeOK
<1>2. Ranks \subseteq Nat /\ Ranks # {}
  <2>1. PICK d \in S : \E e \in S : Awaits(d, e)
    OBVIOUS
  <2>2. PICK e \in S : \E r \in held[e] : IsNextRoute(d, r)
    BY <2>1 DEF Awaits
  <2>3. Waited # {}
    BY <1>1, <2>2
  <2> QED
    BY <2>3 DEF OneOrder
<1>3. PICK m \in Ranks : \A n \in Ranks : ~(n < m)
  <2> HIDE DEF Ranks
  <2>1. PICK m \in Ranks : \A n \in Ranks : <<n, m>> \notin OpToRel(<, Nat)
    BY <1>2, NatLessThanWellFounded, WFMin
  <2> QED
    BY <1>2, <2>1 DEF OpToRel
<1>4. PICK r \in Waited : m = Rank[r]
  OBVIOUS
<1>5. PICK e \in S : r \in held[e]
  BY <1>4
<1>6. PICK f \in S : \E q \in held[f] : IsNextRoute(e, q)
  BY DEF Awaits
<1>7. PICK q \in held[f] : IsNextRoute(e, q)
  BY <1>6
<1>8. q \in Waited
  BY <1>1, <1>7
<1>9. Rank[q] < m
  BY <1>4, <1>5, <1>7, <1>8, WaitsAhead
<1> QED
  BY <1>3, <1>8, <1>9

\* Payloads that keep one order of their accounts never wait for each other's routes in
\* a circle, however many drains, routes and runs there are, and whoever dies or commits.
THEOREM NoDeadlock ==
    ASSUME NEW CONSTANT Rank, OneOrder(Rank)
    PROVE  Spec => []NoCircularWait
<1>1. Init => LocksFollowOrder /\ PayloadsNarrow
  BY NarrowInit DEF Init, LocksFollowOrder
<1>2. TypeOK /\ Inv /\ LocksFollowOrder /\ [Next]_vars => LocksFollowOrder'
  BY OrderInductive
<1>3. TypeOK /\ PayloadsNarrow /\ [Next]_vars => PayloadsNarrow'
  BY NarrowInductive
<1>4. TypeOK /\ LocksFollowOrder /\ PayloadsNarrow => NoCircularWait
  BY OrderPreventsCircle
<1> QED
  BY <1>1, <1>2, <1>3, <1>4, Invariant, PTL DEF Spec
=============================================================================
