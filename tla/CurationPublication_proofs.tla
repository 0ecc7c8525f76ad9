--------------------- MODULE CurationPublication_proofs ---------------------
(***************************************************************************)
(* Proofs about CurationPublication, for any nodes, drains and users.      *)
(***************************************************************************)
EXTENDS CurationPublication, TLAPS

Typed ==
    /\ document \in BOOLEAN
    /\ run \in Row
    /\ workspace \in {"none", "draft", "published"}
    /\ items \in [Nodes -> {"absent", "included", "excluded"}]
    /\ surface \in SUBSET Nodes
    /\ DOMAIN log \subseteq Keys
    /\ txn \in [Actors -> Txn]

\* Publishing the workspace, the publication and its entries is one transaction.
PublishedHasSurface ==
    document /\ workspace = "published" => publication /\ surface # {}

\* What a transaction read still holds, or does not matter, when it commits.
ReadsHold ==
    \A a \in Actors :
        /\ Is(a, "open") /\ txn[a].seen /\ document => workspace # "none"
        /\ Is(a, "embedding") => txn[a].nodes # {} /\ ~txn[a].seen
        /\ Is(a, "embedding") /\ document => workspace # "none"
        /\ Is(a, "replaying") /\ document => workspace = "published"
        /\ Is(a, "inserting") => txn[a].nodes = Nodes
        /\ txn[a].step \in {"pausing", "resuming"} => txn[a].loaded.status # "COMPLETED"

\* A missing item will be inserted by an open that is under way.
MissingIsInserted ==
    workspace # "none" /\ ~torn =>
        \A n \in Nodes : items[n] = "absent" =>
            \E u \in Users : Is(u, "filling") /\ n \in txn[u].nodes

\* Only requests fill workspaces.
DrainsDrain == \A d \in Drains : ~Is(d, "filling") /\ ~Is(d, "inserting")

Inv ==
    /\ Typed
    /\ PublishedHasSurface
    /\ ReadsHold
    /\ MissingIsInserted
    /\ DrainsDrain
    /\ ReviewHasWorkspace
    /\ CompletedIsPublished
    /\ DeletedIsNotRetrievable

-----------------------------------------------------------------------------
(* Types                                                                   *)

LEMMA IdleTyped == Idle \in Txn
BY DEF Idle, Txn, Steps, Row, NoRun

LEMMA RunTyped == NoRun \in Row
BY DEF NoRun, Row

\* The conjuncts of TypeOK that nothing else rests on.
Detailed ==
    /\ publication \in BOOLEAN
    /\ log \in [DOMAIN log -> Log!CommandRow({Run}, {{}})]
    /\ torn \in BOOLEAN

LogType(L) == L \in [DOMAIN L -> Log!CommandRow({Run}, {{}})]

\* Completing a command, appending another and deleting some keep the log a log.
LEMMA LogKept ==
    ASSUME NEW L, LogType(L)
    PROVE  /\ \A k : LogType(Log!Complete(L, k))
           /\ \A k : LogType(Log!Append(L, k, Run, {}))
           /\ \A K : LogType([k \in DOMAIN L \ K |-> L[k]])
BY DEF LogType, Log!Complete, Log!Append, Log!AppendEach, Log!CommandRow

\* The commands that are appended are commands.
LEMMA LogTyped ==
    ASSUME NEW L, DOMAIN L \subseteq Keys, NEW k \in Keys
    PROVE  /\ DOMAIN Log!Append(L, k, Run, {}) \subseteq Keys
           /\ \A j : DOMAIN Log!Complete(L, j) = DOMAIN L
BY DEF Log!Append, Log!AppendEach, Log!Complete

\* The steps of a drain keep the types.
LEMMA DrainTyped ==
    ASSUME Typed, NEW d \in Drains, Drain(d)
    PROVE  Typed'
<1> d \in Actors
  BY DEF Actors
<1> USE DEF Typed
<1>1. ASSUME NEW k \in Keys, Take(d, k) PROVE Typed'
  <2>1. [step |-> k, loaded |-> run, seen |-> Finds(k), nodes |-> {}, keys |-> {k}] \in Txn
    BY <1>1 DEF Keys, Txn, Steps, Finds
  <2> QED
    BY <2>1, <1>1 DEF Take, rows
<1>2. CASE Read(d)
  <2>1. [txn[d] EXCEPT !.step  = IF Replays THEN "replaying" ELSE "embedding",
                       !.seen  = workspace = "published",
                       !.nodes = IF Replays THEN {} ELSE Included] \in Txn
    BY DEF Txn, Steps, Included
  <2> QED
    BY <2>1, <1>2 DEF Read, ReadToPublish, rows
<1>3. CASE CommitReconcile(d)
  BY <1>3, IdleTyped, LogTyped DEF CommitReconcile, End, Log!Complete, Keys
<1>4. CASE CommitOpen(d)
  BY <1>4, IdleTyped DEF CommitOpen, Done, End, Log!Complete, Filled, Txn, Row, Statuses
<1>5. CASE CommitPublish(d)
  BY <1>5, IdleTyped DEF CommitPublish, Publish, Done, End, Log!Complete, Txn, Row, Statuses
<1>6. CASE Abort(d)
  BY <1>6, IdleTyped DEF Abort, End, rows
<1> QED
  BY <1>1, <1>2, <1>3, <1>4, <1>5, <1>6 DEF Drain, Commit

\* The steps of a request keep the types.
LEMMA RequestTyped ==
    ASSUME Typed, NEW u \in Users, Request(u)
    PROVE  Typed'
<1> u \in Actors
  BY DEF Actors
<1> USE DEF Typed
<1>1. CASE LoadToPause(u)
  <2>1. [Idle EXCEPT !.step = "pausing", !.loaded = run] \in Txn
    BY IdleTyped DEF Txn, Steps
  <2> QED
    BY <2>1, <1>1 DEF LoadToPause, Begin, rows
<1>2. CASE LoadToResume(u)
  <2>1. [Idle EXCEPT !.step = "resuming", !.loaded = run] \in Txn
    BY IdleTyped DEF Txn, Steps
  <2> QED
    BY <2>1, <1>2 DEF LoadToResume, Begin, rows
<1>3. CASE SaveRun(u)
  BY <1>3, IdleTyped DEF SaveRun, SavedStatus, End, Txn, Row, Statuses
<1>4. CASE ReadToOpen(u)
  <2>1. [Idle EXCEPT !.step = "inserting", !.nodes = Nodes] \in Txn
    BY IdleTyped DEF Txn, Steps
  <2> QED
    BY <2>1, <1>4 DEF ReadToOpen, Begin, rows
<1>5. CASE InsertWorkspace(u)
  <2>1. [txn[u] EXCEPT !.step = "filling"] \in Txn
    BY DEF Txn, Steps
  <2> QED
    BY <2>1, <1>5 DEF InsertWorkspace
<1>6. ASSUME NEW n \in Nodes, InsertItem(u, n) PROVE Typed'
  <2>1. [txn[u] EXCEPT !.nodes = @ \ {n}] \in Txn
    BY DEF Txn
  <2>2. txn' \in [Actors -> Txn]
    <3> DEFINE t == IF txn[u].nodes = {n} THEN Idle ELSE [txn[u] EXCEPT !.nodes = @ \ {n}]
    <3>1. t \in Txn
      BY <2>1, IdleTyped
    <3>2. txn' = [txn EXCEPT ![u] = t]
      BY <1>6 DEF InsertItem
    <3> HIDE DEF t
    <3> QED
      BY <3>1, <3>2
  <2>3. items' \in [Nodes -> {"absent", "included", "excluded"}]
    BY <1>6 DEF InsertItem
  <2> QED
    BY <2>2, <2>3, <1>6 DEF InsertItem
<1>7. ASSUME NEW n \in Nodes, NEW excluded \in BOOLEAN, SetExcluded(u, n, excluded) PROVE Typed'
  BY <1>7 DEF SetExcluded
<1>8. CASE RequestPublish(u)
  <2>1. [txn[u] EXCEPT !.step = "requested"] \in Txn
    BY DEF Txn, Steps
  <2> QED
    BY <2>1, <1>8, LogTyped DEF RequestPublish, Keys
<1>9. CASE DirectRead(u)
  <2>1. [txn[u] EXCEPT !.step  = IF Replays THEN "replaying" ELSE "embedding",
                       !.seen  = workspace = "published",
                       !.nodes = IF Replays THEN {} ELSE Included] \in Txn
    BY DEF Txn, Steps, Included
  <2> QED
    BY <2>1, <1>9 DEF DirectRead, ReadToPublish, rows
<1>10. CASE DirectCommit(u)
  BY <1>10, IdleTyped DEF DirectCommit, Publish, End, Txn
<1>11. CASE DeleteRows(u)
  <2>1. [Idle EXCEPT !.step = "deleting", !.seen = workspace # "none", !.nodes = surface] \in Txn
    BY IdleTyped DEF Txn, Steps
  <2> QED
    BY <2>1, <1>11 DEF DeleteRows, Begin, rows
<1>12. CASE DeleteCommands(u)
  <2>1. [txn[u] EXCEPT !.step = "waiting", !.keys = DOMAIN log] \in Txn
    BY DEF Txn, Steps
  <2> QED
    BY <2>1, <1>12 DEF DeleteCommands, rows
<1>13. CASE DeleteRest(u)
  BY <1>13, IdleTyped, RunTyped DEF DeleteRest, Cascaded, End
<1>14. CASE Die(u)
  BY <1>14, IdleTyped DEF Die, End, rows
<1> QED
  BY <1>1, <1>2, <1>3, <1>4, <1>5, <1>6, <1>7, <1>8, <1>9, <1>10, <1>11, <1>12, <1>13, <1>14
  DEF Request

\* The steps keep the rest of the types.
LEMMA DetailTyped ==
    ASSUME Detailed, [Next]_vars
    PROVE  Detailed'
<1> USE DEF Detailed
<1>0. LogType(log)
  BY DEF LogType
<1> DEFINE Completed  == \E k : log' = Log!Complete(log, k)
           Reconciled == \E k : log' = Log!Complete(Log!Append(log, "open", Run, {}), k)
           Requested  == log' = Log!Append(log, "publish", Run, {})
           Restricted == \E K : log' = [k \in DOMAIN log \ K |-> log[k]]
<1>1. /\ log' = log \/ Completed \/ Reconciled \/ Requested \/ Restricted
      /\ publication' = publication \/ publication' = TRUE
      /\ torn' = torn \/ \E u \in Users : torn' = (torn \/ Is(u, "filling"))
  <2>1. ASSUME NEW d \in Drains, Drain(d)
        PROVE  /\ log' = log \/ Completed \/ Reconciled
               /\ publication' = publication \/ publication' = TRUE
               /\ torn' = torn
    BY <2>1 DEF Drain, Commit, Take, Read, ReadToPublish, CommitReconcile, CommitOpen, CommitPublish, Publish,
                Done, Abort, rows
  <2>2. ASSUME NEW u \in Users, Request(u)
        PROVE  /\ log' = log \/ Requested \/ Restricted
               /\ publication' = publication \/ publication' = TRUE
               /\ torn' = torn \/ torn' = (torn \/ Is(u, "filling"))
    BY <2>2 DEF Request, LoadToPause, LoadToResume, SaveRun, ReadToOpen, InsertWorkspace, InsertItem, SetExcluded,
                RequestPublish, DirectRead, ReadToPublish, DirectCommit, Publish, DeleteRows, DeleteCommands,
                DeleteRest, Die, Begin, rows
  <2>3. CASE UNCHANGED vars
    BY <2>3 DEF vars, rows
  <2> QED
    BY <2>1, <2>2, <2>3 DEF Next
<1>2. LogType(log')
  <2>1. Completed => LogType(log')
    BY <1>0, LogKept
  <2>2. Reconciled => LogType(log')
    <3>1. LogType(Log!Append(log, "open", Run, {}))
      BY <1>0, LogKept
    <3> QED
      BY <3>1, LogKept
  <2>3. Requested => LogType(log')
    BY <1>0, LogKept
  <2>4. Restricted => LogType(log')
    BY <1>0, LogKept
  <2> HIDE DEF Completed, Reconciled, Requested, Restricted
  <2> QED
    BY <1>0, <1>1, <2>1, <2>2, <2>3, <2>4
<1>3. torn' \in BOOLEAN
  BY <1>1
<1> QED
  BY <1>1, <1>2, <1>3 DEF LogType

-----------------------------------------------------------------------------
(* The invariant                                                           *)

\* The parts of the invariant that are not types.
Related ==
    /\ PublishedHasSurface
    /\ ReadsHold
    /\ MissingIsInserted
    /\ DrainsDrain
    /\ ReviewHasWorkspace
    /\ CompletedIsPublished
    /\ DeletedIsNotRetrievable

\* Reading a workspace to publish it, in a drain or in a request.
LEMMA ReadKeeps ==
    ASSUME Inv, NEW a \in Actors, txn[a].step # "filling", ReadToPublish(a)
    PROVE  Related'
<1> USE DEF Inv, Typed, Related, Is, PublishedHasSurface, ReadsHold, MissingIsInserted, DrainsDrain,
            ReviewHasWorkspace, CompletedIsPublished, DeletedIsNotRetrievable
<1>1. /\ txn'[a].step = IF Replays THEN "replaying" ELSE "embedding"
      /\ txn'[a].seen = (workspace = "published")
      /\ txn'[a].nodes = IF Replays THEN {} ELSE Included
      /\ \A b \in Actors \ {a} : txn'[b] = txn[b]
  BY DEF ReadToPublish, Txn
<1>2. UNCHANGED <<rows, torn>> /\ Readable
  BY DEF ReadToPublish
<1>3. ReadsHold'
  <2>1. CASE Replays
    BY <1>1, <1>2, <2>1 DEF Replays, rows
  <2>2. CASE ~Replays
    <3>1. /\ txn'[a].step = "embedding" /\ txn'[a].nodes # {}
          /\ txn'[a].seen = FALSE /\ workspace # "none"
      BY <1>1, <1>2, <2>2 DEF Replays, Readable, Publishable
    <3> QED
      BY <1>1, <1>2, <3>1 DEF rows
  <2> QED
    BY <2>1, <2>2
<1>4. DrainsDrain'
  BY <1>1 DEF Actors
<1>5. \A u \in Users : txn[u].step = "filling" => txn'[u] = txn[u]
  BY <1>1 DEF Actors
<1>6. MissingIsInserted'
  BY <1>2, <1>5 DEF rows
<1> QED
  BY <1>2, <1>3, <1>4, <1>6 DEF rows

LEMMA DrainKeeps ==
    ASSUME Inv, NEW d \in Drains, Drain(d)
    PROVE  Related'
<1> d \in Actors /\ d \notin Users
  BY ActorsAssumption DEF Actors
<1> USE DEF Inv, Typed, Related, Is, PublishedHasSurface, ReadsHold, MissingIsInserted, DrainsDrain,
            ReviewHasWorkspace, CompletedIsPublished, DeletedIsNotRetrievable
<1>1. ASSUME NEW k \in Keys, Take(d, k) PROVE Related'
  <2>1. /\ txn'[d].step = k /\ txn'[d].seen = Finds(k)
        /\ \A b \in Actors \ {d} : txn'[b] = txn[b]
    BY <1>1 DEF Take
  <2>2. UNCHANGED <<rows, torn>>
    BY <1>1 DEF Take
  <2>3. ReadsHold' /\ DrainsDrain'
    BY <2>1, <2>2 DEF Finds, Keys, rows, Actors
  <2>4. MissingIsInserted'
    <3>1. \A u \in Users : txn'[u] = txn[u]
      BY <2>1 DEF Actors
    <3> QED
      BY <3>1, <2>2 DEF rows
  <2> QED
    BY <2>2, <2>3, <2>4 DEF rows
<1>2. CASE Read(d)
  BY <1>2, ReadKeeps DEF Read
<1>3. CASE CommitReconcile(d)
  BY <1>3 DEF CommitReconcile, End, Idle
<1>4. CASE CommitOpen(d)
  BY <1>4 DEF CommitOpen, Done, End, Idle, Filled
<1>5. CASE CommitPublish(d)
  BY <1>5 DEF CommitPublish, Publish, Done, End, Idle
<1>6. CASE Abort(d)
  BY <1>6 DEF Abort, End, Idle, rows
<1> QED
  BY <1>1, <1>2, <1>3, <1>4, <1>5, <1>6 DEF Drain, Commit

LEMMA RequestKeeps ==
    ASSUME Inv, NEW u \in Users, Request(u)
    PROVE  Related'
<1> u \in Actors /\ u \notin Drains
  BY ActorsAssumption DEF Actors
<1> USE DEF Inv, Typed, Related, Is, PublishedHasSurface, ReadsHold, MissingIsInserted, DrainsDrain,
            ReviewHasWorkspace, CompletedIsPublished, DeletedIsNotRetrievable
<1>1. CASE LoadToPause(u)
  BY <1>1 DEF LoadToPause, Pausable, Begin, Idle, rows
<1>2. CASE LoadToResume(u)
  BY <1>2 DEF LoadToResume, Begin, Idle, rows
<1>3. CASE SaveRun(u)
  BY <1>3 DEF SaveRun, SavedStatus, End, Idle
<1>4. CASE ReadToOpen(u)
  BY <1>4 DEF ReadToOpen, Begin, Idle, rows
<1>5. CASE InsertWorkspace(u)
  BY <1>5 DEF InsertWorkspace
<1>6. ASSUME NEW n \in Nodes, InsertItem(u, n) PROVE Related'
  BY <1>6 DEF InsertItem, Idle
<1>7. ASSUME NEW n \in Nodes, NEW excluded \in BOOLEAN, SetExcluded(u, n, excluded) PROVE Related'
  BY <1>7 DEF SetExcluded
<1>8. CASE RequestPublish(u)
  BY <1>8 DEF RequestPublish
<1>9. CASE DirectRead(u)
  BY <1>9, ReadKeeps DEF DirectRead
<1>10. CASE DirectCommit(u)
  BY <1>10 DEF DirectCommit, Publish, End, Idle
<1>11. CASE DeleteRows(u)
  BY <1>11 DEF DeleteRows, Begin, Idle, rows
<1>12. CASE DeleteCommands(u)
  <2>1. /\ txn'[u].step = "waiting"
        /\ \A b \in Actors \ {u} : txn'[b] = txn[b]
    BY <1>12 DEF DeleteCommands, Txn
  <2>2. UNCHANGED <<rows, torn>>
    BY <1>12 DEF DeleteCommands
  <2>3. \A v \in Users : txn[v].step = "filling" => txn'[v] = txn[v]
    BY <2>1, <1>12 DEF DeleteCommands, Actors
  <2>4. ReadsHold' /\ DrainsDrain'
    BY <2>1, <2>2 DEF rows, Actors
  <2> QED
    BY <2>2, <2>3, <2>4 DEF rows
<1>13. CASE DeleteRest(u)
  BY <1>13 DEF DeleteRest, Cascaded, End, Idle, NoRun
<1>14. CASE Die(u)
  <2>1. /\ txn'[u].step = "idle" /\ torn' = (torn \/ Is(u, "filling"))
        /\ \A b \in Actors \ {u} : txn'[b] = txn[b]
    BY <1>14 DEF Die, End, Idle
  <2>2. UNCHANGED rows
    BY <1>14 DEF Die
  <2>3. ReadsHold' /\ DrainsDrain'
    BY <2>1, <2>2 DEF rows, Actors
  <2>4. MissingIsInserted'
    <3>1. CASE Is(u, "filling")
      BY <3>1, <2>1
    <3>2. CASE ~Is(u, "filling")
      <4>1. \A v \in Users : txn[v].step = "filling" => txn'[v] = txn[v]
        BY <2>1, <3>2 DEF Actors
      <4>2. torn => torn'
        BY <2>1, <3>2
      <4> QED
        BY <4>1, <4>2, <2>2 DEF rows
    <3> QED
      BY <3>1, <3>2
  <2> QED
    BY <2>2, <2>3, <2>4 DEF rows
<1> QED
  BY <1>1, <1>2, <1>3, <1>4, <1>5, <1>6, <1>7, <1>8, <1>9, <1>10, <1>11, <1>12, <1>13, <1>14
  DEF Request

-----------------------------------------------------------------------------
(* Theorems                                                                *)

LEMMA Initially == Init => Inv
<1> SUFFICES ASSUME Init PROVE Inv
  OBVIOUS
<1>1. Typed
  BY IdleTyped DEF Init, Typed, Row, Statuses, Keys
<1>2. \A a \in Actors : txn[a].step = "idle"
  BY DEF Init, Idle
<1> QED
  BY <1>1, <1>2 DEF Init, Inv, PublishedHasSurface, ReadsHold, MissingIsInserted, DrainsDrain, Is, Actors,
                    ReviewHasWorkspace, CompletedIsPublished, DeletedIsNotRetrievable

LEMMA Inductive == Inv /\ [Next]_vars => Inv'
<1> SUFFICES ASSUME Inv, [Next]_vars PROVE Inv'
  OBVIOUS
<1>1. CASE Next
  <2>1. Typed' /\ Related'
    BY <1>1, DrainTyped, DrainKeeps, RequestTyped, RequestKeeps DEF Next, Inv
  <2> QED
    BY <2>1 DEF Inv, Related
<1>2. CASE UNCHANGED vars
  BY <1>2 DEF vars, rows, Inv, Typed, PublishedHasSurface, ReadsHold, MissingIsInserted, DrainsDrain, Is,
              ReviewHasWorkspace, CompletedIsPublished, DeletedIsNotRetrievable
<1> QED
  BY <1>1, <1>2

\* What transactions have read agrees with the rows, in every reachable state.
THEOREM Invariant == Spec => []Inv
BY Initially, Inductive, PTL DEF Spec

\* Every row, transaction and request stays well formed, the status that a pause
\* stores and the rows that OPEN writes back included.
THEOREM TypeCorrect == Spec => []TypeOK
<1>1. Init => Detailed
  <2>1. [run |-> Run, done |-> FALSE, payload |-> {}] \in Log!CommandRow({Run}, {{}})
    BY DEF Log!CommandRow
  <2> QED
    BY <2>1 DEF Init, Detailed
<1>2. Detailed /\ [Next]_vars => Detailed'
  BY DetailTyped
<1>3. Inv /\ Detailed => TypeOK
  BY DEF Inv, Typed, Detailed, TypeOK
<1> QED
  BY <1>1, <1>2, <1>3, Invariant, PTL DEF Spec

\* A run that waits for review has a workspace, whatever OPEN read.
THEOREM ReviewableHasWorkspace == Spec => []ReviewHasWorkspace
<1>1. Inv => ReviewHasWorkspace
  BY DEF Inv
<1> QED
  BY <1>1, Invariant, PTL

\* A run is only completed with a published workspace and something to retrieve,
\* also when PUBLISH found the publication of a request and replayed it.
THEOREM CompletionFollowsPublication == Spec => []CompletedIsPublished
<1>1. Inv => CompletedIsPublished
  BY DEF Inv
<1> QED
  BY <1>1, Invariant, PTL

\* Only an HTTP open that ends half-way leaves a workspace without some of its items.
THEOREM WorkspacesAreComplete == Spec => []WorkspaceIsComplete
<1>1. Inv => WorkspaceIsComplete
  BY DEF Inv, Typed, MissingIsInserted, WorkspaceIsComplete
<1> QED
  BY <1>1, Invariant, PTL

\* No publication survives the deletion of its document on the retrieval surface.
THEOREM DeletedCannotBeRetrieved == Spec => []DeletedIsNotRetrievable
<1>1. Inv => DeletedIsNotRetrievable
  BY DEF Inv
<1> QED
  BY <1>1, Invariant, PTL

\* Which steps write the surface.
LEMMA SurfaceWriters ==
    ASSUME Inv, Next, document', surface' # surface
    PROVE  \E a \in Actors : /\ Is(a, "embedding") /\ ~txn[a].seen
                           /\ surface' = surface \cup txn[a].nodes
<1>1. ASSUME NEW d \in Drains, Drain(d)
      PROVE  Is(d, "embedding") /\ Publish(d)
  BY <1>1 DEF Drain, Commit, Take, CommitReconcile, CommitOpen, Read, ReadToPublish, CommitPublish, Abort, rows
<1>2. ASSUME NEW u \in Users, Request(u)
      PROVE  Is(u, "embedding") /\ Publish(u)
  BY <1>2 DEF Request, LoadToPause, LoadToResume, SaveRun, ReadToOpen, InsertWorkspace, InsertItem, SetExcluded,
              RequestPublish, DirectRead, ReadToPublish, DirectCommit, DeleteRows, DeleteCommands, DeleteRest,
              Die, Begin, rows
<1>3. PICK a \in Actors : Is(a, "embedding") /\ Publish(a)
  BY <1>1, <1>2 DEF Next, Actors
<1> QED
  BY <1>3 DEF Inv, ReadsHold, Publish

\* A publication that another one has overtaken only adds what it read as a draft.
THEOREM PublishedStays == Spec => PublishedSurfaceIsFinal
<1>1. Inv /\ [Next]_vars =>
        [ workspace = "published" /\ document' =>
            \/ surface' = surface
            \/ \E a \in Actors : /\ Is(a, "embedding") /\ ~txn[a].seen
                                /\ surface' = surface \cup txn[a].nodes ]_vars
  BY SurfaceWriters
<1> QED
  BY <1>1, Invariant, PTL DEF Spec, PublishedSurfaceIsFinal

\* Which steps write the run.
LEMMA RunWriters ==
    ASSUME Inv, Next, run.status = "COMPLETED", run'.status # "COMPLETED"
    PROVE  \/ run'.status = "absent"
           \/ run'.status = "WAITING_FOR_REVIEW" /\ \E d \in Drains : Is(d, "open")
           \/ \E u \in Users : /\ txn[u].step \in {"pausing", "resuming"}
                               /\ txn[u].loaded.status # "COMPLETED"
<1>1. ASSUME NEW d \in Drains, Drain(d)
      PROVE  run'.status = "WAITING_FOR_REVIEW" /\ Is(d, "open")
  <2>1. CASE CommitOpen(d)
    <3>1. txn[d].loaded \in Row
      BY DEF Inv, Typed, Txn, Actors
    <3> QED
      BY <2>1, <3>1 DEF CommitOpen, Row
  <2> QED
    BY <1>1, <2>1 DEF Drain, Commit, Take, CommitReconcile, Read, ReadToPublish, CommitPublish, Abort, rows
<1>2. ASSUME NEW u \in Users, Request(u)
      PROVE  run'.status = "absent" \/ txn[u].step \in {"pausing", "resuming"}
  <2>1. CASE DeleteRest(u)
    BY <2>1 DEF DeleteRest, NoRun
  <2>2. CASE SaveRun(u)
    BY <2>2 DEF SaveRun
  <2> QED
    BY <1>2, <2>1, <2>2
    DEF Request, LoadToPause, LoadToResume, ReadToOpen, InsertWorkspace, InsertItem, SetExcluded,
        RequestPublish, DirectRead, ReadToPublish, DirectCommit, DeleteRows, DeleteCommands, Die, Begin, rows
<1>3. \A u \in Users : txn[u].step \in {"pausing", "resuming"} => txn[u].loaded.status # "COMPLETED"
  BY DEF Inv, ReadsHold, Actors
<1> QED
  BY <1>1, <1>2, <1>3 DEF Next

\* What takes back a completion read the run before it was completed.
THEOREM CompletionStays == Spec => CompletedIsKept
<1>1. Inv /\ [Next]_vars =>
        [ run.status = "COMPLETED" /\ run'.status # "COMPLETED" =>
            \/ run'.status = "absent"
            \/ run'.status = "WAITING_FOR_REVIEW" /\ \E d \in Drains : Is(d, "open")
            \/ \E u \in Users : /\ txn[u].step \in {"pausing", "resuming"}
                                /\ txn[u].loaded.status # "COMPLETED" ]_vars
  BY RunWriters
<1> QED
  BY <1>1, Invariant, PTL DEF Spec, CompletedIsKept
=============================================================================
