-------------------------- MODULE RouteRows_proofs --------------------------
(***************************************************************************)
(* What the rows of the Route table hold at every moment, and the copies   *)
(* of them that workers save: the invariant RowInv, and the properties     *)
(* PathsMatchMesh, QueuedRowTakesNotes and CalculatedIsComplete.           *)
(***************************************************************************)
EXTENDS RouteJobs_proofs

\* A row that no planner has succeeded on: no paths, no timestamp, no error.
Untried(row) ==
    /\ row.json_unsmoothed = None /\ row.json = None
    /\ ~row.calculated /\ row.info # "error"

\* The paths of a row were computed on its mesh, and the timestamp comes with
\* both kinds of path.
Coherent(row) ==
    /\ row.json_unsmoothed # None => row.mesh \in {row.json_unsmoothed, None}
    /\ row.json # None => row.json = row.json_unsmoothed
    /\ row.calculated => row.json # None /\ row.json_unsmoothed # None

Sound(row) ==
    "database" \notin Events /\ row.calculated => row.info # "error"

Blank == \A r \in Routes : ~Exists(r) => route[r].row = NoRow

StoredRows ==
    \A r \in Routes : Exists(r) => Coherent(route[r].row) /\ Sound(route[r].row)

KnownMeshes ==
    \A r \in Routes :
        route[r].row.mesh # None => mesh[route[r].row.mesh] # "unborn"

\* Until a worker takes its task, the row of a route is untried.
WaitingRows ==
    /\ \A p \in Posts :
         LET r == post[p].route
         IN  post[p].pc = "send" /\ Exists(r) => Untried(route[r].row)
    /\ \A t \in queue :
         LET r == args[t].route
         IN  Exists(r) => Untried(route[r].row)

\* The copy that a worker may still save, at each point of the task.  When
\* the last save of a calculated copy was refused although the database is
\* sound, the mesh of the copy is gone, so that its error is not saved either.
CopyOK(w) ==
    LET row == worker[w].row
        r == RouteOf(w)
        pc == worker[w].pc
    IN  /\ pc \in WritingPc =>
             row.mesh \in Meshes /\ mesh[row.mesh] # "unborn" /\ row.info # "error"
        /\ pc \in {"plan", "retry", "resend"} => Untried(row)
        /\ pc = "smooth" =>
             /\ row.json_unsmoothed = row.mesh
             /\ row.json = None /\ ~row.calculated
        /\ pc \in {"failed", "error"} =>
             /\ Coherent(row)
             /\ "database" \notin Events /\ row.calculated =>
                   mesh[row.mesh] = "deleted"
        /\ pc = "failed" /\ worker[w].error = "inaccessible" => Untried(row)
        /\ pc = "resend" /\ Exists(r) => Untried(route[r].row)

Copies == \A w \in Workers : CopyOK(w)

RowInv == Blank /\ StoredRows /\ KnownMeshes /\ WaitingRows /\ Copies

----------------------------------------------------------------------------
(* Steps and the facts about rows that they keep *)

LEMMA RowInvInit == Init => RowInv
<1> SUFFICES ASSUME Init PROVE RowInv
  OBVIOUS
<1>1. \A r \in Routes : ~Exists(r) /\ route[r].row = NoRow
  BY DEF Init, Exists
<1>2. \A p \in Posts : post[p].pc = "ready"
  BY DEF Init, IdlePost
<1>3. \A w \in Workers : worker[w].pc = "idle"
  BY DEF Init, IdleWorker
<1>4. queue = {}
  BY DEF Init
<1>5. \A r \in Routes : route[r].row.mesh = None
  BY <1>1 DEF NoRow
<1> QED
  BY <1>1, <1>2, <1>3, <1>4, <1>5
     DEF RowInv, Blank, StoredRows, KnownMeshes, WaitingRows, Copies,
         CopyOK, WritingPc

\* A row that loses its mesh keeps what is said of it.
LEMMA DroppedMesh ==
    ASSUME NEW row \in Row, NEW dropped, dropped = [row EXCEPT !.mesh = None]
    PROVE  /\ Untried(row) => Untried(dropped)
           /\ Coherent(row) => Coherent(dropped)
           /\ Sound(row) => Sound(dropped)
BY DEF Row, Untried, Coherent, Sound

\* What requests, clean-ups and imports may do to a route: nothing, delete it,
\* or take its mesh away.
Shrinks ==
    \A r \in Routes :
        \/ route'[r] = route[r]
        \/ route'[r] = [state |-> "deleted", row |-> NoRow]
        \/ Exists(r) /\ route'[r] = [route[r] EXCEPT !.row.mesh = None]

\* Meshes are not unborn again, and deleted for good.
MeshesAge ==
    \A m \in Meshes : /\ mesh[m] # "unborn" => mesh'[m] # "unborn"
                      /\ mesh[m] = "deleted" => mesh'[m] = "deleted"

LEMMA ShrinkingRows ==
    ASSUME TypeInv, Shrinks, Blank, StoredRows
    PROVE  /\ Blank' /\ StoredRows'
           /\ \A r \in Routes : (Exists(r) => Untried(route[r].row))
                                  => (Exists(r) => Untried(route[r].row))'
<1> SUFFICES ASSUME NEW r \in Routes
             PROVE  /\ (~Exists(r) => route[r].row = NoRow)'
                    /\ (Exists(r) => Coherent(route[r].row) /\ Sound(route[r].row))'
                    /\ (Exists(r) => Untried(route[r].row))
                         => (Exists(r) => Untried(route[r].row))'
  BY DEF Blank, StoredRows
<1>0. route[r] \in RouteRow /\ route[r].row \in Row
  BY DEF TypeInv, TypeOK, RouteRow
<1>1. CASE route'[r] = route[r]
  BY <1>1 DEF Blank, StoredRows, Exists, Coherent, Sound, Untried
<1>2. CASE route'[r] = [state |-> "deleted", row |-> NoRow]
  BY <1>2 DEF Exists
<1>3. CASE Exists(r) /\ route'[r] = [route[r] EXCEPT !.row.mesh = None]
  <2> DEFINE dropped == [route[r].row EXCEPT !.mesh = None]
  <2>1. route'[r].state = "stored" /\ route'[r].row = dropped
    BY <1>0, <1>3 DEF RouteRow, Exists
  <2>2. /\ Untried(route[r].row) => Untried(dropped)
        /\ Coherent(route[r].row) => Coherent(dropped)
        /\ Sound(route[r].row) => Sound(dropped)
    BY <1>0, DroppedMesh
  <2> HIDE DEF dropped
  <2> QED
    BY <1>3, <2>1, <2>2 DEF StoredRows, Exists, Coherent, Sound, Untried
<1> QED
  BY <1>1, <1>2, <1>3 DEF Shrinks

\* Steps of anybody but the workers keep the invariant, if they make nobody
\* a writer.
LEMMA RowsShrink ==
    ASSUME Inv, RowInv, TypeInv', Shrinks, MeshesAge,
           UNCHANGED <<args, queue, worker>>,
           \A p \in Posts : post'[p].pc = "send" =>
              post[p].pc = "send" /\ post'[p].route = post[p].route
    PROVE  RowInv'
<1>0. TypeInv /\ Blank /\ StoredRows
  BY DEF Inv, RowInv
<1>1. /\ Blank' /\ StoredRows'
      /\ \A r \in Routes : (Exists(r) => Untried(route[r].row))
                             => (Exists(r) => Untried(route[r].row))'
  BY <1>0, ShrinkingRows
<1>a. KnownMeshes'
  <2> SUFFICES ASSUME NEW r \in Routes, route'[r].row.mesh # None
               PROVE  mesh'[route'[r].row.mesh] # "unborn"
    BY DEF KnownMeshes
  <2>1. route[r] \in RouteRow /\ route[r].row \in Row
    BY <1>0 DEF TypeInv, TypeOK, RouteRow
  <2>2. route'[r] = route[r]
    <3>1. [state |-> "deleted", row |-> NoRow].row.mesh = None
      BY DEF NoRow
    <3>2. [route[r] EXCEPT !.row.mesh = None].row.mesh = None
      BY <2>1 DEF RouteRow, Row
    <3> QED
      BY <3>1, <3>2 DEF Shrinks
  <2>3. route[r].row.mesh \in Meshes
    BY <2>1, <2>2 DEF Row
  <2> QED
    BY <2>2, <2>3 DEF RowInv, KnownMeshes, MeshesAge
<1>2. WaitingRows'
  BY <1>0, <1>1 DEF RowInv, WaitingRows, TypeInv, PostWF, QueueWF
<1>3. Copies'
  <2> SUFFICES ASSUME NEW w \in Workers PROVE CopyOK(w)'
    BY DEF Copies
  <2>1. CopyOK(w) /\ (worker[w].pc = "resend" => RouteOf(w) \in Routes)
    BY <1>0 DEF RowInv, Copies, TypeInv, WorkerWF
  <2>2. RouteOf(w)' = RouteOf(w)
    BY DEF RouteOf
  <2>3. worker[w].pc = "resend" /\ (Exists(RouteOf(w)))' =>
          Untried(route[RouteOf(w)].row)'
    BY <1>1, <2>1, <2>2 DEF CopyOK
  <2>4. worker[w].pc \in WritingPc =>
          /\ mesh'[worker[w].row.mesh] # "unborn"
          /\ mesh[worker[w].row.mesh] = "deleted" =>
                mesh'[worker[w].row.mesh] = "deleted"
    BY <2>1 DEF CopyOK, MeshesAge
  <2> QED
    BY <2>1, <2>2, <2>3, <2>4 DEF CopyOK, WritingPc, Untried, Coherent
<1> QED
  BY <1>1, <1>a, <1>2, <1>3 DEF RowInv

\* A worker that saves nothing keeps it, if its next copy is as it should be.
LEMMA RowsQuiet ==
    ASSUME Inv, RowInv, TypeInv', NEW w \in Workers,
           UNCHANGED <<mesh, route, args, post>>, queue' \subseteq queue,
           \A v \in Workers : v # w => worker'[v] = worker[v],
           CopyOK(w)'
    PROVE  RowInv'
<1>1. Blank' /\ StoredRows' /\ KnownMeshes' /\ WaitingRows'
  BY DEF RowInv, Blank, StoredRows, KnownMeshes, WaitingRows, Exists, Coherent, Sound,
         Untried
<1>2. ASSUME NEW v \in Workers, v # w PROVE CopyOK(v)'
  <2>1. worker'[v] = worker[v] /\ RouteOf(v)' = RouteOf(v)
    BY <1>2 DEF RouteOf
  <2>2. CopyOK(v)
    BY DEF RowInv, Copies
  <2> QED
    BY <2>1, <2>2 DEF CopyOK, Exists, Coherent, Untried
<1> QED
  BY <1>1, <1>2 DEF RowInv, Copies

\* A worker that saves its copy keeps it: nobody else waits for that row.
LEMMA RowsSaved ==
    ASSUME Inv, RowInv, TypeInv', NEW w \in Workers, NEW row,
           worker[w].pc \in WritingPc, Save(RouteOf(w), row),
           Coherent(row), Sound(row),
           UNCHANGED <<mesh, args, queue, post>>,
           \A v \in Workers : v # w => worker'[v] = worker[v],
           CopyOK(w)'
    PROVE  RowInv'
<1> DEFINE r == RouteOf(w)
<1>0. TypeInv /\ r \in Routes
  BY DEF Inv, TypeInv, WorkerWF, WritingPc
<1>1. /\ route'[r].state = "stored" /\ route'[r].row = row
      /\ \A q \in Routes : q # r => route'[q] = route[q]
  BY <1>0, SaveEffect DEF TypeInv
<1>2. Blank' /\ StoredRows' /\ KnownMeshes'
  BY <1>1 DEF RowInv, Blank, StoredRows, KnownMeshes, Exists, Coherent, Sound,
              Save, ForeignKeyHolds, Live
<1>3. WaitingRows'
  <2>1. \A p \in Posts : post[p].pc = "send" =>
          post[p].route # r /\ post[p].route \in Routes
    BY <1>0 DEF Inv, Exclusive, TypeInv, PostWF
  <2>2. \A t \in queue : args[t].route # r /\ args[t].route \in Routes
    BY <1>0 DEF Inv, Exclusive, TypeInv, QueueWF
  <2> QED
    BY <1>1, <2>1, <2>2 DEF RowInv, WaitingRows, Exists, Untried
<1>4. ASSUME NEW v \in Workers, v # w PROVE CopyOK(v)'
  <2>1. worker'[v] = worker[v] /\ RouteOf(v)' = RouteOf(v)
    BY <1>4 DEF RouteOf
  <2>2. worker[v].pc = "resend" => RouteOf(v) # r /\ RouteOf(v) \in Routes
    BY <1>0, <1>4 DEF Inv, Exclusive, TypeInv, WorkerWF, WritingPc
  <2>3. CopyOK(v)
    BY DEF RowInv, Copies
  <2> QED
    BY <1>1, <2>1, <2>2, <2>3 DEF CopyOK, Exists, Coherent, Untried
<1> QED
  BY <1>2, <1>3, <1>4 DEF RowInv, Copies

----------------------------------------------------------------------------
(* The steps one by one *)

LEMMA UntriedRow ==
    ASSUME NEW trip, NEW m
    PROVE  LET row == [NoRow EXCEPT !.trip = trip, !.mesh = m]
           IN  Untried(row) /\ Coherent(row) /\ Sound(row) /\ row.mesh = m
BY DEF NoRow, Untried, Coherent, Sound

LEMMA PostCreateRows ==
    ASSUME Inv, RowInv, TypeInv', NEW p \in Posts, PostCreate(p)
    PROVE  RowInv'
<1> USE DEF tables, celery
<1> DEFINE row == [NoRow EXCEPT !.trip = post[p].body.trip,
                                !.mesh = Head(post[p].meshes)]
<1>0. TypeInv /\ TypeOK /\ UNCHANGED <<mesh, args, queue, worker>>
  BY DEF Inv, TypeInv, PostCreate
<1>1. Untried(row) /\ Coherent(row) /\ Sound(row)
  BY UntriedRow
<1> HIDE DEF row
<1>2. ASSUME NEW r \in Routes, route[r].state = "unborn", Save(r, row),
             post' = [post EXCEPT ![p].pc = "send", ![p].route = r]
      PROVE  RowInv'
  <2>1. /\ route'[r].state = "stored" /\ route'[r].row = row
        /\ \A q \in Routes : q # r => route'[q] = route[q]
    BY <1>0, <1>2, SaveEffect
  <2>2. /\ post'[p].pc = "send" /\ post'[p].route = r
        /\ \A q \in Posts : q # p => post'[q] = post[q]
    BY <1>0, <1>2 DEF TypeOK, PostState
  <2>3. Blank' /\ StoredRows' /\ KnownMeshes'
    BY <1>0, <1>1, <1>2, <2>1
       DEF RowInv, Blank, StoredRows, KnownMeshes, Exists, Coherent, Sound,
           Save, ForeignKeyHolds, Live
  <2>4. WaitingRows'
    <3>1. \A q \in Posts : q # p /\ post[q].pc = "send" =>
            post[q].route \in Routes /\ post[q].route # r
      BY <1>0, <1>2 DEF Inv, Born, TypeInv, PostWF
    <3>2. \A t \in queue : args[t].route \in Routes /\ args[t].route # r
      BY <1>0, <1>2, NoneAssumption DEF Inv, Born, TypeInv, TypeOK, QueueWF
    <3> QED
      BY <1>0, <1>1, <2>1, <2>2, <3>1, <3>2
         DEF RowInv, WaitingRows, Exists, Untried
  <2>5. ASSUME NEW w \in Workers PROVE CopyOK(w)'
    <3>1. worker[w].pc = "resend" => RouteOf(w) \in Routes /\ RouteOf(w) # r
      BY <1>0, <1>2, NoneAssumption DEF Inv, Born, TypeInv, WorkerWF, RouteOf
    <3>2. RouteOf(w)' = RouteOf(w) /\ CopyOK(w)
      BY <1>0 DEF RouteOf, RowInv, Copies
    <3> QED
      BY <1>0, <2>1, <3>1, <3>2 DEF CopyOK, Exists, Coherent, Untried
  <2> QED
    BY <2>3, <2>4, <2>5 DEF RowInv, Copies
<1>3. ASSUME SaveFails(row), Answer(p, 500, None)
      PROVE  RowInv'
  <2>1. post'[p].pc = "done" /\ \A q \in Posts : q # p => post'[q] = post[q]
    BY <1>0, <1>3, AnswerType DEF Code
  <2> QED
    BY <1>0, <1>3, <2>1, RowsShrink DEF SaveFails, Shrinks, MeshesAge
<1> QED
  BY <1>2, <1>3 DEF PostCreate, row

\* The row of a task that is sent is untried, and stays for it alone.
LEMMA SentRows ==
    ASSUME Inv, RowInv, TypeInv', NEW t \in Tasks, NEW r \in Routes,
           Fresh(t), args'[t].route = r, queue' = queue \cup {t},
           \A u \in Tasks : u # t => args'[u] = args[u],
           Exists(r) => Untried(route[r].row),
           UNCHANGED <<mesh, route>>,
           \A p \in Posts : post'[p].pc = "send" =>
              post[p].pc = "send" /\ post'[p].route = post[p].route,
           \A w \in Workers : \/ worker'[w] = worker[w]
                              \/ worker'[w].pc \notin WritingPc
    PROVE  RowInv'
<1>0. TypeInv /\ \A u \in queue : u \in Tasks /\ u # t
  BY NoneAssumption DEF Inv, TypeInv, TypeOK, QueueWF, Fresh
<1>1. Blank' /\ StoredRows' /\ KnownMeshes'
  BY DEF RowInv, Blank, StoredRows, KnownMeshes, Exists, Coherent, Sound
<1>2. WaitingRows'
  BY <1>0 DEF RowInv, WaitingRows, Exists, Untried
<1>3. ASSUME NEW w \in Workers PROVE CopyOK(w)'
  <2>1. CASE worker'[w].pc \notin WritingPc
    BY <2>1 DEF CopyOK, WritingPc
  <2>2. CASE worker'[w].pc \in WritingPc
    <3>1. worker'[w] = worker[w] /\ CopyOK(w)
      BY <2>2 DEF RowInv, Copies
    <3>2. worker[w].pc # "idle"
      BY <2>2, <3>1 DEF WritingPc
    <3>3. worker[w].task \in Tasks /\ worker[w].task # t
      BY <1>0, <3>2, HeldIsSent DEF TypeInv, WorkerWF, Fresh
    <3>4. RouteOf(w)' = RouteOf(w)
      BY <3>1, <3>3 DEF RouteOf
    <3> QED
      BY <3>1, <3>4 DEF CopyOK, Exists, Coherent, Untried
  <2> QED
    BY <2>1, <2>2
<1> QED
  BY <1>1, <1>2, <1>3 DEF RowInv, Copies

LEMMA PostSendRows ==
    ASSUME Inv, RowInv, TypeInv', NEW p \in Posts, PostSend(p)
    PROVE  RowInv'
<1> USE DEF tables, celery
<1> DEFINE backups == AllButFirst(post[p].meshes)
<1>0. /\ TypeInv /\ UNCHANGED <<mesh, route, worker>>
      /\ post[p] \in PostState /\ post[p].pc = "send"
      /\ post[p].route \in Routes /\ backups \in Seq(Meshes)
  BY TailType DEF PostSend, Inv, TypeInv, TypeOK, PostWF, PostState
<1>1. Exists(post[p].route) => Untried(route[post[p].route].row)
  BY <1>0 DEF RowInv, WaitingRows
<1> HIDE DEF backups
<1>2. ASSUME NEW t \in Tasks, Delay(t, post[p].route, backups),
             post' = [post EXCEPT ![p].pc = "record", ![p].task = t]
      PROVE  RowInv'
  <2>1. /\ queue' = queue \cup {t}
        /\ args[t].route = None /\ args'[t].route = post[p].route
        /\ \A u \in Tasks : u # t => args'[u] = args[u]
    BY <1>0, <1>2, DelayType
  <2>2. /\ post'[p].pc = "record"
        /\ \A q \in Posts : q # p => post'[q] = post[q]
    BY <1>0, <1>2 DEF TypeInv, TypeOK, PostState
  <2> QED
    BY <1>0, <1>1, <2>1, <2>2, SentRows DEF Fresh
<1>3. ASSUME Answer(p, 500, None), UNCHANGED <<args, queue>>
      PROVE  RowInv'
  <2>1. post'[p].pc = "done" /\ \A q \in Posts : q # p => post'[q] = post[q]
    BY <1>0, <1>3, AnswerType DEF Code
  <2> QED
    BY <1>0, <1>3, <2>1, RowsShrink DEF Shrinks, MeshesAge
<1> QED
  BY <1>2, <1>3 DEF PostSend, backups

LEMMA PostRows ==
    ASSUME Inv, RowInv, NEW p \in Posts,
           PostSelect(p) \/ PostStep(p) \/ PostCrash(p)
    PROVE  RowInv'
<1>0. TypeInv /\ TypeInv'
  BY PostType DEF Inv
<1>1. CASE \/ PostSelect(p) \/ PostLookup(p) \/ PostReuse(p) \/ PostRecord(p)
           \/ PostCrash(p)
  BY <1>0, <1>1, PostMoves, RowsShrink DEF Shrinks, MeshesAge
<1> QED
  BY <1>0, <1>1, PostCreateRows, PostSendRows DEF PostStep

LEMMA CancelRows ==
    ASSUME Inv, RowInv, NEW c \in Cancels,
           CancelFind(c) \/ CancelStep(c) \/ CancelCrash(c)
    PROVE  RowInv'
<1> USE DEF tables, celery
<1>0. TypeInv' /\ TypeInv
  BY CancelType DEF Inv
<1>1. UNCHANGED <<mesh, args, queue, post, worker>>
  BY DEF CancelFind, CancelStep, CancelRevoke, CancelDelete, CancelCrash
<1>2. Shrinks
  <2>1. CASE CancelDelete(c)
    BY <1>0, <2>1 DEF CancelDelete, DeleteRoute, Shrinks, TypeInv, TypeOK
  <2>2. CASE ~CancelDelete(c)
    BY <2>2 DEF CancelFind, CancelStep, CancelRevoke, CancelCrash, Shrinks
  <2> QED
    BY <2>1, <2>2
<1> QED
  BY <1>0, <1>1, <1>2, RowsShrink DEF MeshesAge

LEMMA EnvironmentRows ==
    ASSUME Inv, RowInv,
           \/ \E m \in Meshes : ImportMesh(m) \/ CleanupMesh(m)
           \/ \E r \in Routes : CleanupRoute(r)
           \/ \E t \in Tasks : ResultExpires(t)
    PROVE  RowInv'
<1> USE DEF tables, celery, web
<1>0. TypeInv' /\ TypeInv /\ TypeOK
  BY EnvironmentType DEF Inv, TypeInv
<1>1. UNCHANGED <<args, queue, post, worker>>
  BY DEF ImportMesh, CleanupMesh, CleanupRoute, ResultExpires
<1>2. MeshesAge
  BY <1>0 DEF ImportMesh, CleanupMesh, CleanupRoute, ResultExpires, MeshesAge,
              TypeOK, Live
<1>3. Shrinks
  <2>1. ASSUME NEW m \in Meshes, CleanupMesh(m) PROVE Shrinks
    <3> SUFFICES ASSUME NEW r \in Routes, route[r].row.mesh = m
                 PROVE  Exists(r)
      BY <2>1 DEF CleanupMesh, Shrinks
    <3> QED
      BY NoneAssumption DEF RowInv, Blank, NoRow
  <2>2. ASSUME NEW r \in Routes, CleanupRoute(r) PROVE Shrinks
    BY <1>0, <2>2 DEF CleanupRoute, DeleteRoute, Shrinks, TypeOK
  <2> QED
    BY <2>1, <2>2 DEF ImportMesh, ResultExpires, Shrinks
<1> QED
  BY <1>0, <1>1, <1>2, <1>3, RowsShrink

\* What the continuations of a worker do to its copy.
LEMMA GotoCopy ==
    ASSUME TypeOK, NEW w \in Workers, NEW pc, Goto(w, pc)
    PROVE  worker'[w].row = worker[w].row /\ worker'[w].error = worker[w].error
BY DEF TypeOK, WorkerState, Goto

LEMMA GotoWithCopy ==
    ASSUME TypeOK, NEW w \in Workers, NEW pc, NEW row, NEW error,
           GotoWith(w, pc, row, error)
    PROVE  worker'[w].row = row /\ worker'[w].error = error
BY DEF TypeOK, WorkerState, GotoWith

LEMMA TakeRows ==
    ASSUME Inv, RowInv, TypeInv', NEW w \in Workers, Take(w)
    PROVE  RowInv'
<1> USE DEF tables, web
<1>0. TypeInv /\ TypeOK /\ UNCHANGED <<mesh, route, args, post>>
  BY DEF Inv, TypeInv, Take
<1>1. PICK t \in queue :
        /\ queue' = queue \ {t}
        /\ \/ /\ Exists(args[t].route)
              /\ route[args[t].route].row.mesh # None
              /\ \E info \in {route[args[t].route].row.info, "note"} :
                   worker' = [worker EXCEPT ![w] =
                     [[IdleWorker EXCEPT !.task = t] EXCEPT !.pc = "plan",
                        !.row = [route[args[t].route].row EXCEPT !.info = info]]]
           \/ worker' = [worker EXCEPT ![w] =
                [[IdleWorker EXCEPT !.task = t] EXCEPT !.pc = "raise"]]
  BY DEF Take
<1>2. \A v \in Workers : v # w => worker'[v] = worker[v]
  BY <1>0, <1>1 DEF TypeOK
<1>3. CopyOK(w)'
  <2> DEFINE r == args[t].route
  <2>1. ASSUME NEW info \in {route[r].row.info, "note"}, Exists(r),
               route[r].row.mesh # None,
               worker' = [worker EXCEPT ![w] =
                 [[IdleWorker EXCEPT !.task = t] EXCEPT !.pc = "plan",
                    !.row = [route[r].row EXCEPT !.info = info]]]
        PROVE  CopyOK(w)'
    <3> DEFINE copy == [route[r].row EXCEPT !.info = info]
    <3>1. r \in Routes /\ Untried(route[r].row)
      BY <1>0, <2>1 DEF TypeInv, QueueWF, RowInv, WaitingRows
    <3>2. route[r].row \in Row /\ route[r].row.mesh \in Meshes
            /\ mesh[route[r].row.mesh] # "unborn"
      BY <1>0, <2>1, <3>1 DEF RowInv, KnownMeshes, TypeOK, RouteRow, Row
    <3>3. /\ Untried(copy) /\ copy.mesh = route[r].row.mesh
          /\ copy.info # "error"
      BY <3>1, <3>2 DEF Untried, Row
    <3>4. worker'[w].pc = "plan" /\ worker'[w].row = copy
      BY <1>0, <2>1 DEF TypeOK, IdleWorker
    <3> HIDE DEF copy, r
    <3> QED
      BY <1>0, <3>2, <3>3, <3>4 DEF CopyOK, Untried
  <2>2. ASSUME worker' = [worker EXCEPT ![w] =
                 [[IdleWorker EXCEPT !.task = t] EXCEPT !.pc = "raise"]]
        PROVE  CopyOK(w)'
    <3>1. worker'[w].pc = "raise"
      BY <1>0, <2>2 DEF TypeOK, IdleWorker
    <3> QED
      BY <3>1 DEF CopyOK, WritingPc
  <2> QED
    BY <1>1, <2>1, <2>2
<1> QED
  BY <1>0, <1>1, <1>2, <1>3, RowsQuiet

\* A worker that goes on without a right to save.
LEMMA RowsLeft ==
    ASSUME Inv, RowInv, TypeInv', NEW w \in Workers,
           UNCHANGED <<mesh, route, args, queue, post>>,
           \A v \in Workers : v # w => worker'[v] = worker[v],
           worker'[w].pc \notin WritingPc
    PROVE  RowInv'
<1>1. CopyOK(w)'
  BY DEF CopyOK, WritingPc
<1> QED
  BY <1>1, RowsQuiet

LEMMA SaveUnsmoothedRows ==
    ASSUME Inv, RowInv, TypeInv', NEW w \in Workers, SaveUnsmoothed(w)
    PROVE  RowInv'
<1> USE DEF tables, celery, web
<1> DEFINE row == Unsmoothed(worker[w].row)
<1>0. /\ TypeInv /\ TypeOK /\ worker[w].pc = "plan" /\ worker[w].row \in Row
      /\ UNCHANGED <<mesh, args, queue, post>> /\ CopyOK(w)
  BY DEF Inv, TypeInv, TypeOK, WorkerState, SaveUnsmoothed, RowInv, Copies
<1>1. /\ row.json_unsmoothed = row.mesh /\ row.json = None
      /\ ~row.calculated /\ row.info # "error"
      /\ row.mesh \in Meshes /\ mesh[row.mesh] # "unborn"
  <2>1. /\ Untried(worker[w].row) /\ worker[w].row.mesh \in Meshes
        /\ mesh[worker[w].row.mesh] # "unborn"
    BY <1>0 DEF CopyOK, WritingPc
  <2> QED
    BY <1>0, <2>1 DEF Untried, Unsmoothed, Row
<1>2. Coherent(row) /\ Sound(row)
  BY <1>1 DEF Coherent, Sound
<1>3. \/ Save(RouteOf(w), row) /\ GotoWith(w, "smooth", row, "none")
      \/ UNCHANGED route /\ GotoWith(w, "failed", row, "error")
  BY DEF SaveUnsmoothed, SaveFails
<1> HIDE DEF row
<1>4. /\ worker'[w].row = row
      /\ \A v \in Workers : v # w => worker'[v] = worker[v]
      /\ \/ worker'[w].pc = "smooth"
         \/ worker'[w].pc = "failed" /\ worker'[w].error = "error"
  BY <1>0, <1>3, GotoWithEffect, GotoWithCopy
<1>5. CopyOK(w)'
  BY <1>0, <1>1, <1>2, <1>4 DEF CopyOK, Coherent, WritingPc
<1> QED
  BY <1>0, <1>2, <1>3, <1>4, <1>5, RowsSaved, RowsQuiet DEF WritingPc

LEMMA SaveSmoothedRows ==
    ASSUME Inv, RowInv, TypeInv', NEW w \in Workers, SaveSmoothed(w)
    PROVE  RowInv'
<1> USE DEF tables, celery, web
<1> DEFINE row == Smoothed(worker[w].row)
<1>0. /\ TypeInv /\ TypeOK /\ worker[w].pc = "smooth" /\ worker[w].row \in Row
      /\ UNCHANGED <<mesh, args, queue, post>> /\ CopyOK(w)
  BY DEF Inv, TypeInv, TypeOK, WorkerState, SaveSmoothed, RowInv, Copies
<1>1. /\ row.json_unsmoothed = row.mesh /\ row.json = row.mesh
      /\ row.calculated /\ row.info # "error"
      /\ row.mesh \in Meshes /\ mesh[row.mesh] # "unborn"
  BY <1>0 DEF CopyOK, WritingPc, Smoothed, Row
<1>2. Coherent(row) /\ Sound(row)
  BY <1>1, NoneAssumption DEF Coherent, Sound
<1>3. \/ Save(RouteOf(w), row) /\ GotoWith(w, "return", row, "none")
      \/ SaveFails(row) /\ GotoWith(w, "failed", row, "error")
  BY DEF SaveSmoothed
<1> HIDE DEF row
<1>4. CASE Save(RouteOf(w), row) /\ GotoWith(w, "return", row, "none")
  <2>1. /\ worker'[w].pc = "return"
        /\ \A v \in Workers : v # w => worker'[v] = worker[v]
    BY <1>0, <1>4, GotoWithEffect
  <2>2. CopyOK(w)'
    BY <2>1 DEF CopyOK, WritingPc
  <2> QED
    BY <1>0, <1>2, <1>4, <2>1, <2>2, RowsSaved DEF WritingPc
<1>5. CASE SaveFails(row) /\ GotoWith(w, "failed", row, "error")
  <2>1. /\ worker'[w].row = row /\ worker'[w].pc = "failed"
        /\ worker'[w].error = "error"
        /\ \A v \in Workers : v # w => worker'[v] = worker[v]
    BY <1>0, <1>5, GotoWithEffect, GotoWithCopy
  <2>2. "database" \notin Events => mesh[row.mesh] = "deleted"
    BY <1>0, <1>1, <1>5 DEF SaveFails, ForeignKeyHolds, Live, TypeOK, RowState
  <2>3. CopyOK(w)'
    BY <1>0, <1>1, <1>2, <2>1, <2>2 DEF CopyOK, Coherent, WritingPc
  <2> QED
    BY <1>0, <1>5, <2>1, <2>3, RowsQuiet DEF SaveFails
<1> QED
  BY <1>3, <1>4, <1>5

LEMMA CalculationFailsRows ==
    ASSUME Inv, RowInv, TypeInv', NEW w \in Workers,
           PlanFails(w) \/ SmoothFails(w)
    PROVE  RowInv'
<1> USE DEF tables, celery, web
<1>0. /\ TypeInv /\ TypeOK /\ CopyOK(w)
      /\ worker[w].pc \in {"plan", "smooth"}
      /\ UNCHANGED <<mesh, route, args, queue, post>>
  BY DEF Inv, TypeInv, PlanFails, SmoothFails, RowInv, Copies
<1>1. PICK error : /\ GotoWith(w, "failed", worker[w].row, error)
                   /\ error = "inaccessible" => worker[w].pc = "plan"
  BY DEF PlanFails, SmoothFails
<1>2. /\ worker'[w].pc = "failed" /\ worker'[w].row = worker[w].row
      /\ worker'[w].error = error
      /\ \A v \in Workers : v # w => worker'[v] = worker[v]
  BY <1>0, <1>1, GotoWithEffect, GotoWithCopy
<1>3. CopyOK(w)'
  BY <1>0, <1>1, <1>2 DEF CopyOK, Untried, Coherent, WritingPc
<1> QED
  BY <1>0, <1>2, <1>3, RowsQuiet

LEMMA MarkFailureRows ==
    ASSUME Inv, RowInv, TypeInv', NEW w \in Workers, MarkFailure(w)
    PROVE  RowInv'
<1> USE DEF tables, web
<1>0. /\ TypeInv /\ TypeOK /\ CopyOK(w) /\ worker[w].pc = "failed"
      /\ UNCHANGED <<mesh, route, args, queue, post>>
  BY DEF Inv, TypeInv, MarkFailure, RowInv, Copies
<1>1. /\ worker'[w].pc = Handler(w) /\ worker'[w].row = worker[w].row
      /\ \A v \in Workers : v # w => worker'[v] = worker[v]
  BY <1>0, GotoEffect, GotoCopy DEF MarkFailure
<1>2. /\ Handler(w) \in {"raise", "retry", "error"}
      /\ Handler(w) = "retry" => worker[w].error = "inaccessible"
  BY DEF Handler
<1>3. CopyOK(w)'
  BY <1>0, <1>1, <1>2 DEF CopyOK, Untried, Coherent, WritingPc
<1> QED
  BY <1>0, <1>1, <1>3, RowsQuiet

LEMMA RetryOnNextMeshRows ==
    ASSUME Inv, RowInv, TypeInv', NEW w \in Workers, RetryOnNextMesh(w)
    PROVE  RowInv'
<1> USE DEF tables, celery, web
<1> DEFINE next == Head(BackupsOf(w))
           row == Redirected(worker[w].row, next)
<1>0. /\ TypeInv /\ TypeOK /\ worker[w].pc = "retry" /\ worker[w].row \in Row
      /\ UNCHANGED <<mesh, args, queue, post>> /\ CopyOK(w)
      /\ RouteOf(w) \in Routes
  BY DEF Inv, TypeInv, TypeOK, WorkerState, WorkerWF, RetryOnNextMesh, RowInv,
         Copies
<1>1. Untried(row) /\ row.mesh = next /\ row.info = "note"
  <2>1. Untried(worker[w].row)
    BY <1>0 DEF CopyOK
  <2> QED
    BY <1>0, <2>1 DEF Untried, Redirected, Row
<1>2. Coherent(row) /\ Sound(row)
  BY <1>1 DEF Untried, Coherent, Sound
<1>3. \/ /\ next \in Live /\ Save(RouteOf(w), row)
         /\ GotoWith(w, "resend", row, worker[w].error)
      \/ UNCHANGED route /\ Goto(w, "raise")
  BY DEF RetryOnNextMesh, SaveFails
<1> HIDE DEF row, next
<1>4. CASE /\ next \in Live /\ Save(RouteOf(w), row)
           /\ GotoWith(w, "resend", row, worker[w].error)
  <2>1. /\ worker'[w].row = row /\ worker'[w].pc = "resend"
        /\ worker'[w].task = worker[w].task
        /\ \A v \in Workers : v # w => worker'[v] = worker[v]
    BY <1>0, <1>4, GotoWithEffect, GotoWithCopy
  <2>2. route'[RouteOf(w)].row = row
    BY <1>0, <1>4, SaveEffect
  <2>3. RouteOf(w)' = RouteOf(w)
    BY <1>0, <2>1 DEF RouteOf
  <2>4. CopyOK(w)'
    BY <1>0, <1>1, <1>4, <2>1, <2>2, <2>3 DEF CopyOK, Untried, WritingPc, Live
  <2> QED
    BY <1>0, <1>2, <1>4, <2>1, <2>4, RowsSaved DEF WritingPc
<1>5. CASE UNCHANGED route /\ Goto(w, "raise")
  <2>1. /\ worker'[w].pc = "raise"
        /\ \A v \in Workers : v # w => worker'[v] = worker[v]
    BY <1>0, <1>5, GotoEffect
  <2> QED
    BY <1>0, <1>5, <2>1, RowsLeft DEF WritingPc
<1> QED
  BY <1>3, <1>4, <1>5

LEMMA ResendRows ==
    ASSUME Inv, RowInv, TypeInv', NEW w \in Workers, Resend(w)
    PROVE  RowInv'
<1> USE DEF tables, web
<1> DEFINE backups == AllButFirst(BackupsOf(w))
<1>0. /\ TypeInv /\ TypeOK /\ RouteOf(w) \in Routes /\ backups \in Seq(Meshes)
      /\ worker[w] \in WorkerState /\ worker[w].pc = "resend"
      /\ worker[w].task \in Tasks /\ UNCHANGED <<mesh, route, post>>
  BY TailType DEF Resend, Inv, TypeInv, TypeOK, WorkerWF, BackupsOf, TaskArgs
<1>1. Exists(RouteOf(w)) => Untried(route[RouteOf(w)].row)
  BY <1>0 DEF RowInv, Copies, CopyOK
<1> HIDE DEF backups
<1>2. ASSUME NEW t \in Tasks, Delay(t, RouteOf(w), backups),
             worker' = [worker EXCEPT ![w].pc = "record", ![w].next = t]
      PROVE  RowInv'
  <2>1. /\ queue' = queue \cup {t}
        /\ args[t].route = None /\ args'[t].route = RouteOf(w)
        /\ \A u \in Tasks : u # t => args'[u] = args[u]
    BY <1>0, <1>2, DelayType
  <2>2. /\ worker'[w].pc = "record"
        /\ \A v \in Workers : v # w => worker'[v] = worker[v]
    BY <1>0, <1>2 DEF TypeOK, WorkerState
  <2> QED
    BY <1>0, <1>1, <2>1, <2>2, SentRows DEF Fresh, WritingPc
<1>3. ASSUME Goto(w, "raise"), UNCHANGED <<args, queue>>
      PROVE  RowInv'
  <2>1. /\ worker'[w].pc = "raise"
        /\ \A v \in Workers : v # w => worker'[v] = worker[v]
    BY <1>0, <1>3, GotoEffect
  <2> QED
    BY <1>0, <1>3, <2>1, RowsLeft DEF WritingPc
<1> QED
  BY <1>2, <1>3 DEF Resend, backups

LEMMA RecordErrorRows ==
    ASSUME Inv, RowInv, TypeInv', NEW w \in Workers, RecordError(w)
    PROVE  RowInv'
<1> USE DEF tables, celery, web
<1> DEFINE row == [worker[w].row EXCEPT !.info = "error"]
<1>0. /\ TypeInv /\ TypeOK /\ worker[w].pc = "error" /\ worker[w].row \in Row
      /\ UNCHANGED <<mesh, args, queue, post>> /\ CopyOK(w)
  BY DEF Inv, TypeInv, TypeOK, WorkerState, RecordError, RowInv, Copies
<1>1. /\ Coherent(row) /\ row.mesh = worker[w].row.mesh
      /\ row.calculated = worker[w].row.calculated
  BY <1>0 DEF CopyOK, Coherent, Row
<1>2. \/ Save(RouteOf(w), row) /\ Finish(w)
      \/ UNCHANGED route /\ Goto(w, "raise")
  BY DEF RecordError, SaveFails
<1> HIDE DEF row
<1>3. /\ worker'[w].pc \in {"idle", "raise"}
      /\ \A v \in Workers : v # w => worker'[v] = worker[v]
  BY <1>0, <1>2, FinishEffect, GotoEffect
<1>4. CASE Save(RouteOf(w), row)
  <2>1. Sound(row)
    BY <1>0, <1>1, <1>4, NoneAssumption
       DEF CopyOK, WritingPc, Save, ForeignKeyHolds, Live, Sound
  <2>2. CopyOK(w)'
    BY <1>3 DEF CopyOK, WritingPc
  <2> QED
    BY <1>0, <1>1, <1>3, <1>4, <2>1, <2>2, RowsSaved DEF WritingPc
<1>5. CASE UNCHANGED route
  BY <1>0, <1>3, <1>5, RowsLeft DEF WritingPc
<1> QED
  BY <1>2, <1>4, <1>5

LEMMA WorkerRows ==
    ASSUME Inv, RowInv, NEW w \in Workers, WorkerStep(w) \/ WorkerDies(w)
    PROVE  RowInv'
<1> USE DEF tables, celery, web
<1>0. TypeInv' /\ TypeInv /\ TypeOK
  BY WorkerType DEF Inv, TypeInv
<1>1. CASE \/ Return(w) \/ RecordRetryJob(w) \/ Raise(w) \/ StoreRefused(w)
           \/ WorkerDies(w)
  <2>1. UNCHANGED <<mesh, route, args, queue, post>>
    BY <1>1 DEF Return, RecordRetryJob, Raise, StoreRefused, WorkerDies,
                WorkerCrash, ChildKilled
  <2>2. Finish(w) \/ Goto(w, "raise")
    BY <1>1 DEF Return, RecordRetryJob, Raise, StoreRefused, WorkerDies,
                WorkerCrash, ChildKilled
  <2>3. /\ worker'[w].pc \in {"idle", "raise"}
        /\ \A v \in Workers : v # w => worker'[v] = worker[v]
    BY <1>0, <2>2, FinishEffect, GotoEffect
  <2> QED
    BY <1>0, <2>1, <2>3, RowsLeft DEF WritingPc
<1> QED
  BY <1>0, <1>1, TakeRows, SaveUnsmoothedRows, SaveSmoothedRows,
     CalculationFailsRows, MarkFailureRows, RetryOnNextMeshRows, ResendRows,
     RecordErrorRows DEF WorkerStep

LEMMA NextRows == Inv /\ RowInv /\ [Next]_vars => RowInv'
<1> SUFFICES ASSUME Inv, RowInv, [Next]_vars PROVE RowInv'
  OBVIOUS
<1>1. ASSUME UNCHANGED vars PROVE RowInv'
  <2>1. TypeInv'
    BY NextType DEF Inv
  <2> QED
    BY <1>1, <2>1, RowsShrink DEF vars, Shrinks, MeshesAge
<1> QED
  BY <1>1, PostRows, CancelRows, WorkerRows, EnvironmentRows DEF Next, Rest

----------------------------------------------------------------------------
(* The results *)

LEMMA RowsAlways == Spec => [](Inv /\ RowInv)
BY InitInv, RowInvInit, NextInv, NextRows, PTL DEF Spec

\* Whatever mesh the retries, imports and clean-ups give to a route, its
\* stored paths were computed on the mesh that the row names, unless that
\* mesh was deleted; smoothed paths come from the unsmoothed ones beside them
\* (tasks.py:119, 136, 155).
THEOREM StoredPathsMatchTheirMesh == Spec => []PathsMatchMesh
<1>1. RowInv => PathsMatchMesh
  <2> SUFFICES ASSUME RowInv, NEW r \in Routes PROVE Coherent(route[r].row)
    BY DEF PathsMatchMesh, Coherent
  <2>1. CASE ~Exists(r)
    <3>1. route[r].row = NoRow
      BY <2>1 DEF RowInv, Blank
    <3> QED
      BY <3>1 DEF NoRow, Coherent
  <2> QED
    BY <2>1 DEF RowInv, StoredRows
<1> QED
  BY <1>1, RowsAlways, PTL

\* No task is queued for a route whose row records an error, so that the
\* worker can append its notes to the row (tasks.py:75, 154-157, 164).
THEOREM QueuedRowsTakeNotes == Spec => []QueuedRowTakesNotes
<1>1. RowInv => QueuedRowTakesNotes
  BY DEF RowInv, WaitingRows, QueuedRowTakesNotes, Untried
<1> QED
  BY <1>1, RowsAlways, PTL

\* While the database refuses no write but for a foreign key, a route with a
\* timestamp has both kinds of path and no error (tasks.py:118, 138; the
\* error branch saves a timestamped copy only after its mesh was deleted, and
\* then the foreign key refuses that save too).
THEOREM CalculatedRoutesAreComplete ==
    ASSUME "database" \notin Events
    PROVE  Spec => []CalculatedIsComplete
<1>1. RowInv => CalculatedIsComplete
  <2> SUFFICES ASSUME RowInv, NEW r \in Routes, route[r].row.calculated
               PROVE  /\ route[r].row.json # None
                      /\ route[r].row.json_unsmoothed # None
                      /\ route[r].row.info # "error"
    BY DEF CalculatedIsComplete
  <2>1. Exists(r)
    BY DEF RowInv, Blank, NoRow
  <2> QED
    BY <2>1 DEF RowInv, StoredRows, Coherent, Sound
<1> QED
  BY <1>1, RowsAlways, PTL

=============================================================================
