----------------------- MODULE RouteLifecycle_proofs -----------------------
(***************************************************************************)
(* The route jobs implement RouteLifecycle.  A step of a POST, a worker or *)
(* the environment creates a route (Request), keeps its one writer and     *)
(* saves a row that is not calculated (Rewrite), gives the right to write  *)
(* up (Settle), deletes a route (Delete), takes meshes away (DropMesh), or *)
(* stutters.                                                               *)
(***************************************************************************)
EXTENDS RouteRows_proofs

LEMMA PhaseByFree ==
    Phase = [r \in Routes |-> IF route[r].state = "unborn" THEN "new"
                              ELSE IF Free(r) THEN "settled" ELSE "working"]
BY FreeIsNoWriter DEF Phase

LEMMA NextPhaseByFree ==
    Phase' = [r \in Routes |-> IF route'[r].state = "unborn" THEN "new"
                               ELSE IF Free(r)' THEN "settled" ELSE "working"]
<1>1. \A r : Free(r)' <=> NoWriter(r)'
  BY DEF Free, NoWriter, Sending, Queued, Writing
<1> QED
  BY <1>1 DEF Phase

\* A step that changes no route's right to be written; that releases r0; and
\* that claims r0.
SameWriters == \A r \in Routes : Free(r)' <=> Free(r)

Releases(r0) ==
    /\ ~Free(r0) /\ Free(r0)'
    /\ \A r \in Routes : r # r0 => (Free(r)' <=> Free(r))

Claims(r0) ==
    /\ ~Free(r0)'
    /\ \A r \in Routes : r # r0 => (Free(r)' <=> Free(r))

LifecycleStep == Lifecycle!Next \/ UNCHANGED <<Phase, route>>

\* Who is a writer works on a route that was created.
LEMMA WorkingPhase ==
    ASSUME Inv, NEW r \in Routes, ~Free(r)
    PROVE  route[r].state # "unborn" /\ Phase[r] = "working"
<1>1. route[r].state # "unborn"
  BY NoneAssumption
     DEF Free, Inv, Born, TypeInv, TypeOK, WorkerWF, WritingPc, RouteOf
<1> QED
  BY <1>1, PhaseByFree

LEMMA StutterStep ==
    ASSUME SameWriters, UNCHANGED route
    PROVE  LifecycleStep
<1>1. Phase' = Phase
  BY PhaseByFree, NextPhaseByFree DEF SameWriters
<1> QED
  BY <1>1 DEF LifecycleStep

LEMMA WriteStep ==
    ASSUME NEW r \in Routes, NEW row \in Row, TypeOK, Save(r, row)
    PROVE  Lifecycle!Writes(r) /\ route'[r].row = row
<1>1. route'[r].row = row
  BY SaveEffect
<1> QED
  BY <1>1 DEF Save, Lifecycle!Writes

LEMMA RewriteStep ==
    ASSUME Inv, SameWriters, NEW r \in Routes, ~Free(r), NEW row \in Row,
           Save(r, row), ~row.calculated
    PROVE  LifecycleStep
<1>1. TypeOK /\ route[r].state # "unborn" /\ Phase[r] = "working"
  BY WorkingPhase DEF Inv, TypeInv
<1>2. Lifecycle!Writes(r) /\ route'[r].row = row
  BY <1>1, WriteStep
<1>3. /\ route'[r].state = "stored"
      /\ \A q \in Routes : q # r => route'[q] = route[q]
  BY <1>1, SaveEffect
<1>4. Phase' = Phase
  BY <1>1, <1>3, PhaseByFree, NextPhaseByFree DEF SameWriters
<1>5. Lifecycle!Rewrite(r)
  BY <1>1, <1>2, <1>4 DEF Lifecycle!Rewrite
<1> QED
  BY <1>5 DEF LifecycleStep, Lifecycle!Next

LEMMA SettleStep ==
    ASSUME Inv, NEW r \in Routes, Releases(r),
           UNCHANGED route \/ \E row \in Row : Save(r, row)
    PROVE  LifecycleStep
<1>1. TypeOK /\ route[r].state # "unborn" /\ Phase[r] = "working"
  BY WorkingPhase DEF Inv, TypeInv, Releases
<1>2. Lifecycle!Writes(r) \/ UNCHANGED route
  BY <1>1, WriteStep
<1>3. /\ route'[r].state # "unborn"
      /\ \A q \in Routes : q # r => route'[q] = route[q]
  BY <1>1, SaveEffect
<1>4. Phase' = [Phase EXCEPT ![r] = "settled"]
  BY <1>1, <1>3, PhaseByFree, NextPhaseByFree DEF Releases
<1>5. Lifecycle!Settle(r)
  BY <1>1, <1>2, <1>4 DEF Lifecycle!Settle
<1> QED
  BY <1>5 DEF LifecycleStep, Lifecycle!Next

LEMMA RequestStep ==
    ASSUME Inv, NEW r \in Routes, route[r].state = "unborn", Claims(r),
           NEW row \in Row, Save(r, row)
    PROVE  LifecycleStep
<1>1. TypeOK /\ Phase[r] = "new"
  BY PhaseByFree DEF Inv, TypeInv
<1>2. Lifecycle!Writes(r)
  BY <1>1, WriteStep
<1>3. /\ route'[r].state = "stored"
      /\ \A q \in Routes : q # r => route'[q] = route[q]
  BY <1>1, SaveEffect
<1>4. Phase' = [Phase EXCEPT ![r] = "working"]
  BY <1>1, <1>3, PhaseByFree, NextPhaseByFree DEF Claims
<1>5. Lifecycle!Request(r)
  BY <1>1, <1>2, <1>4 DEF Lifecycle!Request
<1> QED
  BY <1>5 DEF LifecycleStep, Lifecycle!Next

LEMMA DeleteStep ==
    ASSUME Inv, SameWriters, NEW r \in Routes, DeleteRoute(r)
    PROVE  LifecycleStep
<1>0. TypeOK
  BY DEF Inv, TypeInv
<1>1. CASE Exists(r)
  <2>1. route' = [route EXCEPT ![r] = [state |-> "deleted", row |-> NoRow]]
    BY <1>1 DEF DeleteRoute
  <2>2. Phase' = Phase
    BY <1>0, <1>1, <2>1, PhaseByFree, NextPhaseByFree
       DEF SameWriters, Exists, TypeOK
  <2>3. Lifecycle!Delete(r)
    BY <1>1, <2>1, <2>2 DEF Exists, Lifecycle!Delete
  <2> QED
    BY <2>3 DEF LifecycleStep, Lifecycle!Next
<1>2. CASE ~Exists(r)
  <2>1. UNCHANGED route
    BY <1>0, <1>2 DEF DeleteRoute, TypeOK
  <2> QED
    BY <2>1, StutterStep
<1> QED
  BY <1>1, <1>2

LEMMA DropMeshStep ==
    ASSUME Inv, SameWriters, NEW m \in Meshes, CleanupMesh(m)
    PROVE  LifecycleStep
<1>1. \A r \in Routes : route'[r].state = route[r].state
  <2> SUFFICES ASSUME NEW r \in Routes
               PROVE  route'[r].state = route[r].state
    OBVIOUS
  <2>1. route[r] \in RouteRow
    BY DEF Inv, TypeInv, TypeOK
  <2>2. route'[r] \in {route[r], [route[r] EXCEPT !.row.mesh = None]}
    BY DEF CleanupMesh
  <2> QED
    BY <2>1, <2>2 DEF RouteRow
<1>2. Phase' = Phase
  BY <1>1, PhaseByFree, NextPhaseByFree DEF SameWriters
<1>3. Lifecycle!DropMesh(m)
  BY <1>2 DEF CleanupMesh, Lifecycle!DropMesh
<1> QED
  BY <1>3 DEF LifecycleStep, Lifecycle!Next

----------------------------------------------------------------------------
(* Who is a writer after a step *)

LEMMA WriterKept ==
    ASSUME NEW w \in Workers, UNCHANGED <<args, queue, post>>,
           \A v \in Workers : v # w => worker'[v] = worker[v],
           worker'[w].pc \in WritingPc <=> worker[w].pc \in WritingPc,
           worker[w].pc \in WritingPc => worker'[w].task = worker[w].task
    PROVE  SameWriters
<1>1. \A v \in Workers :
        /\ worker'[v].pc \in WritingPc <=> worker[v].pc \in WritingPc
        /\ worker[v].pc \in WritingPc => RouteOf(v)' = RouteOf(v)
  BY DEF RouteOf
<1> QED
  BY <1>1 DEF SameWriters, Free

LEMMA WriterReleases ==
    ASSUME Inv, NEW w \in Workers, UNCHANGED <<args, queue, post>>,
           \A v \in Workers : v # w => worker'[v] = worker[v],
           worker[w].pc \in WritingPc, worker'[w].pc \notin WritingPc,
           NEW r, r = RouteOf(w)
    PROVE  r \in Routes /\ ~Free(r) /\ Releases(r)
<1>1. \A v \in Workers : v # w => RouteOf(v)' = RouteOf(v)
  BY DEF RouteOf
<1>2. r \in Routes
  BY DEF Inv, TypeInv, WorkerWF, WritingPc
<1>3. ~Free(r)
  BY DEF Free
<1>4. Free(r)'
  <2>1. \A p \in Posts : post[p].pc = "send" => post[p].route # r
    BY DEF Inv, Exclusive
  <2>2. \A t \in queue : args[t].route # r
    BY DEF Inv, Exclusive
  <2>3. \A v \in Workers : v # w /\ worker[v].pc \in WritingPc => RouteOf(v) # r
    BY DEF Inv, Exclusive
  <2> QED
    BY <1>1, <2>1, <2>2, <2>3 DEF Free
<1>5. \A q \in Routes : q # r => (Free(q)' <=> Free(q))
  BY <1>1 DEF Free
<1> QED
  BY <1>2, <1>3, <1>4, <1>5 DEF Releases

\* A worker keeps the right to write, or never had it.
LEMMA KeepingStep ==
    ASSUME Inv, NEW w \in Workers, UNCHANGED <<args, queue, post>>,
           \A v \in Workers : v # w => worker'[v] = worker[v],
           worker'[w].pc \in WritingPc <=> worker[w].pc \in WritingPc,
           worker[w].pc \in WritingPc => worker'[w].task = worker[w].task,
           \/ UNCHANGED route
           \/ /\ worker[w].pc \in WritingPc
              /\ \E row \in Row : Save(RouteOf(w), row) /\ ~row.calculated
    PROVE  LifecycleStep
<1>1. SameWriters
  BY WriterKept
<1>2. CASE UNCHANGED route
  BY <1>1, <1>2, StutterStep
<1>3. ASSUME worker[w].pc \in WritingPc, NEW row \in Row,
             Save(RouteOf(w), row), ~row.calculated
      PROVE  LifecycleStep
  <2>1. PICK r \in Routes : r = RouteOf(w) /\ ~Free(r)
    BY <1>3 DEF Inv, TypeInv, WorkerWF, WritingPc, Free
  <2>2. Save(r, row)
    BY <1>3, <2>1
  <2> QED
    BY <1>1, <1>3, <2>1, <2>2, RewriteStep
<1> QED
  BY <1>2, <1>3

\* A worker gives the right to write up.
LEMMA LeavingStep ==
    ASSUME Inv, NEW w \in Workers, UNCHANGED <<args, queue, post>>,
           \A v \in Workers : v # w => worker'[v] = worker[v],
           worker[w].pc \in WritingPc, worker'[w].pc \notin WritingPc,
           UNCHANGED route \/ \E row \in Row : Save(RouteOf(w), row)
    PROVE  LifecycleStep
<1>1. PICK r : r = RouteOf(w)
  OBVIOUS
<1>2. r \in Routes /\ Releases(r)
  BY <1>1, WriterReleases
<1>3. UNCHANGED route \/ \E row \in Row : Save(r, row)
  BY <1>1
<1> QED
  BY <1>2, <1>3, SettleStep

LEMMA PostLeaves ==
    ASSUME Inv, NEW p \in Posts, post'[p].pc # "send",
           \A q \in Posts : q # p => post'[q] = post[q],
           UNCHANGED <<route, args, queue, worker>>
    PROVE  LifecycleStep
<1>1. CASE post[p].pc # "send"
  <2>1. SameWriters
    BY <1>1 DEF SameWriters, Free, RouteOf
  <2> QED
    BY <2>1, StutterStep
<1>2. CASE post[p].pc = "send"
  <2>1. PICK r \in Routes : r = post[p].route
    BY <1>2 DEF Inv, TypeInv, PostWF
  <2>2. Free(r)'
    <3>1. \A q \in Posts : q # p /\ post[q].pc = "send" => post[q].route # r
      BY <1>2, <2>1 DEF Inv, Exclusive
    <3>2. \A t \in queue : args[t].route # r
      BY <1>2, <2>1 DEF Inv, Exclusive
    <3>3. \A w \in Workers : worker[w].pc \in WritingPc => RouteOf(w) # r
      BY <1>2, <2>1 DEF Inv, Exclusive
    <3> QED
      BY <3>1, <3>2, <3>3 DEF Free, RouteOf
  <2>3. Releases(r)
    BY <1>2, <2>1, <2>2 DEF Releases, Free, RouteOf
  <2> QED
    BY <2>3, SettleStep
<1> QED
  BY <1>1, <1>2

\* A fresh task carries the right of whoever sends it, a POST or a worker.
LEMMA SendingStep ==
    ASSUME TypeInv, NEW t \in Tasks, NEW r \in Routes, Fresh(t),
           args'[t].route = r, queue' = queue \cup {t},
           \A u \in Tasks : u # t => args'[u] = args[u],
           UNCHANGED route, ~Free(r),
           \A q \in Routes : q # r =>
              /\ \A p \in Posts :
                   post'[p].pc = "send" /\ post'[p].route = q
                     <=> post[p].pc = "send" /\ post[p].route = q
              /\ \A w \in Workers :
                   worker'[w].pc \in WritingPc /\ RouteOf(w)' = q
                     <=> worker[w].pc \in WritingPc /\ RouteOf(w) = q
    PROVE  LifecycleStep
<1>1. \A u \in queue : u \in Tasks /\ u # t
  BY NoneAssumption DEF TypeInv, TypeOK, QueueWF, Fresh
<1>2. ~Free(r)'
  BY DEF Free
<1>3. ASSUME NEW q \in Routes, q # r PROVE Free(q)' <=> Free(q)
  <2>1. (\A u \in queue' : args'[u].route # q)
          <=> (\A u \in queue : args[u].route # q)
    BY <1>1, <1>3
  <2> QED
    BY <1>3, <2>1 DEF Free
<1>4. SameWriters
  BY <1>2, <1>3 DEF SameWriters
<1> QED
  BY <1>4, StutterStep

----------------------------------------------------------------------------
(* The steps one by one *)

LEMMA PostCreateImplements ==
    ASSUME Inv, NEW p \in Posts, PostCreate(p)
    PROVE  LifecycleStep
<1> USE DEF tables, celery
<1> DEFINE row == [NoRow EXCEPT !.trip = post[p].body.trip,
                                !.mesh = Head(post[p].meshes)]
<1>0. /\ TypeInv /\ TypeOK /\ post[p] \in PostState /\ post[p].pc = "create"
      /\ UNCHANGED <<args, queue, worker>>
  BY DEF Inv, TypeInv, TypeOK, PostCreate
<1>1. row \in Row
  <2>1. Head(post[p].meshes) \in Meshes
    BY <1>0, TailType DEF TypeInv, PostWF, PostState
  <2>2. post[p].body.trip \in Trips
    BY <1>0, BodiesAssumption DEF PostState, BodiesAssumption
  <2> QED
    BY <2>1, <2>2 DEF NoRow, Row
<1> HIDE DEF row
<1>2. ASSUME NEW r \in Routes, route[r].state = "unborn", Save(r, row),
             post' = [post EXCEPT ![p].pc = "send", ![p].route = r]
      PROVE  LifecycleStep
  <2>1. /\ post'[p].pc = "send" /\ post'[p].route = r
        /\ \A q \in Posts : q # p => post'[q] = post[q]
    BY <1>0, <1>2 DEF TypeOK, PostState
  <2>2. Claims(r)
    BY <1>0, <2>1 DEF Claims, Free, RouteOf
  <2> QED
    BY <1>1, <1>2, <2>2, RequestStep
<1>3. ASSUME SaveFails(row), Answer(p, 500, None)
      PROVE  LifecycleStep
  <2>1. post'[p].pc = "done" /\ \A q \in Posts : q # p => post'[q] = post[q]
    BY <1>0, <1>3, AnswerType DEF Code
  <2> QED
    BY <1>0, <1>3, <2>1, PostLeaves DEF SaveFails
<1> QED
  BY <1>2, <1>3 DEF PostCreate, row

LEMMA PostSendImplements ==
    ASSUME Inv, NEW p \in Posts, PostSend(p)
    PROVE  LifecycleStep
<1> USE DEF tables, celery
<1> DEFINE backups == AllButFirst(post[p].meshes)
<1>0. /\ TypeInv /\ UNCHANGED <<route, worker>>
      /\ post[p] \in PostState /\ post[p].pc = "send"
      /\ post[p].route \in Routes /\ backups \in Seq(Meshes)
  BY TailType DEF PostSend, Inv, TypeInv, TypeOK, PostWF, PostState
<1> HIDE DEF backups
<1>1. ASSUME NEW t \in Tasks, Delay(t, post[p].route, backups),
             post' = [post EXCEPT ![p].pc = "record", ![p].task = t]
      PROVE  LifecycleStep
  <2>1. PICK r \in Routes : r = post[p].route
    BY <1>0
  <2>2. /\ queue' = queue \cup {t} /\ Fresh(t) /\ args'[t].route = r
        /\ \A u \in Tasks : u # t => args'[u] = args[u]
    BY <1>0, <1>1, <2>1, DelayType DEF Fresh
  <2>3. /\ post'[p].pc = "record"
        /\ \A q \in Posts : q # p => post'[q] = post[q]
    BY <1>0, <1>1 DEF TypeInv, TypeOK, PostState
  <2>4. ~Free(r)
    BY <1>0, <2>1 DEF Free
  <2>5. \A w \in Workers : worker[w].pc \in WritingPc => RouteOf(w)' = RouteOf(w)
    BY <1>0, <2>2, HeldIsSent DEF Fresh, TypeInv, WorkerWF, WritingPc, RouteOf
  <2> QED
    BY <1>0, <2>1, <2>2, <2>3, <2>4, <2>5, SendingStep
<1>2. ASSUME Answer(p, 500, None), UNCHANGED <<args, queue>>
      PROVE  LifecycleStep
  <2>1. post'[p].pc = "done" /\ \A q \in Posts : q # p => post'[q] = post[q]
    BY <1>0, <1>2, AnswerType DEF Code
  <2> QED
    BY <1>0, <1>2, <2>1, PostLeaves
<1> QED
  BY <1>1, <1>2 DEF PostSend, backups

LEMMA PostImplements ==
    ASSUME Inv, NEW p \in Posts, PostSelect(p) \/ PostStep(p) \/ PostCrash(p)
    PROVE  LifecycleStep
<1>1. CASE \/ PostSelect(p) \/ PostLookup(p) \/ PostReuse(p) \/ PostRecord(p)
           \/ PostCrash(p)
  BY <1>1, PostMoves, PostLeaves DEF Inv
<1> QED
  BY <1>1, PostCreateImplements, PostSendImplements DEF PostStep

LEMMA CancelImplements ==
    ASSUME Inv, NEW c \in Cancels,
           CancelFind(c) \/ CancelStep(c) \/ CancelCrash(c)
    PROVE  LifecycleStep
<1> USE DEF tables, celery
<1>1. UNCHANGED <<args, queue, post, worker>>
  BY DEF CancelFind, CancelStep, CancelRevoke, CancelDelete, CancelCrash
<1>2. SameWriters
  BY <1>1 DEF SameWriters, Free, RouteOf
<1>3. CASE CancelDelete(c)
  <2>1. PICK r \in Routes : r = cancel[c].route
    BY <1>3 DEF CancelDelete, Inv, TypeInv, CancelWF
  <2>2. DeleteRoute(r)
    BY <1>3, <2>1 DEF CancelDelete
  <2> QED
    BY <1>2, <2>2, DeleteStep
<1>4. CASE ~CancelDelete(c)
  <2>1. UNCHANGED route
    BY <1>4 DEF CancelFind, CancelStep, CancelRevoke, CancelCrash
  <2> QED
    BY <1>2, <2>1, StutterStep
<1> QED
  BY <1>3, <1>4

LEMMA EnvironmentImplements ==
    ASSUME Inv,
           \/ \E m \in Meshes : ImportMesh(m) \/ CleanupMesh(m)
           \/ \E r \in Routes : CleanupRoute(r)
           \/ \E t \in Tasks : ResultExpires(t)
    PROVE  LifecycleStep
<1> USE DEF tables, celery, web
<1>1. UNCHANGED <<args, queue, post, worker>>
  BY DEF ImportMesh, CleanupMesh, CleanupRoute, ResultExpires
<1>2. SameWriters
  BY <1>1 DEF SameWriters, Free, RouteOf
<1>3. ASSUME NEW r \in Routes, CleanupRoute(r) PROVE LifecycleStep
  BY <1>2, <1>3, DeleteStep DEF CleanupRoute
<1> QED
  BY <1>2, <1>3, DropMeshStep, StutterStep DEF ImportMesh, ResultExpires

\* The right to write passes from the task to the worker, or is given up when
\* the route or its mesh is gone.
LEMMA TakeImplements ==
    ASSUME Inv, NEW w \in Workers, Take(w)
    PROVE  LifecycleStep
<1> USE DEF tables, web
<1>1. PICK t \in queue :
        /\ queue' = queue \ {t}
        /\ \/ \E info : worker' = [worker EXCEPT ![w] =
                [[IdleWorker EXCEPT !.task = t] EXCEPT !.pc = "plan",
                   !.row = [route[args[t].route].row EXCEPT !.info = info]]]
           \/ worker' = [worker EXCEPT ![w] =
                [[IdleWorker EXCEPT !.task = t] EXCEPT !.pc = "raise"]]
  BY DEF Take
<1>2. /\ TypeInv /\ TypeOK /\ worker[w].pc = "idle" /\ t \in Tasks
      /\ UNCHANGED <<route, args, post>>
  BY DEF Take, Inv, TypeInv, TypeOK
<1>3. worker'[w].pc \in {"plan", "raise"} /\ worker'[w].task = t
  BY <1>1, <1>2, ZenonT(40) DEF TypeOK, IdleWorker
<1>4. \A v \in Workers : v # w => worker'[v] = worker[v]
  BY <1>1, <1>2 DEF TypeOK
<1>5. PICK r \in Routes : r = args[t].route
  BY <1>2 DEF TypeInv, QueueWF
<1>6. ~Free(r)
  BY <1>5 DEF Free
<1>7. RouteOf(w)' = r /\ \A v \in Workers : v # w => RouteOf(v)' = RouteOf(v)
  BY <1>2, <1>3, <1>4, <1>5 DEF RouteOf
<1>8. \A q \in Routes : q # r => (Free(q)' <=> Free(q))
  BY <1>1, <1>2, <1>3, <1>4, <1>5, <1>7 DEF Free, WritingPc
<1>9. CASE worker'[w].pc = "plan"
  <2>1. ~Free(r)'
    BY <1>7, <1>9 DEF Free, WritingPc
  <2>2. SameWriters
    BY <1>6, <1>8, <2>1 DEF SameWriters
  <2> QED
    BY <1>2, <2>2, StutterStep
<1>10. CASE worker'[w].pc = "raise"
  <2>1. \A u \in queue : u # t => args[u].route # r
    BY <1>5 DEF Inv, Exclusive
  <2>2. \A p \in Posts : post[p].pc = "send" => post[p].route # r
    BY <1>5 DEF Inv, Exclusive
  <2>3. \A v \in Workers : worker[v].pc \in WritingPc => RouteOf(v) # r
    BY <1>5 DEF Inv, Exclusive
  <2>4. Free(r)'
    BY <1>1, <1>2, <1>4, <1>7, <1>10, <2>1, <2>2, <2>3 DEF Free, WritingPc
  <2>5. Releases(r)
    BY <1>6, <1>8, <2>4 DEF Releases
  <2> QED
    BY <1>2, <2>5, SettleStep
<1> QED
  BY <1>3, <1>9, <1>10

LEMMA ResendImplements ==
    ASSUME Inv, NEW w \in Workers, Resend(w)
    PROVE  LifecycleStep
<1> USE DEF tables, web
<1> DEFINE backups == AllButFirst(BackupsOf(w))
<1>0. /\ TypeInv /\ TypeOK /\ RouteOf(w) \in Routes /\ backups \in Seq(Meshes)
      /\ worker[w] \in WorkerState /\ worker[w].pc = "resend"
      /\ worker[w].task \in Tasks /\ UNCHANGED <<route, post>>
  BY TailType DEF Resend, Inv, TypeInv, TypeOK, WorkerWF, BackupsOf, TaskArgs
<1> HIDE DEF backups
<1>1. ASSUME NEW t \in Tasks, Delay(t, RouteOf(w), backups),
             worker' = [worker EXCEPT ![w].pc = "record", ![w].next = t]
      PROVE  LifecycleStep
  <2>1. PICK r \in Routes : r = RouteOf(w)
    BY <1>0
  <2>2. /\ queue' = queue \cup {t} /\ Fresh(t) /\ args'[t].route = r
        /\ \A u \in Tasks : u # t => args'[u] = args[u]
    BY <1>0, <1>1, <2>1, DelayType DEF Fresh
  <2>3. /\ worker'[w].pc = "record"
        /\ \A v \in Workers : v # w => worker'[v] = worker[v]
    BY <1>0, <1>1 DEF TypeOK, WorkerState
  <2>4. ~Free(r)
    BY <1>0, <2>1 DEF Free, WritingPc
  <2>5. \A v \in Workers : v # w /\ worker[v].pc \in WritingPc =>
          RouteOf(v)' = RouteOf(v)
    BY <1>0, <2>2, <2>3, HeldIsSent
       DEF Fresh, TypeInv, WorkerWF, WritingPc, RouteOf
  <2>6. \A q \in Routes : q # r => \A v \in Workers :
          worker'[v].pc \in WritingPc /\ RouteOf(v)' = q
            <=> worker[v].pc \in WritingPc /\ RouteOf(v) = q
    BY <2>1, <2>3, <2>5 DEF WritingPc
  <2> QED
    BY <1>0, <2>2, <2>4, <2>6, SendingStep
<1>2. ASSUME Goto(w, "raise"), UNCHANGED <<args, queue>>
      PROVE  LifecycleStep
  <2>1. /\ worker'[w].pc = "raise"
        /\ \A v \in Workers : v # w => worker'[v] = worker[v]
    BY <1>0, <1>2, GotoEffect
  <2> QED
    BY <1>0, <1>2, <2>1, LeavingStep DEF WritingPc
<1> QED
  BY <1>1, <1>2 DEF Resend, backups

LEMMA SaveUnsmoothedImplements ==
    ASSUME Inv, RowInv, NEW w \in Workers, SaveUnsmoothed(w)
    PROVE  LifecycleStep
<1> USE DEF tables, celery, web
<1> DEFINE row == Unsmoothed(worker[w].row)
<1>0. /\ TypeOK /\ worker[w].pc = "plan" /\ worker[w].row \in Row
      /\ UNCHANGED <<args, queue, post>>
  BY DEF Inv, TypeInv, TypeOK, WorkerState, SaveUnsmoothed
<1>1. row \in Row
  BY <1>0 DEF Unsmoothed, Row
<1>2. ~row.calculated
  <2>1. ~worker[w].row.calculated
    BY <1>0 DEF RowInv, Copies, CopyOK, Untried
  <2> QED
    BY <1>0, <2>1 DEF Unsmoothed, Row
<1>3. \/ Save(RouteOf(w), row) /\ GotoWith(w, "smooth", row, "none")
      \/ UNCHANGED route /\ GotoWith(w, "failed", row, "error")
  BY DEF SaveUnsmoothed, SaveFails
<1> HIDE DEF row
<1>4. /\ worker'[w].pc \in {"smooth", "failed"}
      /\ worker'[w].task = worker[w].task
      /\ \A v \in Workers : v # w => worker'[v] = worker[v]
  BY <1>0, <1>3, GotoWithEffect
<1>5. UNCHANGED route \/ \E copy \in Row : /\ Save(RouteOf(w), copy)
                                           /\ ~copy.calculated
  BY <1>1, <1>2, <1>3
<1> QED
  BY <1>0, <1>4, <1>5, KeepingStep DEF WritingPc

LEMMA SaveSmoothedImplements ==
    ASSUME Inv, NEW w \in Workers, SaveSmoothed(w)
    PROVE  LifecycleStep
<1> USE DEF tables, celery, web
<1> DEFINE row == Smoothed(worker[w].row)
<1>0. /\ TypeOK /\ worker[w].pc = "smooth" /\ worker[w].row \in Row
      /\ UNCHANGED <<args, queue, post>>
  BY DEF Inv, TypeInv, TypeOK, WorkerState, SaveSmoothed
<1>1. row \in Row
  BY <1>0 DEF Smoothed, Row
<1>2. \/ Save(RouteOf(w), row) /\ GotoWith(w, "return", row, "none")
      \/ UNCHANGED route /\ GotoWith(w, "failed", row, "error")
  BY DEF SaveSmoothed, SaveFails
<1> HIDE DEF row
<1>3. CASE Save(RouteOf(w), row) /\ GotoWith(w, "return", row, "none")
  <2>1. /\ worker'[w].pc = "return"
        /\ \A v \in Workers : v # w => worker'[v] = worker[v]
    BY <1>0, <1>3, GotoWithEffect
  <2> QED
    BY <1>0, <1>1, <1>3, <2>1, LeavingStep DEF WritingPc
<1>4. CASE UNCHANGED route /\ GotoWith(w, "failed", row, "error")
  <2>1. /\ worker'[w].pc = "failed" /\ worker'[w].task = worker[w].task
        /\ \A v \in Workers : v # w => worker'[v] = worker[v]
    BY <1>0, <1>4, GotoWithEffect
  <2> QED
    BY <1>0, <1>4, <2>1, KeepingStep DEF WritingPc
<1> QED
  BY <1>2, <1>3, <1>4

LEMMA RetryOnNextMeshImplements ==
    ASSUME Inv, RowInv, NEW w \in Workers, RetryOnNextMesh(w)
    PROVE  LifecycleStep
<1> USE DEF tables, celery, web
<1> DEFINE next == Head(BackupsOf(w))
           row == Redirected(worker[w].row, next)
<1>0. /\ TypeInv /\ TypeOK /\ worker[w].pc = "retry" /\ worker[w].row \in Row
      /\ UNCHANGED <<args, queue, post>>
  BY DEF Inv, TypeInv, TypeOK, WorkerState, RetryOnNextMesh
<1>1. ~row.calculated
  <2>1. ~worker[w].row.calculated
    BY <1>0 DEF RowInv, Copies, CopyOK, Untried
  <2> QED
    BY <1>0, <2>1 DEF Redirected, Row
<1>2. \/ /\ next \in Live /\ Save(RouteOf(w), row)
         /\ GotoWith(w, "resend", row, worker[w].error)
      \/ UNCHANGED route /\ Goto(w, "raise")
  BY DEF RetryOnNextMesh, SaveFails
<1>3. next \in Live => row \in Row
  BY <1>0, RowType DEF Live
<1> HIDE DEF next, row
<1>4. CASE /\ next \in Live /\ Save(RouteOf(w), row)
           /\ GotoWith(w, "resend", row, worker[w].error)
  <2>1. /\ worker'[w].pc = "resend" /\ worker'[w].task = worker[w].task
        /\ \A v \in Workers : v # w => worker'[v] = worker[v]
    BY <1>0, <1>4, GotoWithEffect
  <2>2. \E copy \in Row : Save(RouteOf(w), copy) /\ ~copy.calculated
    BY <1>1, <1>3, <1>4
  <2> QED
    BY <1>0, <2>1, <2>2, KeepingStep DEF WritingPc
<1>5. CASE UNCHANGED route /\ Goto(w, "raise")
  <2>1. /\ worker'[w].pc = "raise"
        /\ \A v \in Workers : v # w => worker'[v] = worker[v]
    BY <1>0, <1>5, GotoEffect
  <2> QED
    BY <1>0, <1>5, <2>1, LeavingStep DEF WritingPc
<1> QED
  BY <1>2, <1>4, <1>5

LEMMA RecordErrorImplements ==
    ASSUME Inv, NEW w \in Workers, RecordError(w)
    PROVE  LifecycleStep
<1> USE DEF tables, celery, web
<1> DEFINE row == [worker[w].row EXCEPT !.info = "error"]
<1>0. /\ TypeOK /\ worker[w].pc = "error" /\ worker[w].row \in Row
      /\ UNCHANGED <<args, queue, post>>
  BY DEF Inv, TypeInv, TypeOK, WorkerState, RecordError
<1>1. row \in Row
  BY <1>0 DEF Row
<1>2. \/ Save(RouteOf(w), row) /\ Finish(w)
      \/ UNCHANGED route /\ Goto(w, "raise")
  BY DEF RecordError, SaveFails
<1> HIDE DEF row
<1>3. /\ worker'[w].pc \in {"idle", "raise"}
      /\ \A v \in Workers : v # w => worker'[v] = worker[v]
  BY <1>0, <1>2, FinishEffect, GotoEffect
<1>4. UNCHANGED route \/ \E copy \in Row : Save(RouteOf(w), copy)
  BY <1>1, <1>2
<1> QED
  BY <1>0, <1>3, <1>4, LeavingStep DEF WritingPc

LEMMA WorkerImplements ==
    ASSUME Inv, RowInv, NEW w \in Workers, WorkerStep(w) \/ WorkerDies(w)
    PROVE  LifecycleStep
<1> USE DEF tables, celery, web
<1>0. TypeOK
  BY DEF Inv, TypeInv
<1>1. CASE PlanFails(w) \/ SmoothFails(w)
  <2>1. /\ worker[w].pc \in WritingPc
        /\ UNCHANGED <<route, args, queue, post>>
        /\ \E error : GotoWith(w, "failed", worker[w].row, error)
    BY <1>1 DEF PlanFails, SmoothFails, WritingPc
  <2>2. /\ worker'[w].pc = "failed" /\ worker'[w].task = worker[w].task
        /\ \A v \in Workers : v # w => worker'[v] = worker[v]
    BY <1>0, <2>1, GotoWithEffect
  <2> QED
    BY <2>1, <2>2, KeepingStep DEF WritingPc
<1>2. CASE MarkFailure(w)
  <2>1. worker[w].pc = "failed" /\ UNCHANGED <<route, args, queue, post>>
    BY <1>2 DEF MarkFailure
  <2>2. /\ worker'[w].pc \in {"raise", "retry", "error"}
        /\ worker'[w].task = worker[w].task
        /\ \A v \in Workers : v # w => worker'[v] = worker[v]
    BY <1>0, <1>2, GotoEffect DEF MarkFailure, Handler
  <2>3. CASE worker'[w].pc = "raise"
    BY <2>1, <2>2, <2>3, LeavingStep DEF WritingPc
  <2>4. CASE worker'[w].pc # "raise"
    BY <2>1, <2>2, <2>4, KeepingStep DEF WritingPc
  <2> QED
    BY <2>3, <2>4
<1>3. CASE \/ Return(w) \/ RecordRetryJob(w) \/ Raise(w) \/ StoreRefused(w)
           \/ WorkerDies(w)
  <2>1. UNCHANGED <<route, args, queue, post>>
    BY <1>3 DEF Return, RecordRetryJob, Raise, StoreRefused, WorkerDies,
                WorkerCrash, ChildKilled
  <2>2. Finish(w) \/ Goto(w, "raise")
    BY <1>3 DEF Return, RecordRetryJob, Raise, StoreRefused, WorkerDies,
                WorkerCrash, ChildKilled
  <2>3. /\ worker'[w].pc \in {"idle", "raise"}
        /\ \A v \in Workers : v # w => worker'[v] = worker[v]
    BY <1>0, <2>2, FinishEffect, GotoEffect
  <2>4. CASE worker[w].pc \in WritingPc
    BY <2>1, <2>3, <2>4, LeavingStep DEF WritingPc
  <2>5. CASE worker[w].pc \notin WritingPc
    BY <2>1, <2>3, <2>5, KeepingStep DEF WritingPc
  <2> QED
    BY <2>4, <2>5
<1> QED
  BY <1>1, <1>2, <1>3, TakeImplements, SaveUnsmoothedImplements,
     SaveSmoothedImplements, RetryOnNextMeshImplements, ResendImplements,
     RecordErrorImplements DEF WorkerStep

LEMMA InitImplements == Init => Lifecycle!Init
<1> SUFFICES ASSUME Init PROVE Lifecycle!Init
  OBVIOUS
<1>1. \A r \in Routes : route[r].state = "unborn"
  BY DEF Init
<1>2. Phase = [r \in Routes |-> "new"]
  BY <1>1 DEF Phase
<1> QED
  BY <1>2 DEF Init, Lifecycle!Init

LEMMA NextImplements ==
    Inv /\ RowInv /\ [Next]_vars => [Lifecycle!Next]_<<Phase, route>>
<1> SUFFICES ASSUME Inv, RowInv, [Next]_vars PROVE LifecycleStep
  BY DEF LifecycleStep
<1>1. ASSUME UNCHANGED vars PROVE LifecycleStep
  <2>1. SameWriters
    BY <1>1 DEF vars, SameWriters, Free, RouteOf
  <2> QED
    BY <1>1, <2>1, StutterStep DEF vars
<1> QED
  BY <1>1, PostImplements, CancelImplements, WorkerImplements,
     EnvironmentImplements DEF Next, Rest

\* Every behaviour of the route jobs, with its crashes, refused calls, lost
\* results, cancellations and clean-ups, is one that RouteLifecycle allows:
\* a settled route is never rewritten, and a row is published at most once
\* (views.py:412, 770; tasks.py:121, 141, 156, 165).
THEOREM RouteJobsImplementLifecycle == Spec => ImplementsLifecycle
<1>1. Lifecycle!vars = <<Phase, route>>
  BY DEF Lifecycle!vars
<1> QED
  BY InitImplements, NextImplements, RowsAlways, <1>1, PTL
     DEF ImplementsLifecycle, Lifecycle!Spec, Spec, Lifecycle!vars

=============================================================================
