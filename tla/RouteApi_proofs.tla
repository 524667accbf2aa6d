--------------------------- MODULE RouteApi_proofs ---------------------------
(***************************************************************************)
(* Proofs about the whole API: the route jobs together with an             *)
(* administrator, a reader, a client and a route evaluation, in any        *)
(* company.  The invariants Inv and JobsInv of the route jobs survive the  *)
(* administrator; RowInv does not, because he may write an old mesh into a *)
(* row.  What clients rely on survives: a route that somebody has returned *)
(* is settled (PathsInv).  A last section shows that the recent routes do  *)
(* not contradict the tasks (RecentInv).                                   *)
(***************************************************************************)
EXTENDS RouteApi, RouteRequests_proofs

\* What clients look for in a row.
Paths(row) ==
    /\ row.calculated /\ row.json # None
    /\ row.json = row.json_unsmoothed

\* A route that was calculated and that no worker will write again.
Settled(r) ==
    /\ r \in Routes /\ route[r].state # "unborn"
    /\ Free(r)
    /\ Exists(r) => Paths(route[r].row)

\* The copy of a worker, as far as its paths depend on it.
CopyWF(w) ==
    LET row == worker[w].row
    IN  /\ worker[w].pc \in {"plan", "smooth"} => row.mesh # None
        /\ worker[w].pc = "smooth" => row.json_unsmoothed = row.mesh

PathsInv ==
    /\ \A w \in Workers : CopyWF(w)
    /\ \A w \in Workers : worker[w].pc = "return" => Settled(RouteOf(w))
    /\ \A t \in Tasks : result[t] = "SUCCESS" => Settled(args[t].route)

\* A job belongs to a row of the Route table.
JobsHaveRoutes ==
    \A t \in Tasks : jobs[t].route # None => Exists(jobs[t].route)

\* The job of t was recorded: nobody will do it again.
Recorded(t) ==
    /\ t \in Tasks /\ args[t].route # None
    /\ \A p \in Posts : post[p].pc = "record" => post[p].task # t
    /\ \A w \in Workers : worker[w].pc = "record" => worker[w].next # t

Lost(t) == Recorded(t) /\ jobs[t].route = None

\* A POST that was accepted names a job that was recorded.
Accepted ==
    \A p \in Posts :
        post[p].code = 202 => post[p].pc = "done" /\ Recorded(post[p].task)

\* A row that records an error has no writer, and no writer copies one.
ErrorsAreFinal ==
    /\ \A r \in Routes :
         Exists(r) /\ route[r].row.info = "error" => Free(r)
    /\ \A w \in Workers :
         worker[w].pc \in WritingPc => worker[w].row.info # "error"

\* The trips of a route: of its row, of the copy that a worker may save, and
\* of the object behind the administrator's form.
RowTrips(r) == {trip \in {route[r].row.trip} : Exists(r)}
CopyTrips(r) ==
    {worker[w].row.trip : w \in {v \in Workers : worker[v].pc \in WritingPc
                                               /\ RouteOf(v) = r}}
FormTrips(r) == {trip \in {admin.row.trip} : admin.pc = "save" /\ admin.route = r}
TripsOf(r) == RowTrips(r) \cup CopyTrips(r) \cup FormTrips(r)

\* A POST works on the route r, or has led its client to it.
Bound(p, r) ==
    \/ post[p].pc \in {"reuse", "send", "record"} /\ post[p].route = r
    \/ post[p].code = 202 /\ args[post[p].task].route = r

Suits(p, trip) ==
    trip = post[p].body.trip \/ InTolerance(post[p].body.trip, trip)

\* All copies of a route have one trip, which suits the POSTs bound to it.
TripsInv ==
    \A r \in Routes :
        /\ \A a, b \in TripsOf(r) : a = b
        /\ \A p \in Posts : Bound(p, r) =>
              /\ route[r].state # "unborn"
              /\ \A a \in TripsOf(r) : Suits(p, a)

AdminWF ==
    /\ AdminOK
    /\ admin.pc = "save" =>
          /\ admin.route \in Routes /\ route[admin.route].state # "unborn"
          /\ admin.row.info = "error" => Free(admin.route)

SystemInv ==
    /\ Inv /\ JobsInv /\ PathsInv /\ JobsHaveRoutes /\ Accepted
    /\ ErrorsAreFinal /\ TripsInv /\ AdminWF

----------------------------------------------------------------------------
(* The reader *)

Reading == {"status", "route", "url"}

ReaderWF ==
    LET r == args[reader.job].route
    IN  /\ ReaderOK
        /\ reader.pc \in Reading \cup {"job"} => Recorded(reader.job)
        /\ reader.pc \in Reading \cup {"away", "ready", "job"} =>
              reader.code = None /\ reader.info = None
        /\ reader.pc \in {"away", "ready", "job"} => reader.seen = "PENDING"
        /\ reader.pc \in {"away", "ready", "job", "status", "route"} =>
              reader.url = None
        /\ reader.pc \in Reading /\ reader.status \in {"SUCCESS", "FAILURE"} =>
              reader.seen = reader.status
        /\ reader.pc \in Reading /\ reader.seen = "SUCCESS" => Settled(r)
        /\ reader.pc \in {"route", "url"} /\ ~reader.found => Lost(reader.job)
        /\ reader.pc = "url" /\ reader.status = "SUCCESS" => reader.url # None
        /\ reader.url # None =>
              /\ reader.seen = "SUCCESS" /\ reader.info = None
              /\ reader.job \in Tasks /\ reader.url = r
              /\ Settled(reader.url)
        /\ reader.pc = "answered" => reader.code \in {200, 404, 500}
        /\ reader.pc = "answered" /\ reader.code = 500 => Lost(reader.job)
        /\ FinalStatusIsBorneOut /\ UrlLeadsToPaths

----------------------------------------------------------------------------
(* The client *)

ClientWF ==
    LET job == post[client.post].task
    IN  /\ ClientOK
        /\ client.pc \in {"poll", "wait", "fetch", "route", "raised"} =>
              /\ client.post \in Posts /\ post[client.post].code = 202
              /\ client.job = job
        /\ client.pc = "wait" =>
              /\ reader.pc \in Reading \cup {"job", "answered"}
              /\ reader.pc # "answered" \/ reader.code = 200 =>
                    reader.job = job
              /\ reader.pc = "answered" /\ reader.code # 200 => Lost(job)
        /\ client.pc = "raised" => Lost(job)
        /\ client.pc = "fetch" =>
              /\ reader.pc = "answered" /\ reader.url # None
              /\ reader.job = job
        /\ client.pc = "route" =>
              /\ reader.pc = "followed" /\ reader.code = 200
              /\ Suits(client.post, client.trip)

----------------------------------------------------------------------------
(* The evaluation *)

\* Whether some mesh of the date and the corners of a request is in a state.
SomeMesh(request, day, states) ==
    \E m \in Containing(Meshes, Corners(request.positions)) :
        Day[m] = day /\ mesh[m] \in states

EvaluationWF ==
    LET request == evaluation.request
        selected == evaluation.request.custom_mesh_id = None
    IN  /\ EvaluationOK
        /\ evaluation.pc \in {"away", "ready"} =>
              evaluation.mesh = None /\ evaluation.code = None
        /\ evaluation.pc \in {"select", "evaluate", "done"} =>
              request \in Evaluations
        /\ evaluation.pc = "select" =>
              /\ selected /\ evaluation.mesh = None /\ evaluation.code = None
              /\ SomeMesh(request, evaluation.day, {"stored", "deleted"})
        /\ evaluation.mesh # None /\ selected =>
              evaluation.mesh \in Containing(Meshes, Corners(request.positions))
        /\ evaluation.code = 500 =>
              selected /\ SomeMesh(request, evaluation.day, {"deleted"})

ApiInv == SystemInv /\ ReaderWF /\ ClientWF /\ EvaluationWF

----------------------------------------------------------------------------
(* A route without a writer stays without one *)

\* What may still happen to a row that nobody writes.
RowKept(r) ==
    \/ route'[r] = route[r]
    \/ route'[r] = [state |-> "deleted", row |-> NoRow]
    \/ route'[r] = [route[r] EXCEPT !.row.mesh = None]

FreeKept ==
    \A r \in Routes :
        Free(r) /\ route[r].state # "unborn" => Free(r)' /\ RowKept(r)

\* Writers come from writers of the same route.
LEMMA FreeStays ==
    ASSUME UNCHANGED args, queue' \subseteq queue, NEW r, Free(r),
           \A p \in Posts : post'[p].pc = "send" =>
              post[p].pc = "send" /\ post'[p].route = post[p].route,
           \A w \in Workers : worker'[w].pc \in WritingPc =>
              \/ /\ worker[w].pc \in WritingPc
                 /\ worker'[w].task = worker[w].task
              \/ worker'[w].task \in queue
    PROVE  Free(r)'
BY DEF Free, RouteOf

\* The steps of a worker between taking a task and sending the next.
LEMMA WorkerEffect ==
    ASSUME TypeInv, NEW w \in Workers, WorkerStep(w) \/ WorkerDies(w),
           ~Take(w), ~Resend(w)
    PROVE  /\ UNCHANGED <<mesh, args, queue, post, cancel>>
           /\ \A v \in Workers : v # w => worker'[v] = worker[v]
           /\ worker'[w].pc \in WritingPc =>
                 /\ worker[w].pc \in WritingPc
                 /\ worker'[w].task = worker[w].task
                 /\ worker'[w].row.trip = worker[w].row.trip
                 /\ worker'[w].row.info \in {worker[w].row.info, "note"}
           /\ \/ UNCHANGED route
              \/ /\ worker[w].pc \in WritingPc
                 /\ \E row \in Row :
                      /\ Save(RouteOf(w), row)
                      /\ row.trip = worker[w].row.trip
                      /\ \/ worker'[w].pc \notin WritingPc
                         \/ row.info \in {worker[w].row.info, "note"}
<1> USE DEF tables, celery, web
<1>0. TypeOK /\ worker[w].row \in Row
  BY DEF TypeInv, TypeOK, WorkerState
<1>1. UNCHANGED <<mesh, args, queue, post, cancel>>
  BY DEF WorkerStep, SaveUnsmoothed, PlanFails, SaveSmoothed, SmoothFails,
         Return, MarkFailure, RetryOnNextMesh, RecordRetryJob, RecordError,
         Raise, StoreRefused, WorkerDies, WorkerCrash, ChildKilled
<1>2. ASSUME NEW pc, Goto(w, pc), UNCHANGED route,
             pc \in WritingPc => worker[w].pc \in WritingPc
      PROVE  /\ \A v \in Workers : v # w => worker'[v] = worker[v]
             /\ worker'[w].pc \in WritingPc =>
                   /\ worker[w].pc \in WritingPc
                   /\ worker'[w].task = worker[w].task
                   /\ worker'[w].row.trip = worker[w].row.trip
                   /\ worker'[w].row.info \in {worker[w].row.info, "note"}
  BY <1>0, <1>2, GotoEffect, GotoCopy
<1>3. ASSUME NEW pc, NEW row \in Row, NEW error, GotoWith(w, pc, row, error),
             worker[w].pc \in WritingPc, row.trip = worker[w].row.trip,
             row.info \in {worker[w].row.info, "note"}
      PROVE  /\ \A v \in Workers : v # w => worker'[v] = worker[v]
             /\ worker'[w].pc \in WritingPc =>
                   /\ worker[w].pc \in WritingPc
                   /\ worker'[w].task = worker[w].task
                   /\ worker'[w].row.trip = worker[w].row.trip
                   /\ worker'[w].row.info \in {worker[w].row.info, "note"}
  BY <1>0, <1>3, GotoWithEffect, GotoWithCopy
<1>4. ASSUME Finish(w)
      PROVE  /\ \A v \in Workers : v # w => worker'[v] = worker[v]
             /\ worker'[w].pc \notin WritingPc
  BY <1>0, <1>4, FinishEffect DEF WritingPc
<1>5. CASE SaveUnsmoothed(w)
  <2> DEFINE row == Unsmoothed(worker[w].row)
  <2>1. /\ row \in Row /\ row.trip = worker[w].row.trip
        /\ row.info \in {worker[w].row.info, "note"}
    BY <1>0 DEF Unsmoothed, Row
  <2> HIDE DEF row
  <2>2. /\ worker[w].pc \in WritingPc
        /\ \/ Save(RouteOf(w), row) /\ GotoWith(w, "smooth", row, "none")
           \/ UNCHANGED route /\ GotoWith(w, "failed", row, "error")
    BY <1>5 DEF SaveUnsmoothed, SaveFails, WritingPc, row
  <2> QED
    BY <1>1, <1>3, <2>1, <2>2
<1>6. CASE SaveSmoothed(w)
  <2> DEFINE row == Smoothed(worker[w].row)
  <2>1. /\ row \in Row /\ row.trip = worker[w].row.trip
        /\ row.info \in {worker[w].row.info, "note"}
    BY <1>0 DEF Smoothed, Row
  <2> HIDE DEF row
  <2>2. /\ worker[w].pc \in WritingPc
        /\ \/ Save(RouteOf(w), row) /\ GotoWith(w, "return", row, "none")
           \/ UNCHANGED route /\ GotoWith(w, "failed", row, "error")
    BY <1>6 DEF SaveSmoothed, SaveFails, WritingPc, row
  <2> QED
    BY <1>1, <1>3, <2>1, <2>2
<1>7. CASE PlanFails(w) \/ SmoothFails(w)
  <2>1. /\ worker[w].pc \in WritingPc /\ UNCHANGED route
        /\ \E error : GotoWith(w, "failed", worker[w].row, error)
    BY <1>7 DEF PlanFails, SmoothFails, WritingPc
  <2> QED
    BY <1>0, <1>1, <1>3, <2>1
<1>8. CASE RetryOnNextMesh(w)
  <2> DEFINE m == Head(BackupsOf(w))
             row == Redirected(worker[w].row, m)
  <2>1. worker[w].pc \in WritingPc
    BY <1>8 DEF RetryOnNextMesh, WritingPc
  <2>2. CASE Save(RouteOf(w), row) /\ GotoWith(w, "resend", row, worker[w].error)
                /\ m \in Live
    <3>1. m \in Meshes
      BY <2>2 DEF Live
    <3>2. /\ row \in Row /\ row.trip = worker[w].row.trip
          /\ row.info \in {worker[w].row.info, "note"}
      BY <1>0, <3>1, RowType DEF Redirected, Row
    <3> HIDE DEF row
    <3> QED
      BY <1>1, <1>3, <2>1, <2>2, <3>2
  <2>3. CASE Goto(w, "raise") /\ UNCHANGED route
    BY <1>1, <1>2, <2>3 DEF WritingPc
  <2> QED
    BY <1>8, <2>2, <2>3 DEF RetryOnNextMesh, SaveFails
<1>9. CASE MarkFailure(w)
  BY <1>1, <1>2, <1>9 DEF MarkFailure, WritingPc
<1>10. CASE RecordError(w)
  <2> DEFINE row == [worker[w].row EXCEPT !.info = "error"]
  <2>1. row \in Row /\ row.trip = worker[w].row.trip
    BY <1>0 DEF Row
  <2> HIDE DEF row
  <2>2. /\ worker[w].pc \in WritingPc
        /\ \/ Save(RouteOf(w), row) /\ Finish(w)
           \/ UNCHANGED route /\ Goto(w, "raise")
    BY <1>10 DEF RecordError, SaveFails, WritingPc, row
  <2> QED
    BY <1>1, <1>2, <1>4, <2>1, <2>2 DEF WritingPc
<1>11. CASE RecordRetryJob(w)
  <2>1. UNCHANGED route /\ (Finish(w) \/ Goto(w, "raise"))
    BY <1>11 DEF RecordRetryJob
  <2> QED
    BY <1>1, <1>2, <1>4, <2>1 DEF WritingPc
<1>12. CASE Return(w) \/ Raise(w) \/ WorkerDies(w)
  <2>1. UNCHANGED route /\ Finish(w)
    BY <1>12 DEF Return, Raise, WorkerDies, WorkerCrash, ChildKilled
  <2> QED
    BY <1>1, <1>4, <2>1
<1>13. CASE StoreRefused(w)
  <2>1. UNCHANGED route /\ (Finish(w) \/ Goto(w, "raise"))
    BY <1>13 DEF StoreRefused
  <2> QED
    BY <1>1, <1>2, <1>4, <2>1 DEF WritingPc
<1> QED
  BY <1>5, <1>6, <1>7, <1>8, <1>9, <1>10, <1>11, <1>12, <1>13 DEF WorkerStep

\* A row that is saved by somebody else, or not at all, or deleted.
LEMMA OtherRowsKept ==
    ASSUME TypeOK, NEW r \in Routes,
           \/ UNCHANGED route
           \/ \E q \in Routes : \E row : q # r /\ Save(q, row)
           \/ \E q \in Routes : DeleteRoute(q)
           \/ \E m \in Meshes : CleanupMesh(m)
    PROVE  RowKept(r)
BY DEF TypeOK, RowKept, Save, DeleteRoute, CleanupMesh

LEMMA PostFreeKept ==
    ASSUME TypeInv, NEW p \in Posts, PostSelect(p) \/ PostStep(p) \/ PostCrash(p)
    PROVE  FreeKept
<1> SUFFICES ASSUME NEW r \in Routes, Free(r), route[r].state # "unborn"
             PROVE  Free(r)' /\ RowKept(r)
  BY DEF FreeKept
<1>0. TypeOK
  BY DEF TypeInv
<1>1. CASE \/ PostSelect(p) \/ PostLookup(p) \/ PostReuse(p) \/ PostRecord(p)
           \/ PostCrash(p)
  <2>1. /\ post'[p].pc # "send"
        /\ \A q \in Posts : q # p => post'[q] = post[q]
        /\ UNCHANGED <<route, args, queue, worker>>
    BY <1>1, PostMoves
  <2> QED
    BY <1>0, <2>1, FreeStays, OtherRowsKept
<1>2. CASE PostCreate(p)
  <2>1. UNCHANGED <<args, queue, worker>>
    BY <1>2 DEF PostCreate, celery
  <2>2. CASE UNCHANGED route /\ Answer(p, 500, None)
    <3>1. /\ post'[p].pc # "send"
          /\ \A q \in Posts : q # p => post'[q] = post[q]
      BY <2>2, AnswerType DEF Code
    <3> QED
      BY <1>0, <2>1, <2>2, <3>1, FreeStays, OtherRowsKept
  <2>3. ASSUME NEW q \in Routes, route[q].state = "unborn", NEW row, Save(q, row),
               post' = [post EXCEPT ![p].pc = "send", ![p].route = q]
        PROVE  Free(r)' /\ RowKept(r)
    <3>1. q # r
      BY <2>3
    <3>2. /\ post'[p].route # r
          /\ \A other \in Posts : other # p => post'[other] = post[other]
      BY <1>0, <2>3, <3>1 DEF TypeOK, PostState
    <3>3. Free(r)'
      BY <2>1, <3>2 DEF Free, RouteOf
    <3> QED
      BY <1>0, <2>3, <3>1, <3>3, OtherRowsKept
  <2> QED
    BY <1>2, <2>2, <2>3 DEF PostCreate, SaveFails
<1>3. CASE PostSend(p)
  <2>0. post[p].pc = "send" /\ post[p].route # r
    BY <1>3 DEF PostSend, Free
  <2>1. UNCHANGED <<route, worker>>
    BY <1>3 DEF PostSend, tables
  <2>2. CASE Answer(p, 500, None) /\ UNCHANGED <<args, queue>>
    <3>1. /\ post'[p].pc # "send"
          /\ \A q \in Posts : q # p => post'[q] = post[q]
      BY <2>2, AnswerType DEF Code
    <3> QED
      BY <1>0, <2>1, <2>2, <3>1, FreeStays, OtherRowsKept
  <2>3. ASSUME NEW t \in Tasks,
               Delay(t, post[p].route, AllButFirst(post[p].meshes)),
               post' = [post EXCEPT ![p].pc = "record", ![p].task = t]
        PROVE  Free(r)' /\ RowKept(r)
    <3>1. /\ args[t].route = None /\ args'[t].route = post[p].route
          /\ \A u \in Tasks : u # t => args'[u] = args[u]
          /\ queue' = queue \cup {t}
      <4>1. post[p].route \in Routes /\ post[p].meshes # <<>>
        BY <2>0 DEF TypeInv, PostWF
      <4>2. AllButFirst(post[p].meshes) \in Seq(Meshes)
        BY <1>0, <4>1, TailType DEF TypeOK, PostState
      <4> QED
        BY <2>3, <4>1, <4>2, DelayType
    <3>2. \A w \in Workers : worker[w].pc # "idle" =>
            worker[w].task \in Tasks /\ worker[w].task # t
      BY <3>1, HeldIsSent DEF TypeInv, WorkerWF
    <3>3. t \notin queue /\ queue \subseteq Tasks
      BY <3>1, NoneAssumption DEF TypeInv, TypeOK, QueueWF
    <3>4. \A q \in Posts : post'[q].pc = "send" =>
            post[q].pc = "send" /\ post'[q].route = post[q].route
      BY <1>0, <2>3 DEF TypeOK, PostState
    <3>5. \A w \in Workers : worker'[w].pc \in WritingPc =>
            worker[w].pc \in WritingPc /\ RouteOf(w)' = RouteOf(w)
      BY <2>1, <3>1, <3>2 DEF RouteOf, WritingPc
    <3>6. Free(r)'
      BY <2>0, <3>1, <3>3, <3>4, <3>5 DEF Free
    <3> QED
      BY <1>0, <2>1, <3>6, OtherRowsKept
  <2> QED
    BY <1>3, <2>2, <2>3 DEF PostSend
<1> QED
  BY <1>1, <1>2, <1>3 DEF PostStep

LEMMA CancelFreeKept ==
    ASSUME TypeInv, NEW c \in Cancels,
           CancelFind(c) \/ CancelStep(c) \/ CancelCrash(c)
    PROVE  FreeKept
<1>1. UNCHANGED <<args, queue, post, worker>>
  BY DEF CancelFind, CancelStep, CancelRevoke, CancelDelete, CancelCrash, celery
<1>2. UNCHANGED route \/ \E q \in Routes : DeleteRoute(q)
  BY DEF CancelFind, CancelStep, CancelRevoke, CancelDelete, CancelCrash,
         tables, TypeInv, CancelWF
<1> QED
  BY <1>1, <1>2, FreeStays, OtherRowsKept DEF FreeKept, TypeInv

LEMMA EnvironmentFreeKept ==
    ASSUME TypeInv,
           \/ \E m \in Meshes : ImportMesh(m) \/ CleanupMesh(m)
           \/ \E r \in Routes : CleanupRoute(r)
           \/ \E t \in Tasks : ResultExpires(t)
    PROVE  FreeKept
<1>1. UNCHANGED <<args, queue, post, worker>>
  BY DEF ImportMesh, CleanupMesh, CleanupRoute, ResultExpires, celery, web
<1>2. \/ UNCHANGED route
      \/ \E q \in Routes : DeleteRoute(q)
      \/ \E m \in Meshes : CleanupMesh(m)
  BY DEF ImportMesh, CleanupRoute, ResultExpires, tables
<1> QED
  BY <1>1, <1>2, FreeStays, OtherRowsKept DEF FreeKept, TypeInv

LEMMA WorkerFreeKept ==
    ASSUME TypeInv, NEW w \in Workers, WorkerStep(w) \/ WorkerDies(w)
    PROVE  FreeKept
<1> SUFFICES ASSUME NEW r \in Routes, Free(r), route[r].state # "unborn"
             PROVE  Free(r)' /\ RowKept(r)
  BY DEF FreeKept
<1>0. TypeOK
  BY DEF TypeInv
<1>1. CASE Take(w)
  <2>1. UNCHANGED <<route, args, post>>
    BY <1>1 DEF Take, tables, web
  <2>2. PICK t \in queue : queue' = queue \ {t} /\ worker'[w].task = t
    BY <1>1, TakeEffect
  <2>3. \A v \in Workers : v # w => worker'[v] = worker[v]
    BY <1>0, <1>1 DEF Take, TypeOK
  <2> QED
    BY <1>0, <2>1, <2>2, <2>3, FreeStays, OtherRowsKept
<1>2. CASE Resend(w)
  <2>1. /\ worker[w].pc = "resend" /\ RouteOf(w) \in Routes
        /\ UNCHANGED <<route, post>>
        /\ worker'[w].pc \notin WritingPc
        /\ \A v \in Workers : v # w => worker'[v] = worker[v]
    BY <1>2, ResendEffect DEF WritingPc
  <2>2. RouteOf(w) # r
    BY <2>1 DEF Free, WritingPc
  <2>3. CASE UNCHANGED <<args, queue>>
    BY <1>0, <2>1, <2>3, FreeStays, OtherRowsKept
  <2>4. ASSUME NEW t \in Tasks, args[t].route = None, args'[t].route = RouteOf(w),
               \A u \in Tasks : u # t => args'[u] = args[u],
               queue' = queue \cup {t}
        PROVE  Free(r)' /\ RowKept(r)
    <3>1. t \notin queue /\ queue \subseteq Tasks
      BY <2>4, NoneAssumption DEF TypeInv, TypeOK, QueueWF
    <3>2. \A v \in Workers : worker[v].pc # "idle" =>
            worker[v].task \in Tasks /\ worker[v].task # t
      BY <2>4, HeldIsSent DEF TypeInv, WorkerWF
    <3>3. \A v \in Workers : worker'[v].pc \in WritingPc =>
            worker[v].pc \in WritingPc /\ RouteOf(v)' = RouteOf(v)
      BY <2>1, <2>4, <3>2 DEF RouteOf, WritingPc
    <3>4. Free(r)'
      BY <2>1, <2>2, <2>4, <3>1, <3>3 DEF Free
    <3> QED
      BY <1>0, <2>1, <3>4, OtherRowsKept
  <2>5. ASSUME NEW t \in Tasks,
               args'[t] = [route |-> RouteOf(w),
                           backups |-> AllButFirst(BackupsOf(w))]
        PROVE  args'[t].route = RouteOf(w)
    BY <2>5
  <2> QED
    BY <1>2, <2>3, <2>4, <2>5, ResendEffect
<1>3. CASE ~Take(w) /\ ~Resend(w)
  <2>1. /\ UNCHANGED <<args, queue, post>>
        /\ \A v \in Workers : v # w => worker'[v] = worker[v]
        /\ worker'[w].pc \in WritingPc =>
             worker[w].pc \in WritingPc /\ worker'[w].task = worker[w].task
        /\ \/ UNCHANGED route
           \/ worker[w].pc \in WritingPc /\ \E row : Save(RouteOf(w), row)
    BY <1>3, WorkerEffect
  <2>2. Free(r)'
    BY <2>1, FreeStays
  <2>3. worker[w].pc \in WritingPc => RouteOf(w) # r /\ RouteOf(w) \in Routes
    BY DEF Free, TypeInv, WorkerWF, WritingPc
  <2>4. RowKept(r)
    BY <1>0, <2>1, <2>3, OtherRowsKept
  <2> QED
    BY <2>2, <2>4
<1> QED
  BY <1>1, <1>2, <1>3

LEMMA NextFreeKept == TypeInv /\ [Next]_vars => FreeKept
<1> SUFFICES ASSUME TypeInv, [Next]_vars PROVE FreeKept
  OBVIOUS
<1>1. CASE UNCHANGED vars
  <2>1. UNCHANGED <<route, args, queue, post, worker>>
    BY <1>1 DEF vars
  <2> QED
    BY <2>1, FreeStays, OtherRowsKept DEF FreeKept, TypeInv
<1> QED
  BY <1>1, PostFreeKept, CancelFreeKept, WorkerFreeKept, EnvironmentFreeKept
     DEF Next, Rest

----------------------------------------------------------------------------
(* Settled routes, and the tasks that returned *)

LEMMA SettledStays ==
    ASSUME TypeOK, FreeKept, NEW r, Settled(r)
    PROVE  Settled(r)'
<1>1. r \in Routes /\ route[r].state # "unborn" /\ Free(r)' /\ RowKept(r)
  BY DEF Settled, FreeKept
<1>2. route[r] \in RouteRow /\ route[r].row \in Row
  BY <1>1 DEF TypeOK, RouteRow
<1>3. CASE route'[r] = route[r]
  BY <1>1, <1>3 DEF Settled, Exists
<1>4. CASE route'[r] = [state |-> "deleted", row |-> NoRow]
  BY <1>1, <1>4 DEF Settled, Exists
<1>5. CASE route'[r] = [route[r] EXCEPT !.row.mesh = None]
  <2> DEFINE row == [route[r].row EXCEPT !.mesh = None]
  <2>1. route'[r].state = route[r].state /\ route'[r].row = row
    BY <1>2, <1>5 DEF RouteRow
  <2>2. Paths(route[r].row) => Paths(row)
    BY <1>2 DEF Paths, Row
  <2> HIDE DEF row
  <2> QED
    BY <1>1, <2>1, <2>2 DEF Settled, Exists
<1> QED
  BY <1>1, <1>3, <1>4, <1>5 DEF RowKept

\* What a task was sent with does not change.
ArgsKept == \A t \in Tasks : args[t].route # None => args'[t] = args[t]

LEMMA PostArgsKept ==
    ASSUME TypeInv, NEW p \in Posts, PostSelect(p) \/ PostStep(p) \/ PostCrash(p)
    PROVE  ArgsKept /\ UNCHANGED <<mesh, result, cancel, worker>>
BY DEF PostSelect, PostStep, PostLookup, PostReuse, PostCreate, PostSend,
       PostRecord, PostCrash, ArgsKept, Delay, Fresh, TypeInv, TypeOK,
       tables, celery

LEMMA WorkerArgsKept ==
    ASSUME TypeInv, NEW w \in Workers, WorkerStep(w) \/ WorkerDies(w)
    PROVE  /\ ArgsKept /\ UNCHANGED <<mesh, post, cancel>>
           /\ \A v \in Workers : v # w => worker'[v] = worker[v]
<1>1. CASE Take(w)
  BY <1>1 DEF Take, ArgsKept, tables, web, TypeInv, TypeOK
<1>2. CASE Resend(w)
  BY <1>2, ResendEffect DEF ArgsKept
<1>3. CASE ~Take(w) /\ ~Resend(w)
  BY <1>3, WorkerEffect DEF ArgsKept
<1> QED
  BY <1>1, <1>2, <1>3

LEMMA QuietPaths ==
    ASSUME TypeInv, PathsInv, FreeKept, ArgsKept, UNCHANGED worker,
           UnsentPending,
           \A t \in Tasks : result'[t] = result[t] \/ result'[t] # "SUCCESS"
    PROVE  PathsInv'
<1>1. \A r : Settled(r) => Settled(r)'
  BY SettledStays DEF TypeInv
<1>2. \A w \in Workers : worker[w].pc = "return" => RouteOf(w)' = RouteOf(w)
  BY NoneAssumption DEF TypeInv, WorkerWF, ArgsKept, RouteOf
<1>3. \A t \in Tasks :
        result'[t] = "SUCCESS" => result[t] = "SUCCESS" /\ args'[t] = args[t]
  BY DEF UnsentPending, ArgsKept
<1> QED
  BY <1>1, <1>2, <1>3 DEF PathsInv, CopyWF

\* A worker that ceases to be a writer was the only one of its route.
LEMMA LastWriter ==
    ASSUME Inv, NEW w \in Workers, worker[w].pc \in WritingPc,
           NEW r, r = RouteOf(w), UNCHANGED <<args, queue, post>>,
           \A v \in Workers : v # w => worker'[v] = worker[v],
           worker'[w].pc \notin WritingPc
    PROVE  Free(r)'
BY DEF Inv, Exclusive, Free, RouteOf

\* The copy of a worker and the route it returns, step by step.
LEMMA WorkerCopyWF ==
    ASSUME TypeInv, PathsInv, NEW w \in Workers, WorkerStep(w) \/ WorkerDies(w)
    PROVE  CopyWF(w)'
<1>0. TypeOK /\ worker[w].row \in Row /\ CopyWF(w)
  BY DEF TypeInv, TypeOK, WorkerState, PathsInv
<1>1. CASE Take(w)
  <2>1. PICK t \in queue :
          \/ worker'[w].pc = "raise"
          \/ LET r == args[t].route
             IN  /\ worker'[w].pc = "plan"
                 /\ Exists(r) /\ route[r].row.mesh # None
                 /\ \E info \in {route[r].row.info, "note"} :
                      worker'[w].row = [route[r].row EXCEPT !.info = info]
    BY <1>1, TakeEffect
  <2> DEFINE r == args[t].route
  <2>2. CASE worker'[w].pc = "raise"
    BY <2>2 DEF CopyWF
  <2>3. ASSUME worker'[w].pc = "plan", route[r].row.mesh # None, NEW info,
               worker'[w].row = [route[r].row EXCEPT !.info = info]
        PROVE  CopyWF(w)'
    <3>1. route[r].row \in Row
      BY DEF TypeInv, TypeOK, QueueWF, RouteRow
    <3>2. worker'[w].row.mesh # None
      BY <2>3, <3>1 DEF Row
    <3> QED
      BY <2>3, <3>2 DEF CopyWF
  <2> QED
    BY <2>1, <2>2, <2>3
<1>2. CASE SaveUnsmoothed(w)
  <2> DEFINE row == Unsmoothed(worker[w].row)
  <2>1. row.mesh = worker[w].row.mesh /\ row.json_unsmoothed = row.mesh
    BY <1>0 DEF Unsmoothed, Row
  <2>2. worker[w].row.mesh # None
    BY <1>0, <1>2 DEF CopyWF, SaveUnsmoothed
  <2> HIDE DEF row
  <2>3. GotoWith(w, "smooth", row, "none") \/ GotoWith(w, "failed", row, "error")
    BY <1>2 DEF SaveUnsmoothed, row
  <2>4. worker'[w].row = row
    BY <1>0, <2>3, GotoWithCopy
  <2> QED
    BY <2>1, <2>2, <2>4 DEF CopyWF
<1>3. CASE Resend(w)
  BY <1>3, ResendEffect DEF CopyWF
<1>4. CASE ~Take(w) /\ ~SaveUnsmoothed(w) /\ ~Resend(w)
  <2>1. \/ \E pc : pc \notin {"plan", "smooth"} /\ Goto(w, pc)
        \/ \E pc, row, error : pc \notin {"plan", "smooth"} /\ GotoWith(w, pc, row, error)
        \/ Finish(w)
    <3>1. Handler(w) \notin {"plan", "smooth"}
      BY DEF Handler
    <3> QED
      BY <1>4, <3>1
         DEF WorkerStep, PlanFails, SaveSmoothed, SmoothFails, Return,
             MarkFailure, RetryOnNextMesh, RecordRetryJob, RecordError, Raise,
             StoreRefused, WorkerDies, WorkerCrash, ChildKilled
  <2>2. worker'[w].pc \notin {"plan", "smooth"}
    BY <1>0, <2>1, GotoEffect, GotoWithEffect, FinishEffect
  <2> QED
    BY <2>2 DEF CopyWF
<1> QED
  BY <1>1, <1>2, <1>3, <1>4

\* A worker returns by saving smoothed paths, and its route is settled.
LEMMA ReturnSettled ==
    ASSUME Inv, PathsInv, NEW w \in Workers, SaveSmoothed(w),
           worker'[w].pc = "return", NEW r, r = RouteOf(w)
    PROVE  Settled(r)'
<1> DEFINE row == Smoothed(worker[w].row)
<1>0. /\ TypeOK /\ worker[w].row \in Row /\ CopyWF(w)
      /\ worker[w].pc = "smooth" /\ r \in Routes
  BY DEF SaveSmoothed, Inv, TypeInv, TypeOK, WorkerState, WorkerWF, PathsInv
<1>1. Paths(row)
  BY <1>0 DEF Paths, Smoothed, Row, CopyWF
<1> HIDE DEF row
<1>2. \/ Save(r, row) /\ GotoWith(w, "return", row, "none")
      \/ SaveFails(row) /\ GotoWith(w, "failed", row, "error")
  BY DEF SaveSmoothed, row
<1>3. ~ GotoWith(w, "failed", row, "error")
  BY <1>0, GotoWithEffect
<1>4. route'[r].state = "stored" /\ route'[r].row = row
  BY <1>0, <1>2, <1>3, SaveEffect
<1>5. /\ UNCHANGED <<args, queue, post>>
      /\ \A v \in Workers : v # w => worker'[v] = worker[v]
  BY <1>0, <1>2, GotoWithEffect DEF SaveSmoothed, celery, web
<1>6. Free(r)'
  BY <1>0, <1>5, LastWriter DEF WritingPc
<1> QED
  BY <1>0, <1>1, <1>4, <1>6 DEF Settled

LEMMA WorkerReturns ==
    ASSUME TypeInv, NEW w \in Workers, WorkerStep(w) \/ WorkerDies(w)
    PROVE  /\ worker'[w].pc = "return" => SaveSmoothed(w) /\ UNCHANGED args
           /\ \A t \in Tasks : result'[t] = "SUCCESS" =>
                \/ result[t] = "SUCCESS"
                \/ worker[w].pc = "return" /\ worker[w].task = t
<1>0. TypeOK
  BY DEF TypeInv
<1>1. ASSUME worker'[w].pc = "return" PROVE SaveSmoothed(w) /\ UNCHANGED args
  <2>1. ~Take(w) /\ ~Resend(w)
    BY <1>1, TakeEffect, ResendEffect
  <2>2. CASE ~SaveSmoothed(w)
    <3>1. \/ \E pc : pc # "return" /\ Goto(w, pc)
          \/ \E pc, row, error : pc # "return" /\ GotoWith(w, pc, row, error)
          \/ Finish(w)
      <4>1. Handler(w) # "return"
        BY DEF Handler
      <4> QED
        BY <2>1, <2>2, <4>1
           DEF WorkerStep, SaveUnsmoothed, PlanFails, SmoothFails, Return,
               MarkFailure, RetryOnNextMesh, RecordRetryJob, RecordError,
               Raise, StoreRefused, WorkerDies, WorkerCrash, ChildKilled
    <3>2. worker'[w].pc # "return"
      BY <1>0, <3>1, GotoEffect, GotoWithEffect, FinishEffect
    <3> QED
      BY <1>1, <3>2
  <2> QED
    BY <2>2 DEF SaveSmoothed, celery
<1>2. ASSUME NEW t \in Tasks, result'[t] = "SUCCESS"
      PROVE  \/ result[t] = "SUCCESS"
             \/ worker[w].pc = "return" /\ worker[w].task = t
  <2>1. CASE Return(w)
    BY <1>0, <1>2, <2>1 DEF Return, TypeOK
  <2>2. CASE MarkFailure(w) \/ Raise(w) \/ ChildKilled(w)
    <3>1. result' = [result EXCEPT ![worker[w].task] = "FAILURE"]
      BY <2>2 DEF MarkFailure, Raise, ChildKilled
    <3> QED
      BY <1>0, <1>2, <3>1 DEF TypeOK
  <2>3. CASE ~Return(w) /\ ~MarkFailure(w) /\ ~Raise(w) /\ ~ChildKilled(w)
    <3>1. UNCHANGED result
      BY <2>3
         DEF WorkerStep, Take, SaveUnsmoothed, PlanFails, SaveSmoothed,
             SmoothFails, RetryOnNextMesh, Resend, RecordRetryJob,
             RecordError, StoreRefused, WorkerDies, WorkerCrash, celery
    <3> QED
      BY <1>2, <3>1
  <2> QED
    BY <2>1, <2>2, <2>3
<1> QED
  BY <1>1, <1>2

LEMMA WorkerPaths ==
    ASSUME Inv, PathsInv, NEW w \in Workers, WorkerStep(w) \/ WorkerDies(w)
    PROVE  PathsInv'
<1>0. TypeInv /\ TypeOK
  BY DEF Inv, TypeInv
<1>1. ArgsKept /\ \A v \in Workers : v # w => worker'[v] = worker[v]
  BY <1>0, WorkerArgsKept
<1>2. \A r : Settled(r) => Settled(r)'
  BY <1>0, WorkerFreeKept, SettledStays
<1>3. \A v \in Workers : CopyWF(v)'
  <2>1. ASSUME NEW v \in Workers, v # w PROVE CopyWF(v)'
    BY <1>1, <2>1 DEF PathsInv, CopyWF
  <2> QED
    BY <1>0, <2>1, WorkerCopyWF
<1>4. ASSUME NEW v \in Workers, worker'[v].pc = "return"
      PROVE  Settled(RouteOf(v))'
  <2>1. CASE v = w
    <3>1. PICK r : r = RouteOf(w)
      OBVIOUS
    <3>2. SaveSmoothed(w) /\ UNCHANGED args
      BY <1>0, <1>4, <2>1, WorkerReturns
    <3>3. worker'[w].task = worker[w].task
      BY <1>0, <3>2, GotoWithEffect DEF SaveSmoothed
    <3>4. Settled(r)'
      BY <1>4, <2>1, <3>1, <3>2, ReturnSettled
    <3> QED
      BY <2>1, <3>1, <3>2, <3>3, <3>4 DEF RouteOf
  <2>2. CASE v # w
    <3>1. PICK r : r = RouteOf(v)
      OBVIOUS
    <3>2. worker'[v] = worker[v] /\ worker[v].pc = "return" /\ Settled(r)
      BY <1>1, <1>4, <2>2, <3>1 DEF PathsInv
    <3>3. RouteOf(v)' = r
      BY <1>0, <1>1, <3>1, <3>2, NoneAssumption
         DEF TypeInv, WorkerWF, ArgsKept, RouteOf
    <3> QED
      BY <1>2, <3>2, <3>3
  <2> QED
    BY <2>1, <2>2
<1>5. ASSUME NEW t \in Tasks, result'[t] = "SUCCESS"
      PROVE  Settled(args[t].route)'
  <2>1. PICK r : r = args[t].route
    OBVIOUS
  <2>2. Settled(r)
    BY <1>0, <1>5, <2>1, WorkerReturns DEF PathsInv, RouteOf
  <2>3. args'[t].route = r
    BY <1>1, <2>1, <2>2, NoneAssumption DEF ArgsKept, Settled
  <2> QED
    BY <1>2, <2>2, <2>3
<1> QED
  BY <1>3, <1>4, <1>5 DEF PathsInv

----------------------------------------------------------------------------
(* What the step of a POST does to the tables and to its own state *)

PostRests(p) ==
    /\ post'[p].pc \notin {"reuse", "send", "record"} /\ post'[p].code # 202
    /\ UNCHANGED <<route, jobs, args>>

PostFinds(p) ==
    /\ post'[p].pc = "reuse" /\ post'[p].code # 202
    /\ \E meshes : post'[p].route \in
          RouteExists(route, jobs, result, meshes, post[p].body.trip)
    /\ UNCHANGED <<route, jobs, args>>

PostReuses(p) ==
    /\ post[p].pc = "reuse"
    /\ post'[p].pc = "done" /\ post'[p].code = 202
    /\ post'[p].task \in JobSet(jobs, post[p].route)
    /\ UNCHANGED <<route, jobs, args>>

PostCreates(p) ==
    /\ post'[p].pc = "send" /\ post'[p].code # 202
    /\ \E r \in Routes, row \in Row :
         /\ route[r].state = "unborn" /\ Save(r, row)
         /\ row.trip = post[p].body.trip /\ row.info = "none"
         /\ post'[p].route = r
    /\ UNCHANGED <<jobs, args>>

PostSends(p) ==
    /\ post[p].pc = "send"
    /\ post'[p].pc = "record" /\ post'[p].code # 202
    /\ post'[p].route = post[p].route
    /\ \E t \in Tasks :
         /\ args[t].route = None /\ args'[t].route = post[p].route
         /\ post'[p].task = t
    /\ UNCHANGED <<route, jobs>>

PostRecords(p) ==
    /\ post[p].pc = "record"
    /\ post'[p].pc = "done" /\ post'[p].code = 202
    /\ post'[p].task = post[p].task
    /\ CreateJob(post[p].task, post[p].route)
    /\ UNCHANGED <<route, args>>

LEMMA AnswerEffect ==
    ASSUME TypeOK, NEW p \in Posts, NEW code, NEW t, Answer(p, code, t)
    PROVE  /\ post'[p].pc = "done" /\ post'[p].code = code /\ post'[p].task = t
           /\ post'[p].body = post[p].body
<1> DEFINE empty == <<>>
           s == [post[p] EXCEPT !.pc = "done", !.code = code, !.task = t,
                     !.day = None, !.meshes = empty, !.route = None]
<1>1. post'[p] = s
  BY DEF Answer, TypeOK
<1>2. post[p] \in PostState
  BY DEF TypeOK
<1> HIDE DEF empty
<1>3. s.pc = "done" /\ s.code = code /\ s.task = t /\ s.body = post[p].body
  BY <1>2 DEF PostState
<1> HIDE DEF s
<1> QED
  BY <1>1, <1>3

LEMMA PostEffect ==
    ASSUME TypeInv, NEW p \in Posts, post[p].code = 202 => post[p].pc = "done",
           PostSelect(p) \/ PostStep(p) \/ PostCrash(p)
    PROVE  /\ post[p].pc # "done" /\ post'[p].body = post[p].body
           /\ \A q \in Posts : q # p => post'[q] = post[q]
           /\ \/ PostRests(p) \/ PostFinds(p) \/ PostReuses(p)
              \/ PostCreates(p) \/ PostSends(p) \/ PostRecords(p)
<1> USE DEF tables
<1>0. TypeOK /\ post[p] \in PostState
  BY DEF TypeInv, TypeOK
<1>1. post[p].pc # "done" /\ post[p].code # 202
  BY DEF PostSelect, PostStep, PostLookup, PostReuse, PostCreate, PostSend,
         PostRecord, PostCrash
<1>2. \A q \in Posts : q # p => post'[q] = post[q]
  <2>1. CASE PostCreate(p)
    BY <1>0, <2>1 DEF PostCreate, Answer, TypeOK
  <2>2. CASE PostSend(p)
    BY <1>0, <2>2 DEF PostSend, Answer, TypeOK
  <2> QED
    BY <2>1, <2>2, PostMoves DEF PostStep
<1>3. ASSUME UNCHANGED <<route, jobs, args>>, NEW code \in {400, 404, 500},
             Answer(p, code, None)
      PROVE  PostRests(p) /\ post'[p].body = post[p].body
  BY <1>0, <1>3, AnswerEffect DEF PostRests
<1>4. CASE PostSelect(p)
  <2>1. UNCHANGED <<route, jobs, args>>
    BY <1>4 DEF PostSelect, celery
  <2>2. CASE Answer(p, 400, None) \/ Answer(p, 404, None)
    BY <1>1, <1>2, <1>3, <2>1, <2>2
  <2>3. CASE ~Answer(p, 400, None) /\ ~Answer(p, 404, None)
    <3>1. \/ \E m : post' = [post EXCEPT ![p].pc = "lookup", ![p].day = Day[m]]
          \/ post' = [post EXCEPT ![p].pc = "lookup"]
      BY <1>4, <2>3 DEF PostSelect
    <3>2. /\ post'[p].pc = "lookup" /\ post'[p].code = post[p].code
          /\ post'[p].body = post[p].body
      BY <1>0, <3>1 DEF TypeOK, PostState
    <3> QED
      BY <1>1, <1>2, <2>1, <3>2 DEF PostRests
  <2> QED
    BY <2>2, <2>3
<1>5. CASE PostLookup(p)
  <2>1. UNCHANGED <<route, jobs, args>>
    BY <1>5 DEF PostLookup, celery
  <2>2. CASE Answer(p, 500, None)
    BY <1>1, <1>2, <1>3, <2>1, <2>2
  <2>3. ASSUME NEW meshes, NEW r \in RouteExists(route, jobs, result, meshes,
                                                 post[p].body.trip),
               post' = [post EXCEPT ![p].pc = "reuse", ![p].route = r,
                                    ![p].meshes = meshes]
        PROVE  PostFinds(p) /\ post'[p].body = post[p].body
    <3>1. /\ post'[p].pc = "reuse" /\ post'[p].code = post[p].code
          /\ post'[p].body = post[p].body /\ post'[p].route = r
      BY <1>0, <2>3 DEF TypeOK, PostState
    <3> QED
      BY <1>1, <2>1, <3>1 DEF PostFinds
  <2>4. ASSUME NEW meshes, post' = [post EXCEPT ![p].pc = "create",
                                                ![p].meshes = meshes]
        PROVE  PostRests(p) /\ post'[p].body = post[p].body
    <3>1. /\ post'[p].pc = "create" /\ post'[p].code = post[p].code
          /\ post'[p].body = post[p].body
      BY <1>0, <2>4 DEF TypeOK, PostState
    <3> QED
      BY <1>1, <2>1, <3>1 DEF PostRests
  <2> QED
    BY <1>1, <1>2, <1>5, <2>2, <2>3, <2>4, ZenonT(40) DEF PostLookup
<1>6. CASE PostReuse(p)
  <2>1. UNCHANGED <<route, jobs, args>> /\ post[p].pc = "reuse"
    BY <1>6 DEF PostReuse, celery
  <2>2. CASE Answer(p, 500, None)
    BY <1>1, <1>2, <1>3, <2>1, <2>2
  <2>3. ASSUME NEW t \in LatestJobs(post[p].route), Answer(p, 202, t)
        PROVE  PostReuses(p) /\ post'[p].body = post[p].body
    BY <1>0, <2>1, <2>3, AnswerEffect DEF PostReuses, LatestJobs
  <2> QED
    BY <1>1, <1>2, <1>6, <2>2, <2>3 DEF PostReuse
<1>7. CASE PostCreate(p)
  <2>1. UNCHANGED <<jobs, args>>
    BY <1>7 DEF PostCreate, celery
  <2> DEFINE row == [NoRow EXCEPT !.trip = post[p].body.trip,
                                  !.mesh = Head(post[p].meshes)]
  <2>2. row \in Row /\ row.trip = post[p].body.trip /\ row.info = "none"
    <3>1. Head(post[p].meshes) \in Meshes
      BY <1>0, <1>7, TailType DEF PostCreate, TypeInv, PostWF, PostState
    <3>2. post[p].body.trip \in Trips
      BY <1>0, BodiesAssumption DEF PostState, BodiesAssumption
    <3> QED
      BY <3>1, <3>2 DEF NoRow, Row
  <2> HIDE DEF row
  <2>3. \/ \E r \in Routes :
             /\ route[r].state = "unborn" /\ Save(r, row)
             /\ post' = [post EXCEPT ![p].pc = "send", ![p].route = r]
        \/ UNCHANGED route /\ Answer(p, 500, None)
    BY <1>7 DEF PostCreate, SaveFails, row
  <2>4. CASE UNCHANGED route /\ Answer(p, 500, None)
    BY <1>1, <1>2, <1>3, <2>1, <2>4
  <2>5. ASSUME NEW r \in Routes, route[r].state = "unborn", Save(r, row),
               post' = [post EXCEPT ![p].pc = "send", ![p].route = r]
        PROVE  PostCreates(p) /\ post'[p].body = post[p].body
    <3>1. /\ post'[p].pc = "send" /\ post'[p].code = post[p].code
          /\ post'[p].body = post[p].body /\ post'[p].route = r
      BY <1>0, <2>5 DEF TypeOK, PostState
    <3> QED
      BY <1>1, <2>1, <2>2, <2>5, <3>1 DEF PostCreates
  <2> QED
    BY <1>1, <1>2, <2>3, <2>4, <2>5
<1>8. CASE PostSend(p)
  <2>1. UNCHANGED <<route, jobs>> /\ post[p].pc = "send"
    BY <1>8 DEF PostSend
  <2>2. CASE Answer(p, 500, None) /\ UNCHANGED <<args, queue>>
    BY <1>1, <1>2, <1>3, <2>1, <2>2
  <2>3. ASSUME NEW t \in Tasks,
               Delay(t, post[p].route, AllButFirst(post[p].meshes)),
               post' = [post EXCEPT ![p].pc = "record", ![p].task = t]
        PROVE  PostSends(p) /\ post'[p].body = post[p].body
    <3>1. /\ post'[p].pc = "record" /\ post'[p].code = post[p].code
          /\ post'[p].body = post[p].body /\ post'[p].route = post[p].route
          /\ post'[p].task = t
      BY <1>0, <2>3 DEF TypeOK, PostState
    <3>2. args[t].route = None /\ args'[t].route = post[p].route
      BY <1>0, <2>3 DEF Delay, Fresh, TypeOK
    <3> QED
      BY <1>1, <2>1, <3>1, <3>2 DEF PostSends
  <2> QED
    BY <1>1, <1>2, <1>8, <2>2, <2>3 DEF PostSend
<1>9. CASE PostRecord(p)
  <2>1. UNCHANGED <<route, args>> /\ post[p].pc = "record"
    BY <1>9 DEF PostRecord, celery
  <2>2. CASE CreateJob(post[p].task, post[p].route) /\ Answer(p, 202, post[p].task)
    BY <1>0, <1>1, <1>2, <2>1, <2>2, AnswerEffect DEF PostRecords
  <2>3. CASE Answer(p, 500, None) /\ UNCHANGED jobs
    BY <1>1, <1>2, <1>3, <2>1, <2>3
  <2> QED
    BY <1>9, <2>2, <2>3 DEF PostRecord
<1>10. CASE PostCrash(p)
  <2>1. UNCHANGED <<route, jobs, args>>
    BY <1>10 DEF PostCrash, celery
  <2>2. post'[p] = [IdlePost(post[p].body) EXCEPT !.pc = "crashed"]
    BY <1>0, <1>10 DEF PostCrash, TypeOK
  <2>3. /\ post'[p].pc = "crashed" /\ post'[p].code = None
        /\ post'[p].body = post[p].body
    <3> DEFINE empty == <<>>
    <3>1. post'[p] = [[pc |-> "ready", body |-> post[p].body, day |-> None,
                       meshes |-> empty, route |-> None, task |-> None,
                       code |-> None] EXCEPT !.pc = "crashed"]
      BY <2>2 DEF IdlePost
    <3> HIDE DEF empty
    <3> QED
      BY <3>1
  <2> QED
    BY <1>1, <1>2, <2>1, <2>3, NoneAssumption DEF PostRests
<1> QED
  BY <1>4, <1>5, <1>6, <1>7, <1>8, <1>9, <1>10 DEF PostStep

----------------------------------------------------------------------------
(* How the other invariants of the system are kept *)

RouteStep ==
    \/ UNCHANGED route
    \/ \E r \in Routes, row \in Row : Save(r, row)
    \/ \E r \in Routes : DeleteRoute(r)
    \/ \E m \in Meshes : CleanupMesh(m)

LEMMA BornStays ==
    ASSUME TypeOK, RouteStep, NEW r \in Routes, route[r].state # "unborn"
    PROVE  route'[r].state # "unborn"
BY DEF TypeOK, RouteRow, RouteStep, Save, DeleteRoute, CleanupMesh

LEMMA JobsHaveRoutesStays ==
    ASSUME TypeOK, JobsHaveRoutes,
           \/ /\ \A t \in Tasks : jobs'[t] = jobs[t] \/ jobs'[t] = NoJob
              /\ \/ UNCHANGED route
                 \/ \E r \in Routes, row \in Row : Save(r, row)
                 \/ \E m \in Meshes : CleanupMesh(m)
           \/ \E r \in Routes : DeleteRoute(r)
           \/ \E t \in Tasks, r \in Routes : CreateJob(t, r) /\ UNCHANGED route
    PROVE  JobsHaveRoutes'
<1> SUFFICES ASSUME NEW t \in Tasks, jobs'[t].route # None
             PROVE  route'[jobs'[t].route].state = "stored"
  BY DEF JobsHaveRoutes, Exists
<1>0. jobs[t].route \in Routes \cup {None} /\ NoJob.route = None
  BY DEF TypeOK, JobRow, NoJob
<1>1. ASSUME \A u \in Tasks : jobs'[u] = jobs[u] \/ jobs'[u] = NoJob,
             \/ UNCHANGED route
             \/ \E r \in Routes, row \in Row : Save(r, row)
             \/ \E m \in Meshes : CleanupMesh(m)
      PROVE  route'[jobs'[t].route].state = "stored"
  <2>1. /\ jobs'[t] = jobs[t] /\ jobs[t].route \in Routes
        /\ route[jobs[t].route].state = "stored"
    BY <1>0, <1>1 DEF JobsHaveRoutes, Exists
  <2>2. ASSUME NEW r \in Routes, NEW row \in Row, Save(r, row)
        PROVE  route'[jobs[t].route].state = "stored"
    BY <2>1, <2>2, SaveEffect
  <2>3. ASSUME NEW m \in Meshes, CleanupMesh(m)
        PROVE  route'[jobs[t].route].state = "stored"
    BY <2>1, <2>3 DEF CleanupMesh, TypeOK, RouteRow
  <2> QED
    BY <1>1, <2>1, <2>2, <2>3
<1>2. ASSUME NEW r \in Routes, DeleteRoute(r)
      PROVE  route'[jobs'[t].route].state = "stored"
  <2>1. jobs'[t] = jobs[t] /\ jobs[t].route # r /\ jobs[t].route \in Routes
    BY <1>0, <1>2 DEF DeleteRoute
  <2>2. route'[jobs[t].route] = route[jobs[t].route]
    BY <1>2, <2>1 DEF DeleteRoute, TypeOK
  <2> QED
    BY <2>1, <2>2 DEF JobsHaveRoutes, Exists
<1>3. ASSUME NEW u \in Tasks, NEW r \in Routes, CreateJob(u, r), UNCHANGED route
      PROVE  route'[jobs'[t].route].state = "stored"
  <2>1. CASE t = u
    <3>1. jobs'[t].route = r
      BY <1>3, <2>1 DEF CreateJob, TypeOK
    <3> QED
      BY <1>3, <3>1 DEF CreateJob, Exists
  <2>2. CASE t # u
    <3>1. jobs'[t] = jobs[t]
      BY <1>3, <2>2 DEF CreateJob, TypeOK
    <3> QED
      BY <1>3, <3>1 DEF JobsHaveRoutes, Exists
  <2> QED
    BY <2>1, <2>2
<1> QED
  BY <1>1, <1>2, <1>3

\* Only a task that is sent by the step can get a new recorder.
LEMMA RecordedStays ==
    ASSUME ArgsKept, NEW t, Recorded(t),
           \A p \in Posts : post'[p].pc = "record" =>
              \/ post'[p] = post[p]
              \/ args[post'[p].task].route = None,
           \A w \in Workers : worker'[w].pc = "record" =>
              \/ worker'[w] = worker[w]
              \/ args[worker'[w].next].route = None
    PROVE  Recorded(t)'
BY DEF ArgsKept, Recorded

\* A job that was recorded and is gone stays gone.
LEMMA LostStays ==
    ASSUME TypeOK, NEW t, Lost(t), Recorded(t)',
           \/ \A u \in Tasks : jobs'[u] = jobs[u] \/ jobs'[u] = NoJob
           \/ \E r : \E p \in Posts :
                post[p].pc = "record" /\ CreateJob(post[p].task, r)
           \/ \E r : \E w \in Workers :
                worker[w].pc = "record" /\ CreateJob(worker[w].next, r)
    PROVE  Lost(t)'
<1>1. t \in Tasks /\ jobs[t].route = None
  BY DEF Lost, Recorded
<1>2. ASSUME NEW u, u # t, NEW r, CreateJob(u, r) PROVE jobs'[t] = jobs[t]
  BY <1>1, <1>2 DEF CreateJob, TypeOK
<1> QED
  BY <1>1, <1>2 DEF Lost, Recorded, NoJob

LEMMA ErrorsStay ==
    ASSUME TypeOK, ErrorsAreFinal, FreeKept,
           \A r \in Routes : route'[r].state = "stored" /\ route'[r].row.info = "error" =>
              \/ Exists(r) /\ route[r].row.info = "error"
              \/ Free(r)',
           \A w \in Workers : worker'[w].pc \in WritingPc =>
              worker'[w].row.info # "error"
    PROVE  ErrorsAreFinal'
BY DEF ErrorsAreFinal, FreeKept, Exists

\* Nobody has a copy of a route that was not created.
LEMMA UnbornTrips ==
    ASSUME TypeInv, Born, AdminWF, NEW r \in Routes, route[r].state = "unborn"
    PROVE  TripsOf(r) = {}
<1>1. RowTrips(r) = {}
  BY DEF RowTrips, Exists
<1>2. CopyTrips(r) = {}
  BY NoneAssumption DEF CopyTrips, TypeInv, WorkerWF, WritingPc, Born, RouteOf
<1>3. FormTrips(r) = {}
  BY DEF FormTrips, AdminWF
<1> QED
  BY <1>1, <1>2, <1>3 DEF TripsOf

LEMMA TripsStay ==
    ASSUME TripsInv,
           \A r \in Routes : TripsOf(r)' \subseteq TripsOf(r),
           \A r \in Routes : route[r].state # "unborn" => route'[r].state # "unborn",
           \A p \in Posts : post'[p].body = post[p].body,
           \A p \in Posts : \A r \in Routes : Bound(p, r)' =>
              \/ Bound(p, r)
              \/ route[r].state # "unborn" /\ \A a \in TripsOf(r) : Suits(p, a)
    PROVE  TripsInv'
BY DEF TripsInv, Suits

\* The trips of a route in the next state, one kind of copy at a time.
LEMMA TripsShrink ==
    ASSUME NEW r, NEW S,
           route'[r].state = "stored" => route'[r].row.trip \in S,
           \A w \in Workers : worker'[w].pc \in WritingPc /\ RouteOf(w)' = r =>
              worker'[w].row.trip \in S,
           admin'.pc = "save" /\ admin'.route = r => admin'.row.trip \in S
    PROVE  TripsOf(r)' \subseteq S
BY DEF TripsOf, RowTrips, CopyTrips, FormTrips, Exists, RouteOf

\* The trips of a route in this state.
LEMMA TripsHere ==
    ASSUME NEW r
    PROVE  /\ Exists(r) => route[r].row.trip \in TripsOf(r)
           /\ \A w \in Workers : worker[w].pc \in WritingPc /\ RouteOf(w) = r =>
                worker[w].row.trip \in TripsOf(r)
           /\ admin.pc = "save" /\ admin.route = r => admin.row.trip \in TripsOf(r)
BY DEF TripsOf, RowTrips, CopyTrips, FormTrips

----------------------------------------------------------------------------
(* The invariants of the system, one process at a time *)

\* What a reader, a client or an evaluation relies on while others take steps.
Progress ==
    /\ \A r \in Routes : Settled(r) => Settled(r)'
    /\ \A t \in Tasks : Recorded(t) => Recorded(t)'
    /\ \A t \in Tasks : Lost(t) => Lost(t)'
    /\ ArgsKept
    /\ \A p \in Posts : post[p].code = 202 => post'[p] = post[p]
    /\ \A p \in Posts : post'[p].body = post[p].body
    /\ MeshesAge

LEMMA AdminStays ==
    ASSUME AdminWF, TypeOK, FreeKept, RouteStep, UNCHANGED admin
    PROVE  AdminWF'
<1>1. AdminOK'
  BY DEF AdminWF, AdminOK
<1>2. ASSUME admin.pc = "save"
      PROVE  /\ route'[admin.route].state # "unborn"
             /\ admin.row.info = "error" => Free(admin.route)'
  BY <1>2, BornStays DEF AdminWF, FreeKept
<1> QED
  BY <1>1, <1>2 DEF AdminWF, Free, RouteOf

\* What route_exists answers is stored and suits the request.
LEMMA RouteExistsSuits ==
    ASSUME NEW meshes, NEW trip,
           NEW r \in RouteExists(route, jobs, result, meshes, trip)
    PROVE  /\ r \in Routes /\ Exists(r)
           /\ \/ route[r].row.trip = trip
              \/ InTolerance(trip, route[r].row.trip)
<1>1. PICK m : r \in MatchOnMesh(route, jobs, result, m, trip)
  BY DEF RouteExists
<1>2. r \in OnMesh(route, m)
  BY <1>1 DEF MatchOnMesh, Successful, ClosestInTolerance
<1>3. route[r].row.trip = trip \/ InTolerance(trip, route[r].row.trip)
  BY <1>1 DEF MatchOnMesh, ClosestInTolerance
<1> QED
  BY <1>2, <1>3 DEF OnMesh, Exists

LEMMA PostRouteStep ==
    ASSUME NEW p \in Posts,
           \/ PostRests(p) \/ PostFinds(p) \/ PostReuses(p)
           \/ PostCreates(p) \/ PostSends(p) \/ PostRecords(p)
    PROVE  RouteStep
BY DEF PostRests, PostFinds, PostReuses, PostCreates, PostSends, PostRecords,
       RouteStep

LEMMA PostRecorded ==
    ASSUME SystemInv, ArgsKept, UNCHANGED worker, NEW p \in Posts,
           \A q \in Posts : q # p => post'[q] = post[q],
           \/ PostRests(p) \/ PostFinds(p) \/ PostReuses(p)
           \/ PostCreates(p) \/ PostSends(p) \/ PostRecords(p)
    PROVE  /\ \A t \in Tasks : Recorded(t) => Recorded(t)'
           /\ \A t \in Tasks : Lost(t) => Lost(t)'
           /\ Accepted'
<1>0. TypeInv /\ TypeOK /\ JobsInv
  BY DEF SystemInv, Inv, TypeInv
<1>1. ASSUME NEW q \in Posts, post'[q].pc = "record"
      PROVE  post'[q] = post[q] \/ args[post'[q].task].route = None
  BY <1>1 DEF PostRests, PostFinds, PostReuses, PostCreates, PostSends, PostRecords
<1>2. \A t : Recorded(t) => Recorded(t)'
  BY <1>1, RecordedStays
<1>3. ASSUME NEW t \in Tasks, Lost(t) PROVE Lost(t)'
  <2>1. Recorded(t)'
    BY <1>2, <1>3 DEF Lost
  <2>2. \/ UNCHANGED jobs
        \/ post[p].pc = "record" /\ \E r : CreateJob(post[p].task, r)
    BY DEF PostRests, PostFinds, PostReuses, PostCreates, PostSends, PostRecords
  <2> QED
    BY <1>0, <1>3, <2>1, <2>2, LostStays
<1>4. ASSUME NEW q \in Posts, post'[q].code = 202
      PROVE  post'[q].pc = "done" /\ Recorded(post[q].task)'
  <2>1. CASE q # p
    <3>1. PICK t : t = post[q].task
      OBVIOUS
    <3>2. post'[q] = post[q] /\ post[q].pc = "done" /\ Recorded(t)
      BY <1>4, <2>1, <3>1 DEF SystemInv, Accepted
    <3> QED
      BY <1>2, <3>1, <3>2
  <2>2. CASE q = p /\ PostReuses(p)
    <3>1. PICK t \in Tasks : /\ jobs[t].route = post[p].route
                             /\ post'[p].task = t
      BY <2>2 DEF PostReuses, JobSet
    <3>2. jobs[t].route # None
      BY <1>0, <2>2, <3>1, NoneAssumption DEF PostReuses, TypeInv, PostWF
    <3>3. args[t].route # None
      BY <1>0, <3>1, <3>2 DEF JobsInv, JobsMatch
    <3>4. Recorded(t)
      BY <1>0, <3>2, <3>3 DEF Recorded, JobsInv, Recorders, Unrecorded
    <3> QED
      BY <1>2, <2>2, <3>1, <3>4 DEF PostReuses
  <2>3. CASE q = p /\ PostRecords(p)
    <3>1. PICK t : t = post[p].task
      OBVIOUS
    <3>2. post[p].pc = "record" /\ t \in Tasks /\ post'[p].task = t
          /\ post'[p].pc = "done" /\ UNCHANGED args
      BY <1>0, <2>3, <3>1 DEF PostRecords, TypeInv, PostWF
    <3>3. args[t].route # None
      BY <1>0, <3>1, <3>2, NoneAssumption
         DEF JobsInv, Recorders, TypeInv, PostWF
    <3>4. \A o \in Posts : o # p /\ post[o].pc = "record" => post[o].task # t
      BY <1>0, <3>1, <3>2 DEF JobsInv, Recorders
    <3>5. \A w \in Workers : worker[w].pc = "record" => worker[w].next # t
      BY <1>0, <3>1, <3>2 DEF JobsInv, Recorders
    <3>6. Recorded(t)'
      BY <3>2, <3>3, <3>4, <3>5 DEF Recorded
    <3> QED
      BY <2>3, <3>2, <3>6
  <2>4. CASE q = p /\ ~PostReuses(p) /\ ~PostRecords(p)
    BY <1>4, <2>4 DEF PostRests, PostFinds, PostCreates, PostSends
  <2> QED
    BY <2>1, <2>2, <2>3, <2>4
<1> QED
  BY <1>2, <1>3, <1>4 DEF Accepted

LEMMA PostTrips ==
    ASSUME SystemInv, TypeInv', ArgsKept, UNCHANGED <<worker, admin>>, NEW p \in Posts,
           \A q \in Posts : q # p => post'[q] = post[q],
           post'[p].body = post[p].body,
           \/ PostRests(p) \/ PostFinds(p) \/ PostReuses(p)
           \/ PostCreates(p) \/ PostSends(p) \/ PostRecords(p)
    PROVE  TripsInv'
<1>0. TypeInv /\ TypeOK /\ JobsInv /\ TripsInv
  BY DEF SystemInv, Inv, TypeInv
<1>1. \A q \in Posts : post'[q].body = post[q].body
  OBVIOUS
<1>2. \A w \in Workers : worker'[w].pc \in WritingPc =>
        worker[w].pc \in WritingPc /\ RouteOf(w)' = RouteOf(w)
  BY <1>0, NoneAssumption DEF TypeInv, WorkerWF, ArgsKept, RouteOf, WritingPc
<1>3. ASSUME NEW q \in Posts, q # p, NEW r \in Routes, Bound(q, r)'
      PROVE  Bound(q, r)
  <2>1. post'[q] = post[q]
    BY <1>3
  <2>2. post[q].code = 202 => args'[post[q].task] = args[post[q].task]
    BY DEF SystemInv, Accepted, Recorded, ArgsKept
  <2> QED
    BY <1>3, <2>1, <2>2 DEF Bound
<1>4. ASSUME UNCHANGED route, NEW r \in Routes
      PROVE  /\ TripsOf(r)' \subseteq TripsOf(r)
             /\ route[r].state # "unborn" => route'[r].state # "unborn"
  <2>1. \A w \in Workers : worker'[w].pc \in WritingPc /\ RouteOf(w)' = r =>
          worker'[w].row.trip \in TripsOf(r)
    BY <1>2, TripsHere
  <2> QED
    BY <1>4, <2>1, TripsHere, TripsShrink DEF Exists
<1>5. CASE PostRests(p) \/ PostFinds(p) \/ PostReuses(p) \/ PostSends(p)
             \/ PostRecords(p)
  <2>1. UNCHANGED route
    BY <1>5 DEF PostRests, PostFinds, PostReuses, PostSends, PostRecords
  <2>2. ASSUME NEW r \in Routes, Bound(p, r)'
        PROVE  \/ Bound(p, r)
               \/ route[r].state # "unborn" /\ \A a \in TripsOf(r) : Suits(p, a)
    <3>1. CASE PostRests(p)
      BY <2>2, <3>1 DEF PostRests, Bound
    <3>2. CASE PostFinds(p)
      <4>1. post'[p].route = r
        BY <2>2, <3>2 DEF PostFinds, Bound
      <4>2. PICK meshes :
              r \in RouteExists(route, jobs, result, meshes, post[p].body.trip)
        BY <3>2, <4>1 DEF PostFinds
      <4>3. Exists(r) /\ Suits(p, route[r].row.trip)
        BY <4>2, RouteExistsSuits DEF Suits
      <4>4. \A a \in TripsOf(r) : a = route[r].row.trip
        BY <1>0, <4>3, TripsHere DEF TripsInv
      <4> QED
        BY <4>3, <4>4 DEF Exists
    <3>3. CASE PostReuses(p)
      <4>1. PICK t \in Tasks : jobs[t].route = post[p].route /\ post'[p].task = t
        BY <3>3 DEF PostReuses, JobSet
      <4>2. post[p].pc = "reuse" /\ post[p].route \in Routes /\ UNCHANGED args
        BY <1>0, <3>3 DEF PostReuses, TypeInv, PostWF
      <4>3. args[t].route = post[p].route
        BY <1>0, <4>1, <4>2, NoneAssumption DEF JobsInv, JobsMatch
      <4>4. r = post[p].route
        BY <2>2, <3>3, <4>1, <4>2, <4>3 DEF Bound, PostReuses
      <4> QED
        BY <4>2, <4>4 DEF Bound
    <3>4. CASE PostSends(p)
      BY <2>2, <3>4 DEF PostSends, Bound
    <3>5. CASE PostRecords(p)
      <4>1. /\ post[p].pc = "record" /\ UNCHANGED args
            /\ post'[p].pc = "done" /\ post'[p].task = post[p].task
        BY <3>5 DEF PostRecords
      <4>2. args[post[p].task].route = post[p].route
        BY <1>0, <4>1 DEF JobsInv, Recorders
      <4>3. r = post[p].route
        BY <2>2, <4>1, <4>2 DEF Bound
      <4> QED
        BY <4>1, <4>3 DEF Bound
    <3> QED
      BY <1>5, <3>1, <3>2, <3>3, <3>4, <3>5
  <2>3. \A q \in Posts : \A r \in Routes : Bound(q, r)' =>
          \/ Bound(q, r)
          \/ route[r].state # "unborn" /\ \A a \in TripsOf(r) : Suits(q, a)
    BY <1>3, <2>2
  <2> QED
    BY <1>0, <1>1, <1>4, <2>1, <2>3, TripsStay
<1>6. CASE PostCreates(p)
  <2>1. PICK r0 \in Routes, row \in Row :
          /\ route[r0].state = "unborn" /\ Save(r0, row)
          /\ row.trip = post[p].body.trip
          /\ post'[p].route = r0
    BY <1>6 DEF PostCreates
  <2>2. post'[p].pc = "send" /\ post'[p].code # 202
    BY <1>6 DEF PostCreates
  <2>3. /\ route'[r0].state = "stored" /\ route'[r0].row = row
        /\ \A r \in Routes : r # r0 => route'[r] = route[r]
    BY <1>0, <2>1, SaveEffect
  <2>4. TripsOf(r0) = {}
    BY <2>1, UnbornTrips DEF SystemInv, Inv
  <2>5. \A w \in Workers : \A r \in Routes :
          worker'[w].pc \in WritingPc /\ RouteOf(w)' = r =>
            worker'[w].row.trip \in TripsOf(r)
    BY <1>2, TripsHere
  <2>6. ASSUME NEW r \in Routes, r # r0 PROVE TripsOf(r)' \subseteq TripsOf(r)
    BY <2>3, <2>5, <2>6, TripsHere, TripsShrink DEF Exists
  <2>7. TripsOf(r0)' \subseteq {row.trip}
    BY <2>3, <2>4, <2>5, TripsHere, TripsShrink
  <2>8. ASSUME NEW q \in Posts, NEW r \in Routes, Bound(q, r)'
        PROVE  \/ q = p /\ r = r0
               \/ r # r0 /\ Bound(q, r)
    <3>1. CASE q = p
      BY <2>1, <2>2, <2>8, <3>1 DEF Bound
    <3>2. CASE q # p
      BY <1>0, <1>3, <2>1, <2>8, <3>2 DEF TripsInv
    <3> QED
      BY <3>1, <3>2
  <2>9. ASSUME NEW r \in Routes
        PROVE  /\ \A a, b \in TripsOf(r)' : a = b
               /\ \A q \in Posts : Bound(q, r)' =>
                    /\ route'[r].state # "unborn"
                    /\ \A a \in TripsOf(r)' : Suits(q, a)'
    <3>1. \A q \in Posts : \A a : Suits(q, a)' <=> Suits(q, a)
      BY <1>1 DEF Suits
    <3>2. CASE r = r0
      BY <2>1, <2>3, <2>7, <2>8, <3>1, <3>2 DEF Suits
    <3>3. CASE r # r0
      BY <1>0, <2>3, <2>6, <2>8, <3>1, <3>3 DEF TripsInv
    <3> QED
      BY <3>2, <3>3
  <2> QED
    BY <2>9 DEF TripsInv
<1> QED
  BY <1>5, <1>6

LEMMA PostSystem ==
    ASSUME SystemInv, UNCHANGED admin, NEW p \in Posts,
           PostSelect(p) \/ PostStep(p) \/ PostCrash(p)
    PROVE  SystemInv' /\ Progress
<1>0. Inv /\ TypeInv /\ TypeOK /\ JobsInv
  BY DEF SystemInv, Inv, TypeInv
<1>1. Inv' /\ TypeInv' /\ JobsInv'
  BY <1>0, PostInv, PostJobs DEF Inv
<1>2. FreeKept /\ ArgsKept /\ UNCHANGED <<mesh, result, cancel, worker>>
  BY <1>0, PostFreeKept, PostArgsKept
<1>3. /\ post[p].pc # "done" /\ post'[p].body = post[p].body
      /\ \A q \in Posts : q # p => post'[q] = post[q]
      /\ \/ PostRests(p) \/ PostFinds(p) \/ PostReuses(p)
         \/ PostCreates(p) \/ PostSends(p) \/ PostRecords(p)
  BY <1>0, PostEffect DEF SystemInv, Accepted
<1>4. RouteStep
  BY <1>3, PostRouteStep
<1>5. PathsInv'
  BY <1>0, <1>2, QuietPaths DEF SystemInv, Inv
<1>6. JobsHaveRoutes'
  <2>1. CASE PostRecords(p)
    <3>1. post[p].task \in Tasks /\ post[p].route \in Routes
      BY <1>0, <2>1 DEF PostRecords, TypeInv, PostWF
    <3> QED
      BY <1>0, <2>1, <3>1, JobsHaveRoutesStays DEF PostRecords, SystemInv
  <2>2. CASE ~PostRecords(p)
    <3>1. /\ UNCHANGED jobs
          /\ UNCHANGED route \/ \E r \in Routes, row \in Row : Save(r, row)
      BY <1>3, <2>2 DEF PostRests, PostFinds, PostReuses, PostCreates, PostSends
    <3> QED
      BY <1>0, <3>1, JobsHaveRoutesStays DEF SystemInv
  <2> QED
    BY <2>1, <2>2
<1>7. /\ \A t \in Tasks : Recorded(t) => Recorded(t)'
      /\ \A t \in Tasks : Lost(t) => Lost(t)'
      /\ Accepted'
  BY <1>2, <1>3, PostRecorded
<1>8. ErrorsAreFinal'
  <2>1. \A r \in Routes :
          route'[r].state = "stored" /\ route'[r].row.info = "error" =>
             Exists(r) /\ route[r].row.info = "error"
    <3>1. CASE PostCreates(p)
      BY <1>0, <3>1, SaveEffect DEF PostCreates, Exists
    <3>2. CASE ~PostCreates(p)
      BY <1>3, <3>2 DEF PostRests, PostFinds, PostReuses, PostSends, PostRecords,
                        Exists
    <3> QED
      BY <3>1, <3>2
  <2> QED
    BY <1>0, <1>2, <2>1, ErrorsStay DEF SystemInv, ErrorsAreFinal
<1>9. TripsInv'
  BY <1>1, <1>2, <1>3, PostTrips
<1>10. AdminWF'
  BY <1>0, <1>2, <1>4, AdminStays DEF SystemInv
<1>11. Progress
  <2>1. \A r \in Routes : Settled(r) => Settled(r)'
    BY <1>0, <1>2, SettledStays
  <2>2. \A q \in Posts : /\ post[q].code = 202 => post'[q] = post[q]
                         /\ post'[q].body = post[q].body
    BY <1>3 DEF SystemInv, Accepted
  <2> QED
    BY <1>2, <1>7, <2>1, <2>2 DEF Progress, MeshesAge
<1> QED
  BY <1>1, <1>5, <1>6, <1>7, <1>8, <1>9, <1>10, <1>11 DEF SystemInv

\* A step of somebody who neither sends, takes nor returns a task: a DELETE,
\* a clean-up, an import, or the administrator.
LEMMA BystanderSystem ==
    ASSUME SystemInv, Inv', JobsInv', AdminWF', RouteStep, MeshesAge,
           JobsHaveRoutes',
           UNCHANGED <<args, queue, post, worker>>,
           \A t \in Tasks : jobs'[t] = jobs[t] \/ jobs'[t] = NoJob,
           \A t \in Tasks : result'[t] = result[t] \/ result'[t] # "SUCCESS",
           \A r \in Routes : Settled(r) => Settled(r)',
           \A r \in Routes : route'[r].state = "stored" =>
              /\ route'[r].row.trip \in TripsOf(r)
              /\ route'[r].row.info = "error" => Free(r),
           \A r \in Routes : admin'.pc = "save" /\ admin'.route = r =>
              admin'.row.trip \in TripsOf(r)
    PROVE  SystemInv' /\ Progress
<1>0. TypeOK /\ TypeInv
  BY DEF SystemInv, Inv, TypeInv
<1>1. \A r : Free(r)' <=> Free(r)
  BY DEF Free, RouteOf
<1>2. PathsInv'
  <2>1. \A w \in Workers : worker[w].pc = "return" => Settled(RouteOf(w))'
    <3> SUFFICES ASSUME NEW w \in Workers, worker[w].pc = "return"
                 PROVE  Settled(RouteOf(w))'
      OBVIOUS
    <3>1. PICK r : r = RouteOf(w)
      OBVIOUS
    <3>2. Settled(r) /\ r \in Routes /\ RouteOf(w)' = r
      BY <3>1 DEF SystemInv, PathsInv, Settled, RouteOf
    <3> QED
      BY <3>2
  <2>2. \A t \in Tasks : result'[t] = "SUCCESS" => Settled(args[t].route)'
    <3> SUFFICES ASSUME NEW t \in Tasks, result'[t] = "SUCCESS"
                 PROVE  Settled(args[t].route)'
      OBVIOUS
    <3>1. PICK r : r = args[t].route
      OBVIOUS
    <3>2. Settled(r) /\ r \in Routes /\ args'[t].route = r
      BY <3>1 DEF SystemInv, PathsInv, Settled
    <3> QED
      BY <3>2
  <2> QED
    BY <2>1, <2>2 DEF SystemInv, PathsInv, CopyWF
<1>3. /\ \A t : Recorded(t)' <=> Recorded(t)
      /\ \A t \in Tasks : Lost(t) => Lost(t)'
  BY DEF Recorded, Lost, NoJob
<1>4. Accepted'
  BY <1>3 DEF SystemInv, Accepted
<1>5. ErrorsAreFinal'
  BY <1>1 DEF SystemInv, ErrorsAreFinal, Exists
<1>6. TripsInv'
  <2>1. ASSUME NEW r \in Routes PROVE TripsOf(r)' \subseteq TripsOf(r)
    <3>1. \A w \in Workers : worker'[w].pc \in WritingPc /\ RouteOf(w)' = r =>
            worker'[w].row.trip \in TripsOf(r)
      BY TripsHere DEF RouteOf
    <3> QED
      BY <3>1, TripsShrink
  <2>2. \A r \in Routes : route[r].state # "unborn" => route'[r].state # "unborn"
    BY <1>0, BornStays
  <2>3. \A p \in Posts : \A r \in Routes : Bound(p, r)' => Bound(p, r)
    BY DEF Bound
  <2> QED
    BY <2>1, <2>2, <2>3, TripsStay DEF SystemInv
<1>7. ArgsKept
  BY DEF ArgsKept
<1> QED
  BY <1>2, <1>3, <1>4, <1>5, <1>6, <1>7 DEF SystemInv, Progress

LEMMA CancelSystem ==
    ASSUME SystemInv, UNCHANGED admin, NEW c \in Cancels,
           CancelFind(c) \/ CancelStep(c) \/ CancelCrash(c)
    PROVE  SystemInv' /\ Progress
<1>0. Inv /\ TypeInv /\ TypeOK /\ JobsInv
  BY DEF SystemInv, Inv, TypeInv
<1>1. Inv' /\ JobsInv'
  BY <1>0, CancelInv, CancelJobs DEF Inv
<1>2. UNCHANGED <<mesh, args, queue, result, post, worker>> /\ FreeKept
  BY <1>0, CancelFreeKept DEF CancelFind, CancelStep, CancelRevoke,
     CancelDelete, CancelCrash, tables, celery
<1>3. UNCHANGED <<route, jobs>> \/ \E q \in Routes : DeleteRoute(q)
  BY <1>0 DEF CancelFind, CancelStep, CancelRevoke, CancelDelete, CancelCrash,
              tables, TypeInv, CancelWF
<1>4. RouteStep /\ MeshesAge
  BY <1>2, <1>3 DEF RouteStep, MeshesAge
<1>5. JobsHaveRoutes'
  BY <1>0, <1>3, JobsHaveRoutesStays DEF SystemInv
<1>6. \A t \in Tasks : jobs'[t] = jobs[t] \/ jobs'[t] = NoJob
  BY <1>3 DEF DeleteRoute
<1>7. \A r \in Routes : Settled(r) => Settled(r)'
  BY <1>0, <1>2, SettledStays
<1>8. \A r \in Routes : route'[r].state = "stored" =>
        Exists(r) /\ route'[r] = route[r]
  BY <1>0, <1>3 DEF DeleteRoute, TypeOK, Exists
<1>9. AdminWF'
  BY <1>0, <1>2, <1>4, AdminStays DEF SystemInv
<1>10. \A r \in Routes : route'[r].state = "stored" =>
         /\ route'[r].row.trip \in TripsOf(r)
         /\ route'[r].row.info = "error" => Free(r)
  BY <1>8, TripsHere DEF SystemInv, ErrorsAreFinal
<1> QED
  BY <1>1, <1>2, <1>4, <1>5, <1>6, <1>7, <1>9, <1>10, TripsHere,
     BystanderSystem

LEMMA EnvironmentSystem ==
    ASSUME SystemInv, UNCHANGED admin,
           \/ \E m \in Meshes : ImportMesh(m) \/ CleanupMesh(m)
           \/ \E r \in Routes : CleanupRoute(r)
           \/ \E t \in Tasks : ResultExpires(t)
    PROVE  SystemInv' /\ Progress
<1>0. Inv /\ TypeInv /\ TypeOK /\ JobsInv
  BY DEF SystemInv, Inv, TypeInv
<1>1. UNCHANGED <<args, queue, post, worker, cancel>> /\ FreeKept
  BY <1>0, EnvironmentFreeKept DEF ImportMesh, CleanupMesh, CleanupRoute,
     ResultExpires, celery, web
<1>2. \/ UNCHANGED <<route, jobs>>
      \/ \E m \in Meshes : CleanupMesh(m) /\ UNCHANGED jobs
      \/ \E r \in Routes : DeleteRoute(r)
  BY DEF ImportMesh, CleanupMesh, CleanupRoute, ResultExpires, tables
<1>3. \A t \in Tasks : jobs'[t] = jobs[t] \/ jobs'[t] = NoJob
  BY <1>2 DEF DeleteRoute
<1>4. Inv' /\ JobsInv'
  BY <1>0, <1>1, <1>3, EnvironmentInv, JobsQuiet
<1>5. RouteStep
  BY <1>2 DEF RouteStep
<1>6. MeshesAge
  BY <1>0 DEF MeshesAge, ImportMesh, CleanupMesh, CleanupRoute, ResultExpires,
              tables, Live, TypeOK
<1>7. JobsHaveRoutes'
  BY <1>0, <1>2, JobsHaveRoutesStays DEF SystemInv
<1>8. \A t \in Tasks : result'[t] = result[t] \/ result'[t] # "SUCCESS"
  BY <1>0 DEF ImportMesh, CleanupMesh, CleanupRoute, ResultExpires, celery, TypeOK
<1>9. \A r \in Routes : Settled(r) => Settled(r)'
  BY <1>0, <1>1, SettledStays
<1>10. ASSUME NEW r \in Routes, route'[r].state = "stored"
       PROVE  /\ Exists(r) /\ route'[r].row.trip = route[r].row.trip
              /\ route'[r].row.info = route[r].row.info
  <2>1. route[r] \in RouteRow
    BY <1>0 DEF TypeOK
  <2>2. route'[r] \in {route[r], [route[r] EXCEPT !.row.mesh = None],
                       [state |-> "deleted", row |-> NoRow]}
    BY <1>0, <1>2 DEF CleanupMesh, DeleteRoute, TypeOK
  <2> QED
    BY <1>10, <2>1, <2>2 DEF RouteRow, Row, Exists
<1>11. AdminWF'
  BY <1>0, <1>1, <1>5, AdminStays DEF SystemInv
<1>12. \A r \in Routes : route'[r].state = "stored" =>
         /\ route'[r].row.trip \in TripsOf(r)
         /\ route'[r].row.info = "error" => Free(r)
  BY <1>10, TripsHere DEF SystemInv, ErrorsAreFinal
<1> QED
  BY <1>1, <1>3, <1>4, <1>5, <1>6, <1>7, <1>8, <1>9, <1>11, <1>12, TripsHere,
     BystanderSystem

AdminPc == {"away", "ready", "save", "done"}
AdminCode == {None, 302, 500}
AdminState == [pc : AdminPc, route : Routes \cup {None}, row : Row,
               edited : SUBSET Routes, code : AdminCode]

LEMMA AdminTyped == AdminOK <=> admin \in AdminState
BY DEF AdminOK, AdminState, AdminPc, AdminCode

\* The object behind a form has no paths.
LEMMA DeferredRow ==
    ASSUME NEW row \in Row
    PROVE  LET deferred == [row EXCEPT !.json = None, !.json_unsmoothed = None]
           IN  /\ deferred \in Row
               /\ deferred.trip = row.trip /\ deferred.info = row.info
BY DEF Row

\* The route that a form leads to, and the object it is applied to.
LEMMA AdminLoadEffect ==
    ASSUME TypeOK, AdminOK, NEW r \in Routes, AdminLoad(r)
    PROVE  /\ AdminOK' /\ admin'.route = r /\ admin'.pc = "save"
           /\ admin'.row.trip = route[r].row.trip
           /\ admin'.row.info = route[r].row.info
<1> DEFINE row == [route[r].row EXCEPT !.json = None, !.json_unsmoothed = None]
<1>0. route[r].row \in Row
  BY DEF TypeOK, RouteRow
<1>1. /\ row \in Row /\ row.trip = route[r].row.trip
      /\ row.info = route[r].row.info
  BY <1>0, DeferredRow
<1>2. admin' = [admin EXCEPT !.pc = "save", !.route = r, !.row = row]
  BY DEF AdminLoad
<1> HIDE DEF row
<1>3. admin \in AdminState /\ "save" \in AdminPc
  BY AdminTyped DEF AdminPc
<1>4. /\ admin' \in AdminState /\ admin'.route = r /\ admin'.pc = "save"
      /\ admin'.row = row
  BY <1>1, <1>2, <1>3 DEF AdminState
<1>5. AdminOK'
  BY <1>4 DEF AdminOK, AdminState, AdminPc, AdminCode
<1> QED
  BY <1>1, <1>4, <1>5

\* What saving the form writes.
LEMMA AdminRowEffect ==
    ASSUME TypeOK, AdminOK, NEW r \in Routes
    PROVE  /\ AdminRow(r) \in Row /\ AdminRow(r).calculated
           /\ AdminRow(r).trip = admin.row.trip
           /\ AdminRow(r).info = admin.row.info
           /\ AdminRow(r).json = route[r].row.json
           /\ AdminRow(r).json_unsmoothed = route[r].row.json_unsmoothed
<1>1. admin.row \in Row /\ route[r].row \in Row
  BY DEF TypeOK, AdminOK, RouteRow
<1> QED
  BY <1>1 DEF AdminRow, Row

LEMMA NewAdminType == NewAdmin("done") \in AdminState /\ NewAdmin("done").pc = "done"
<1> DEFINE row == NoRow
<1>1. row \in Row
  BY DEF NoRow, Row
<1>2. None \in AdminCode /\ "done" \in AdminPc
  BY DEF AdminCode, AdminPc
<1>3. NewAdmin("done") = [pc |-> "done", route |-> None, row |-> row,
                          edited |-> {}, code |-> None]
  BY DEF NewAdmin
<1> HIDE DEF row
<1> QED
  BY <1>1, <1>2, <1>3 DEF AdminState

\* The administrator has done his one thing.
LEMMA AdminAway ==
    ASSUME AdminOK, NEW edited \in SUBSET Routes, NEW code \in {302, 500},
           \/ admin' = [NewAdmin("done") EXCEPT !.edited = edited, !.code = code]
           \/ admin' = [NewAdmin("done") EXCEPT !.code = code]
           \/ admin' = [admin EXCEPT !.pc = "done", !.code = code]
    PROVE  AdminOK' /\ admin'.pc = "done"
<1>1. code \in AdminCode /\ "done" \in AdminPc /\ admin \in AdminState
  BY AdminTyped DEF AdminCode, AdminPc
<1> DEFINE nobody == NewAdmin("done")
<1>2. nobody \in AdminState /\ nobody.pc = "done"
  BY NewAdminType
<1> HIDE DEF nobody
<1>3. /\ [nobody EXCEPT !.code = code] \in AdminState
      /\ [nobody EXCEPT !.code = code].pc = "done"
      /\ [nobody EXCEPT !.edited = edited, !.code = code] \in AdminState
      /\ [nobody EXCEPT !.edited = edited, !.code = code].pc = "done"
  BY <1>1, <1>2, ZenonT(40) DEF AdminState
<1>4. /\ [admin EXCEPT !.pc = "done", !.code = code] \in AdminState
      /\ [admin EXCEPT !.pc = "done", !.code = code].pc = "done"
  BY <1>1 DEF AdminState
<1>5. admin' \in AdminState /\ admin'.pc = "done"
  BY <1>3, <1>4, ZenonT(40) DEF nobody
<1>6. AdminOK'
  BY <1>5 DEF AdminOK, AdminState, AdminPc, AdminCode
<1> QED
  BY <1>5, <1>6

\* A deletion is answered with a redirection.
LEMMA AdminRedirected ==
    ASSUME AdminOK, admin' = [admin EXCEPT !.pc = "done", !.code = 302]
    PROVE  AdminOK' /\ admin'.pc = "done"
<1>1. 302 \in AdminCode /\ "done" \in AdminPc /\ admin \in AdminState
  BY AdminTyped DEF AdminCode, AdminPc
<1>2. /\ [admin EXCEPT !.pc = "done", !.code = 302] \in AdminState
      /\ [admin EXCEPT !.pc = "done", !.code = 302].pc = "done"
  BY <1>1, ZenonT(40) DEF AdminState
<1>3. admin' \in AdminState /\ admin'.pc = "done"
  BY <1>2
<1>4. AdminOK'
  BY <1>3 DEF AdminOK, AdminState, AdminPc, AdminCode
<1> QED
  BY <1>3, <1>4

LEMMA AdminTypes ==
    ASSUME TypeInv, route' \in [Routes -> RouteRow], jobs' \in [Tasks -> JobRow],
           UNCHANGED <<mesh, args, queue, result, post, cancel, worker>>
    PROVE  TypeInv'
BY DEF TypeInv, TypeOK, PostWF, CancelWF, QueueWF, WorkerWF, RouteOf, BackupsOf

LEMMA AdminSystem ==
    ASSUME SystemInv, AdminStep
    PROVE  SystemInv' /\ Progress
<1>0. Inv /\ TypeInv /\ TypeOK /\ JobsInv /\ AdminOK
  BY DEF SystemInv, Inv, TypeInv, AdminWF
<1>1. UNCHANGED <<mesh, args, queue, result, post, cancel, worker>>
  BY DEF AdminStep, AdminLoad, AdminSave, AdminDeleteRoute, AdminDeleteJob,
         vars, celery, web
<1>2. \A r : Free(r)' <=> Free(r)
  BY <1>1 DEF Free, RouteOf
<1>3. MeshesAge
  BY <1>1 DEF MeshesAge
<1>4. ASSUME TypeInv', KeepsFreeRoutes PROVE Inv'
  BY <1>0, <1>1, <1>4, QuietStep
<1>5. ASSUME \A t \in Tasks : jobs'[t] = jobs[t] \/ jobs'[t] = NoJob
      PROVE  JobsInv'
  BY <1>0, <1>1, <1>5, JobsQuiet
<1>6. ASSUME UNCHANGED route
      PROVE  /\ RouteStep /\ \A r \in Routes : Settled(r) => Settled(r)'
             /\ \A r \in Routes : route'[r].state = "stored" =>
                  /\ route'[r].row.trip \in TripsOf(r)
                  /\ route'[r].row.info = "error" => Free(r)
             /\ KeepsFreeRoutes
  <2>1. \A r \in Routes : Settled(r) => Settled(r)'
    BY <1>2, <1>6 DEF Settled, Exists
  <2> QED
    BY <1>0, <1>6, <2>1, TripsHere, SameKeepsFreeRoutes
       DEF RouteStep, SystemInv, ErrorsAreFinal, Exists
<1>7. ASSUME NEW r \in Routes, AdminLoad(r)
      PROVE  SystemInv' /\ Progress
  <2>1. UNCHANGED vars /\ UNCHANGED <<route, jobs>> /\ Exists(r)
    BY <1>7 DEF AdminLoad, vars
  <2>2. Inv' /\ JobsInv'
    BY <1>0, <2>1, NextInv, NextJobs
  <2>3. /\ AdminOK' /\ admin'.route = r
        /\ admin'.row.trip = route[r].row.trip
        /\ admin'.row.info = route[r].row.info
    BY <1>0, <1>7, AdminLoadEffect
  <2>4. admin'.row.trip \in TripsOf(r)
    BY <2>1, <2>3, TripsHere
  <2>5. AdminWF'
    <3>1. route'[r].state # "unborn"
      BY <2>1 DEF Exists
    <3>2. admin'.row.info = "error" => Free(r)'
      BY <1>2, <2>1, <2>3 DEF SystemInv, ErrorsAreFinal
    <3> QED
      BY <2>3, <3>1, <3>2 DEF AdminWF, Free, RouteOf
  <2>6. JobsHaveRoutes'
    BY <1>0, <2>1, JobsHaveRoutesStays DEF SystemInv
  <2> QED
    BY <1>1, <1>3, <1>6, <2>1, <2>2, <2>3, <2>4, <2>5, <2>6, BystanderSystem
<1>8. ASSUME AdminSave
      PROVE  SystemInv' /\ Progress
  <2>1. PICK r : r = admin.route
    OBVIOUS
  <2>2. /\ r \in Routes /\ route[r].state # "unborn" /\ admin.pc = "save"
        /\ UNCHANGED jobs
    BY <1>8, <2>1 DEF AdminSave, SystemInv, AdminWF
  <2>3. CASE UNCHANGED route /\ admin' = [NewAdmin("done") EXCEPT !.code = 500]
    <3>2. AdminOK' /\ admin'.pc = "done"
      BY <1>0, <2>3, AdminAway, ZenonT(40)
    <3>3. AdminWF'
      BY <3>2 DEF AdminWF
    <3>4. Inv' /\ JobsInv'
      BY <1>0, <1>1, <1>4, <1>5, <1>6, <2>2, <2>3, AdminTypes DEF TypeOK
    <3>5. JobsHaveRoutes'
      BY <1>0, <2>2, <2>3, JobsHaveRoutesStays DEF SystemInv
    <3> QED
      BY <1>1, <1>3, <1>6, <2>2, <2>3, <3>2, <3>3, <3>4, <3>5, BystanderSystem
  <2>4. CASE /\ Exists(r) /\ Save(r, AdminRow(r))
             /\ admin' = [NewAdmin("done") EXCEPT !.edited = {r}, !.code = 302]
    <3> DEFINE row == AdminRow(r)
    <3>1. /\ row \in Row /\ row.calculated /\ row.trip = admin.row.trip
          /\ row.info = admin.row.info /\ row.json = route[r].row.json
          /\ row.json_unsmoothed = route[r].row.json_unsmoothed
      BY <1>0, <2>2, AdminRowEffect
    <3>2. Save(r, row)
      BY <2>4
    <3> HIDE DEF row
    <3>3. AdminOK' /\ admin'.pc = "done"
      <4>1. {r} \in SUBSET Routes
        BY <2>2
      <4> QED
        BY <1>0, <2>4, <4>1, AdminAway, ZenonT(40)
    <3>4. AdminWF'
      BY <3>3 DEF AdminWF
    <3>5. /\ route'[r].state = "stored" /\ route'[r].row = row
          /\ \A q \in Routes : q # r => route'[q] = route[q]
      BY <1>0, <2>2, <3>2, SaveEffect
    <3>6. KeepsFreeRoutes
      BY <2>2, <2>4, <3>1, <3>5 DEF KeepsFreeRoutes, Exists
    <3>7. TypeInv'
      BY <1>0, <1>1, <2>2, <3>1, <3>2, SaveType, AdminTypes DEF TypeOK
    <3>8. RouteStep
      BY <2>2, <3>1, <3>2 DEF RouteStep
    <3>9. JobsHaveRoutes'
      BY <1>0, <2>2, <3>1, <3>2, JobsHaveRoutesStays DEF SystemInv
    <3>10. \A q \in Routes : Settled(q) => Settled(q)'
      BY <1>2, <2>4, <3>1, <3>5 DEF Settled, Exists, Paths
    <3>11. \A q \in Routes : route'[q].state = "stored" =>
             /\ route'[q].row.trip \in TripsOf(q)
             /\ route'[q].row.info = "error" => Free(q)
      BY <2>1, <2>2, <3>1, <3>5, TripsHere
         DEF SystemInv, ErrorsAreFinal, AdminWF, Exists
    <3>12. Inv' /\ JobsInv'
      BY <1>4, <1>5, <2>2, <3>6, <3>7
    <3> QED
      BY <1>1, <1>3, <2>2, <3>3, <3>4, <3>8, <3>9, <3>10, <3>11, <3>12,
         BystanderSystem
  <2> QED
    BY <1>8, <2>1, <2>3, <2>4 DEF AdminSave
<1>9. ASSUME NEW r \in Routes, AdminDeleteRoute(r)
      PROVE  SystemInv' /\ Progress
  <2>1. DeleteRoute(r) /\ admin' = [admin EXCEPT !.pc = "done", !.code = 302]
    BY <1>9 DEF AdminDeleteRoute
  <2>2. AdminOK' /\ admin'.pc = "done"
    BY <1>0, <2>1, AdminRedirected
  <2>3. AdminWF'
    BY <2>2 DEF AdminWF
  <2>4. TypeInv' /\ KeepsFreeRoutes
    BY <1>0, <1>1, <2>1, DeleteType, AdminTypes, DeleteKeepsFreeRoutes
  <2>5. \A t \in Tasks : jobs'[t] = jobs[t] \/ jobs'[t] = NoJob
    BY <2>1 DEF DeleteRoute
  <2>6. Inv' /\ JobsInv'
    BY <1>4, <1>5, <2>4, <2>5
  <2>7. \A q \in Routes : route'[q] \in {route[q], [state |-> "deleted", row |-> NoRow]}
    BY <1>0, <2>1 DEF DeleteRoute, TypeOK
  <2>8. \A q \in Routes : route'[q].state = "stored" => Exists(q) /\ route'[q] = route[q]
    BY <2>7 DEF Exists
  <2>9. \A q \in Routes : Settled(q) => Settled(q)'
    BY <1>2, <2>7 DEF Settled, Exists
  <2>10. \A q \in Routes : route'[q].state = "stored" =>
           /\ route'[q].row.trip \in TripsOf(q)
           /\ route'[q].row.info = "error" => Free(q)
    BY <2>8, TripsHere DEF SystemInv, ErrorsAreFinal
  <2>11. RouteStep /\ JobsHaveRoutes'
    BY <1>0, <2>1, JobsHaveRoutesStays DEF RouteStep, SystemInv
  <2> QED
    BY <1>1, <1>3, <2>2, <2>3, <2>5, <2>6, <2>9, <2>10, <2>11, BystanderSystem
<1>10. ASSUME NEW t \in Tasks, AdminDeleteJob(t)
       PROVE  SystemInv' /\ Progress
  <2>1. /\ UNCHANGED route /\ jobs' = [jobs EXCEPT ![t] = NoJob]
        /\ admin' = [admin EXCEPT !.pc = "done", !.code = 302]
    BY <1>10 DEF AdminDeleteJob
  <2>2. AdminOK' /\ admin'.pc = "done"
    BY <1>0, <2>1, AdminRedirected
  <2>3. AdminWF'
    BY <2>2 DEF AdminWF
  <2>4. /\ jobs' \in [Tasks -> JobRow]
        /\ \A u \in Tasks : jobs'[u] = jobs[u] \/ jobs'[u] = NoJob
    BY <1>0, <2>1 DEF TypeOK, NoJob, JobRow
  <2>5. Inv' /\ JobsInv'
    BY <1>0, <1>1, <1>4, <1>5, <1>6, <2>1, <2>4, AdminTypes DEF TypeOK
  <2>6. JobsHaveRoutes'
    BY <1>0, <2>1, <2>4, JobsHaveRoutesStays DEF SystemInv
  <2> QED
    BY <1>1, <1>3, <1>6, <2>1, <2>2, <2>3, <2>4, <2>5, <2>6, BystanderSystem
<1> QED
  BY <1>7, <1>8, <1>9, <1>10 DEF AdminStep

LEMMA WorkerRouteStep ==
    ASSUME TypeInv, NEW w \in Workers, WorkerStep(w) \/ WorkerDies(w)
    PROVE  \/ UNCHANGED route
           \/ \E r \in Routes, row \in Row : Save(r, row)
<1>1. CASE Take(w)
  BY <1>1 DEF Take, tables
<1>2. CASE Resend(w)
  BY <1>2 DEF Resend, tables
<1>3. CASE ~Take(w) /\ ~Resend(w)
  <2>1. \/ UNCHANGED route
        \/ worker[w].pc \in WritingPc /\ \E row \in Row : Save(RouteOf(w), row)
    BY <1>3, WorkerEffect
  <2> QED
    BY <2>1 DEF TypeInv, WorkerWF, WritingPc
<1> QED
  BY <1>1, <1>2, <1>3

\* A worker records one job, of a task that it has sent before.
LEMMA WorkerRecords ==
    ASSUME TypeInv, NEW w \in Workers, WorkerStep(w) \/ WorkerDies(w)
    PROVE  /\ \/ UNCHANGED jobs
              \/ /\ worker[w].pc = "record" /\ UNCHANGED route
                 /\ CreateJob(worker[w].next, RouteOf(w))
           /\ \A v \in Workers : worker'[v].pc = "record" =>
                \/ worker'[v] = worker[v]
                \/ args[worker'[v].next].route = None
<1>0. TypeOK
  BY DEF TypeInv
<1>1. CASE Resend(w)
  <2>1. UNCHANGED jobs
    BY <1>1 DEF Resend, tables
  <2>2. CASE Goto(w, "raise")
    <3>1. /\ worker'[w].pc = "raise"
          /\ \A v \in Workers : v # w => worker'[v] = worker[v]
      BY <1>0, <2>2, GotoEffect
    <3> QED
      BY <2>1, <3>1
  <2>3. ASSUME NEW t \in Tasks, Fresh(t),
               worker' = [worker EXCEPT ![w].pc = "record", ![w].next = t]
        PROVE  /\ worker'[w].next = t
               /\ \A v \in Workers : v # w => worker'[v] = worker[v]
    BY <1>0, <2>3 DEF TypeOK, WorkerState
  <2> QED
    BY <1>1, <2>1, <2>2, <2>3 DEF Resend, Delay, Fresh
<1>2. CASE RecordRetryJob(w)
  <2>1. worker[w].pc = "record" /\ UNCHANGED route
    BY <1>2 DEF RecordRetryJob
  <2>2. CASE CreateJob(worker[w].next, RouteOf(w)) /\ Finish(w)
    <3>1. /\ worker'[w].pc = "idle"
          /\ \A v \in Workers : v # w => worker'[v] = worker[v]
      BY <1>0, <2>2, FinishEffect
    <3> QED
      BY <2>1, <2>2, <3>1
  <2>3. CASE UNCHANGED jobs /\ Goto(w, "raise")
    <3>1. /\ worker'[w].pc = "raise"
          /\ \A v \in Workers : v # w => worker'[v] = worker[v]
      BY <1>0, <2>3, GotoEffect
    <3> QED
      BY <2>3, <3>1
  <2> QED
    BY <1>2, <2>2, <2>3 DEF RecordRetryJob
<1>3. CASE ~Resend(w) /\ ~RecordRetryJob(w)
  BY <1>3, WorkerMoves
<1> QED
  BY <1>1, <1>2, <1>3

LEMMA WorkerErrors ==
    ASSUME SystemInv, FreeKept, NEW w \in Workers, WorkerStep(w) \/ WorkerDies(w)
    PROVE  ErrorsAreFinal'
<1>0. Inv /\ TypeInv /\ TypeOK /\ ErrorsAreFinal
  BY DEF SystemInv, Inv, TypeInv
<1>1. \A v \in Workers : v # w => worker'[v] = worker[v]
  BY <1>0, WorkerArgsKept
<1>2. CASE Take(w)
  <2>1. UNCHANGED route
    BY <1>2 DEF Take, tables
  <2>2. PICK t \in queue :
          \/ worker'[w].pc = "raise"
          \/ LET r == args[t].route
             IN  /\ Exists(r)
                 /\ \E info \in {route[r].row.info, "note"} :
                      worker'[w].row = [route[r].row EXCEPT !.info = info]
    BY <1>0, <1>2, TakeEffect
  <2>3. ASSUME worker'[w].pc \in WritingPc PROVE worker'[w].row.info # "error"
    <3> DEFINE r == args[t].route
    <3>1. Exists(r) /\ \E info \in {route[r].row.info, "note"} :
             worker'[w].row = [route[r].row EXCEPT !.info = info]
      BY <2>2, <2>3 DEF WritingPc
    <3>2. r \in Routes /\ ~Free(r)
      BY <1>0 DEF TypeInv, QueueWF, Free
    <3>3. route[r].row.info # "error" /\ route[r].row \in Row
      BY <1>0, <3>1, <3>2 DEF ErrorsAreFinal, TypeOK, RouteRow
    <3> QED
      BY <3>1, <3>3 DEF Row
  <2> QED
    BY <1>0, <1>1, <2>1, <2>3, ErrorsStay DEF ErrorsAreFinal, Exists
<1>3. CASE Resend(w)
  <2>1. UNCHANGED route /\ worker'[w].pc \notin WritingPc
    BY <1>0, <1>3, ResendEffect DEF WritingPc
  <2> QED
    BY <1>0, <1>1, <2>1, ErrorsStay DEF ErrorsAreFinal, Exists
<1>4. CASE ~Take(w) /\ ~Resend(w)
  <2>1. /\ UNCHANGED <<args, queue, post>>
        /\ worker'[w].pc \in WritingPc =>
              /\ worker[w].pc \in WritingPc
              /\ worker'[w].row.info \in {worker[w].row.info, "note"}
        /\ \/ UNCHANGED route
           \/ /\ worker[w].pc \in WritingPc
              /\ \E row \in Row :
                   /\ Save(RouteOf(w), row)
                   /\ \/ worker'[w].pc \notin WritingPc
                      \/ row.info \in {worker[w].row.info, "note"}
    BY <1>0, <1>4, WorkerEffect
  <2>2. \A v \in Workers : worker'[v].pc \in WritingPc =>
          worker'[v].row.info # "error"
    BY <1>0, <1>1, <2>1 DEF ErrorsAreFinal
  <2>3. ASSUME NEW q \in Routes, route'[q].state = "stored",
               route'[q].row.info = "error"
        PROVE  (Exists(q) /\ route[q].row.info = "error") \/ Free(q)'
    <3>1. CASE UNCHANGED route
      BY <2>3, <3>1 DEF Exists
    <3>2. ASSUME worker[w].pc \in WritingPc, NEW row \in Row,
                 Save(RouteOf(w), row),
                 \/ worker'[w].pc \notin WritingPc
                 \/ row.info \in {worker[w].row.info, "note"}
          PROVE  (Exists(q) /\ route[q].row.info = "error") \/ Free(q)'
      <4>1. PICK r \in Routes : r = RouteOf(w)
        BY <1>0, <3>2 DEF TypeInv, WorkerWF, WritingPc
      <4>2. /\ route'[r].row = row
            /\ \A o \in Routes : o # r => route'[o] = route[o]
        BY <1>0, <3>2, <4>1, SaveEffect
      <4>3. CASE q # r
        BY <2>3, <4>2, <4>3 DEF Exists
      <4>4. CASE q = r
        <5>1. row.info = "error"
          BY <2>3, <4>2, <4>4
        <5>2. worker'[w].pc \notin WritingPc
          BY <1>0, <3>2, <5>1 DEF ErrorsAreFinal
        <5> QED
          BY <1>0, <1>1, <2>1, <3>2, <4>1, <4>4, <5>2, LastWriter
      <4> QED
        BY <4>3, <4>4
    <3> QED
      BY <2>1, <3>1, <3>2
  <2> QED
    BY <1>0, <2>2, <2>3, ErrorsStay
<1> QED
  BY <1>2, <1>3, <1>4

LEMMA WorkerTrips ==
    ASSUME SystemInv, ArgsKept, UNCHANGED <<post, admin>>,
           NEW w \in Workers, WorkerStep(w) \/ WorkerDies(w)
    PROVE  TripsInv'
<1>0. Inv /\ TypeInv /\ TypeOK /\ TripsInv
  BY DEF SystemInv, Inv, TypeInv
<1>1. \A v \in Workers : v # w => worker'[v] = worker[v]
  BY <1>0, WorkerArgsKept
<1>2. ASSUME NEW v \in Workers, v # w, worker'[v].pc \in WritingPc
      PROVE  /\ worker[v].pc \in WritingPc /\ RouteOf(v)' = RouteOf(v)
             /\ worker'[v].row = worker[v].row
  <2>1. worker'[v] = worker[v]
    BY <1>1, <1>2
  <2> QED
    BY <1>0, <1>2, <2>1, NoneAssumption
       DEF TypeInv, WorkerWF, ArgsKept, RouteOf, WritingPc
<1>3. \A p \in Posts : \A r \in Routes : Bound(p, r)' => Bound(p, r)
  BY DEF Bound, SystemInv, Accepted, Recorded, ArgsKept
<1>4. \A r \in Routes : route[r].state # "unborn" => route'[r].state # "unborn"
  BY <1>0, WorkerRouteStep, BornStays DEF RouteStep
<1>5. ASSUME NEW r \in Routes PROVE TripsOf(r)' \subseteq TripsOf(r)
  <2>1. CASE Take(w)
    <3>1. UNCHANGED <<route, args>>
      BY <2>1 DEF Take, tables
    <3>2. PICK t \in queue :
            /\ worker'[w].task = t
            /\ \/ worker'[w].pc = "raise"
               \/ /\ Exists(args[t].route)
                  /\ \E info \in {route[args[t].route].row.info, "note"} :
                       worker'[w].row =
                          [route[args[t].route].row EXCEPT !.info = info]
      BY <1>0, <2>1, TakeEffect
    <3>3. ASSUME worker'[w].pc \in WritingPc, RouteOf(w)' = r
          PROVE  worker'[w].row.trip \in TripsOf(r)
      <4>1. args[t].route = r
        BY <3>1, <3>2, <3>3 DEF RouteOf
      <4>2. Exists(r) /\ \E info \in {route[r].row.info, "note"} :
               worker'[w].row = [route[r].row EXCEPT !.info = info]
        BY <3>2, <3>3, <4>1 DEF WritingPc
      <4>3. route[r].row \in Row
        BY <1>0 DEF TypeOK, RouteRow
      <4>4. worker'[w].row.trip = route[r].row.trip
        BY <4>2, <4>3 DEF Row
      <4> QED
        BY <4>2, <4>4, TripsHere
    <3>4. \A v \in Workers : worker'[v].pc \in WritingPc /\ RouteOf(v)' = r =>
            worker'[v].row.trip \in TripsOf(r)
      BY <1>2, <3>3, TripsHere
    <3> QED
      BY <3>1, <3>4, TripsHere, TripsShrink DEF Exists
  <2>2. CASE Resend(w)
    <3>1. UNCHANGED route /\ worker'[w].pc \notin WritingPc
      BY <1>0, <2>2, ResendEffect DEF WritingPc
    <3>2. \A v \in Workers : worker'[v].pc \in WritingPc /\ RouteOf(v)' = r =>
            worker'[v].row.trip \in TripsOf(r)
      BY <1>2, <3>1, TripsHere
    <3> QED
      BY <3>1, <3>2, TripsHere, TripsShrink DEF Exists
  <2>3. CASE ~Take(w) /\ ~Resend(w)
    <3>1. /\ UNCHANGED args
          /\ worker'[w].pc \in WritingPc =>
                /\ worker[w].pc \in WritingPc
                /\ worker'[w].task = worker[w].task
                /\ worker'[w].row.trip = worker[w].row.trip
          /\ \/ UNCHANGED route
             \/ /\ worker[w].pc \in WritingPc
                /\ \E row \in Row :
                     Save(RouteOf(w), row) /\ row.trip = worker[w].row.trip
      BY <1>0, <2>3, WorkerEffect
    <3>2. worker'[w].pc \in WritingPc => RouteOf(w)' = RouteOf(w)
      BY <3>1 DEF RouteOf
    <3>3. \A v \in Workers : worker'[v].pc \in WritingPc /\ RouteOf(v)' = r =>
            worker'[v].row.trip \in TripsOf(r)
      BY <1>2, <3>1, <3>2, TripsHere
    <3>4. route'[r].state = "stored" => route'[r].row.trip \in TripsOf(r)
      <4>1. CASE UNCHANGED route
        BY <4>1, TripsHere DEF Exists
      <4>2. ASSUME worker[w].pc \in WritingPc, NEW row \in Row,
                   Save(RouteOf(w), row), row.trip = worker[w].row.trip
            PROVE  route'[r].state = "stored" => route'[r].row.trip \in TripsOf(r)
        <5>1. RouteOf(w) \in Routes
          BY <1>0, <4>2 DEF TypeInv, WorkerWF, WritingPc
        <5>2. /\ route'[RouteOf(w)].row = row
              /\ \A o \in Routes : o # RouteOf(w) => route'[o] = route[o]
          BY <1>0, <4>2, <5>1, SaveEffect
        <5> QED
          BY <4>2, <5>2, TripsHere DEF Exists
      <4> QED
        BY <3>1, <4>1, <4>2
    <3> QED
      BY <3>3, <3>4, TripsHere, TripsShrink
  <2> QED
    BY <2>1, <2>2, <2>3
<1> QED
  BY <1>0, <1>3, <1>4, <1>5, TripsStay

LEMMA WorkerSystem ==
    ASSUME SystemInv, UNCHANGED admin, NEW w \in Workers,
           WorkerStep(w) \/ WorkerDies(w)
    PROVE  SystemInv' /\ Progress
<1>0. Inv /\ TypeInv /\ TypeOK /\ JobsInv
  BY DEF SystemInv, Inv, TypeInv
<1>1. Inv' /\ JobsInv' /\ PathsInv'
  BY <1>0, WorkerInv, WorkerJobs, WorkerPaths DEF SystemInv
<1>2. FreeKept /\ ArgsKept /\ UNCHANGED <<mesh, post, cancel>>
  BY <1>0, WorkerFreeKept, WorkerArgsKept
<1>3. \/ UNCHANGED route
      \/ \E r \in Routes, row \in Row : Save(r, row)
  BY <1>0, WorkerRouteStep
<1>4. RouteStep /\ MeshesAge
  BY <1>2, <1>3 DEF RouteStep, MeshesAge
<1>5. /\ \/ UNCHANGED jobs
         \/ /\ worker[w].pc = "record" /\ UNCHANGED route
            /\ CreateJob(worker[w].next, RouteOf(w))
      /\ \A v \in Workers : worker'[v].pc = "record" =>
           \/ worker'[v] = worker[v]
           \/ args[worker'[v].next].route = None
  BY <1>0, WorkerRecords
<1>6. JobsHaveRoutes'
  <2>1. worker[w].pc = "record" =>
          worker[w].next \in Tasks /\ RouteOf(w) \in Routes
    BY <1>0 DEF TypeInv, WorkerWF
  <2> QED
    BY <1>0, <1>3, <1>5, <2>1, JobsHaveRoutesStays DEF SystemInv
<1>7. \A t : Recorded(t) => Recorded(t)'
  BY <1>2, <1>5, RecordedStays
<1>8. ASSUME NEW t \in Tasks, Lost(t) PROVE Lost(t)'
  <2>1. Recorded(t)'
    BY <1>7, <1>8 DEF Lost
  <2> QED
    BY <1>0, <1>5, <1>8, <2>1, LostStays
<1>9. Accepted'
  <2>1. ASSUME NEW p \in Posts, post'[p].code = 202
        PROVE  post'[p].pc = "done" /\ Recorded(post[p].task)'
    <3>1. PICK t : t = post[p].task
      OBVIOUS
    <3>2. post[p].pc = "done" /\ Recorded(t)
      BY <1>2, <2>1, <3>1 DEF SystemInv, Accepted
    <3> QED
      BY <1>2, <1>7, <3>1, <3>2
  <2> QED
    BY <1>2, <2>1 DEF Accepted
<1>10. ErrorsAreFinal'
  BY <1>2, WorkerErrors
<1>11. TripsInv'
  BY <1>2, WorkerTrips
<1>12. AdminWF'
  BY <1>0, <1>2, <1>4, AdminStays DEF SystemInv
<1>13. \A r \in Routes : Settled(r) => Settled(r)'
  BY <1>0, <1>2, SettledStays
<1> QED
  BY <1>1, <1>2, <1>4, <1>6, <1>7, <1>8, <1>9, <1>10, <1>11, <1>12, <1>13
     DEF SystemInv, Progress

LEMMA StutterSystem ==
    ASSUME SystemInv, UNCHANGED <<vars, admin>>
    PROVE  SystemInv' /\ Progress
<1>0. Inv /\ TypeInv /\ TypeOK /\ JobsInv
  BY DEF SystemInv, Inv, TypeInv
<1>1. UNCHANGED <<mesh, route, jobs, args, queue, result, post, worker>>
  BY DEF vars
<1>2. Inv' /\ JobsInv'
  BY <1>0, NextInv, NextJobs
<1>3. RouteStep /\ MeshesAge /\ FreeKept
  BY <1>0, <1>1, NextFreeKept DEF RouteStep, MeshesAge
<1>4. AdminWF' /\ \A r \in Routes : Settled(r) => Settled(r)'
  BY <1>0, <1>3, AdminStays, SettledStays DEF SystemInv
<1>5. JobsHaveRoutes'
  BY <1>0, <1>1, JobsHaveRoutesStays DEF SystemInv
<1>6. \A r \in Routes : route'[r].state = "stored" =>
        /\ route'[r].row.trip \in TripsOf(r)
        /\ route'[r].row.info = "error" => Free(r)
  BY <1>1, TripsHere DEF SystemInv, ErrorsAreFinal, Exists
<1> QED
  BY <1>1, <1>2, <1>3, <1>4, <1>5, <1>6, TripsHere, BystanderSystem

LEMMA NextSystem ==
    ASSUME SystemInv, Next, UNCHANGED admin
    PROVE  SystemInv' /\ Progress
BY PostSystem, CancelSystem, WorkerSystem, EnvironmentSystem, StutterSystem
   DEF Next, Rest

\* Whatever anybody does, the invariants of the system hold and nobody loses
\* what he relies on.
LEMMA ApiKeeps == SystemInv /\ [ApiNext]_apiVars => SystemInv' /\ Progress
<1> SUFFICES ASSUME SystemInv, [ApiNext]_apiVars PROVE SystemInv' /\ Progress
  OBVIOUS
<1>1. CASE AdminStep
  BY <1>1, AdminSystem
<1>2. CASE Next /\ UNCHANGED admin
  BY <1>2, NextSystem
<1>3. CASE ~AdminStep /\ ~(Next /\ UNCHANGED admin)
  <2>1. UNCHANGED <<vars, admin>>
    BY <1>3 DEF ApiNext, apiVars, viewVars, system, ClientStep, ReadAnswer,
       Poll, GiveUp, StatusError, ReadStatus, Fetch, EvaluationStep,
       EvaluateFind, EvaluateSelect, Evaluate
  <2> QED
    BY <2>1, StutterSystem
<1> QED
  BY <1>1, <1>2, <1>3

LEMMA InitSystem == ApiInit => SystemInv
<1> SUFFICES ASSUME ApiInit PROVE SystemInv
  OBVIOUS
<1>0. Init /\ \E pc \in {"away", "ready"} : admin = NewAdmin(pc)
  BY DEF ApiInit
<1>1. Inv /\ JobsInv
  BY <1>0, InitInv, JobsInvInit
<1>2. /\ \A w \in Workers : worker[w].pc = "idle"
      /\ \A t \in Tasks : result[t] = "PENDING" /\ jobs[t].route = None
      /\ \A p \in Posts : post[p].pc = "ready" /\ post[p].code = None
      /\ \A r \in Routes : route[r].state = "unborn"
  BY <1>0 DEF Init, IdleWorker, IdlePost, NoJob
<1>3. PathsInv
  BY <1>2 DEF PathsInv, CopyWF
<1>4. JobsHaveRoutes
  BY <1>2 DEF JobsHaveRoutes
<1>5. \A p \in Posts : post[p].code # 202
  BY <1>2, NoneAssumption
<1>6. Accepted
  BY <1>5 DEF Accepted
<1>7. ErrorsAreFinal
  BY <1>2 DEF ErrorsAreFinal, Exists, WritingPc
<1>8. admin.pc \in {"away", "ready"} /\ AdminOK
  <2>1. PICK pc \in {"away", "ready"} : admin = NewAdmin(pc)
    BY <1>0
  <2> DEFINE row == NoRow
  <2>2. row \in Row
    BY DEF NoRow, Row
  <2>3. None \in AdminCode /\ pc \in AdminPc
    BY DEF AdminCode, AdminPc
  <2>4. admin = [pc |-> pc, route |-> None, row |-> row, edited |-> {},
                 code |-> None]
    BY <2>1 DEF NewAdmin
  <2> HIDE DEF row
  <2>5. admin \in AdminState /\ admin.pc = pc
    BY <2>2, <2>3, <2>4 DEF AdminState
  <2> QED
    BY <2>5, AdminTyped
<1>9. AdminWF
  BY <1>8 DEF AdminWF
<1>10. TripsInv
  <2>1. \A r \in Routes : TripsOf(r) = {}
    BY <1>2, <1>8 DEF TripsOf, RowTrips, CopyTrips, FormTrips, Exists, WritingPc
  <2>2. \A p \in Posts : \A r : ~Bound(p, r)
    BY <1>2, <1>5 DEF Bound
  <2> QED
    BY <2>1, <2>2 DEF TripsInv
<1> QED
  BY <1>1, <1>3, <1>4, <1>6, <1>7, <1>9, <1>10 DEF SystemInv

\* A job that reads SUCCESS keeps the timestamp and the paths of its route,
\* whatever an administrator saves and however old the object he saves is: he
\* sets the timestamp and writes no paths, and every other save() is the save
\* of a route's one writer (admin.py:38; tasks.py:136-143).
THEOREM SuccessfulRoutesKeepPaths == ApiSpec => []SuccessKeepsPaths
<1>1. SystemInv => SuccessKeepsPaths
  BY DEF SystemInv, PathsInv, Settled, Paths, SuccessKeepsPaths
<1> QED
  BY <1>1, InitSystem, ApiKeeps, PTL DEF ApiSpec

\* What the whole API may still do to a row that nobody writes.
LEMMA RowsOfFreeRoutes ==
    ASSUME SystemInv, ApiNext, NEW r \in Routes, Free(r),
           route[r].state # "unborn"
    PROVE  RowKept(r) \/ r \in admin'.edited
<1>0. TypeInv /\ TypeOK
  BY DEF SystemInv, Inv, TypeInv
<1>1. CASE Next
  BY <1>0, <1>1, NextFreeKept DEF FreeKept
<1>2. CASE AdminStep
  <2>1. CASE AdminSave
    <3>1. CASE UNCHANGED route
      BY <3>1 DEF RowKept
    <3>2. CASE /\ Save(admin.route, AdminRow(admin.route))
               /\ admin' = [NewAdmin("done") EXCEPT !.edited = {admin.route},
                                                    !.code = 302]
      <4>1. admin.route \in Routes
        BY <2>1 DEF AdminSave, SystemInv, AdminWF
      <4>2. CASE r = admin.route
        <5>1. NewAdmin("done").edited = {} /\ NewAdmin("done") \in AdminState
          BY NewAdminType DEF NewAdmin
        <5>2. admin'.edited = {r}
          BY <3>2, <4>2, <5>1 DEF AdminState
        <5> QED
          BY <5>2
      <4>3. CASE r # admin.route
        BY <1>0, <3>2, <4>1, <4>3, OtherRowsKept
      <4> QED
        BY <4>2, <4>3
    <3> QED
      BY <2>1, <3>1, <3>2 DEF AdminSave
  <2>2. CASE ~AdminSave
    <3>1. UNCHANGED route \/ \E q \in Routes : DeleteRoute(q)
      BY <1>2, <2>2 DEF AdminStep, AdminLoad, AdminDeleteRoute, AdminDeleteJob, vars
    <3> QED
      BY <1>0, <3>1, OtherRowsKept
  <2> QED
    BY <2>1, <2>2
<1>3. CASE ~Next /\ ~AdminStep
  <2>1. UNCHANGED route
    BY <1>3 DEF ApiNext, viewVars, system, vars, ClientStep, ReadAnswer, Poll,
       GiveUp, StatusError, ReadStatus, Fetch, EvaluationStep, EvaluateFind,
       EvaluateSelect, Evaluate
  <2> QED
    BY <2>1 DEF RowKept
<1> QED
  BY <1>1, <1>2, <1>3

\* The step of RecentFailureIsFinal.
FailuresStay ==
    \A entry \in Recent : entry.status = "FAILURE" =>
        \A later \in Recent' :
          later.id = entry.id /\ later.id \notin admin'.edited
            => later.status = "FAILURE"

LEMMA FailuresStayStep ==
    ASSUME SystemInv, ApiNext PROVE FailuresStay
<1> SUFFICES ASSUME NEW entry \in Recent, NEW later \in Recent',
                    entry.status = "FAILURE", later.id = entry.id,
                    later.id \notin admin'.edited
             PROVE  later.status = "FAILURE"
  BY DEF FailuresStay
<1> DEFINE r == entry.id
<1>0. TypeOK
  BY DEF SystemInv, Inv, TypeInv
<1>1. r \in Routes /\ Exists(r) /\ RecentStatus(route[r].row) = "FAILURE"
  BY DEF Recent
<1>2. /\ route'[r].state = "stored"
      /\ later.status = RecentStatus(route'[r].row)
  BY DEF Recent, Exists, RecentStatus
<1> HIDE DEF r
<1>3. ~route[r].row.calculated /\ route[r].row.info = "error"
  BY <1>1 DEF RecentStatus
<1>4. Free(r) /\ route[r].state # "unborn"
  BY <1>1, <1>3 DEF SystemInv, ErrorsAreFinal, Exists
<1>5. RowKept(r)
  BY <1>1, <1>4, RowsOfFreeRoutes DEF r
<1>6. route[r] \in RouteRow
  BY <1>0, <1>1 DEF TypeOK
<1>7. ~route'[r].row.calculated /\ route'[r].row.info = "error"
  BY <1>2, <1>3, <1>5, <1>6 DEF RowKept, RouteRow, Row
<1> QED
  BY <1>2, <1>7 DEF RecentStatus

\* A failure that the recent routes show is not taken back: no retry and no
\* other worker writes the row again, and only the form of an administrator,
\* which sets the timestamp, hides the error (tasks.py:164-166; views.py:496).
THEOREM RecentFailuresAreFinal == ApiSpec => RecentFailureIsFinal
<1>1. SystemInv /\ [ApiNext]_apiVars => [FailuresStay]_viewVars
  BY FailuresStayStep DEF apiVars, viewVars
<1> QED
  BY <1>1, InitSystem, ApiKeeps, PTL
     DEF ApiSpec, RecentFailureIsFinal, FailuresStay

----------------------------------------------------------------------------
(* The reader *)

ReaderStatus == {None, "PENDING", "SUCCESS", "FAILURE"}
ReaderInfo == {None, "none", "note", "error"}
ReaderCode == {None, 200, 404, 500}
ReaderDetail == {None, "smoothed", "smoothing failed", "no routes"}
ReaderState == [pc : ReaderPc, job : Tasks \cup {None},
                seen : {"PENDING", "SUCCESS", "FAILURE"},
                found : BOOLEAN, row : Row, status : ReaderStatus,
                url : Routes \cup {None}, info : ReaderInfo,
                code : ReaderCode, detail : ReaderDetail]

LEMMA ReaderTyped == ReaderOK <=> reader \in ReaderState
BY DEF ReaderOK, ReaderState, ReaderStatus, ReaderInfo, ReaderCode, ReaderDetail

\* A job that is in the table was recorded.
LEMMA JobsAreRecorded ==
    ASSUME SystemInv, NEW t \in Tasks, jobs[t].route # None
    PROVE  Recorded(t)
BY DEF SystemInv, JobsInv, JobsMatch, Recorded, Recorders, Unrecorded

\* While others take steps, a reader may rely on what it has read.
LEMMA ReaderStays ==
    ASSUME ReaderWF, Progress, UNCHANGED reader
    PROVE  ReaderWF'
<1> PICK j : j = reader.job
  OBVIOUS
<1> PICK r : r = args[j].route
  OBVIOUS
<1>0. reader' = reader /\ reader.job = j /\ reader \in ReaderState
  BY ReaderTyped DEF ReaderWF
<1>1. Recorded(j) => Recorded(j)' /\ args'[j].route = r
  BY DEF Progress, Recorded, ArgsKept
<1>2. Settled(r) => Settled(r)'
  BY DEF Progress, Settled
<1>3. Lost(j) => Lost(j)'
  BY DEF Progress, Lost, Recorded
<1>4. reader.url # None => j \in Tasks /\ args[j].route # None /\ args'[j].route = r
  BY <1>0, NoneAssumption DEF ReaderWF, Settled, Progress, ArgsKept
<1>5. ReaderOK'
  BY <1>0, ZenonT(40) DEF ReaderOK, ReaderWF
<1>6. FinalStatusIsBorneOut' /\ UrlLeadsToPaths'
  BY <1>0, <1>3 DEF ReaderWF, FinalStatusIsBorneOut, UrlLeadsToPaths, Lost
<1>7. (reader.pc \in Reading \cup {"job"} => Recorded(reader.job))'
  BY <1>0, <1>1 DEF ReaderWF
<1>8. reader.pc \in Reading => Recorded(j)
  BY <1>0 DEF ReaderWF
<1>9. (reader.pc \in Reading /\ reader.seen = "SUCCESS"
         => Settled(args[reader.job].route))'
  BY <1>0, <1>1, <1>2, <1>8 DEF ReaderWF
<1>10. (reader.pc \in {"route", "url"} /\ ~reader.found => Lost(reader.job))'
  BY <1>0, <1>3 DEF ReaderWF
<1>11. (reader.pc = "answered" /\ reader.code = 500 => Lost(reader.job))'
  BY <1>0, <1>3 DEF ReaderWF
<1>12. (reader.url # None =>
              /\ reader.seen = "SUCCESS" /\ reader.info = None
              /\ reader.job \in Tasks /\ reader.url = args[reader.job].route
              /\ Settled(reader.url))'
  <2> PICK u : u = reader.url
    OBVIOUS
  <2>1. u # None => u = r /\ Settled(r)' /\ args'[j].route = r
    BY <1>0, <1>2, <1>4 DEF ReaderWF
  <2> QED
    BY <1>0, <2>1 DEF ReaderWF
<1> QED
  BY <1>0, <1>5, <1>6, <1>7, <1>9, <1>10, <1>11, <1>12 DEF ReaderWF

LEMMA ReaderTypes == ASSUME reader' \in ReaderState PROVE ReaderOK'
BY DEF ReaderOK, ReaderState, ReaderStatus, ReaderInfo, ReaderCode, ReaderDetail

\* The reader goes on to x, while the system stays as it is.
LEMMA ReaderGoes ==
    ASSUME ReaderWF, Progress, UNCHANGED args, NEW x \in ReaderState, reader' = x,
           NEW j, j = x.job, NEW r, r = args[j].route,
           x.pc \in Reading \cup {"job"} => Recorded(j),
           x.pc \in Reading \cup {"away", "ready", "job"} =>
              x.code = None /\ x.info = None,
           x.pc \in {"away", "ready", "job"} => x.seen = "PENDING",
           x.pc \in {"away", "ready", "job", "status", "route"} => x.url = None,
           x.pc \in Reading /\ x.status \in {"SUCCESS", "FAILURE"} =>
              x.seen = x.status,
           x.pc \in Reading /\ x.seen = "SUCCESS" => Settled(r),
           x.pc \in {"route", "url"} /\ ~x.found => Lost(j),
           x.pc = "url" /\ x.status = "SUCCESS" => x.url # None,
           x.url # None =>
              /\ x.seen = "SUCCESS" /\ x.info = None
              /\ j \in Tasks /\ x.url = r /\ Settled(r),
           x.pc = "answered" => x.code \in {200, 404, 500},
           x.pc = "answered" /\ x.code = 200 /\ x.status = "SUCCESS" =>
              x.url # None,
           x.pc = "answered" /\ x.code = 200 /\ x.status = "FAILURE" =>
              x.url = None,
           x.pc = "answered" /\ x.code = 500 => Lost(j),
           x.pc = "answered" /\ x.code = 200 => x.url = None \/ x.info = None,
           x.pc = "followed" /\ x.code = 200 => x.detail = "smoothed"
    PROVE  ReaderWF'
<1>1. Recorded(j) => Recorded(j)'
  BY DEF Progress, Recorded
<1>2. Settled(r) => Settled(r)'
  BY DEF Progress, Settled
<1>3. Lost(j) => Lost(j)'
  BY DEF Progress, Lost, Recorded
<1>4. ReaderOK'
  BY ReaderTypes
<1>5. FinalStatusIsBorneOut' /\ UrlLeadsToPaths'
  BY <1>3 DEF FinalStatusIsBorneOut, UrlLeadsToPaths, Lost
<1>6. (reader.pc \in Reading \cup {"job"} => Recorded(reader.job))'
  BY <1>1
<1>7. (reader.pc \in Reading /\ reader.seen = "SUCCESS"
         => Settled(args[reader.job].route))'
  BY <1>2
<1>8. (reader.pc \in {"route", "url"} /\ ~reader.found => Lost(reader.job))'
  BY <1>3
<1>9. (reader.url # None =>
              /\ reader.seen = "SUCCESS" /\ reader.info = None
              /\ reader.job \in Tasks /\ reader.url = args[reader.job].route
              /\ Settled(reader.url))'
  <2> PICK u : u = x.url
    OBVIOUS
  <2>1. u # None => u = r /\ Settled(r)'
    BY <1>2
  <2> QED
    BY <2>1
<1>10. (reader.pc = "answered" /\ reader.code = 500 => Lost(reader.job))'
  BY <1>3
<1> QED
  BY <1>4, <1>5, <1>6, <1>7, <1>8, <1>9, <1>10 DEF ReaderWF

\* The states and parts of an answer.
LEMMA ReaderValues ==
    /\ None \in ReaderStatus /\ "PENDING" \in ReaderStatus
    /\ "SUCCESS" \in ReaderStatus /\ "FAILURE" \in ReaderStatus
    /\ None \in ReaderInfo /\ "none" \in ReaderInfo /\ "note" \in ReaderInfo
    /\ "error" \in ReaderInfo
    /\ None \in ReaderCode /\ 200 \in ReaderCode /\ 404 \in ReaderCode
    /\ 500 \in ReaderCode
    /\ "smoothed" \in ReaderDetail /\ "smoothing failed" \in ReaderDetail
    /\ "no routes" \in ReaderDetail
BY DEF ReaderStatus, ReaderInfo, ReaderCode, ReaderDetail

\* The values of the code that mean something are different.
LEMMA ReaderCodes == None # 200 /\ 404 # 200 /\ 404 # 500 /\ 500 # 200
BY NoneAssumption

\* A job that reads SUCCESS, now or before, has a settled route.
LEMMA StateIsTrue ==
    ASSUME SystemInv, ReaderWF, reader.pc \in Reading \cup {"job"}
    PROVE  /\ State \in Result
           /\ State = "SUCCESS" => Settled(args[reader.job].route)
           /\ reader.seen \in {"SUCCESS", "FAILURE"} => State = reader.seen
<1>1. reader.job \in Tasks /\ result[reader.job] \in Result
  BY DEF ReaderWF, Recorded, SystemInv, Inv, TypeInv, TypeOK
<1>2. reader.seen \in Result
  BY ReaderTyped DEF ReaderWF, ReaderState, Result
<1>3. reader.pc = "job" => reader.seen = "PENDING"
  BY DEF ReaderWF
<1>4. reader.pc \in Reading /\ reader.seen = "SUCCESS"
        => Settled(args[reader.job].route)
  BY DEF ReaderWF
<1>5. result[reader.job] = "SUCCESS" => Settled(args[reader.job].route)
  BY <1>1 DEF SystemInv, PathsInv
<1> QED
  BY <1>1, <1>2, <1>3, <1>4, <1>5 DEF State, Result

LEMMA JobGetKeeps ==
    ASSUME SystemInv, ReaderWF, Progress, UNCHANGED vars, NEW t \in Tasks, JobGet(t)
    PROVE  ReaderWF'
<1> DEFINE code == 404
           got == [reader EXCEPT !.pc = "job", !.job = t]
           lost == [reader EXCEPT !.pc = "answered", !.code = code]
<1>0. /\ reader \in ReaderState /\ UNCHANGED args /\ reader.pc = "ready"
      /\ reader.url = None /\ reader.info = None /\ reader.seen = "PENDING"
      /\ reader.code = None
  BY ReaderTyped DEF ReaderWF, vars, JobGet
<1>1. "job" \in ReaderPc /\ "answered" \in ReaderPc
  BY DEF ReaderPc
<1>2. CASE jobs[t].route # None
  <2>1. Recorded(t) /\ reader' = got
    BY <1>2, JobsAreRecorded DEF JobGet
  <2>2. /\ got \in ReaderState /\ got.pc = "job" /\ got.job = t
        /\ got.seen = "PENDING" /\ got.url = None /\ got.info = None
        /\ got.code = None
    BY <1>0, <1>1 DEF ReaderState
  <2> HIDE DEF got
  <2> QED
    BY <1>0, <2>1, <2>2, ReaderGoes DEF Reading
<1>3. CASE jobs[t].route = None
  <2>1. reader' = lost
    BY <1>3 DEF JobGet
  <2>2. code \in ReaderCode
    BY ReaderValues
  <2>3. code # 200 /\ code # 500 /\ code \in {200, 404, 500}
    OBVIOUS
  <2> HIDE DEF code
  <2>4. /\ lost \in ReaderState /\ lost.pc = "answered" /\ lost.code = code
        /\ lost.url = None
    BY <1>0, <1>1, <2>2 DEF ReaderState
  <2> HIDE DEF lost
  <2> QED
    BY <1>0, <2>1, <2>2, <2>3, <2>4, ReaderGoes DEF Reading
<1> QED
  BY <1>2, <1>3

LEMMA GetStatusKeeps ==
    ASSUME SystemInv, ReaderWF, Progress, UNCHANGED vars, GetStatus
    PROVE  ReaderWF'
<1> DEFINE x == [reader EXCEPT !.pc = "status", !.status = State, !.seen = State]
<1>0. /\ reader \in ReaderState /\ UNCHANGED args /\ reader.pc = "job"
      /\ reader' = x /\ Recorded(reader.job) /\ reader.url = None
      /\ reader.info = None /\ reader.code = None
  BY ReaderTyped DEF ReaderWF, vars, GetStatus
<1>1. /\ State \in {"PENDING", "SUCCESS", "FAILURE"}
      /\ State = "SUCCESS" => Settled(args[reader.job].route)
  BY <1>0, StateIsTrue DEF Result
<1>2. State \in ReaderStatus /\ "status" \in ReaderPc
  BY <1>1, ReaderValues DEF ReaderPc
<1>3. /\ x \in ReaderState /\ x.pc = "status" /\ x.job = reader.job
      /\ x.seen = State /\ x.status = State /\ x.url = None /\ x.info = None
      /\ x.code = None
  BY <1>0, <1>1, <1>2 DEF ReaderState
<1> HIDE DEF x
<1> QED
  BY <1>0, <1>1, <1>3, ReaderGoes DEF Reading

LEMMA GetRouteIdKeeps ==
    ASSUME SystemInv, ReaderWF, Progress, UNCHANGED vars, GetRouteId
    PROVE  ReaderWF'
<1> PICK r : r = args[reader.job].route
  OBVIOUS
<1> DEFINE row == IF Exists(r) THEN route[r].row ELSE NoRow
           x == [reader EXCEPT !.pc = "route", !.found = Exists(r), !.row = row]
<1>0. /\ reader \in ReaderState /\ UNCHANGED args /\ reader.pc = "status"
      /\ reader' = x /\ Recorded(reader.job) /\ reader.url = None
      /\ reader.info = None /\ reader.code = None
      /\ reader.status \in {"SUCCESS", "FAILURE"} => reader.seen = reader.status
      /\ reader.seen = "SUCCESS" => Settled(r)
  BY ReaderTyped DEF ReaderWF, vars, GetRouteId, Reading
<1>1. r \in Routes /\ row \in Row
  <2>1. r \in Routes
    BY <1>0 DEF SystemInv, Inv, TypeInv, TypeOK, Recorded, TaskArgs
  <2>2. route[r].row \in Row /\ NoRow \in Row
    BY <2>1 DEF SystemInv, Inv, TypeInv, TypeOK, RouteRow, NoRow, Row
  <2> QED
    BY <2>1, <2>2
<1>2. ~Exists(r) => Lost(reader.job)
  BY <1>0 DEF Lost, Recorded, SystemInv, JobsHaveRoutes, JobsInv, JobsMatch
<1> HIDE DEF row
<1>3. Exists(r) \in BOOLEAN /\ "route" \in ReaderPc
  BY DEF Exists, ReaderPc
<1>4. /\ x \in ReaderState /\ x.pc = "route" /\ x.job = reader.job
      /\ x.seen = reader.seen /\ x.status = reader.status /\ x.url = None
      /\ x.info = None /\ x.code = None /\ x.found = Exists(r)
  BY <1>0, <1>1, <1>3 DEF ReaderState
<1> HIDE DEF x
<1> QED
  BY <1>0, <1>2, <1>4, ReaderGoes DEF Reading

LEMMA GetRouteUrlKeeps ==
    ASSUME SystemInv, ReaderWF, Progress, UNCHANGED vars, GetRouteUrl
    PROVE  ReaderWF'
<1> PICK r : r = args[reader.job].route
  OBVIOUS
<1>0. /\ reader \in ReaderState /\ UNCHANGED args /\ reader.pc = "route"
      /\ Recorded(reader.job) /\ reader.url = None
      /\ reader.info = None /\ reader.code = None
      /\ reader.status \in {"SUCCESS", "FAILURE"} => reader.seen = reader.status
      /\ ~reader.found => Lost(reader.job)
  BY ReaderTyped DEF ReaderWF, vars, GetRouteUrl, Reading
<1>1. /\ State \in {"PENDING", "SUCCESS", "FAILURE"}
      /\ State = "SUCCESS" => Settled(r)
      /\ reader.seen \in {"SUCCESS", "FAILURE"} => State = reader.seen
  BY <1>0, StateIsTrue DEF Result, Reading
<1>2. "url" \in ReaderPc /\ "answered" \in ReaderPc
  BY DEF ReaderPc
<1>3. CASE State # "SUCCESS"
  <2> DEFINE x == [reader EXCEPT !.pc = "url", !.seen = State]
  <2>1. reader' = x
    BY <1>3 DEF GetRouteUrl
  <2>2. /\ x \in ReaderState /\ x.pc = "url" /\ x.job = reader.job
        /\ x.seen = State /\ x.status = reader.status /\ x.url = None
        /\ x.info = None /\ x.code = None /\ x.found = reader.found
    BY <1>0, <1>1, <1>2 DEF ReaderState
  <2> HIDE DEF x
  <2> QED
    BY <1>0, <1>1, <1>3, <2>1, <2>2, ReaderGoes DEF Reading
<1>4. CASE State = "SUCCESS" /\ RouteRead
  <2> DEFINE x == [reader EXCEPT !.pc = "url", !.seen = State, !.url = r]
  <2>1. reader' = x
    BY <1>4 DEF GetRouteUrl
  <2>2. r \in Routes /\ r # None /\ reader.job \in Tasks
    BY <1>0, <1>1, <1>4, NoneAssumption DEF Settled, Recorded
  <2>3. /\ x \in ReaderState /\ x.pc = "url" /\ x.job = reader.job
        /\ x.seen = State /\ x.status = reader.status /\ x.url = r
        /\ x.info = None /\ x.code = None /\ x.found = reader.found
    BY <1>0, <1>1, <1>2, <2>2 DEF ReaderState
  <2> HIDE DEF x
  <2> QED
    BY <1>0, <1>1, <1>4, <2>1, <2>2, <2>3, ReaderGoes DEF Reading
<1>5. CASE State = "SUCCESS" /\ ~RouteRead
  <2>5. Lost(reader.job)
    BY <1>0, <1>5 DEF RouteRead
  <2> DEFINE code == 500
             x == [reader EXCEPT !.pc = "answered", !.code = code]
  <2>1. reader' = x
    BY <1>5 DEF GetRouteUrl
  <2>2. code \in ReaderCode
    BY ReaderValues
  <2>3. code # 200 /\ code \in {200, 404, 500}
    OBVIOUS
  <2> HIDE DEF code
  <2>4. /\ x \in ReaderState /\ x.pc = "answered" /\ x.code = code /\ x.url = None
        /\ x.job = reader.job
    BY <1>0, <1>2, <2>2 DEF ReaderState
  <2> HIDE DEF x
  <2> QED
    BY <1>0, <2>1, <2>2, <2>3, <2>4, <2>5, ReaderGoes DEF Reading
<1> QED
  BY <1>3, <1>4, <1>5

LEMMA GetInfoKeeps ==
    ASSUME SystemInv, ReaderWF, Progress, UNCHANGED vars, GetInfo
    PROVE  ReaderWF'
<1> PICK r : r = args[reader.job].route
  OBVIOUS
<1>0. /\ reader \in ReaderState /\ UNCHANGED args /\ reader.pc = "url"
      /\ reader.info = None /\ Recorded(reader.job)
      /\ ~reader.found => Lost(reader.job)
      /\ reader.status = "SUCCESS" => reader.url # None
      /\ reader.status = "FAILURE" => reader.seen = "FAILURE"
      /\ reader.url # None =>
            /\ reader.seen = "SUCCESS" /\ reader.job \in Tasks
            /\ reader.url = r /\ Settled(r)
  BY ReaderTyped DEF ReaderWF, vars, GetInfo, Reading
<1>1. /\ State \in {"PENDING", "SUCCESS", "FAILURE"}
      /\ reader.seen \in {"SUCCESS", "FAILURE"} => State = reader.seen
  BY <1>0, StateIsTrue DEF Result, Reading
<1>2. "answered" \in ReaderPc
  BY DEF ReaderPc
<1>3. ASSUME NEW code \in ReaderCode,
             code \in {200, 404, 500}, code = 200 \/ reader.url = None,
             code # 500 \/ Lost(reader.job),
             reader' = [reader EXCEPT !.pc = "answered", !.code = code]
      PROVE  ReaderWF'
  <2> DEFINE x == [reader EXCEPT !.pc = "answered", !.code = code]
  <2>1. /\ x \in ReaderState /\ x.pc = "answered" /\ x.code = code
        /\ x.job = reader.job /\ x.seen = reader.seen
        /\ x.status = reader.status /\ x.url = reader.url /\ x.info = None
    BY <1>0, <1>2, <1>3 DEF ReaderState
  <2>2. reader' = x
    BY <1>3
  <2> HIDE DEF x
  <2> QED
    BY <1>0, <1>3, <2>1, <2>2, ReaderGoes DEF Reading
<1>4. CASE State # "FAILURE"
  <2> DEFINE ok == 200
  <2>1. reader' = [reader EXCEPT !.pc = "answered", !.code = ok]
    BY <1>4 DEF GetInfo
  <2>2. ok \in ReaderCode /\ ok \in {200, 404, 500}
    BY ReaderValues
  <2>3. ok = 200 /\ ok # 500
    OBVIOUS
  <2> HIDE DEF ok
  <2>4. (ok = 200 \/ reader.url = None) /\ (ok # 500 \/ Lost(reader.job))
    BY <2>3
  <2> QED
    BY <1>3, <2>1, <2>2, <2>4, Zenon
<1>5. CASE State = "FAILURE" /\ ~RouteRead
  <2>1. reader' = [reader EXCEPT !.pc = "answered", !.code = 500]
    BY <1>5 DEF GetInfo
  <2>2. 500 \in ReaderCode /\ 500 \in {200, 404, 500}
    BY ReaderValues, ZenonT(40)
  <2>3. reader.url = None /\ Lost(reader.job)
    BY <1>0, <1>1, <1>5 DEF RouteRead
  <2> QED
    BY <1>3, <2>1, <2>2, <2>3, ZenonT(40)
<1>6. CASE State = "FAILURE" /\ RouteRead
  <2> DEFINE code == 200
             info == RowRead.info
             x == [reader EXCEPT !.pc = "answered", !.code = code,
                                 !.seen = State, !.info = info]
  <2>1. reader' = x
    BY <1>6 DEF GetInfo
  <2>2. code \in ReaderCode /\ code \in {200, 404, 500}
    BY ReaderValues
  <2>3. info \in ReaderInfo
    <3>1. r \in Routes
      BY <1>0 DEF SystemInv, Inv, TypeInv, TypeOK, Recorded, TaskArgs
    <3>2. route[r].row \in Row /\ reader.row \in Row
      BY <1>0, <3>1 DEF SystemInv, Inv, TypeInv, TypeOK, RouteRow, ReaderState
    <3> QED
      BY <3>2, ReaderValues DEF RowRead, Row
  <2>4. code # 500 /\ reader.url = None /\ reader.status # "SUCCESS"
    BY <1>0, <1>1, <1>6
  <2> HIDE DEF code, info
  <2>5. /\ x \in ReaderState /\ x.pc = "answered" /\ x.url = None
        /\ x.job = reader.job /\ x.status = reader.status /\ x.code = code
    BY <1>0, <1>1, <1>2, <2>2, <2>3, <2>4 DEF ReaderState
  <2> HIDE DEF x
  <2> QED
    BY <1>0, <2>1, <2>2, <2>4, <2>5, ReaderGoes DEF Reading
<1> QED
  BY <1>4, <1>5, <1>6

LEMMA FollowUrlKeeps ==
    ASSUME SystemInv, ReaderWF, Progress, UNCHANGED vars, FollowUrl
    PROVE  ReaderWF'
<1> PICK r : r = args[reader.job].route
  OBVIOUS
<1>0. /\ reader \in ReaderState /\ UNCHANGED args /\ reader.url = r
      /\ reader.seen = "SUCCESS" /\ reader.info = None
      /\ reader.job \in Tasks /\ Settled(r) /\ r # None
  BY ReaderTyped DEF ReaderWF, vars, FollowUrl
<1>1. "followed" \in ReaderPc
  BY DEF ReaderPc
<1>2. CASE ~Exists(r)
  <2> DEFINE code == 404
             x == [reader EXCEPT !.pc = "followed", !.code = code]
  <2>1. reader' = x
    BY <1>0, <1>2 DEF FollowUrl
  <2>2. code \in ReaderCode
    BY ReaderValues
  <2>4. code # 200
    OBVIOUS
  <2> HIDE DEF code
  <2>3. /\ x \in ReaderState /\ x.pc = "followed" /\ x.code = code
        /\ x.job = reader.job /\ x.seen = reader.seen /\ x.url = reader.url
        /\ x.info = reader.info
    BY <1>1, <1>0, <2>2 DEF ReaderState
  <2> HIDE DEF x
  <2> QED
    BY <1>0, <2>1, <2>2, <2>3, <2>4, ReaderGoes DEF Reading
<1>3. CASE Exists(r)
  <2> DEFINE code == 200
             detail == RouteDetail(route[r].row)
             x == [reader EXCEPT !.pc = "followed", !.code = code,
                                 !.detail = detail]
  <2>1. reader' = x
    BY <1>0, <1>3 DEF FollowUrl
  <2>2. code \in ReaderCode
    BY ReaderValues
  <2>3. detail = "smoothed"
    BY <1>0, <1>3 DEF Settled, Paths, RouteDetail
  <2>4. detail \in ReaderDetail
    BY <2>3, ReaderValues
  <2> HIDE DEF code, detail
  <2>5. /\ x \in ReaderState /\ x.pc = "followed" /\ x.code = code
        /\ x.job = reader.job /\ x.seen = reader.seen /\ x.url = reader.url
        /\ x.info = reader.info /\ x.detail = detail
    BY <1>0, <1>1, <2>2, <2>4 DEF ReaderState
  <2> HIDE DEF x
  <2> QED
    BY <1>0, <2>1, <2>3, <2>5, ReaderGoes DEF Reading
<1> QED
  BY <1>2, <1>3

\* NewReader is how a reader begins.
LEMMA NewReaderWF ==
    \A pc \in {"away", "ready"} : reader = NewReader(pc) => ReaderWF
<1> SUFFICES ASSUME NEW pc \in {"away", "ready"}, reader = NewReader(pc)
             PROVE  ReaderWF
  OBVIOUS
<1> DEFINE row == NoRow
<1>1. row \in Row
  BY DEF NoRow, Row
<1>2. pc \in ReaderPc
  BY DEF ReaderPc
<1>3. reader = [pc |-> pc, job |-> None, seen |-> "PENDING",
                 found |-> FALSE, row |-> row, status |-> None,
                 url |-> None, info |-> None, code |-> None, detail |-> None]
  BY DEF NewReader
<1>4. None \in ReaderStatus /\ None \in ReaderInfo /\ None \in ReaderCode
  BY ReaderValues
<1>5. None \in ReaderDetail
  BY DEF ReaderDetail
<1> HIDE DEF row
<1>6. /\ reader \in ReaderState /\ reader.pc = pc /\ reader.url = None
      /\ reader.info = None /\ reader.code = None /\ reader.seen = "PENDING"
  BY <1>1, <1>2, <1>3, <1>4, <1>5 DEF ReaderState
<1>7. ReaderOK /\ FinalStatusIsBorneOut /\ UrlLeadsToPaths
  BY <1>6, ReaderTyped DEF FinalStatusIsBorneOut, UrlLeadsToPaths
<1> QED
  BY <1>6, <1>7 DEF ReaderWF, Reading

----------------------------------------------------------------------------
(* The client *)

ClientState == [pc : ClientPc, post : Posts \cup {None},
                job : Tasks \cup {None}, count : 0..NumRequests + 1,
                trip : Trips \cup {None}]

\* The job that an accepted client polls.
LEMMA ClientJob ==
    ASSUME SystemInv, ClientWF,
           client.pc \in {"poll", "wait", "fetch", "route", "raised"}
    PROVE  /\ client.post \in Posts /\ post[client.post].code = 202
           /\ client.job = post[client.post].task
           /\ client.job \in Tasks /\ Recorded(client.job)
BY DEF ClientWF, SystemInv, Accepted, Recorded

\* The client stays where it is while others take steps.  A reader that moves
\* reads the job that the client asked it for.
LEMMA ClientStays ==
    ASSUME SystemInv, ClientWF, Progress, UNCHANGED client,
           client.pc \in {"fetch", "route"} => UNCHANGED reader,
           client.pc = "wait" =>
              \/ UNCHANGED reader
              \/ /\ reader'.pc \in Reading \cup {"job", "answered"}
                 /\ reader'.job = client.job
                 /\ reader'.pc = "answered" /\ reader'.code # 200 =>
                       Lost(client.job)
    PROVE  ClientWF'
<1> PICK p : p = client.post
  OBVIOUS
<1> PICK j : j = post[p].task
  OBVIOUS
<1>0. client' = client /\ client.post = p
  OBVIOUS
<1>1. client.pc \in {"poll", "wait", "fetch", "route", "raised"} =>
        /\ p \in Posts /\ post[p].code = 202 /\ client.job = j /\ j \in Tasks
        /\ post'[p] = post[p]
  BY ClientJob DEF Progress
<1>2. j \in Tasks /\ Lost(j) => Lost(j)'
  BY DEF Progress
<1>3. ClientOK'
  BY <1>0 DEF ClientWF, ClientOK
<1>4. (client.pc \in {"poll", "wait", "fetch", "route", "raised"} =>
              /\ client.post \in Posts /\ post[client.post].code = 202
              /\ client.job = post[client.post].task)'
  BY <1>0, <1>1
<1>5. client.pc = "wait" =>
              /\ reader'.pc \in Reading \cup {"job", "answered"}
              /\ reader'.pc # "answered" \/ reader'.code = 200 =>
                    reader'.job = j
              /\ reader'.pc = "answered" /\ reader'.code # 200 => Lost(j)
  BY <1>0, <1>1 DEF ClientWF
<1>6. (client.pc = "wait" =>
              /\ reader.pc \in Reading \cup {"job", "answered"}
              /\ reader.pc # "answered" \/ reader.code = 200 =>
                    reader.job = post[client.post].task
              /\ reader.pc = "answered" /\ reader.code # 200 =>
                    Lost(post[client.post].task))'
  BY <1>0, <1>1, <1>2, <1>5
<1>7. (client.pc = "raised" => Lost(post[client.post].task))'
  BY <1>0, <1>1, <1>2 DEF ClientWF
<1>8. (client.pc = "fetch" =>
              /\ reader.pc = "answered" /\ reader.url # None
              /\ reader.job = post[client.post].task)'
  BY <1>0, <1>1 DEF ClientWF
<1>9. (client.pc = "route" =>
              /\ reader.pc = "followed" /\ reader.code = 200
              /\ Suits(client.post, client.trip))'
  <2> PICK trip : trip = client.trip
    OBVIOUS
  <2>1. client.pc = "route" => p \in Posts /\ Suits(p, trip)
    BY <1>0, <1>1 DEF ClientWF
  <2>2. p \in Posts => post'[p].body = post[p].body
    BY DEF Progress
  <2>3. p \in Posts /\ Suits(p, trip) => Suits(p, trip)'
    BY <2>2 DEF Suits, InTolerance
  <2> QED
    BY <1>0, <2>1, <2>3 DEF ClientWF
<1> QED
  BY <1>3, <1>4, <1>6, <1>7, <1>8, <1>9 DEF ClientWF

\* The reader answers with an error only when it did not find the route.
LEMMA JobFieldsAnswer ==
    ASSUME ReaderWF, JobFields
    PROVE  /\ reader.pc \in Reading \cup {"job"}
           /\ reader'.pc \in Reading \cup {"answered"}
           /\ reader'.job = reader.job
           /\ reader'.pc = "answered" /\ reader'.code # 200 => Lost(reader.job)
<1>0. reader \in ReaderState
  BY ReaderTyped DEF ReaderWF
<1>1. CASE GetStatus
  BY <1>0, <1>1 DEF GetStatus, ReaderState, Reading
<1>2. CASE GetRouteId
  BY <1>0, <1>2 DEF GetRouteId, ReaderState, Reading
<1>3. CASE GetRouteUrl
  <2>1. reader.pc = "route" /\ (~reader.found => Lost(reader.job))
    BY <1>3 DEF GetRouteUrl, ReaderWF
  <2> DEFINE code == 500
  <2>2. \/ reader' = [reader EXCEPT !.pc = "url", !.seen = State]
        \/ reader' = [reader EXCEPT !.pc = "url", !.seen = State,
                                    !.url = args[reader.job].route]
        \/ /\ ~reader.found
           /\ reader' = [reader EXCEPT !.pc = "answered", !.code = code]
    BY <1>3 DEF GetRouteUrl, RouteRead
  <2> HIDE DEF code
  <2> QED
    BY <1>0, <2>1, <2>2, ZenonT(40) DEF ReaderState, Reading
<1>4. CASE GetInfo
  <2>1. reader.pc = "url" /\ (~reader.found => Lost(reader.job))
    BY <1>4 DEF GetInfo, ReaderWF
  <2> DEFINE code == 500
             ok == 200
  <2>2. \/ reader' = [reader EXCEPT !.pc = "answered", !.code = ok]
        \/ reader' = [reader EXCEPT !.pc = "answered", !.code = ok,
                                    !.seen = State, !.info = RowRead.info]
        \/ /\ ~reader.found
           /\ reader' = [reader EXCEPT !.pc = "answered", !.code = code]
    BY <1>4 DEF GetInfo, RouteRead
  <2>3. ok = 200
    OBVIOUS
  <2> HIDE DEF code, ok
  <2>4. /\ reader'.pc = "answered" /\ reader'.job = reader.job
        /\ reader'.code = ok \/ ~reader.found
    BY <1>0, <2>2 DEF ReaderState
  <2> QED
    BY <2>1, <2>3, <2>4 DEF Reading
<1> QED
  BY <1>1, <1>2, <1>3, <1>4 DEF JobFields

LEMMA ClientTyped == ClientWF => client \in ClientState
BY DEF ClientWF, ClientOK, ClientState

\* A client that gives up has nothing left to rely on.
LEMMA ClientEnds ==
    ASSUME ClientWF,
           \/ client' = [client EXCEPT !.pc = "none"]
           \/ \E p \in Posts : client' = [client EXCEPT !.pc = "none", !.post = p]
    PROVE  ClientWF'
<1>1. client \in ClientState /\ "none" \in ClientPc
  BY ClientTyped DEF ClientPc
<1>2. client' \in ClientState /\ client'.pc = "none"
  <2>1. CASE client' = [client EXCEPT !.pc = "none"]
    BY <1>1, <2>1 DEF ClientState
  <2>2. ASSUME NEW p \in Posts, client' = [client EXCEPT !.pc = "none", !.post = p]
        PROVE  client' \in ClientState /\ client'.pc = "none"
    BY <1>1, <2>2 DEF ClientState
  <2> QED
    BY <2>1, <2>2
<1> QED
  BY <1>2 DEF ClientWF, ClientOK, ClientState

\* A client whose POST was accepted goes on with its job.
LEMMA ClientGoes ==
    ASSUME Progress, NEW x \in ClientState, client' = x, NEW p \in Posts, x.post = p,
           post[p].code = 202, NEW j, j = post[p].task, x.job = j, j \in Tasks,
           x.pc = "wait" =>
              /\ reader'.pc \in Reading \cup {"job", "answered"}
              /\ reader'.pc # "answered" \/ reader'.code = 200 =>
                    reader'.job = j
              /\ reader'.pc = "answered" /\ reader'.code # 200 => Lost(j),
           x.pc = "raised" => Lost(j),
           x.pc = "fetch" =>
              reader'.pc = "answered" /\ reader'.url # None /\ reader'.job = j,
           x.pc = "route" =>
              reader'.pc = "followed" /\ reader'.code = 200 /\ Suits(p, x.trip)
    PROVE  ClientWF'
<1>1. post'[p] = post[p] /\ (Lost(j) => Lost(j)')
  BY DEF Progress
<1>2. ClientOK'
  BY DEF ClientOK, ClientState
<1>3. (client.pc \in {"poll", "wait", "fetch", "route", "raised"} =>
              /\ client.post \in Posts /\ post[client.post].code = 202
              /\ client.job = post[client.post].task)'
  BY <1>1
<1>4. (client.pc = "wait" =>
              /\ reader.pc \in Reading \cup {"job", "answered"}
              /\ reader.pc # "answered" \/ reader.code = 200 =>
                    reader.job = post[client.post].task
              /\ reader.pc = "answered" /\ reader.code # 200 =>
                    Lost(post[client.post].task))'
  BY <1>1
<1>5. (client.pc = "raised" => Lost(post[client.post].task))'
  BY <1>1
<1>6. (client.pc = "fetch" =>
              /\ reader.pc = "answered" /\ reader.url # None
              /\ reader.job = post[client.post].task)'
  BY <1>1
<1>7. (client.pc = "route" =>
              /\ reader.pc = "followed" /\ reader.code = 200
              /\ Suits(client.post, client.trip))'
  <2> PICK trip : trip = x.trip
    OBVIOUS
  <2>1. Suits(p, trip) => Suits(p, trip)'
    BY <1>1 DEF Suits, InTolerance
  <2> QED
    BY <2>1
<1> QED
  BY <1>2, <1>3, <1>4, <1>5, <1>6, <1>7 DEF ClientWF

LEMMA ReadAnswerKeeps ==
    ASSUME SystemInv, ClientWF, Progress, ReadAnswer
    PROVE  ClientWF'
<1>1. client \in ClientState /\ "poll" \in ClientPc
  BY ClientTyped DEF ClientPc
<1>2. ASSUME NEW p \in Posts, post[p].code = 202,
             client' = [client EXCEPT !.pc = "poll", !.post = p,
                                      !.job = post[p].task]
      PROVE  ClientWF'
  <2> PICK j : j = post[p].task
    OBVIOUS
  <2>1. j \in Tasks
    BY <1>2 DEF SystemInv, Accepted, Recorded
  <2> DEFINE x == [client EXCEPT !.pc = "poll", !.post = p, !.job = j]
  <2>2. x \in ClientState /\ x.pc = "poll" /\ x.post = p /\ x.job = j
    BY <1>1, <2>1 DEF ClientState
  <2>3. client' = x
    BY <1>2
  <2> HIDE DEF x
  <2> QED
    BY <1>2, <2>1, <2>2, <2>3, ClientGoes
<1>3. ASSUME NEW p \in Posts, client' = [client EXCEPT !.pc = "none", !.post = p]
      PROVE  ClientWF'
  BY <1>3, ClientEnds
<1> QED
  BY <1>2, <1>3 DEF ReadAnswer

LEMMA PollKeeps ==
    ASSUME SystemInv, ReaderWF, ClientWF, Progress, Poll
    PROVE  ClientWF'
<1> PICK p : p = client.post
  OBVIOUS
<1> PICK j : j = client.job
  OBVIOUS
<1>0. client.pc = "poll" /\ client.count <= NumRequests /\ JobGet(j)
  BY DEF Poll
<1>1. /\ p \in Posts /\ post[p].code = 202 /\ j = post[p].task
      /\ j \in Tasks /\ Recorded(j)
  BY <1>0, ClientJob
<1>2. /\ reader \in ReaderState /\ client \in ClientState /\ "wait" \in ClientPc
  BY ReaderTyped, ClientTyped DEF ReaderWF, ClientPc
<1> DEFINE x == [client EXCEPT !.pc = "wait", !.count = @ + 1]
<1>3. client' = x
  BY DEF Poll
<1>4. client.count + 1 \in 0..NumRequests + 1
  BY <1>0, <1>2, NumRequestsAssumption DEF ClientState
<1>5. x \in ClientState /\ x.pc = "wait" /\ x.post = p /\ x.job = j
  BY <1>2, <1>4 DEF ClientState
<1>6. /\ reader'.pc \in {"job", "answered"}
      /\ reader'.pc # "answered" \/ reader'.code = 200 => reader'.job = j
      /\ reader'.pc = "answered" /\ reader'.code # 200 => Lost(j)
  <2> DEFINE code == 404
  <2>1. \/ jobs[j].route # None
             /\ reader' = [reader EXCEPT !.pc = "job", !.job = j]
        \/ jobs[j].route = None
             /\ reader' = [reader EXCEPT !.pc = "answered", !.code = code]
    BY <1>0 DEF JobGet
  <2>2. code # 200
    OBVIOUS
  <2> HIDE DEF code
  <2>3. CASE jobs[j].route # None
    <3>1. reader'.pc = "job" /\ reader'.job = j
      BY <1>2, <2>1, <2>3 DEF ReaderState
    <3> QED
      BY <3>1
  <2>4. CASE jobs[j].route = None
    <3>1. Lost(j)
      BY <1>1, <2>4 DEF Lost
    <3>2. reader'.pc = "answered" /\ reader'.code = code
      BY <1>2, <2>1, <2>4 DEF ReaderState
    <3> QED
      BY <2>2, <3>1, <3>2
  <2> QED
    BY <2>3, <2>4
<1> HIDE DEF x
<1> QED
  BY <1>1, <1>3, <1>5, <1>6, ClientGoes DEF Reading

LEMMA StatusErrorKeeps ==
    ASSUME SystemInv, ReaderWF, ClientWF, Progress, StatusError
    PROVE  ClientWF'
<1> PICK p : p = client.post
  OBVIOUS
<1> PICK j : j = client.job
  OBVIOUS
<1>0. client.pc = "wait" /\ reader.pc = "answered" /\ reader.code # 200
  BY DEF StatusError
<1>1. /\ p \in Posts /\ post[p].code = 202 /\ j = post[p].task /\ j \in Tasks
      /\ Lost(j)
  BY <1>0, ClientJob DEF ClientWF
<1> DEFINE x == [client EXCEPT !.pc = "raised"]
<1>2. client' = x
  BY DEF StatusError
<1>3. client \in ClientState /\ "raised" \in ClientPc
  BY ClientTyped DEF ClientPc
<1>4. x \in ClientState /\ x.pc = "raised" /\ x.post = p /\ x.job = j
  BY <1>3 DEF ClientState
<1> HIDE DEF x
<1> QED
  BY <1>1, <1>2, <1>4, ClientGoes

LEMMA ReadStatusKeeps ==
    ASSUME SystemInv, ReaderWF, ClientWF, Progress, ReadStatus
    PROVE  ClientWF'
<1> PICK p : p = client.post
  OBVIOUS
<1> PICK j : j = client.job
  OBVIOUS
<1>0. client.pc = "wait" /\ reader.pc = "answered" /\ reader.code = 200
  BY DEF ReadStatus
<1>1. /\ p \in Posts /\ post[p].code = 202 /\ j = post[p].task /\ j \in Tasks
      /\ reader.job = j
  BY <1>0, ClientJob DEF ClientWF
<1>2. client \in ClientState /\ {"poll", "fetch"} \subseteq ClientPc
  BY ClientTyped DEF ClientPc
<1>3. CASE client' = [client EXCEPT !.pc = "poll"]
  <2> DEFINE x == [client EXCEPT !.pc = "poll"]
  <2>1. x \in ClientState /\ x.pc = "poll" /\ x.post = p /\ x.job = j
    BY <1>2 DEF ClientState
  <2>2. client' = x
    BY <1>3
  <2> HIDE DEF x
  <2> QED
    BY <1>1, <2>1, <2>2, ClientGoes
<1>4. CASE client' = [client EXCEPT !.pc = "none"]
  BY <1>4, ClientEnds
<1>5. CASE /\ client' = [client EXCEPT !.pc = "fetch"]
           /\ reader.url # None /\ UNCHANGED reader
  <2> DEFINE x == [client EXCEPT !.pc = "fetch"]
  <2>1. x \in ClientState /\ x.pc = "fetch" /\ x.post = p /\ x.job = j
    BY <1>2 DEF ClientState
  <2>2. client' = x
    BY <1>5
  <2>3. reader'.pc = "answered" /\ reader'.url # None /\ reader'.job = j
    BY <1>0, <1>1, <1>5
  <2> HIDE DEF x
  <2> QED
    BY <1>1, <2>1, <2>2, <2>3, ClientGoes
<1> QED
  BY <1>3, <1>4, <1>5 DEF ReadStatus

LEMMA FetchKeeps ==
    ASSUME SystemInv, ReaderWF, ClientWF, Progress, Fetch
    PROVE  ClientWF'
<1> PICK p : p = client.post
  OBVIOUS
<1> PICK j : j = client.job
  OBVIOUS
<1> PICK r : r = reader.url
  OBVIOUS
<1>0. client.pc = "fetch" /\ FollowUrl /\ r # None
  BY DEF Fetch, FollowUrl
<1>1. /\ p \in Posts /\ post[p].code = 202 /\ j = post[p].task /\ j \in Tasks
      /\ reader.job = j
  BY <1>0, ClientJob DEF ClientWF
<1>2. r \in Routes /\ args[post[p].task].route = r
  BY <1>0, <1>1 DEF ReaderWF, Settled
<1>3. CASE ~Exists(r)
  BY <1>3, ClientEnds DEF Fetch
<1>4. CASE Exists(r)
  <2> PICK trip : trip = route[r].row.trip
    OBVIOUS
  <2>1. trip \in TripsOf(r)
    BY <1>4 DEF TripsOf, RowTrips
  <2>2. Suits(p, trip)
    BY <1>1, <1>2, <2>1 DEF SystemInv, TripsInv, Bound
  <2>3. trip \in Trips \cup {None}
    BY <1>2 DEF SystemInv, Inv, TypeInv, TypeOK, RouteRow, Row
  <2>4. client \in ClientState /\ "route" \in ClientPc
    BY ClientTyped DEF ClientPc
  <2> DEFINE x == [client EXCEPT !.pc = "route", !.trip = trip]
  <2>5. x \in ClientState /\ x.pc = "route" /\ x.post = p /\ x.job = j
        /\ x.trip = trip
    BY <2>3, <2>4 DEF ClientState
  <2>6. client' = x
    BY <1>4 DEF Fetch
  <2>7. reader'.pc = "followed" /\ reader'.code = 200
    <3> DEFINE code == 200
               detail == RouteDetail(route[r].row)
    <3>1. reader' = [reader EXCEPT !.pc = "followed", !.code = code,
                                   !.detail = detail]
      BY <1>0, <1>4 DEF FollowUrl
    <3>2. reader \in ReaderState
      BY ReaderTyped DEF ReaderWF
    <3> HIDE DEF detail, code
    <3>3. reader'.pc = "followed" /\ reader'.code = code
      BY <3>1, <3>2 DEF ReaderState
    <3> QED
      BY <3>3 DEF code
  <2> HIDE DEF x
  <2> QED
    BY <1>1, <2>2, <2>5, <2>6, <2>7, ClientGoes
<1> QED
  BY <1>3, <1>4

\* One step of anybody, for the reader and the client.
LEMMA ReaderKeeps ==
    SystemInv /\ ReaderWF /\ ClientWF /\ [ApiNext]_apiVars /\ Progress => ReaderWF'
<1> SUFFICES ASSUME SystemInv, ReaderWF, ClientWF, [ApiNext]_apiVars, Progress
             PROVE  ReaderWF'
  OBVIOUS
<1>1. CASE UNCHANGED reader
  BY <1>1, ReaderStays
<1>2. CASE reader' = NewReader("ready")
  <2>1. (\A pc \in {"away", "ready"} : reader = NewReader(pc) => ReaderWF)'
    BY NewReaderWF, PTL
  <2>2. reader' = NewReader("ready")'
    BY <1>2 DEF NewReader, NoRow
  <2> QED
    BY <2>1, <2>2
<1>3. CASE UNCHANGED vars /\ (JobFields \/ FollowUrl)
  BY <1>3, GetStatusKeeps, GetRouteIdKeeps, GetRouteUrlKeeps, GetInfoKeeps,
     FollowUrlKeeps DEF JobFields
<1>4. CASE UNCHANGED vars /\ \E t \in Tasks : JobGet(t)
  BY <1>4, JobGetKeeps
<1>5. CASE Poll
  <2>1. UNCHANGED vars /\ JobGet(client.job) /\ client.pc = "poll"
    BY <1>5 DEF Poll, system
  <2> QED
    BY <2>1, ClientJob, JobGetKeeps
<1> QED
  BY <1>1, <1>2, <1>3, <1>4, <1>5 DEF ApiNext, apiVars, viewVars, system,
     ClientStep, ReadAnswer, GiveUp, StatusError, ReadStatus, Fetch, Visit

LEMMA ClientKeeps ==
    SystemInv /\ ReaderWF /\ ClientWF /\ [ApiNext]_apiVars /\ Progress => ClientWF'
<1> SUFFICES ASSUME SystemInv, ReaderWF, ClientWF, [ApiNext]_apiVars, Progress
             PROVE  ClientWF'
  OBVIOUS
<1>1. CASE UNCHANGED <<client, reader>>
  BY <1>1, ClientStays
<1>2. CASE UNCHANGED client /\ JobFields
  <2>1. client.pc \notin {"fetch", "route"}
    BY <1>2, JobFieldsAnswer DEF ClientWF, Reading
  <2>2. client.pc = "wait" => reader.job = client.job
    BY <1>2, JobFieldsAnswer DEF ClientWF, Reading
  <2> QED
    BY <1>2, <2>1, <2>2, JobFieldsAnswer, ClientStays
<1>3. CASE UNCHANGED client /\ Visit
  BY <1>3, ClientStays DEF Visit
<1>4. CASE ReadAnswer \/ Poll
  BY <1>4, ReadAnswerKeeps, PollKeeps
<1>5. CASE StatusError \/ ReadStatus \/ Fetch
  BY <1>5, StatusErrorKeeps, ReadStatusKeeps, FetchKeeps
<1>6. CASE GiveUp
  BY <1>6, ClientEnds DEF GiveUp
<1> QED
  BY <1>1, <1>2, <1>3, <1>4, <1>5, <1>6 DEF ApiNext, apiVars, viewVars, ClientStep

LEMMA InitReaders == ApiInit => ReaderWF /\ ClientWF
<1> SUFFICES ASSUME ApiInit PROVE ReaderWF /\ ClientWF
  OBVIOUS
<1>1. /\ \E pc \in {"away", "ready"} : reader = NewReader(pc)
      /\ \E pc \in {"away", "post"} : client = NewClient(pc)
  BY DEF ApiInit
<1>2. ReaderWF
  BY <1>1, NewReaderWF
<1>3. client \in ClientState /\ client.pc \in {"away", "post"}
  <2>1. 0 \in 0..NumRequests + 1
    BY NumRequestsAssumption
  <2> QED
    BY <1>1, <2>1 DEF NewClient, ClientState, ClientPc
<1>4. ClientWF
  BY <1>3 DEF ClientWF, ClientOK, ClientState
<1> QED
  BY <1>2, <1>4

ReadersInv == SystemInv /\ ReaderWF /\ ClientWF

LEMMA ReadersInvariant == ApiSpec => []ReadersInv
<1>1. ApiInit => ReadersInv
  BY InitSystem, InitReaders DEF ReadersInv
<1>2. ReadersInv /\ [ApiNext]_apiVars => ReadersInv'
  BY ApiKeeps, ReaderKeeps, ClientKeeps DEF ReadersInv
<1> QED
  BY <1>1, <1>2, PTL DEF ApiSpec

\* The URL in the answer of a job never leads to a route without smoothed
\* paths: the state that the serializer has seen is final for the paths too, as
\* no writer is left then (serializers.py:57-64, 220-234).
THEOREM UrlsLeadToPaths == ApiSpec => []UrlLeadsToPaths
<1>1. ReadersInv => UrlLeadsToPaths
  BY DEF ReadersInv, ReaderWF
<1> QED
  BY <1>1, ReadersInvariant, PTL

\* A final status in an answer is borne out by the fields read after it, though
\* each is read at a moment of its own and the job may be retried, cancelled or
\* edited between two of them: SUCCESS comes with the URL, FAILURE without, URL
\* and info never together, and no GET raises over a job that is still in the
\* table.  Of PENDING answers it says nothing more: the task may end between
\* two fields (serializers.py:42-71).
THEOREM FinalStatusesAreBorneOut == ApiSpec => []FinalStatusIsBorneOut
<1>1. ReadersInv => FinalStatusIsBorneOut
  BY DEF ReadersInv, ReaderWF
<1> QED
  BY <1>1, ReadersInvariant, PTL

\* What a client fetches in the end is smoothed and answers its own POST,
\* whether the route was new, reused or retried (request_route.py:150-195).
THEOREM ClientsGetTheirRoutes == ApiSpec => []ClientGetsItsRoute
<1>1. ReadersInv => ClientGetsItsRoute
  BY DEF ReadersInv, ReaderWF, ClientWF, UrlLeadsToPaths, Suits, ClientGetsItsRoute
<1> QED
  BY <1>1, ReadersInvariant, PTL

\* The client raises only over a job that is gone for good
\* (request_route.py:156-163).
THEOREM ClientsRaiseWithoutJob == ApiSpec => []ClientRaisesWithoutJob
<1>1. ReadersInv => ClientRaisesWithoutJob
  BY ClientJob DEF ReadersInv, ClientWF, Lost, ClientRaisesWithoutJob
<1> QED
  BY <1>1, ReadersInvariant, PTL

----------------------------------------------------------------------------
(* The evaluation *)

\* The first and the last of a finite set of numbers.
LEMMA LeastAndGreatest ==
    ASSUME NEW S \in SUBSET Int, IsFiniteSet(S), S # {}
    PROVE  /\ Least(S) \in S /\ Greatest(S) \in S
           /\ \A y \in S : Least(S) <= y /\ y <= Greatest(S)
<1>1. Bounded(S)
  BY FiniteSetsAreBounded
<1> QED
  BY <1>1 DEF Bounded, Least, Greatest

\* A mesh that holds the corners of a route holds all its positions.
LEMMA CornersBound ==
    ASSUME NEW positions \in SUBSET (Int \X Int), IsFiniteSet(positions),
           positions # {}, NEW m \in Containing(Meshes, Corners(positions)),
           NEW c \in positions
    PROVE  ContainsPoint(m, [lat |-> c[1], lon |-> c[2]])
<1> DEFINE lats == {d[1] : d \in positions}
           lons == {d[2] : d \in positions}
           first == [d \in positions |-> d[1]]
           second == [d \in positions |-> d[2]]
<1>1. first \in Surjection(positions, lats) /\ second \in Surjection(positions, lons)
  BY DEF Surjection
<1>2. IsFiniteSet(lats) /\ IsFiniteSet(lons)
  <2> HIDE DEF lats, lons, first, second
  <2> QED
    BY <1>1, FS_Surjection
<1>3. lats \in SUBSET Int /\ lons \in SUBSET Int /\ c[1] \in lats /\ c[2] \in lons
  OBVIOUS
<1>4. Corners(positions) =
        [start |-> [lat |-> Least(lats), lon |-> Least(lons)],
         end |-> [lat |-> Greatest(lats), lon |-> Greatest(lons)]]
  BY DEF Corners
<1> HIDE DEF lats, lons
<1>5. /\ Least(lats) \in Int /\ Least(lats) <= c[1]
      /\ Greatest(lats) \in Int /\ c[1] <= Greatest(lats)
      /\ Least(lons) \in Int /\ Least(lons) <= c[2]
      /\ Greatest(lons) \in Int /\ c[2] <= Greatest(lons)
  BY <1>2, <1>3, LeastAndGreatest
<1>6. m \in Meshes
  BY DEF Containing
<1>7. /\ Box[m].lat_min <= Least(lats) /\ Greatest(lats) <= Box[m].lat_max
      /\ Box[m].lon_min <= Least(lons) /\ Greatest(lons) <= Box[m].lon_max
  BY <1>4 DEF Containing, ContainsPoint
<1>8. /\ Box[m].lat_min \in Int /\ Box[m].lat_max \in Int
      /\ Box[m].lon_min \in Int /\ Box[m].lon_max \in Int
  BY <1>6, GeometryAssumption
<1>9. c[1] \in Int /\ c[2] \in Int
  BY <1>3
<1> QED
  BY <1>5, <1>7, <1>8, <1>9 DEF ContainsPoint

\* What select_mesh answers: an empty list only when it found nothing.
LEMMA SelectedMesh ==
    ASSUME NEW S \in SUBSET Meshes, NEW meshes \in SortedBySize(S)
    PROVE  /\ meshes = <<>> => S = {}
           /\ meshes # <<>> => Head(meshes) \in S
<1>1. IsFiniteSet(S)
  BY MeshesAssumption, FS_Subset
<1>2. Cardinality(S) \in Nat /\ (Cardinality(S) = 0 <=> S = {})
  BY <1>1, FS_CardinalityType, FS_EmptySet
<1>3. meshes \in [1..Cardinality(S) -> S]
  BY DEF SortedBySize
<1> PICK n : n = Cardinality(S)
  OBVIOUS
<1>4. meshes \in Seq(S) /\ Len(meshes) = n
  BY <1>2, <1>3
<1> QED
  BY <1>2, <1>3, <1>4

EvaluationCode == Code \cup {200}
EvaluationOutcome == {None, "route", "error"}
EvaluationState == [pc : EvaluationPc, request : Evaluations \cup {None},
                    day : Nat \cup {None}, mesh : Meshes \cup {None},
                    code : EvaluationCode, outcome : EvaluationOutcome]

LEMMA EvaluationTyped == EvaluationOK <=> evaluation \in EvaluationState
BY DEF EvaluationOK, EvaluationState, EvaluationCode, EvaluationOutcome

LEMMA EvaluationTypes ==
    ASSUME evaluation' \in EvaluationState PROVE EvaluationOK'
BY DEF EvaluationOK, EvaluationState, EvaluationCode, EvaluationOutcome

LEMMA EvaluationValues ==
    /\ None \in EvaluationCode /\ 404 \in EvaluationCode
    /\ 500 \in EvaluationCode /\ 200 \in EvaluationCode
    /\ None \in EvaluationOutcome /\ "route" \in EvaluationOutcome
    /\ "error" \in EvaluationOutcome
BY DEF EvaluationCode, EvaluationOutcome, Code

\* Meshes that were found are stored or deleted, and stay deleted.
LEMMA SomeMeshStays ==
    ASSUME TypeOK, TypeOK', MeshesAge, NEW request, NEW day
    PROVE  /\ SomeMesh(request, day, {"stored", "deleted"})
                => SomeMesh(request, day, {"stored", "deleted"})'
           /\ SomeMesh(request, day, {"deleted"})
                => SomeMesh(request, day, {"deleted"})'
<1>1. \A m \in Containing(Meshes, Corners(request.positions)) : m \in Meshes
  BY DEF Containing
<1> QED
  BY <1>1 DEF SomeMesh, MeshesAge, TypeOK, RowState

\* The evaluation goes on to x.
LEMMA EvaluationGoes ==
    ASSUME TypeOK, TypeOK', MeshesAge, NEW x \in EvaluationState, evaluation' = x,
           NEW request, request = x.request, NEW day, day = x.day,
           x.pc \in {"away", "ready"} => x.mesh = None /\ x.code = None,
           x.pc \in {"select", "evaluate", "done"} => request \in Evaluations,
           x.pc = "select" =>
              /\ request.custom_mesh_id = None /\ x.mesh = None /\ x.code = None
              /\ SomeMesh(request, day, {"stored", "deleted"}),
           x.mesh # None /\ request.custom_mesh_id = None =>
              x.mesh \in Containing(Meshes, Corners(request.positions)),
           x.code = 500 =>
              /\ request.custom_mesh_id = None
              /\ SomeMesh(request, day, {"deleted"})
    PROVE  EvaluationWF'
<1>1. EvaluationOK'
  BY EvaluationTypes
<1>2. (evaluation.pc = "select" =>
              /\ evaluation.request.custom_mesh_id = None
              /\ evaluation.mesh = None /\ evaluation.code = None
              /\ SomeMesh(evaluation.request, evaluation.day,
                          {"stored", "deleted"}))'
  BY SomeMeshStays
<1>3. (evaluation.code = 500 =>
              /\ evaluation.request.custom_mesh_id = None
              /\ SomeMesh(evaluation.request, evaluation.day, {"deleted"}))'
  BY SomeMeshStays
<1>4. (evaluation.mesh # None /\ evaluation.request.custom_mesh_id = None =>
              evaluation.mesh \in
                  Containing(Meshes, Corners(evaluation.request.positions)))'
  OBVIOUS
<1> QED
  BY <1>1, <1>2, <1>3, <1>4 DEF EvaluationWF

LEMMA EvaluationStays ==
    ASSUME EvaluationWF, TypeOK, TypeOK', MeshesAge, UNCHANGED evaluation
    PROVE  EvaluationWF'
<1> PICK x : x = evaluation
  OBVIOUS
<1>1. evaluation' = x /\ x \in EvaluationState
  BY EvaluationTyped DEF EvaluationWF
<1> QED
  BY <1>1, EvaluationGoes DEF EvaluationWF

LEMMA EvaluateFindKeeps ==
    ASSUME EvaluationWF, TypeOK, TypeOK', MeshesAge,
           NEW request \in Evaluations, EvaluateFind(request)
    PROVE  EvaluationWF'
<1> PICK custom : custom = request.custom_mesh_id
  OBVIOUS
<1> DEFINE containing == Containing(Live, Corners(request.positions))
<1>0. /\ evaluation \in EvaluationState /\ evaluation.pc = "ready"
      /\ evaluation.mesh = None /\ evaluation.code = None
      /\ custom \in Meshes \cup {None}
  BY EvaluationTyped, EvaluationsAssumption DEF EvaluationWF, EvaluateFind
<1>1. {"evaluate", "select", "done"} \subseteq EvaluationPc
  BY DEF EvaluationPc
<1>2. None \notin Meshes /\ None # 500
  BY NoneAssumption
<1>3. CASE /\ custom \in Live
           /\ evaluation' = [evaluation EXCEPT !.request = request,
                                               !.pc = "evaluate", !.mesh = custom]
  <2> DEFINE x == [evaluation EXCEPT !.request = request, !.pc = "evaluate",
                                     !.mesh = custom]
  <2>1. custom \in Meshes
    BY <1>3 DEF Live
  <2>2. /\ x \in EvaluationState /\ x.pc = "evaluate" /\ x.request = request
        /\ x.code = None
    BY <1>0, <1>1, <2>1 DEF EvaluationState
  <2>3. evaluation' = x
    BY <1>3
  <2> HIDE DEF x
  <2> QED
    BY <1>2, <2>1, <2>2, <2>3, EvaluationGoes
<1>4. ASSUME custom = None, NEW m \in Latest(containing),
             evaluation' = [evaluation EXCEPT !.request = request,
                                              !.pc = "select", !.day = Day[m]]
      PROVE  EvaluationWF'
  <2> PICK day : day = Day[m]
    OBVIOUS
  <2> DEFINE x == [evaluation EXCEPT !.request = request, !.pc = "select",
                                     !.day = day]
  <2>1. /\ m \in Meshes /\ mesh[m] = "stored"
        /\ m \in Containing(Meshes, Corners(request.positions))
    BY DEF Latest, Containing, Live
  <2>2. day \in Nat /\ SomeMesh(request, day, {"stored", "deleted"})
    BY <2>1, GeometryAssumption DEF SomeMesh
  <2>3. evaluation' = x
    BY <1>4
  <2>4. /\ x \in EvaluationState /\ x.pc = "select" /\ x.request = request
        /\ x.code = None /\ x.mesh = None /\ x.day = day
    BY <1>0, <1>1, <2>2 DEF EvaluationState
  <2> HIDE DEF x
  <2>5. request.custom_mesh_id = None
    BY <1>4
  <2> QED
    BY <1>2, <2>2, <2>3, <2>4, <2>5, EvaluationGoes
<1>5. CASE evaluation' = [evaluation EXCEPT !.request = request,
                                            !.pc = "done", !.code = 404]
  <2> DEFINE code == 404
             x == [evaluation EXCEPT !.request = request, !.pc = "done",
                                     !.code = code]
  <2>1. evaluation' = x
    BY <1>5
  <2>2. code # 500
    OBVIOUS
  <2>3. code \in EvaluationCode
    BY EvaluationValues
  <2> HIDE DEF code
  <2>4. /\ x \in EvaluationState /\ x.pc = "done" /\ x.request = request
        /\ x.code = code /\ x.mesh = None
    BY <1>0, <1>1, <2>3 DEF EvaluationState
  <2> HIDE DEF x
  <2> QED
    BY <2>1, <2>2, <2>4, EvaluationGoes
<1> QED
  BY <1>3, <1>4, <1>5 DEF EvaluateFind

\* The evaluation is answered with a code.
LEMMA EvaluationAnswers ==
    ASSUME evaluation \in EvaluationState, NEW code \in EvaluationCode,
           NEW outcome \in EvaluationOutcome, Answered(code, outcome)
    PROVE  /\ evaluation' \in EvaluationState /\ evaluation'.pc = "done"
           /\ evaluation'.code = code /\ evaluation'.day = evaluation.day
           /\ evaluation'.request = evaluation.request
           /\ evaluation'.mesh = evaluation.mesh
BY DEF Answered, EvaluationState, EvaluationPc

LEMMA EvaluateSelectKeeps ==
    ASSUME EvaluationWF, TypeOK, TypeOK', MeshesAge, EvaluateSelect
    PROVE  EvaluationWF'
<1> PICK request : request = evaluation.request
  OBVIOUS
<1> PICK day : day = evaluation.day
  OBVIOUS
<1>0. /\ evaluation \in EvaluationState /\ request \in Evaluations
      /\ evaluation.pc = "select" /\ request.custom_mesh_id = None
      /\ evaluation.mesh = None /\ evaluation.code = None
      /\ SomeMesh(request, day, {"stored", "deleted"})
  BY EvaluationTyped DEF EvaluationWF, EvaluateSelect
<1> DEFINE S == {m \in Containing(Live, Corners(request.positions)) : Day[m] = day}
<1>1. PICK meshes \in SortedBySize(S) :
        \/ /\ meshes # <<>>
           /\ evaluation' = [evaluation EXCEPT !.pc = "evaluate",
                                               !.mesh = Head(meshes)]
        \/ meshes = <<>> /\ Answered(500, None)
  BY DEF EvaluateSelect, SelectMesh
<1>2. S \in SUBSET Containing(Meshes, Corners(request.positions))
  BY DEF Containing, Live
<1>3. S \in SUBSET Meshes
  BY <1>2 DEF Containing
<1>4. (meshes = <<>> => S = {}) /\ (meshes # <<>> => Head(meshes) \in S)
  BY <1>3, SelectedMesh
<1>5. CASE /\ meshes # <<>>
           /\ evaluation' = [evaluation EXCEPT !.pc = "evaluate",
                                               !.mesh = Head(meshes)]
  <2> PICK m : m = Head(meshes)
    OBVIOUS
  <2> DEFINE x == [evaluation EXCEPT !.pc = "evaluate", !.mesh = m]
  <2>1. m \in Containing(Meshes, Corners(request.positions)) /\ m \in Meshes
    BY <1>2, <1>3, <1>4, <1>5
  <2>2. "evaluate" \in EvaluationPc /\ None # 500
    BY NoneAssumption DEF EvaluationPc
  <2>3. /\ x \in EvaluationState /\ x.pc = "evaluate" /\ x.request = request
        /\ x.code = None /\ x.mesh = m
    BY <1>0, <2>1, <2>2 DEF EvaluationState
  <2>4. evaluation' = x
    BY <1>5
  <2> HIDE DEF x
  <2> QED
    BY <1>0, <2>1, <2>2, <2>3, <2>4, EvaluationGoes
<1>6. CASE meshes = <<>> /\ Answered(500, None)
  <2>1. SomeMesh(request, day, {"deleted"})
    <3>1. PICK m \in Containing(Meshes, Corners(request.positions)) :
            Day[m] = day /\ mesh[m] \in {"stored", "deleted"}
      BY <1>0 DEF SomeMesh
    <3>2. m \notin S
      BY <1>4, <1>6
    <3>3. mesh[m] # "stored"
      BY <3>1, <3>2 DEF Containing, Live
    <3> QED
      BY <3>1, <3>3 DEF SomeMesh
  <2> DEFINE code == 500
  <2>2. code \in EvaluationCode /\ None \in EvaluationOutcome
    BY EvaluationValues
  <2>3. Answered(code, None)
    BY <1>6
  <2> HIDE DEF code, S
  <2>4. /\ evaluation' \in EvaluationState /\ evaluation'.pc = "done"
        /\ evaluation'.day = day /\ evaluation'.request = request
        /\ evaluation'.mesh = None
    BY <1>0, <2>2, <2>3, EvaluationAnswers
  <2> QED
    BY <1>0, <2>1, <2>4, EvaluationGoes
<1> QED
  BY <1>1, <1>5, <1>6

LEMMA EvaluateKeeps ==
    ASSUME EvaluationWF, TypeOK, TypeOK', MeshesAge, Evaluate
    PROVE  EvaluationWF'
<1> DEFINE code == 200
<1>0. /\ evaluation \in EvaluationState /\ evaluation.pc = "evaluate"
      /\ evaluation.request \in Evaluations
      /\ evaluation.mesh # None /\ evaluation.request.custom_mesh_id = None =>
            evaluation.mesh \in
                Containing(Meshes, Corners(evaluation.request.positions))
  BY EvaluationTyped DEF EvaluationWF, Evaluate
<1>1. PICK outcome \in EvaluationOutcome : Answered(code, outcome)
  BY EvaluationValues DEF Evaluate
<1>2. code \in EvaluationCode
  BY EvaluationValues
<1>3. code # 500
  OBVIOUS
<1> HIDE DEF code
<1>4. /\ evaluation' \in EvaluationState /\ evaluation'.pc = "done"
      /\ evaluation'.code = code /\ evaluation'.day = evaluation.day
      /\ evaluation'.request = evaluation.request
      /\ evaluation'.mesh = evaluation.mesh
  BY <1>0, <1>1, <1>2, EvaluationAnswers
<1> QED
  BY <1>0, <1>3, <1>4, EvaluationGoes

LEMMA EvaluationKeeps ==
    /\ SystemInv /\ SystemInv' /\ EvaluationWF /\ [ApiNext]_apiVars /\ Progress
    => EvaluationWF'
<1> SUFFICES ASSUME SystemInv, SystemInv', EvaluationWF, [ApiNext]_apiVars, Progress
             PROVE  EvaluationWF'
  OBVIOUS
<1>0. TypeOK /\ TypeOK' /\ MeshesAge
  BY DEF SystemInv, Inv, TypeInv, Progress
<1>1. CASE UNCHANGED evaluation
  BY <1>0, <1>1, EvaluationStays
<1>2. CASE EvaluationStep
  BY <1>0, <1>2, EvaluateFindKeeps, EvaluateSelectKeeps, EvaluateKeeps
     DEF EvaluationStep
<1> QED
  BY <1>1, <1>2 DEF ApiNext, apiVars

LEMMA InitEvaluation == ApiInit => EvaluationWF
<1> SUFFICES ASSUME ApiInit PROVE EvaluationWF
  OBVIOUS
<1>1. PICK pc \in {"away", "ready"} : evaluation = NewEvaluation(pc)
  BY DEF ApiInit
<1>2. pc \in EvaluationPc /\ None # 500
  BY NoneAssumption DEF EvaluationPc
<1>3. /\ evaluation \in EvaluationState /\ evaluation.pc \in {"away", "ready"}
      /\ evaluation.mesh = None /\ evaluation.code = None
  BY <1>1, <1>2, EvaluationValues DEF NewEvaluation, EvaluationState
<1> QED
  BY <1>2, <1>3, EvaluationTyped DEF EvaluationWF

----------------------------------------------------------------------------
(* The whole API *)

LEMMA ApiInvariant == ApiSpec => []ApiInv
<1>1. ApiInit => ApiInv
  BY InitSystem, InitReaders, InitEvaluation DEF ApiInv
<1>2. ApiInv /\ [ApiNext]_apiVars => ApiInv'
  BY ApiKeeps, ReaderKeeps, ClientKeeps, EvaluationKeeps DEF ApiInv
<1> QED
  BY <1>1, <1>2, PTL DEF ApiSpec

\* The administrator, the reader, the client and the evaluation hold, whenever
\* their next step reads a row, an id or a mesh of theirs, one that was set
\* before (admin.py:38; serializers.py:42-71; request_route.py:150-195;
\* views.py:680-704).
THEOREM ApiTypeCorrect == ApiSpec => []ApiTypeOK
<1>1. ApiInv => ApiTypeOK
  BY DEF ApiInv, SystemInv, AdminWF, ReaderWF, ClientWF, EvaluationWF, ApiTypeOK
<1> QED
  BY <1>1, ApiInvariant, PTL

\* Two corners speak for a whole route, between two queries that others' clean-ups
\* and imports may come between (utils.py:215-219).
THEOREM CornersSpeakForRoutes == ApiSpec => []CornersAreEnough
<1>1. ApiInv => CornersAreEnough
  <2> SUFFICES ASSUME ApiInv, evaluation.mesh # None,
                      evaluation.request.custom_mesh_id = None,
                      NEW c \in evaluation.request.positions
               PROVE  ContainsPoint(evaluation.mesh, [lat |-> c[1], lon |-> c[2]])
    BY DEF CornersAreEnough
  <2> PICK positions : positions = evaluation.request.positions
    OBVIOUS
  <2>1. /\ evaluation \in EvaluationState
        /\ evaluation.mesh \in Containing(Meshes, Corners(positions))
        /\ evaluation.pc \in {"away", "ready"} => evaluation.mesh = None
        /\ evaluation.pc \in {"select", "evaluate", "done"} =>
              evaluation.request \in Evaluations
    BY EvaluationTyped DEF ApiInv, EvaluationWF
  <2>2. evaluation.request \in Evaluations
    BY <2>1 DEF EvaluationState, EvaluationPc
  <2>3. /\ positions \in SUBSET (Int \X Int) /\ IsFiniteSet(positions)
        /\ positions # {}
    BY <2>2, EvaluationsAssumption
  <2> QED
    BY <2>1, <2>3, CornersBound
<1> QED
  BY <1>1, ApiInvariant, PTL

\* Only a deletion between the two queries makes an evaluation raise
\* (views.py:690-704).
THEOREM EvaluationsRaiseByDeletion == ApiSpec => []EvaluationRaisesByDeletion
<1>1. ApiInv => EvaluationRaisesByDeletion
  BY DEF ApiInv, EvaluationWF, SomeMesh, EvaluationRaisesByDeletion
<1> QED
  BY <1>1, ApiInvariant, PTL

\* The guarantees of the route jobs survive the administrator: what he deletes
\* and saves gives no route a second writer, and no job a false SUCCESS
\* (tasks.py:136-143; views.py:594-604; admin.py:38).
THEOREM JobsSurviveTheAdministrator ==
    ApiSpec => [](OneWriter /\ SuccessIsCalculated /\ CancelledJobIsGone)
<1>1. ApiInv => OneWriter /\ SuccessIsCalculated /\ CancelledJobIsGone
  BY ExclusiveIsOneWriter, DoneIsSuccess
     DEF ApiInv, SystemInv, Inv, JobsInv, Cancellations, CancelledJobIsGone
<1> QED
  BY <1>1, ApiInvariant, PTL

----------------------------------------------------------------------------
(* The recent routes *)

Calculated(r) == Exists(r) /\ route[r].row.calculated

\* The newest task of a route, the one with the fewest backup meshes, has not
\* failed.
NewestIsWell(r) ==
    \A t \in Tasks :
        args[t].route = r /\ HasFewest(t) => result[t] # "FAILURE"

\* A worker may save a timestamp for a failure only in the copy that it could
\* not save before, and then the mesh of the copy is gone.
RecentCopy(w) ==
    LET row == worker[w].row
        pc == worker[w].pc
    IN  /\ pc \in WritingPc => row.mesh \in Meshes /\ mesh[row.mesh] # "unborn"
        /\ pc \in WritingPc /\ row.calculated /\ RouteOf(w) \notin admin.edited =>
              /\ pc \in {"failed", "error"} /\ mesh[row.mesh] = "deleted"
              /\ pc = "failed" => worker[w].error # "inaccessible"

\* A task about to fail is not the newest of its route, or its route has no
\* timestamp and will have none.
RecentRaise(w) ==
    LET r == RouteOf(w)
    IN  worker[w].pc = "raise" =>
           \/ ~HasFewest(worker[w].task)
           \/ Free(r) /\ (r \notin admin.edited => ~Calculated(r))

RecentInv ==
    /\ KnownMeshes
    /\ admin.pc # "done" => admin.edited = {}
    /\ \A r \in Routes : Calculated(r) /\ r \notin admin.edited =>
         Free(r) /\ NewestIsWell(r)
    /\ \A w \in Workers : RecentCopy(w) /\ RecentRaise(w)
    /\ \A w \in Workers : worker[w].pc = "record" => ~HasFewest(worker[w].task)

LEMMA OlderStays ==
    ASSUME ArgsKept, NEW t \in Tasks, args[t].route # None, ~HasFewest(t)
    PROVE  ~HasFewest(t)'
BY DEF ArgsKept, HasFewest

\* A step keeps the invariant if it sends a task only for a route that has a
\* writer, sets a timestamp only for such a route and for good, and lets no
\* newest task of a calculated route fail; `moved` are the workers that move.
LEMMA RecentStep ==
    ASSUME TypeInv, Born, RecentInv, ArgsKept, MeshesAge, KnownMeshes',
           admin.edited \subseteq admin'.edited,
           admin'.pc # "done" => admin'.edited = {},
           \A r \in Routes : Free(r) /\ route[r].state # "unborn" => Free(r)',
           \A t \in Tasks :
              \/ args[t].route # None
              \/ args'[t].route = None
              \/ ~Free(args'[t].route),
           \A t \in Tasks : result'[t] = "FAILURE" =>
              \/ result[t] = "FAILURE"
              \/ ~HasFewest(t)
              \/ args[t].route \in admin.edited
              \/ ~Calculated(args[t].route),
           \A r \in Routes : Calculated(r)' /\ r \notin admin'.edited =>
              \/ Calculated(r)
              \/ ~Free(r) /\ Free(r)' /\ NewestIsWell(r)',
           NEW moved \in SUBSET Workers,
           \A w \in Workers \ moved : worker'[w] = worker[w],
           \A w \in moved :
              /\ RecentCopy(w)' /\ RecentRaise(w)'
              /\ worker'[w].pc = "record" => ~HasFewest(worker[w].task)'
    PROVE  RecentInv'
<1>1. ASSUME NEW r \in Routes, Calculated(r), Calculated(r)', r \notin admin'.edited
      PROVE  Free(r)' /\ NewestIsWell(r)'
  <2>1. Free(r) /\ NewestIsWell(r) /\ Free(r)'
    BY <1>1 DEF RecentInv, Calculated, Exists
  <2>2. ASSUME NEW t \in Tasks, args'[t].route = r, HasFewest(t)'
        PROVE  result'[t] # "FAILURE"
    <3>1. \A u \in Tasks : args'[u].route = r => args[u].route # None
      BY <2>1, NoneAssumption
    <3>2. \A u \in Tasks : args[u].route = r => args'[u] = args[u]
      BY NoneAssumption DEF ArgsKept
    <3>3. args[t].route = r /\ args'[t] = args[t]
      BY <2>2, <3>1 DEF ArgsKept
    <3>4. HasFewest(t)
      BY <2>2, <3>2, <3>3 DEF HasFewest
    <3> QED
      BY <1>1, <2>1, <3>3, <3>4 DEF NewestIsWell
  <2> QED
    BY <2>1, <2>2 DEF NewestIsWell
<1>2. ASSUME NEW w \in Workers, worker'[w] = worker[w], worker[w].pc # "idle"
      PROVE  /\ RecentCopy(w)' /\ RecentRaise(w)'
             /\ worker'[w].pc = "record" => ~HasFewest(worker[w].task)'
  <2> PICK t, r : t = worker[w].task /\ r = RouteOf(w)
    OBVIOUS
  <2>1. /\ t \in Tasks /\ r \in Routes /\ args[t].route = r /\ r # None
        /\ RouteOf(w)' = r /\ route[r].state # "unborn"
    BY <1>2, NoneAssumption DEF TypeInv, WorkerWF, RouteOf, ArgsKept, Born
  <2>2. ~HasFewest(t) => ~HasFewest(t)'
    BY <2>1, OlderStays
  <2>3. RecentCopy(w)'
    BY <1>2, <2>1 DEF RecentInv, RecentCopy, MeshesAge
  <2>4. Free(r) /\ (r \notin admin.edited => ~Calculated(r)) =>
          Free(r)' /\ (r \notin admin'.edited => ~Calculated(r)')
    BY <2>1
  <2>5. RecentRaise(w)'
    BY <1>2, <2>1, <2>2, <2>4 DEF RecentInv, RecentRaise
  <2> QED
    BY <1>2, <2>2, <2>3, <2>5 DEF RecentInv
<1>3. ASSUME NEW w \in Workers, worker'[w] = worker[w], worker[w].pc = "idle"
      PROVE  /\ RecentCopy(w)' /\ RecentRaise(w)' /\ worker'[w].pc # "record"
  BY <1>3 DEF RecentCopy, RecentRaise, WritingPc
<1>4. \A w \in Workers :
        /\ RecentCopy(w)' /\ RecentRaise(w)'
        /\ worker'[w].pc = "record" => ~HasFewest(worker[w].task)'
  BY <1>2, <1>3
<1> QED
  BY <1>1, <1>4 DEF RecentInv

\* Nobody but workers and requests has to do with tasks.
LEMMA ApiTasks ==
    [ApiNext]_apiVars =>
        [Next]_vars \/ UNCHANGED <<args, queue, result, post, worker>>
<1> SUFFICES ASSUME [ApiNext]_apiVars
             PROVE  [Next]_vars \/ UNCHANGED <<args, queue, result, post, worker>>
  OBVIOUS
<1>1. CASE AdminStep
  BY <1>1, ZenonT(40) DEF AdminStep, AdminLoad, AdminSave, AdminDeleteRoute,
     AdminDeleteJob, vars, celery, web
<1>2. CASE ~AdminStep
  BY <1>2 DEF ApiNext, apiVars, viewVars, system, ClientStep, ReadAnswer,
     Poll, GiveUp, StatusError, ReadStatus, Fetch, EvaluationStep,
     EvaluateFind, EvaluateSelect, Evaluate, vars
<1> QED
  BY <1>1, <1>2

\* Where no result expires, no step of the API revises a state that a client has
\* read; where besides no worker dies and every state is stored, every task
\* without a result is still live.
LEMMA ApiStates ==
    /\ SystemInv /\ SystemInv' /\ StatusInv /\ [ApiNext]_apiVars
    => /\ StatusInv'
       /\ "expire" \notin Events => StatesStay
       /\ {"crash", "backend", "expire"} \cap Events = {} /\ LiveTasks
            => LiveTasks'
<1> SUFFICES ASSUME SystemInv, StatusInv, [ApiNext]_apiVars
             PROVE  /\ StatusInv'
                    /\ "expire" \notin Events => StatesStay
                    /\ {"crash", "backend", "expire"} \cap Events = {} /\ LiveTasks
                         => LiveTasks'
  OBVIOUS
<1>0. Inv /\ TypeInv /\ UnsentPending
  BY DEF SystemInv, Inv
<1>1. CASE [Next]_vars
  BY <1>0, <1>1, NextStatus
<1>2. CASE UNCHANGED <<args, queue, result, post, worker>>
  BY <1>0, <1>2, StatusSent
<1> QED
  BY <1>1, <1>2, ApiTasks

\* The lists of backup meshes are the business of workers and requests, too.
LEMMA ApiBackups ==
    /\ SystemInv /\ SystemInv' /\ BackupsInv /\ [ApiNext]_apiVars => BackupsInv'
<1> SUFFICES ASSUME SystemInv, SystemInv', BackupsInv, [ApiNext]_apiVars
             PROVE  BackupsInv'
  OBVIOUS
<1>0. Inv /\ TypeInv'
  BY DEF SystemInv, Inv
<1>1. CASE [Next]_vars
  BY <1>0, <1>1, NextBackups
<1>2. CASE UNCHANGED <<args, queue, result, post, worker>>
  BY <1>0, <1>2, BackupsQuiet
<1> QED
  BY <1>1, <1>2, ApiTasks

\* A row that is saved names a stored mesh or none.
LEMMA SavedMeshIsKnown ==
    ASSUME TypeOK, KnownMeshes, UNCHANGED mesh, NEW r \in Routes, NEW row,
           Save(r, row)
    PROVE  KnownMeshes'
<1>1. /\ route'[r].row = row
      /\ \A q \in Routes : q # r => route'[q] = route[q]
  BY SaveEffect
<1>2. row.mesh # None => mesh[row.mesh] # "unborn"
  BY DEF Save, ForeignKeyHolds, Live
<1> QED
  BY <1>1, <1>2 DEF KnownMeshes

LEMMA KeptMeshesAreKnown ==
    ASSUME TypeOK, KnownMeshes, MeshesAge, \A r \in Routes : RowKept(r)
    PROVE  KnownMeshes'
<1> SUFFICES ASSUME NEW r \in Routes, route'[r].row.mesh # None
             PROVE  mesh'[route'[r].row.mesh] # "unborn"
  BY DEF KnownMeshes
<1>0. route[r] \in RouteRow /\ route[r].row \in Row
  BY DEF TypeOK, RouteRow
<1>1. route'[r] = route[r]
  <2>1. CASE route'[r] = [state |-> "deleted", row |-> NoRow]
    BY <2>1 DEF NoRow
  <2>2. CASE route'[r] = [route[r] EXCEPT !.row.mesh = None]
    BY <1>0, <2>2 DEF RouteRow, Row
  <2> QED
    BY <2>1, <2>2 DEF RowKept
<1>2. route[r].row.mesh \in Meshes
  BY <1>0, <1>1 DEF Row
<1> QED
  BY <1>1, <1>2 DEF KnownMeshes, MeshesAge

LEMMA KeptIsNotCalculated ==
    ASSUME TypeOK, NEW r \in Routes, RowKept(r), Calculated(r)'
    PROVE  Calculated(r)
<1>0. route[r] \in RouteRow /\ route[r].row \in Row
  BY DEF TypeOK, RouteRow
<1> QED
  BY <1>0 DEF RowKept, Calculated, Exists, RouteRow, Row

\* Steps in which no worker moves.
LEMMA RecentQuiet ==
    ASSUME TypeInv, Born, RecentInv, ArgsKept, FreeKept, MeshesAge,
           KnownMeshes', UNCHANGED <<worker, admin>>,
           \A t \in Tasks :
              \/ args[t].route # None
              \/ args'[t].route = None
              \/ ~Free(args'[t].route),
           \A t \in Tasks : result'[t] = "FAILURE" => result[t] = "FAILURE",
           \A r \in Routes : Calculated(r)' => Calculated(r)
    PROVE  RecentInv'
<1>1. \A r \in Routes : Free(r) /\ route[r].state # "unborn" => Free(r)'
  BY DEF FreeKept
<1>2. admin.pc # "done" => admin.edited = {}
  BY DEF RecentInv
<1>3. {} \in SUBSET Workers
  OBVIOUS
<1> QED
  BY <1>1, <1>2, <1>3, RecentStep

LEMMA PostRecent ==
    ASSUME SystemInv, RecentInv, UNCHANGED admin, NEW p \in Posts,
           PostSelect(p) \/ PostStep(p) \/ PostCrash(p)
    PROVE  RecentInv'
<1>0. TypeInv /\ TypeOK /\ Born /\ KnownMeshes
  BY DEF SystemInv, Inv, TypeInv, RecentInv
<1>1. ArgsKept /\ UNCHANGED <<mesh, result, cancel, worker>> /\ FreeKept
  BY <1>0, PostArgsKept, PostFreeKept
<1>2. MeshesAge
  BY <1>1 DEF MeshesAge
<1>3. CASE PostCreate(p)
  <2>1. UNCHANGED args
    BY <1>3 DEF PostCreate, celery
  <2> DEFINE row == [NoRow EXCEPT !.trip = post[p].body.trip,
                                  !.mesh = Head(post[p].meshes)]
  <2>2. ~row.calculated
    BY DEF NoRow
  <2>3. UNCHANGED route \/ \E r \in Routes : Save(r, row)
    BY <1>3 DEF PostCreate, SaveFails
  <2> HIDE DEF row
  <2>4. CASE UNCHANGED route
    BY <1>0, <1>1, <1>2, <2>1, <2>4, RecentQuiet
       DEF KnownMeshes, Calculated, Exists
  <2>5. ASSUME NEW r \in Routes, Save(r, row) PROVE RecentInv'
    <3>1. /\ route'[r].row = row
          /\ \A q \in Routes : q # r => route'[q] = route[q]
      BY <1>0, <2>5, SaveEffect
    <3>2. \A q \in Routes : Calculated(q)' => Calculated(q)
      BY <2>2, <3>1 DEF Calculated, Exists
    <3>3. KnownMeshes'
      BY <1>0, <1>1, <2>5, SavedMeshIsKnown
    <3> QED
      BY <1>0, <1>1, <1>2, <2>1, <3>2, <3>3, RecentQuiet
  <2> QED
    BY <2>3, <2>4, <2>5
<1>4. CASE ~PostCreate(p)
  <2>1. /\ UNCHANGED route
        /\ \A t \in Tasks :
             \/ args[t].route # None
             \/ args'[t].route = None
             \/ ~Free(args'[t].route)
    <3>1. CASE PostSend(p)
      <4>1. /\ post[p].pc = "send" /\ UNCHANGED route
            /\ \/ UNCHANGED <<args, queue>>
               \/ \E t \in Tasks :
                    /\ args'[t] = [route |-> post[p].route,
                                   backups |-> AllButFirst(post[p].meshes)]
                    /\ \A u \in Tasks : u # t => args'[u] = args[u]
        BY <1>0, <3>1, SendEffect
      <4>2. \A t \in Tasks : \/ args'[t] = args[t]
                             \/ args'[t].route = post[p].route
        BY <4>1
      <4> QED
        BY <4>1, <4>2 DEF Free
    <3>2. CASE ~PostSend(p)
      BY <1>0, <1>4, <3>2, PostMoves DEF PostStep
    <3> QED
      BY <3>1, <3>2
  <2> QED
    BY <1>0, <1>1, <1>2, <2>1, RecentQuiet DEF KnownMeshes, Calculated, Exists
<1> QED
  BY <1>3, <1>4

\* Steps of others, which take rows away at most.
LEMMA RecentOthers ==
    ASSUME SystemInv, RecentInv, FreeKept, MeshesAge,
           \A r \in Routes : RowKept(r), UNCHANGED <<args, worker, admin>>,
           \A t \in Tasks : result'[t] = "FAILURE" => result[t] = "FAILURE"
    PROVE  RecentInv'
<1>0. TypeInv /\ TypeOK /\ Born /\ KnownMeshes
  BY DEF SystemInv, Inv, TypeInv, RecentInv
<1>1. ArgsKept
  BY DEF ArgsKept
<1>2. KnownMeshes'
  BY <1>0, KeptMeshesAreKnown
<1>3. \A r \in Routes : Calculated(r)' => Calculated(r)
  BY <1>0, KeptIsNotCalculated
<1> QED
  BY <1>0, <1>1, <1>2, <1>3, RecentQuiet

LEMMA CancelRecent ==
    ASSUME SystemInv, RecentInv, UNCHANGED admin, NEW c \in Cancels,
           CancelFind(c) \/ CancelStep(c) \/ CancelCrash(c)
    PROVE  RecentInv'
<1>0. TypeInv /\ TypeOK
  BY DEF SystemInv, Inv, TypeInv
<1>1. UNCHANGED <<mesh, args, result, worker>>
  BY DEF CancelFind, CancelStep, CancelRevoke, CancelDelete, CancelCrash,
         tables, celery
<1>2. \A r \in Routes : RowKept(r)
  <2>1. CASE CancelDelete(c)
    <3>1. DeleteRoute(cancel[c].route) /\ cancel[c].route \in Routes
      BY <1>0, <2>1 DEF CancelDelete, TypeInv, CancelWF
    <3> QED
      BY <1>0, <3>1, OtherRowsKept
  <2>2. CASE ~CancelDelete(c)
    BY <2>2 DEF CancelFind, CancelStep, CancelRevoke, CancelCrash, tables, RowKept
  <2> QED
    BY <2>1, <2>2
<1>3. FreeKept /\ MeshesAge
  BY <1>0, <1>1, CancelFreeKept DEF MeshesAge
<1> QED
  BY <1>1, <1>2, <1>3, RecentOthers

LEMMA EnvironmentRecent ==
    ASSUME SystemInv, RecentInv, UNCHANGED admin,
           \/ \E m \in Meshes : ImportMesh(m) \/ CleanupMesh(m)
           \/ \E r \in Routes : CleanupRoute(r)
           \/ \E t \in Tasks : ResultExpires(t)
    PROVE  RecentInv'
<1> USE DEF tables, celery, web
<1>0. TypeInv /\ TypeOK
  BY DEF SystemInv, Inv, TypeInv
<1>1. /\ UNCHANGED <<args, worker>>
      /\ \A t \in Tasks : result'[t] = "FAILURE" => result[t] = "FAILURE"
  BY <1>0 DEF ImportMesh, CleanupMesh, CleanupRoute, ResultExpires, TypeOK
<1>2. MeshesAge
  BY <1>0 DEF ImportMesh, CleanupMesh, CleanupRoute, ResultExpires, MeshesAge,
              TypeOK, Live
<1>3. \A r \in Routes : RowKept(r)
  <2>1. \/ UNCHANGED route
        \/ \E q \in Routes : DeleteRoute(q)
        \/ \E m \in Meshes : CleanupMesh(m)
    BY DEF ImportMesh, CleanupRoute, ResultExpires
  <2> QED
    BY <1>0, <2>1, OtherRowsKept
<1>4. FreeKept
  BY <1>0, EnvironmentFreeKept
<1> QED
  BY <1>1, <1>2, <1>3, <1>4, RecentOthers

\* The administrator sets no timestamp but in a row that counts as edited.
LEMMA AdminRecent ==
    ASSUME SystemInv, RecentInv, AdminStep
    PROVE  RecentInv'
<1>0. /\ TypeInv /\ TypeOK /\ Born /\ KnownMeshes /\ AdminOK
      /\ admin.pc # "done" => admin.edited = {}
  BY DEF SystemInv, Inv, TypeInv, RecentInv, AdminWF
<1>1. UNCHANGED <<mesh, args, queue, result, post, worker>>
  BY DEF AdminStep, AdminLoad, AdminSave, AdminDeleteRoute, AdminDeleteJob,
         vars, celery, web
<1>2. ArgsKept /\ MeshesAge /\ \A r : Free(r) => Free(r)'
  BY <1>1 DEF ArgsKept, MeshesAge, Free, RouteOf
<1>3. {} \in SUBSET Workers
  OBVIOUS
<1>4. ASSUME KnownMeshes', admin.edited \subseteq admin'.edited,
             admin'.pc # "done" => admin'.edited = {},
             \A r \in Routes : Calculated(r)' /\ r \notin admin'.edited =>
                Calculated(r)
      PROVE  RecentInv'
  BY <1>0, <1>1, <1>2, <1>3, <1>4, RecentStep
<1>5. ASSUME \A r \in Routes : RowKept(r), admin'.edited = admin.edited,
             admin.pc # "done"
      PROVE  RecentInv'
  BY <1>0, <1>2, <1>4, <1>5, KeptMeshesAreKnown, KeptIsNotCalculated
<1>6. ASSUME NEW r \in Routes, AdminLoad(r) \/ AdminDeleteRoute(r) PROVE RecentInv'
  <2>1. UNCHANGED route \/ DeleteRoute(r)
    BY <1>6 DEF AdminLoad, AdminDeleteRoute, vars
  <2>2. admin.pc # "done" /\ admin'.edited = admin.edited
    <3> DEFINE deferred == [route[r].row EXCEPT !.json = None,
                                                !.json_unsmoothed = None]
    <3>1. /\ admin.pc = "ready"
          /\ \/ admin' = [admin EXCEPT !.pc = "save", !.route = r, !.row = deferred]
             \/ admin' = [admin EXCEPT !.pc = "done", !.code = 302]
      BY <1>6 DEF AdminLoad, AdminDeleteRoute
    <3> HIDE DEF deferred
    <3>2. admin \in AdminState
      BY <1>0, AdminTyped
    <3> QED
      BY <3>1, <3>2, ZenonT(40) DEF AdminState
  <2> QED
    BY <1>0, <1>5, <2>1, <2>2, OtherRowsKept
<1>7. ASSUME NEW t \in Tasks, AdminDeleteJob(t) PROVE RecentInv'
  <2>1. UNCHANGED route /\ admin.pc # "done" /\ admin'.edited = admin.edited
    BY <1>0, <1>7 DEF AdminDeleteJob, AdminOK
  <2> QED
    BY <1>0, <1>5, <2>1, OtherRowsKept
<1>8. CASE AdminSave
  <2>1. PICK r \in Routes : r = admin.route
    BY <1>8 DEF AdminSave, SystemInv, AdminWF
  <2>2. admin.pc # "done" /\ admin.edited = {}
    BY <1>0, <1>8 DEF AdminSave
  <2>3. CASE UNCHANGED route /\ admin' = [NewAdmin("done") EXCEPT !.code = 500]
    BY <1>0, <1>1, <1>4, <2>2, <2>3
       DEF NewAdmin, KnownMeshes, Calculated, Exists
  <2>4. CASE /\ Save(r, AdminRow(r))
             /\ admin' = [NewAdmin("done") EXCEPT !.edited = {r}, !.code = 302]
    <3>1. admin'.pc = "done" /\ admin'.edited = {r}
      BY <2>4 DEF NewAdmin
    <3>2. KnownMeshes'
      BY <1>0, <1>1, <2>4, SavedMeshIsKnown
    <3>3. \A q \in Routes : q # r => route'[q] = route[q]
      BY <1>0, <2>4, SaveEffect
    <3>4. \A q \in Routes : Calculated(q)' /\ q \notin {r} => Calculated(q)
      BY <3>3 DEF Calculated, Exists
    <3> QED
      BY <1>4, <2>2, <3>1, <3>2, <3>4
  <2> QED
    BY <1>8, <2>1, <2>3, <2>4 DEF AdminSave
<1> QED
  BY <1>6, <1>7, <1>8 DEF AdminStep

\* What a worker has to show of its steps.
LEMMA RecentWorker ==
    ASSUME SystemInv, RecentInv, UNCHANGED admin, NEW w \in Workers,
           WorkerStep(w) \/ WorkerDies(w), KnownMeshes',
           \A t \in Tasks :
              \/ args[t].route # None
              \/ args'[t].route = None
              \/ ~Free(args'[t].route),
           \A t \in Tasks : result'[t] = "FAILURE" =>
              \/ result[t] = "FAILURE"
              \/ ~HasFewest(t)
              \/ args[t].route \in admin.edited
              \/ ~Calculated(args[t].route),
           \A r \in Routes : Calculated(r)' /\ r \notin admin.edited =>
              \/ Calculated(r)
              \/ ~Free(r) /\ Free(r)' /\ NewestIsWell(r)',
           RecentCopy(w)', RecentRaise(w)',
           worker'[w].pc = "record" => ~HasFewest(worker[w].task)'
    PROVE  RecentInv'
<1>0. TypeInv /\ Born /\ (admin.pc # "done" => admin.edited = {})
  BY DEF SystemInv, Inv, RecentInv
<1>1. /\ ArgsKept /\ UNCHANGED <<mesh, post, cancel>>
      /\ \A v \in Workers : v # w => worker'[v] = worker[v]
  BY <1>0, WorkerArgsKept
<1>2. FreeKept /\ MeshesAge
  BY <1>0, <1>1, WorkerFreeKept DEF MeshesAge
<1>3. \A r \in Routes : Free(r) /\ route[r].state # "unborn" => Free(r)'
  BY <1>2 DEF FreeKept
<1>4. {w} \in SUBSET Workers
  OBVIOUS
<1> QED
  BY <1>0, <1>1, <1>2, <1>3, <1>4, RecentStep

\* A route that a worker writes has no timestamp, or an administrator's.
LEMMA WrittenIsNotCalculated ==
    ASSUME TypeInv, RecentInv, NEW w \in Workers, worker[w].pc \in WritingPc
    PROVE  /\ RouteOf(w) \in Routes /\ ~Free(RouteOf(w))
           /\ RouteOf(w) \notin admin.edited => ~Calculated(RouteOf(w))
           /\ worker[w].task \in Tasks /\ worker[w].row \in Row
           /\ worker[w].row.mesh \in Meshes
BY DEF TypeInv, TypeOK, WorkerState, WorkerWF, WritingPc, Free, RecentInv,
       RecentCopy

\* A worker that leaves the row and the tasks alone.
LEMMA RecentHeld ==
    ASSUME SystemInv, RecentInv, UNCHANGED <<route, args, admin>>,
           NEW w \in Workers, WorkerStep(w) \/ WorkerDies(w),
           \A t \in Tasks : result'[t] = "FAILURE" =>
              \/ result[t] = "FAILURE"
              \/ ~HasFewest(t)
              \/ args[t].route \in admin.edited
              \/ ~Calculated(args[t].route),
           RecentCopy(w)', RecentRaise(w)',
           worker'[w].pc = "record" => ~HasFewest(worker[w].task)'
    PROVE  RecentInv'
<1>1. TypeInv /\ KnownMeshes
  BY DEF SystemInv, Inv, RecentInv
<1>2. UNCHANGED mesh
  BY <1>1, WorkerArgsKept
<1>3. KnownMeshes' /\ \A r \in Routes : Calculated(r)' => Calculated(r)
  BY <1>1, <1>2 DEF KnownMeshes, Calculated, Exists
<1> QED
  BY <1>3, RecentWorker

\* The exception of a worker that has written nothing and writes no more.
LEMMA RaisesUncalculated ==
    ASSUME SystemInv, RecentInv, UNCHANGED <<route, args, queue, post, admin>>,
           NEW w \in Workers, worker[w].pc \in WritingPc,
           worker'[w].pc = "raise", worker'[w].task = worker[w].task,
           \A v \in Workers : v # w => worker'[v] = worker[v]
    PROVE  /\ RecentCopy(w)' /\ RecentRaise(w)'
           /\ worker'[w].pc = "record" => ~HasFewest(worker[w].task)'
<1> PICK r : r = RouteOf(w)
  OBVIOUS
<1>0. Inv /\ TypeInv
  BY DEF SystemInv, Inv
<1>1. r \notin admin.edited => ~Calculated(r)
  BY <1>0, WrittenIsNotCalculated
<1>2. Free(r)'
  BY <1>0, LastWriter DEF WritingPc
<1>3. RouteOf(w)' = r /\ (Calculated(r)' <=> Calculated(r))
  BY DEF RouteOf, Calculated, Exists
<1> QED
  BY <1>1, <1>2, <1>3 DEF RecentCopy, RecentRaise, WritingPc

LEMMA TakeRecent ==
    ASSUME SystemInv, RecentInv, UNCHANGED admin, NEW w \in Workers, Take(w)
    PROVE  RecentInv'
<1>0. Inv /\ TypeInv /\ TypeOK /\ KnownMeshes
  BY DEF SystemInv, Inv, TypeInv, RecentInv
<1>1. /\ UNCHANGED <<mesh, route, args, result, post>>
      /\ \A v \in Workers : v # w => worker'[v] = worker[v]
  BY <1>0, WorkerArgsKept DEF Take, tables, web, WorkerStep
<1>2. PICK t \in queue :
        /\ queue' = queue \ {t} /\ worker'[w].task = t
        /\ \/ worker'[w].pc = "raise"
           \/ LET r == args[t].route
              IN  /\ worker'[w].pc = "plan"
                  /\ Exists(r) /\ route[r].row.mesh # None
                  /\ \E info \in {route[r].row.info, "note"} :
                       worker'[w].row = [route[r].row EXCEPT !.info = info]
  BY <1>0, TakeEffect
<1> PICK r \in Routes : r = args[t].route
  BY <1>0 DEF TypeInv, QueueWF
<1>3. ~Free(r) /\ (r \notin admin.edited => ~Calculated(r))
  BY DEF Free, RecentInv
<1>4. RouteOf(w)' = r /\ (Calculated(r)' <=> Calculated(r))
  BY <1>1, <1>2 DEF RouteOf, Calculated, Exists
<1>5. CASE worker'[w].pc = "raise"
  <2>1. \A v \in Workers : worker'[v].pc \in WritingPc =>
          v # w /\ worker'[v] = worker[v]
    BY <1>1, <1>5 DEF WritingPc
  <2>2. Free(r)'
    BY <1>0, <1>1, <1>2, <2>1, SMTT(30) DEF Free, RouteOf, Inv, Exclusive
  <2>3. RecentCopy(w)' /\ RecentRaise(w)'
    BY <1>3, <1>4, <1>5, <2>2 DEF RecentCopy, RecentRaise, WritingPc
  <2> QED
    BY <1>1, <1>5, <2>3, RecentHeld DEF WorkerStep
<1>6. CASE worker'[w].pc # "raise"
  <2>1. /\ worker'[w].pc = "plan" /\ Exists(r) /\ route[r].row.mesh # None
        /\ route[r].row \in Row
        /\ \E info : worker'[w].row = [route[r].row EXCEPT !.info = info]
    BY <1>0, <1>2, <1>6 DEF TypeOK, RouteRow
  <2>2. /\ worker'[w].row.mesh = route[r].row.mesh
        /\ worker'[w].row.calculated = route[r].row.calculated
        /\ route[r].row.mesh \in Meshes /\ mesh[route[r].row.mesh] # "unborn"
    BY <1>0, <2>1 DEF Row, KnownMeshes
  <2>3. RecentCopy(w)' /\ RecentRaise(w)'
    BY <1>1, <1>3, <1>4, <2>1, <2>2 DEF RecentCopy, RecentRaise, Calculated
  <2> QED
    BY <1>1, <2>1, <2>3, RecentHeld DEF WorkerStep
<1> QED
  BY <1>5, <1>6

\* A save that leaves the timestamp of the copy alone.
LEMMA SavesUncalculated ==
    ASSUME SystemInv, RecentInv, UNCHANGED <<args, result, admin>>,
           NEW w \in Workers, WorkerStep(w) \/ WorkerDies(w),
           NEW row, Save(RouteOf(w), row), worker[w].pc \in WritingPc,
           row.calculated => RouteOf(w) \in admin.edited,
           RecentCopy(w)', worker'[w].pc \notin {"raise", "record"}
    PROVE  RecentInv'
<1> PICK q : q = RouteOf(w)
  OBVIOUS
<1>0. TypeInv /\ TypeOK /\ KnownMeshes
  BY DEF SystemInv, Inv, TypeInv, RecentInv
<1>1. q \in Routes
  BY <1>0, WrittenIsNotCalculated
<1>2. /\ route'[q].row = row
      /\ \A r \in Routes : r # q => route'[r] = route[r]
  BY <1>0, <1>1, SaveEffect
<1>3. UNCHANGED mesh
  BY <1>0, WorkerArgsKept
<1>4. KnownMeshes'
  BY <1>0, <1>1, <1>3, SavedMeshIsKnown
<1>5. \A r \in Routes : Calculated(r)' /\ r \notin admin.edited => Calculated(r)
  BY <1>2 DEF Calculated, Exists
<1>6. RecentRaise(w)' /\ worker'[w].pc # "record"
  BY DEF RecentRaise
<1> QED
  BY <1>4, <1>5, <1>6, RecentWorker

LEMMA SaveUnsmoothedRecent ==
    ASSUME SystemInv, RecentInv, UNCHANGED admin, NEW w \in Workers,
           SaveUnsmoothed(w)
    PROVE  RecentInv'
<1> DEFINE row == Unsmoothed(worker[w].row)
<1>0. TypeInv /\ TypeOK /\ worker[w].pc = "plan" /\ WorkerStep(w)
  BY DEF SaveUnsmoothed, SystemInv, Inv, TypeInv, WorkerStep
<1>1. /\ worker[w].row \in Row /\ worker[w].row.mesh \in Meshes
      /\ mesh[worker[w].row.mesh] # "unborn"
      /\ worker[w].row.calculated => RouteOf(w) \in admin.edited
  BY <1>0, WrittenIsNotCalculated DEF RecentInv, RecentCopy, WritingPc
<1>2. row.mesh = worker[w].row.mesh /\ row.calculated = worker[w].row.calculated
  BY <1>1 DEF Unsmoothed, Row
<1> HIDE DEF row
<1>3. /\ UNCHANGED <<mesh, args, result>>
      /\ \/ Save(RouteOf(w), row) /\ GotoWith(w, "smooth", row, "none")
         \/ UNCHANGED route /\ GotoWith(w, "failed", row, "error")
  BY DEF SaveUnsmoothed, SaveFails, celery, row
<1>4. /\ worker'[w].pc \in {"smooth", "failed"} /\ worker'[w].row = row
      /\ worker'[w].task = worker[w].task
  BY <1>0, <1>3, GotoWithEffect, GotoWithCopy
<1>5. RecentCopy(w)' /\ RecentRaise(w)' /\ worker'[w].pc \notin {"raise", "record"}
  BY <1>1, <1>2, <1>3, <1>4 DEF RecentCopy, RecentRaise, RouteOf
<1>6. CASE Save(RouteOf(w), row)
  BY <1>0, <1>1, <1>2, <1>3, <1>5, <1>6, SavesUncalculated DEF WritingPc
<1>7. CASE UNCHANGED route
  BY <1>0, <1>3, <1>5, <1>7, RecentHeld
<1> QED
  BY <1>3, <1>6, <1>7

LEMMA CalculationFailsRecent ==
    ASSUME SystemInv, RecentInv, UNCHANGED admin, NEW w \in Workers,
           PlanFails(w) \/ SmoothFails(w)
    PROVE  RecentInv'
<1>0. /\ TypeInv /\ TypeOK /\ worker[w].pc \in {"plan", "smooth"}
      /\ WorkerStep(w) /\ UNCHANGED <<mesh, route, args, result>>
  BY DEF PlanFails, SmoothFails, SystemInv, Inv, TypeInv, WorkerStep, tables,
         celery
<1>1. /\ worker[w].row.mesh \in Meshes /\ mesh[worker[w].row.mesh] # "unborn"
      /\ worker[w].row.calculated => RouteOf(w) \in admin.edited
  BY <1>0 DEF RecentInv, RecentCopy, WritingPc
<1>2. \E error : GotoWith(w, "failed", worker[w].row, error)
  BY DEF PlanFails, SmoothFails
<1>3. /\ worker'[w].pc = "failed" /\ worker'[w].row = worker[w].row
      /\ worker'[w].task = worker[w].task
  BY <1>0, <1>2, GotoWithEffect, GotoWithCopy
<1>4. RecentCopy(w)' /\ RecentRaise(w)' /\ worker'[w].pc # "record"
  BY <1>0, <1>1, <1>3 DEF RecentCopy, RecentRaise, RouteOf
<1> QED
  BY <1>0, <1>4, RecentHeld

\* The last save of a calculation: its task is the newest of the route, and
\* goes on to succeed.  It fails only for want of the mesh.
LEMMA SaveSmoothedRecent ==
    ASSUME "database" \notin Events, SystemInv, BackupsInv, StatusInv, RecentInv,
           UNCHANGED admin, NEW w \in Workers, SaveSmoothed(w)
    PROVE  RecentInv'
<1> DEFINE row == Smoothed(worker[w].row)
<1>0. /\ Inv /\ TypeInv /\ TypeOK /\ KnownMeshes
      /\ worker[w].pc = "smooth" /\ WorkerStep(w)
  BY DEF SaveSmoothed, SystemInv, Inv, TypeInv, WorkerStep, RecentInv
<1>1. /\ worker[w].row \in Row /\ worker[w].row.mesh \in Meshes
      /\ mesh[worker[w].row.mesh] # "unborn"
      /\ RouteOf(w) \in Routes /\ ~Free(RouteOf(w)) /\ worker[w].task \in Tasks
  BY <1>0, WrittenIsNotCalculated DEF RecentInv, RecentCopy, WritingPc
<1>2. row.mesh = worker[w].row.mesh
  BY <1>1 DEF Smoothed, Row
<1> HIDE DEF row
<1>3. /\ UNCHANGED <<mesh, args, queue, result, post>>
      /\ \/ Save(RouteOf(w), row) /\ GotoWith(w, "return", row, "none")
         \/ SaveFails(row) /\ GotoWith(w, "failed", row, "error")
  BY DEF SaveSmoothed, celery, web, row
<1>4. CASE Save(RouteOf(w), row) /\ GotoWith(w, "return", row, "none")
  <2> PICK q : q = RouteOf(w)
    OBVIOUS
  <2>1. /\ worker'[w].pc = "return" /\ worker'[w].task = worker[w].task
        /\ \A v \in Workers : v # w => worker'[v] = worker[v]
    BY <1>0, <1>4, GotoWithEffect
  <2>2. Free(q)'
    BY <1>0, <1>3, <2>1, LastWriter DEF WritingPc
  <2>3. NewestIsWell(q)'
    <3>1. SUFFICES ASSUME NEW t \in Tasks, args[t].route = q, HasFewest(t)
                   PROVE  result[t] # "FAILURE"
      BY <1>3 DEF NewestIsWell, HasFewest
    <3>2. HasFewest(worker[w].task) /\ args[worker[w].task].route = q
      BY <1>0 DEF BackupsInv, WritingPc, RouteOf
    <3>3. \A u \in Tasks : Len(args[u].backups) \in Nat
      BY <1>0 DEF TypeOK, TaskArgs
    <3>4. Len(args[t].backups) = Len(args[worker[w].task].backups)
      BY <1>1, <3>1, <3>2, <3>3 DEF HasFewest
    <3>5. t = worker[w].task
      BY <1>1, <3>1, <3>2, <3>4, NoneAssumption
         DEF BackupsInv, RetryShortensBackups, Fresh
    <3>6. result[worker[w].task] = "PENDING"
      BY <1>0 DEF StatusInv, StatusOf
    <3> QED
      BY <3>5, <3>6
  <2>4. \A r \in Routes : r # q => route'[r] = route[r]
    BY <1>0, <1>1, <1>4, SaveEffect
  <2>5. \A r \in Routes : Calculated(r)' =>
          \/ Calculated(r)
          \/ ~Free(r) /\ Free(r)' /\ NewestIsWell(r)'
    BY <1>1, <2>2, <2>3, <2>4 DEF Calculated, Exists
  <2>6. KnownMeshes'
    BY <1>0, <1>1, <1>3, <1>4, SavedMeshIsKnown
  <2>7. RecentCopy(w)' /\ RecentRaise(w)' /\ worker'[w].pc # "record"
    BY <2>1 DEF RecentCopy, RecentRaise, WritingPc
  <2> QED
    BY <1>0, <1>3, <2>5, <2>6, <2>7, RecentWorker
<1>5. CASE SaveFails(row) /\ GotoWith(w, "failed", row, "error")
  <2>1. /\ worker'[w].pc = "failed" /\ worker'[w].row = row
        /\ worker'[w].error = "error"
    BY <1>0, <1>5, GotoWithEffect, GotoWithCopy
  <2>2. UNCHANGED route /\ ~ForeignKeyHolds(row)
    BY <1>5 DEF SaveFails
  <2>3. mesh[row.mesh] = "deleted"
    BY <1>0, <1>1, <1>2, <2>2 DEF ForeignKeyHolds, Live, TypeOK, RowState
  <2>4. RecentCopy(w)' /\ RecentRaise(w)' /\ worker'[w].pc # "record"
    BY <1>1, <1>2, <1>3, <2>1, <2>3 DEF RecentCopy, RecentRaise
  <2> QED
    BY <1>0, <1>3, <2>2, <2>4, RecentHeld
<1> QED
  BY <1>3, <1>4, <1>5

\* A worker that is done: it returns, raises, or dies, or what it stores then
\* is refused.
LEMMA FinishRecent ==
    ASSUME SystemInv, RecentInv, UNCHANGED admin, NEW w \in Workers, Finish(w),
           Return(w) \/ Raise(w) \/ WorkerCrash(w) \/ StoreRefused(w)
    PROVE  RecentInv'
<1>0. TypeInv /\ TypeOK /\ (WorkerStep(w) \/ WorkerDies(w)) /\ Finish(w)
  BY DEF SystemInv, Inv, TypeInv, WorkerStep, WorkerDies
<1>1. UNCHANGED <<route, args>> /\ worker'[w].pc = "idle"
  BY <1>0, FinishEffect
     DEF Return, Raise, WorkerCrash, StoreRefused, tables, celery
<1>2. \A t \in Tasks : result'[t] = "FAILURE" =>
        \/ result[t] = "FAILURE"
        \/ t = worker[w].task /\ worker[w].pc = "raise"
  BY <1>0 DEF TypeOK, Return, Raise, WorkerCrash, StoreRefused, celery
<1>3. worker[w].pc = "raise" =>
        \/ ~HasFewest(worker[w].task)
        \/ RouteOf(w) \in admin.edited
        \/ ~Calculated(RouteOf(w))
  BY DEF RecentInv, RecentRaise
<1>4. RecentCopy(w)' /\ RecentRaise(w)' /\ worker'[w].pc # "record"
  BY <1>1 DEF RecentCopy, RecentRaise, WritingPc
<1> QED
  BY <1>0, <1>1, <1>2, <1>3, <1>4, RecentHeld DEF RouteOf

\* The handler of a worker whose state is refused raises.
LEMMA RefusedRecent ==
    ASSUME SystemInv, RecentInv, UNCHANGED admin, NEW w \in Workers,
           StoreRefused(w)
    PROVE  RecentInv'
<1>1. CASE Finish(w)
  BY <1>1, FinishRecent
<1>2. CASE ~Finish(w)
  <2>0. /\ TypeInv /\ TypeOK /\ worker[w].pc = "failed" /\ WorkerStep(w)
        /\ UNCHANGED <<mesh, route, args, queue, result, post>>
        /\ Goto(w, "raise")
    BY <1>2 DEF StoreRefused, SystemInv, Inv, TypeInv, WorkerStep, tables,
       celery, web
  <2>1. /\ worker'[w].pc = "raise" /\ worker'[w].task = worker[w].task
        /\ \A v \in Workers : v # w => worker'[v] = worker[v]
    BY <2>0, GotoEffect
  <2> QED
    BY <2>0, <2>1, RaisesUncalculated, RecentHeld DEF WritingPc
<1> QED
  BY <1>1, <1>2

LEMMA MarkFailureRecent ==
    ASSUME SystemInv, RecentInv, UNCHANGED admin, NEW w \in Workers,
           MarkFailure(w)
    PROVE  RecentInv'
<1>0. /\ TypeInv /\ TypeOK /\ worker[w].pc = "failed" /\ WorkerStep(w)
      /\ UNCHANGED <<mesh, route, args, queue, post>>
      /\ result' = [result EXCEPT ![worker[w].task] = "FAILURE"]
      /\ Goto(w, Handler(w))
  BY DEF MarkFailure, SystemInv, Inv, TypeInv, WorkerStep, tables, web
<1>1. /\ worker'[w].pc = Handler(w) /\ worker'[w].task = worker[w].task
      /\ worker'[w].row = worker[w].row
      /\ \A v \in Workers : v # w => worker'[v] = worker[v]
  BY <1>0, GotoEffect, GotoCopy
<1>2. RouteOf(w) \notin admin.edited => ~Calculated(RouteOf(w))
  BY <1>0, WrittenIsNotCalculated DEF WritingPc
<1>3. \A t \in Tasks : result'[t] = "FAILURE" =>
        \/ result[t] = "FAILURE"
        \/ args[t].route \in admin.edited
        \/ ~Calculated(args[t].route)
  BY <1>0, <1>2 DEF TypeOK, RouteOf
<1>4. CASE Handler(w) = "raise"
  BY <1>0, <1>1, <1>3, <1>4, RaisesUncalculated, RecentHeld DEF WritingPc
<1>5. CASE Handler(w) # "raise"
  <2>1. /\ worker'[w].pc \in {"retry", "error"}
        /\ worker'[w].pc = "retry" => worker[w].error = "inaccessible"
    BY <1>1, <1>5 DEF Handler
  <2>2. RecentCopy(w)' /\ RecentRaise(w)' /\ worker'[w].pc # "record"
    BY <1>0, <1>1, <2>1 DEF RecentInv, RecentCopy, RecentRaise, RouteOf, WritingPc
  <2> QED
    BY <1>0, <1>3, <2>2, RecentHeld
<1> QED
  BY <1>4, <1>5

LEMMA RetryRecent ==
    ASSUME SystemInv, RecentInv, UNCHANGED admin, NEW w \in Workers,
           RetryOnNextMesh(w)
    PROVE  RecentInv'
<1> DEFINE next == Head(BackupsOf(w))
           row == Redirected(worker[w].row, next)
<1>0. /\ TypeInv /\ TypeOK /\ worker[w].pc = "retry" /\ WorkerStep(w)
      /\ UNCHANGED <<mesh, args, queue, result, post>>
  BY DEF RetryOnNextMesh, SystemInv, Inv, TypeInv, WorkerStep, celery, web
<1>1. /\ worker[w].row \in Row
      /\ worker[w].row.calculated => RouteOf(w) \in admin.edited
  BY <1>0, WrittenIsNotCalculated DEF RecentInv, RecentCopy, WritingPc
<1>2. row.mesh = next /\ row.calculated = worker[w].row.calculated
  BY <1>1 DEF Redirected, Row
<1> HIDE DEF row
<1>3. \/ /\ next \in Live /\ Save(RouteOf(w), row)
         /\ GotoWith(w, "resend", row, worker[w].error)
      \/ UNCHANGED route /\ Goto(w, "raise")
  BY DEF RetryOnNextMesh, SaveFails, row
<1>4. CASE /\ next \in Live /\ Save(RouteOf(w), row)
           /\ GotoWith(w, "resend", row, worker[w].error)
  <2>1. /\ worker'[w].pc = "resend" /\ worker'[w].row = row
        /\ worker'[w].task = worker[w].task
    BY <1>0, <1>4, GotoWithEffect, GotoWithCopy
  <2>2. next \in Meshes /\ mesh[next] # "unborn"
    BY <1>4 DEF Live
  <2> HIDE DEF next
  <2>3. RecentCopy(w)'
    BY <1>0, <1>1, <1>2, <2>1, <2>2 DEF RecentCopy, RouteOf
  <2> QED
    BY <1>0, <1>1, <1>2, <1>4, <2>1, <2>3, SavesUncalculated DEF WritingPc
<1>5. CASE UNCHANGED route /\ Goto(w, "raise")
  <2>1. /\ worker'[w].pc = "raise" /\ worker'[w].task = worker[w].task
        /\ \A v \in Workers : v # w => worker'[v] = worker[v]
    BY <1>0, <1>5, GotoEffect
  <2> QED
    BY <1>0, <1>5, <2>1, RaisesUncalculated, RecentHeld DEF WritingPc
<1> QED
  BY <1>3, <1>4, <1>5

\* The task of a retry has fewer backup meshes than the task that sent it.
LEMMA ResendRecent ==
    ASSUME SystemInv, RecentInv, UNCHANGED admin, NEW w \in Workers, Resend(w)
    PROVE  RecentInv'
<1> PICK q, task : q = RouteOf(w) /\ task = worker[w].task
  OBVIOUS
<1>0. TypeInv /\ TypeOK /\ KnownMeshes /\ WorkerStep(w)
  BY DEF SystemInv, Inv, TypeInv, WorkerStep, RecentInv
<1>1. /\ worker[w].pc = "resend" /\ q \in Routes
      /\ UNCHANGED <<mesh, route, result, post>>
      /\ worker'[w].task = task
      /\ \A v \in Workers : v # w => worker'[v] = worker[v]
      /\ \/ UNCHANGED <<args, queue>>
         \/ \E t \in Tasks :
              /\ args[t].route = None
              /\ args'[t] = [route |-> q, backups |-> AllButFirst(BackupsOf(w))]
              /\ \A u \in Tasks : u # t => args'[u] = args[u]
  BY <1>0, ResendEffect
<1>2. KnownMeshes' /\ \A r \in Routes : Calculated(r)' => Calculated(r)
  BY <1>0, <1>1 DEF KnownMeshes, Calculated, Exists
<1>3. ~Free(q) /\ task \in Tasks /\ args[task].route = q
  BY <1>0, <1>1, WrittenIsNotCalculated DEF WritingPc, RouteOf
<1>4. \A t \in Tasks : args'[t] = args[t] \/ args'[t].route = q
  BY <1>1
<1>5. \A t \in Tasks :
        args[t].route # None \/ args'[t].route = None \/ ~Free(args'[t].route)
  BY <1>3, <1>4
<1>6. CASE worker'[w].pc = "record"
  <2>1. ~HasFewest(task)'
    <3>1. PICK t \in Tasks :
            /\ args[t].route = None
            /\ args'[t] = [route |-> q, backups |-> AllButFirst(BackupsOf(w))]
            /\ \A u \in Tasks : u # t => args'[u] = args[u]
      <4>1. PICK t \in Tasks :
              Fresh(t) /\ Delay(t, q, AllButFirst(BackupsOf(w)))
        <5>1. ~Goto(w, "raise")
          BY <1>0, <1>6, GotoEffect
        <5> QED
          BY <5>1 DEF Resend, Delay
      <4> QED
        BY <1>0, <4>1 DEF Delay, Fresh, TypeOK
    <3>2. /\ BackupsOf(w) \in Seq(Meshes) /\ BackupsOf(w) # <<>>
          /\ BackupsOf(w) = args[task].backups
      BY <1>0, <1>1, <1>3 DEF TypeInv, TypeOK, TaskArgs, WorkerWF, BackupsOf
    <3>3. Len(AllButFirst(BackupsOf(w))) < Len(args[task].backups)
      BY <3>2, SMTT(30) DEF AllButFirst
    <3>4. task # t
      BY <1>1, <1>3, <3>1, NoneAssumption
    <3>5. /\ args'[task] = args[task] /\ args'[t].route = q
          /\ Len(args'[t].backups) < Len(args'[task].backups)
      BY <1>3, <3>1, <3>3, <3>4
    <3>6. Len(args'[task].backups) \in Nat /\ Len(args'[t].backups) \in Nat
      BY <1>3, <3>1, <3>2, <3>5 DEF AllButFirst
    <3> QED
      BY <1>3, <3>1, <3>5, <3>6 DEF HasFewest
  <2>2. RecentCopy(w)' /\ RecentRaise(w)'
    BY <1>6 DEF RecentCopy, RecentRaise, WritingPc
  <2> QED
    BY <1>0, <1>1, <1>2, <1>5, <2>1, <2>2, RecentWorker
<1>7. CASE worker'[w].pc # "record"
  <2>1. /\ worker'[w].pc = "raise" /\ UNCHANGED <<args, queue>>
    <3>1. Goto(w, "raise") /\ UNCHANGED <<args, queue>>
      BY <1>0, <1>7 DEF Resend, TypeOK, WorkerState
    <3> QED
      BY <1>0, <3>1, GotoEffect
  <2> QED
    BY <1>0, <1>1, <1>2, <1>5, <2>1, RaisesUncalculated, RecentHeld DEF WritingPc
<1> QED
  BY <1>6, <1>7

LEMMA RecordRetryRecent ==
    ASSUME SystemInv, RecentInv, UNCHANGED admin, NEW w \in Workers,
           RecordRetryJob(w)
    PROVE  RecentInv'
<1>0. /\ TypeInv /\ TypeOK /\ worker[w].pc = "record" /\ WorkerStep(w)
      /\ UNCHANGED <<route, args, result>>
      /\ Finish(w) \/ Goto(w, "raise")
  BY DEF RecordRetryJob, SystemInv, Inv, TypeInv, WorkerStep, celery
<1>1. /\ worker'[w].pc \in {"idle", "raise"}
      /\ worker'[w].pc = "raise" => worker'[w].task = worker[w].task
  BY <1>0, FinishEffect, GotoEffect
<1>2. ~HasFewest(worker[w].task)
  BY <1>0 DEF RecentInv
<1>3. RecentCopy(w)' /\ RecentRaise(w)' /\ worker'[w].pc # "record"
  BY <1>0, <1>1, <1>2 DEF RecentCopy, RecentRaise, WritingPc, HasFewest
<1> QED
  BY <1>0, <1>3, RecentHeld

LEMMA RecordErrorRecent ==
    ASSUME SystemInv, RecentInv, UNCHANGED admin, NEW w \in Workers,
           RecordError(w)
    PROVE  RecentInv'
<1> DEFINE row == [worker[w].row EXCEPT !.info = "error"]
<1>0. /\ TypeInv /\ TypeOK /\ worker[w].pc = "error" /\ WorkerStep(w)
      /\ UNCHANGED <<mesh, args, queue, result, post>>
  BY DEF RecordError, SystemInv, Inv, TypeInv, WorkerStep, celery, web
<1>1. /\ worker[w].row \in Row /\ worker[w].row.mesh \in Meshes
      /\ worker[w].row.calculated /\ RouteOf(w) \notin admin.edited =>
           mesh[worker[w].row.mesh] = "deleted"
  BY <1>0, WrittenIsNotCalculated DEF RecentInv, RecentCopy, WritingPc
<1>2. row.mesh = worker[w].row.mesh /\ row.calculated = worker[w].row.calculated
  BY <1>1 DEF Row
<1> HIDE DEF row
<1>3. \/ Save(RouteOf(w), row) /\ Finish(w)
      \/ UNCHANGED route /\ Goto(w, "raise")
  BY DEF RecordError, SaveFails, row
<1>4. CASE Save(RouteOf(w), row) /\ Finish(w)
  <2>1. worker'[w].pc = "idle"
    BY <1>0, <1>4, FinishEffect
  <2>2. row.calculated => RouteOf(w) \in admin.edited
    BY <1>1, <1>2, <1>4, NoneAssumption DEF Save, ForeignKeyHolds, Live
  <2>3. RecentCopy(w)'
    BY <2>1 DEF RecentCopy, WritingPc
  <2> QED
    BY <1>0, <1>4, <2>1, <2>2, <2>3, SavesUncalculated DEF WritingPc
<1>5. CASE UNCHANGED route /\ Goto(w, "raise")
  <2>1. /\ worker'[w].pc = "raise" /\ worker'[w].task = worker[w].task
        /\ \A v \in Workers : v # w => worker'[v] = worker[v]
    BY <1>0, <1>5, GotoEffect
  <2> QED
    BY <1>0, <1>5, <2>1, RaisesUncalculated, RecentHeld DEF WritingPc
<1> QED
  BY <1>3, <1>4, <1>5

LEMMA WorkerRecent ==
    ASSUME {"database", "kill"} \cap Events = {},
           SystemInv, BackupsInv, StatusInv, RecentInv,
           UNCHANGED admin, NEW w \in Workers, WorkerStep(w) \/ WorkerDies(w)
    PROVE  RecentInv'
<1>1. "database" \notin Events /\ ~ChildKilled(w)
  BY DEF ChildKilled
<1>2. Return(w) \/ Raise(w) \/ WorkerCrash(w) => Finish(w)
  BY DEF Return, Raise, WorkerCrash
<1> QED
  BY <1>1, <1>2, TakeRecent, SaveUnsmoothedRecent, CalculationFailsRecent,
     SaveSmoothedRecent, FinishRecent, RefusedRecent, MarkFailureRecent,
     RetryRecent, ResendRecent, RecordRetryRecent, RecordErrorRecent
     DEF WorkerStep, WorkerDies

LEMMA RecentKeeps ==
    ASSUME {"database", "kill"} \cap Events = {}
    PROVE  /\ SystemInv /\ BackupsInv /\ StatusInv /\ RecentInv
           /\ [ApiNext]_apiVars
           => RecentInv'
<1> SUFFICES ASSUME SystemInv, BackupsInv, StatusInv, RecentInv,
                    [ApiNext]_apiVars
             PROVE  RecentInv'
  OBVIOUS
<1>1. CASE AdminStep
  BY <1>1, AdminRecent
<1>2. ASSUME UNCHANGED <<vars, admin>> PROVE RecentInv'
  <2>1. TypeInv
    BY DEF SystemInv, Inv
  <2>2. FreeKept
    BY <1>2, <2>1, NextFreeKept
  <2>3. \A r \in Routes : RowKept(r)
    BY <1>2 DEF RowKept, vars
  <2> QED
    BY <1>2, <2>2, <2>3, RecentOthers DEF vars, MeshesAge
<1>3. CASE Next /\ UNCHANGED admin
  BY <1>2, <1>3, PostRecent, CancelRecent, WorkerRecent, EnvironmentRecent
     DEF Next, Rest
<1>4. CASE ~AdminStep /\ ~(Next /\ UNCHANGED admin)
  <2>1. UNCHANGED <<vars, admin>>
    BY <1>4 DEF ApiNext, apiVars, viewVars, system, ClientStep, ReadAnswer,
       Poll, GiveUp, StatusError, ReadStatus, Fetch, EvaluationStep,
       EvaluateFind, EvaluateSelect, Evaluate
  <2> QED
    BY <1>2, <2>1
<1> QED
  BY <1>1, <1>3, <1>4

LEMMA InitRecent == ApiInit => BackupsInv /\ StatusInv /\ RecentInv
<1> SUFFICES ASSUME ApiInit PROVE BackupsInv /\ StatusInv /\ RecentInv
  OBVIOUS
<1>1. Init
  BY DEF ApiInit
<1>2. admin.edited = {}
  BY DEF ApiInit, NewAdmin
<1>3. \A r \in Routes : route[r].row.mesh = None /\ ~Exists(r)
  BY <1>1 DEF Init, NoRow, Exists
<1>4. \A w \in Workers : worker[w].pc = "idle"
  BY <1>1 DEF Init, IdleWorker
<1>5. RecentInv
  BY <1>2, <1>3, <1>4
     DEF RecentInv, KnownMeshes, Calculated, RecentCopy, RecentRaise, WritingPc
<1> QED
  BY <1>1, <1>5, BackupsInit, StatusInit

\* Where the database accepts every save of a live mesh and no child process is
\* killed, whole workers die as they will: the recent routes
\* show no route as SUCCESS whose newest task has failed, though the timestamp
\* is set before the save that may fail and though a failed task saves its
\* copy once more: that copy has lost its mesh, and is refused again
\* (tasks.py:138-141, 164-165; views.py:496).
THEOREM RecentSuccessesAreTrue ==
    ASSUME {"database", "kill"} \cap Events = {}
    PROVE  ApiSpec => []RecentSuccessIsNoFailure
<1>1. ApiInit => SystemInv /\ BackupsInv /\ StatusInv /\ RecentInv
  BY InitSystem, InitRecent
<1>2. /\ SystemInv /\ BackupsInv /\ StatusInv /\ RecentInv
      /\ [ApiNext]_apiVars
      => (SystemInv /\ BackupsInv /\ StatusInv /\ RecentInv)'
  BY ApiKeeps, ApiBackups, ApiStates, RecentKeeps
<1>3. RecentInv => RecentSuccessIsNoFailure
  <2> SUFFICES ASSUME RecentInv, NEW entry \in Recent,
                      entry.status = "SUCCESS", entry.id \notin admin.edited,
                      NEW t \in Attempts(entry.id),
                      \A u \in Attempts(entry.id) :
                         Len(args[t].backups) <= Len(args[u].backups)
               PROVE  result[t] # "FAILURE"
    BY DEF RecentSuccessIsNoFailure
  <2>1. entry.id \in Routes /\ Calculated(entry.id)
    BY DEF Recent, RecentStatus, Calculated
  <2>2. t \in Tasks /\ args[t].route = entry.id /\ HasFewest(t)
    BY DEF Attempts, HasFewest
  <2> QED
    BY <2>1, <2>2 DEF RecentInv, NewestIsWell
<1> QED
  BY <1>1, <1>2, <1>3, PTL DEF ApiSpec

\* While nothing dies, every state is stored and no result expires, what a
\* client has read of a job stays, and he does not wait in vain, whatever else
\* the API does: an administrator deletes jobs and routes, and touches no task
\* (tasks.py:143-166; admin.py:38).
THEOREM StatesSurviveTheAdministrator ==
    ASSUME {"crash", "kill", "backend", "expire"} \cap Events = {}
    PROVE  ApiSpec => StatusIsFinal /\ []PendingIsLive
<1>1. ApiInit => SystemInv /\ StatusInv /\ LiveTasks
  BY InitSystem, StatusInit DEF ApiInit
<1>2. SystemInv /\ StatusInv /\ LiveTasks /\ [ApiNext]_apiVars =>
        (SystemInv /\ StatusInv /\ LiveTasks)' /\ [StatesStay]_vars
  BY ApiKeeps, ApiStates
<1>3. SystemInv /\ LiveTasks => PendingIsLive
  BY DEF SystemInv, JobsInv, JobsMatch, LiveTasks, PendingIsLive, Inv
<1>4. StatusIsFinal <=> [][StatesStay]_vars
  BY DEF StatusIsFinal, StatesStay
<1> QED
  BY <1>1, <1>2, <1>3, <1>4, PTL DEF ApiSpec

\* Nor does he lengthen a chain of retries: of two tasks of one route one has
\* fewer backup meshes, whatever is deleted or saved (tasks.py:147-158).
THEOREM RetriesSurviveTheAdministrator == ApiSpec => []RetryShortensBackups
<1>1. ApiInit => SystemInv /\ BackupsInv
  BY InitSystem, BackupsInit DEF ApiInit
<1>2. SystemInv /\ BackupsInv /\ [ApiNext]_apiVars => (SystemInv /\ BackupsInv)'
  BY ApiKeeps, ApiBackups
<1>3. BackupsInv => RetryShortensBackups
  BY DEF BackupsInv
<1> QED
  BY <1>1, <1>2, <1>3, PTL DEF ApiSpec

=============================================================================
