----------------------------- MODULE RouteJobs -----------------------------
(***************************************************************************)
(* Life of a route calculation: POST /api/route and DELETE /api/job/<id>   *)
(* (route_api/views.py) in concurrent web threads, the Celery task         *)
(* optimise_route (route_api/tasks.py) in concurrent workers, the tables   *)
(* they share, the task queue and the result backend.                      *)
(*                                                                         *)
(* Every ORM statement commits on its own (the project sets no             *)
(* ATOMIC_REQUESTS), so an action ends where the code next touches the     *)
(* database, the broker or the result backend.  The broker removes a task  *)
(* when a worker takes it (Celery's default early acknowledgement).        *)
(***************************************************************************)
EXTENDS RouteLookup

CONSTANTS
    Posts,      \* POST requests that may arrive, one web thread each
    Cancels,    \* DELETE requests that may arrive, one web thread each
    Workers,    \* Celery worker processes
    Bodies,     \* [trip, mesh_id, force_new_route] of the POST requests
    Stored,     \* the meshes in the database at the start
    PlanErrors, \* what RoutePlanner may raise, a subset of PlanErrorKinds
    Events      \* what the environment may do, a subset of EventKinds

\* The message of a route that is not reachable, any other message, or an
\* exception on which the handler's own test of e.args[0] raises.
PlanErrorKinds == {"inaccessible", "error", "odd"}

EventKinds == {"crash",             \* a web process or a whole worker dies
               "kill",              \* a worker's child process dies in a task
               "broker",            \* the broker refuses a call
               "backend",           \* the result backend refuses a state
               "database",          \* a write to a Route row or its tags fails
               "invalid",           \* coordinates of a POST are no numbers
               "expire",            \* celery.backend_cleanup drops a result
               "import",            \* a mesh is ingested
               "malformed",         \* a mesh lacks what check_mesh_data reads
               "cleanup_meshes",    \* cleanup_meshes, or an admin, deletes one
               "cleanup_routes"}    \* cleanup_routes deletes a route

ASSUME EventsAssumption ==
    Events \subseteq EventKinds /\ PlanErrors \subseteq PlanErrorKinds

ASSUME BodiesAssumption ==
    Bodies \subseteq [trip : Trips, mesh_id : Meshes \cup {None},
                      force_new_route : BOOLEAN]

ASSUME StoredAssumption == Stored \subseteq Meshes

VARIABLES
    mesh,       \* Mesh table: "unborn", "stored" or "deleted" for each id
    route,      \* Route table: [state, row] for each id
    jobs,       \* Job table: [route, after] for each task id, see NoJob
    args,       \* arguments each task was sent with
    queue,      \* tasks in the broker
    result,     \* what AsyncResult(id).state reads for each task
    post,       \* local state of each POST
    cancel,     \* local state of each DELETE
    worker      \* local state of each Celery worker

vars == <<mesh, route, jobs, args, queue, result, post, cancel, worker>>
tables == <<mesh, route, jobs>>
celery == <<args, queue, result>>
web == <<post, cancel>>

----------------------------------------------------------------------------
(* Rows and local states *)

RowState == {"unborn", "stored", "deleted"}

\* A Route row, its paths reduced to the mesh they were computed on.
Row == [trip : Trips \cup {None},
        mesh : Meshes \cup {None},
        json_unsmoothed : Meshes \cup {None},
        json : Meshes \cup {None},
        calculated : BOOLEAN,
        info : {"none", "note", "error"}]

NoRow == [trip |-> None, mesh |-> None, json_unsmoothed |-> None,
          json |-> None, calculated |-> FALSE, info |-> "none"]

\* Job.datetime orders the jobs of a route: `after` holds the older ones.
NoJob == [route |-> None, after |-> {}]

NoArgs == [route |-> None, backups |-> <<>>]

IdlePost(body) ==
    [pc |-> "ready", body |-> body, day |-> None, meshes |-> <<>>,
     route |-> None, task |-> None, code |-> None]

IdleCancel == [pc |-> "ready", job |-> None, route |-> None, code |-> None]

IdleWorker == [pc |-> "idle", task |-> None, row |-> NoRow, error |-> "none",
               next |-> None]

PostPc == {"ready", "lookup", "reuse", "create", "send", "record", "done",
           "crashed"}
CancelPc == {"ready", "found", "revoked", "done", "crashed"}
WorkerPc == {"idle", "plan", "smooth", "return", "failed", "retry", "resend",
             "record", "error", "raise"}
Code == {None, 202, 400, 404, 500}

RouteRow == [state : RowState, row : Row]
JobRow == [route : Routes \cup {None}, after : SUBSET Tasks]
TaskArgs == [route : Routes \cup {None}, backups : Seq(Meshes)]
Result == {"PENDING", "SUCCESS", "FAILURE"}

PostState == [pc : PostPc, body : Bodies, day : Nat \cup {None},
              meshes : Seq(Meshes), route : Routes \cup {None},
              task : Tasks \cup {None}, code : Code]

CancelState == [pc : CancelPc, job : Tasks \cup {None},
                route : Routes \cup {None}, code : Code]

WorkerState == [pc : WorkerPc, task : Tasks \cup {None}, row : Row,
                error : PlanErrorKinds \cup {"none"},
                next : Tasks \cup {None}]

TypeOK ==
    /\ mesh \in [Meshes -> RowState]
    /\ route \in [Routes -> RouteRow]
    /\ jobs \in [Tasks -> JobRow]
    /\ args \in [Tasks -> TaskArgs]
    /\ queue \subseteq Tasks
    /\ result \in [Tasks -> Result]
    /\ post \in [Posts -> PostState]
    /\ cancel \in [Cancels -> CancelState]
    /\ worker \in [Workers -> WorkerState]

Init ==
    /\ mesh = [m \in Meshes |-> IF m \in Stored THEN "stored" ELSE "unborn"]
    /\ route = [r \in Routes |-> [state |-> "unborn", row |-> NoRow]]
    /\ jobs = [t \in Tasks |-> NoJob]
    /\ args = [t \in Tasks |-> NoArgs]
    /\ queue = {}
    /\ result = [t \in Tasks |-> "PENDING"]
    /\ post \in [Posts -> {IdlePost(body) : body \in Bodies}]
    /\ cancel = [c \in Cancels |-> IdleCancel]
    /\ worker = [w \in Workers |-> IdleWorker]

----------------------------------------------------------------------------
(* The tables and the broker as the processes see them *)

Live == {m \in Meshes : mesh[m] = "stored"}
Exists(r) == route[r].state = "stored"
Fresh(t) == args[t].route = None

\* Whether PostgreSQL accepts the mesh_id foreign key of a row.
ForeignKeyHolds(row) == row.mesh = None \/ row.mesh \in Live

\* Model.save() updates the row, or inserts it again when no row has its id.
\* A row whose foreign key dangles is refused with IntegrityError.
Save(r, row) ==
    /\ ForeignKeyHolds(row)
    /\ route' = [route EXCEPT ![r] = [state |-> "stored", row |-> row]]

SaveFails(row) ==
    /\ ~ForeignKeyHolds(row) \/ "database" \in Events
    /\ route' = route

\* A mutant: no cascade to the jobs.
DeleteRouteOnly(r) ==
    /\ route' = [route EXCEPT ![r] =
                    IF Exists(r) THEN [state |-> "deleted", row |-> NoRow]
                    ELSE @]
    /\ UNCHANGED jobs

\* Route.delete(), with the cascade to the jobs of the route.
DeleteRoute(r) ==
    /\ route' = [route EXCEPT ![r] =
                    IF Exists(r) THEN [state |-> "deleted", row |-> NoRow]
                    ELSE @]
    /\ jobs' = [t \in Tasks |-> IF jobs[t].route = r THEN NoJob ELSE jobs[t]]

\* A mutant: the whole list is passed on, slice [1:] forgotten.
AllButNone(meshes) == meshes

\* meshes[1:] of the POST and backup_mesh_ids[1:] of the retry.
AllButFirst(meshes) == Tail(meshes)

\* optimise_route.delay(r, backups), which returns the id t of the task.
Delay(t, r, backups) ==
    /\ Fresh(t)
    /\ args' = [args EXCEPT ![t] = [route |-> r, backups |-> backups]]
    /\ queue' = queue \cup {t}

\* Job.objects.create(id=t, route=r), refused when the route is gone.
CreateJob(t, r) ==
    /\ Exists(r)
    /\ jobs' = [jobs EXCEPT ![t] = [route |-> r, after |-> JobSet(jobs, r)]]

LatestJobs(r) ==
    {t \in JobSet(jobs, r) : JobSet(jobs, r) \subseteq jobs[t].after \cup {t}}

----------------------------------------------------------------------------
(* POST /api/route *)

Answer(p, code, t) ==
    post' = [post EXCEPT ![p] = [@ EXCEPT !.pc = "done", !.code = code,
                                          !.task = t, !.day = None,
                                          !.meshes = <<>>, !.route = None]]

\* The custom mesh of the body, or the date of the latest containing mesh.  Of
\* a POST whose coordinates are no numbers nothing else is read.
PostSelect(p) ==
    /\ post[p].pc = "ready"
    /\ LET body == post[p].body
           containing == Containing(Live, body.trip)
       IN  \/ /\ body.mesh_id = None
              /\ \E m \in Latest(containing) :
                   post' = [post EXCEPT ![p].pc = "lookup", ![p].day = Day[m]]
           \/ /\ body.mesh_id \in Live
              /\ post' = [post EXCEPT ![p].pc = "lookup"]
           \/ /\ \/ body.mesh_id = None /\ containing = {}
                 \/ body.mesh_id \in Meshes \ Live
              /\ Answer(p, 404, None)
           \/ "invalid" \in Events /\ Answer(p, 400, None)
    /\ UNCHANGED <<tables, celery, cancel, worker>>

CandidateLists(p) ==
    LET body == post[p].body
    IN  IF body.mesh_id # None THEN {<<body.mesh_id>>}
        ELSE SelectMesh(Live, body.trip, post[p].day)

\* The second query of select_mesh and the look for a stored route.  A mesh
\* may be deleted after the first query: meshes[0] of an empty list raises.
PostLookup(p) ==
    /\ post[p].pc = "lookup"
    /\ \E meshes \in CandidateLists(p) :
        LET body == post[p].body
            found == RouteExists(route, jobs, result, meshes, body.trip)
        IN  \/ /\ ~body.force_new_route
               /\ \E r \in found :
                    post' = [post EXCEPT ![p].pc = "reuse", ![p].route = r,
                                         ![p].meshes = meshes]
            \/ /\ found = {} \/ body.force_new_route
               /\ meshes # <<>>
               /\ post' = [post EXCEPT ![p].pc = "create",
                                       ![p].meshes = meshes]
            \/ /\ found = {} \/ body.force_new_route
               /\ meshes = <<>>
               /\ Answer(p, 500, None)
    /\ UNCHANGED <<tables, celery, cancel, worker>>

\* existing_route.job_set.latest("datetime") raises when there is no job.
PostReuse(p) ==
    /\ post[p].pc = "reuse"
    /\ LET r == post[p].route
       IN  IF JobSet(jobs, r) = {} THEN Answer(p, 500, None)
           ELSE \E t \in LatestJobs(r) : Answer(p, 202, t)
    /\ UNCHANGED <<tables, celery, cancel, worker>>

PostCreate(p) ==
    /\ post[p].pc = "create"
    /\ LET row == [NoRow EXCEPT !.trip = post[p].body.trip,
                                !.mesh = Head(post[p].meshes)]
       IN  \/ \E r \in Routes :
                /\ route[r].state = "unborn"
                /\ Save(r, row)
                /\ post' = [post EXCEPT ![p].pc = "send", ![p].route = r]
           \/ SaveFails(row) /\ Answer(p, 500, None)
    /\ UNCHANGED <<mesh, jobs, celery, cancel, worker>>

\* The tags are added before the task is sent.  When either is refused, the
\* row that was created stays.
PostSend(p) ==
    /\ post[p].pc = "send"
    /\ \/ \E t \in Tasks :
            /\ Delay(t, post[p].route, AllButFirst(post[p].meshes))
            /\ post' = [post EXCEPT ![p].pc = "record", ![p].task = t]
       \/ /\ {"broker", "database"} \cap Events # {}
          /\ Answer(p, 500, None)
          /\ UNCHANGED <<args, queue>>
    /\ UNCHANGED <<tables, result, cancel, worker>>

\* A mutant: the thread waits for a route that was deleted.
PostRecordWaits(p) ==
    /\ post[p].pc = "record"
    /\ CreateJob(post[p].task, post[p].route)
    /\ Answer(p, 202, post[p].task)
    /\ UNCHANGED <<mesh, route, celery, cancel, worker>>

PostRecord(p) ==
    /\ post[p].pc = "record"
    /\ \/ /\ CreateJob(post[p].task, post[p].route)
          /\ Answer(p, 202, post[p].task)
       \/ /\ ~Exists(post[p].route)
          /\ Answer(p, 500, None)
          /\ UNCHANGED jobs
    /\ UNCHANGED <<mesh, route, celery, cancel, worker>>

PostCrash(p) ==
    /\ "crash" \in Events
    /\ post[p].pc \notin {"ready", "done", "crashed"}
    /\ post' = [post EXCEPT ![p] = [IdlePost(@.body) EXCEPT !.pc = "crashed"]]
    /\ UNCHANGED <<tables, celery, cancel, worker>>

PostStep(p) ==
    \/ PostLookup(p) \/ PostReuse(p) \/ PostCreate(p) \/ PostSend(p)
    \/ PostRecord(p)

----------------------------------------------------------------------------
(* DELETE /api/job/<id> *)

CancelFind(c) ==
    /\ cancel[c].pc = "ready"
    /\ \E t \in Tasks :
        \/ /\ jobs[t].route # None
           /\ cancel' = [cancel EXCEPT ![c].pc = "found", ![c].job = t,
                                       ![c].route = jobs[t].route]
        \/ /\ jobs[t].route = None
           /\ cancel' = [cancel EXCEPT ![c].pc = "done", ![c].code = 404]
    /\ UNCHANGED <<tables, celery, post, worker>>

\* job.route, which raises when the row is gone, and result.revoke().  The
\* Job object goes on when only its row is gone.  Workers run with remote
\* control disabled: the revocation that the broker accepts reaches none.
CancelRevoke(c) ==
    /\ cancel[c].pc = "found"
    /\ \/ /\ Exists(cancel[c].route)
          /\ cancel' = [cancel EXCEPT ![c].pc = "revoked"]
       \/ /\ ~Exists(cancel[c].route) \/ "broker" \in Events
          /\ cancel' = [cancel EXCEPT ![c].pc = "done", ![c].code = 500]
    /\ UNCHANGED <<tables, celery, post, worker>>

CancelDelete(c) ==
    /\ cancel[c].pc = "revoked"
    /\ DeleteRoute(cancel[c].route)
    /\ cancel' = [cancel EXCEPT ![c].pc = "done", ![c].code = 202]
    /\ UNCHANGED <<mesh, celery, post, worker>>

CancelCrash(c) ==
    /\ "crash" \in Events
    /\ cancel[c].pc \in {"found", "revoked"}
    /\ cancel' = [cancel EXCEPT ![c].pc = "crashed"]
    /\ UNCHANGED <<tables, celery, post, worker>>

CancelStep(c) == CancelRevoke(c) \/ CancelDelete(c)

----------------------------------------------------------------------------
(* The task optimise_route in a Celery worker *)

RouteOf(w) == args[worker[w].task].route
BackupsOf(w) == args[worker[w].task].backups

Goto(w, pc) == worker' = [worker EXCEPT ![w].pc = pc]

GotoWith(w, pc, row, error) ==
    worker' = [worker EXCEPT ![w].pc = pc, ![w].row = row, ![w].error = error]

Finish(w) == worker' = [worker EXCEPT ![w] = IdleWorker]

\* The copy of the row with its Dijkstra paths, with its smoothed paths, and
\* redirected to the next mesh.  Mutants of the first and the last: the
\* timestamp is set before smoothing, the note is recorded as an error.
UnsmoothedTooSoon(row) ==
    [row EXCEPT !.json_unsmoothed = row.mesh, !.calculated = TRUE]
Unsmoothed(row) == [row EXCEPT !.json_unsmoothed = row.mesh]
Smoothed(row) == [row EXCEPT !.json = row.mesh, !.calculated = TRUE]
RedirectedByError(row, next) == [row EXCEPT !.info = "error", !.mesh = next]
Redirected(row, next) == [row EXCEPT !.info = "note", !.mesh = next]

\* A worker takes a task, which the broker then forgets, and reads the route
\* and its mesh.  A missing route or mesh raises outside the try block, and
\* so does check_mesh_data when an entry of the mesh's data sources has no
\* loader or no list of files.  A mesh from before today, or with too little
\* data, leaves a note in the copy of the row.
Take(w) ==
    /\ worker[w].pc = "idle"
    /\ \E t \in queue :
        /\ queue' = queue \ {t}
        /\ LET r == args[t].route
               taken == [IdleWorker EXCEPT !.task = t]
           IN  \/ /\ Exists(r) /\ route[r].row.mesh # None
                  /\ \E info \in {route[r].row.info, "note"} :
                       worker' = [worker EXCEPT ![w] =
                           [taken EXCEPT !.pc = "plan",
                               !.row = [route[r].row EXCEPT !.info = info]]]
               \/ /\ \/ ~Exists(r) \/ route[r].row.mesh = None
                     \/ "malformed" \in Events
                  /\ worker' = [worker EXCEPT ![w] =
                                    [taken EXCEPT !.pc = "raise"]]
    /\ UNCHANGED <<tables, args, result, web>>

\* RoutePlanner finds Dijkstra paths for both objectives, and the route is
\* saved before it is smoothed.
SaveUnsmoothed(w) ==
    /\ worker[w].pc = "plan"
    /\ LET row == Unsmoothed(worker[w].row)
       IN  \/ Save(RouteOf(w), row) /\ GotoWith(w, "smooth", row, "none")
           \/ SaveFails(row) /\ GotoWith(w, "failed", row, "error")
    /\ UNCHANGED <<mesh, jobs, celery, web>>

PlanFails(w) ==
    /\ worker[w].pc = "plan"
    /\ \E error \in PlanErrors :
         GotoWith(w, "failed", worker[w].row, error)
    /\ UNCHANGED <<tables, celery, web>>

SaveSmoothed(w) ==
    /\ worker[w].pc = "smooth"
    /\ LET row == Smoothed(worker[w].row)
       IN  \/ Save(RouteOf(w), row) /\ GotoWith(w, "return", row, "none")
           \/ SaveFails(row) /\ GotoWith(w, "failed", row, "error")
    /\ UNCHANGED <<mesh, jobs, celery, web>>

\* Two mutants: the failure is swallowed, or takes the retry path.
SmoothFailsSilently(w) ==
    /\ worker[w].pc = "smooth"
    /\ Goto(w, "return")
    /\ UNCHANGED <<tables, celery, web>>

SmoothFailsAsPlan(w) ==
    /\ worker[w].pc = "smooth"
    /\ \E error \in PlanErrors :
         GotoWith(w, "failed", worker[w].row, error)
    /\ UNCHANGED <<tables, celery, web>>

SmoothFails(w) ==
    /\ worker[w].pc = "smooth"
    /\ \E error \in PlanErrors \ {"inaccessible"} :
         GotoWith(w, "failed", worker[w].row, error)
    /\ UNCHANGED <<tables, celery, web>>

\* A mutant: the task saves its copy once more when it returns.
ReturnSaves(w) ==
    /\ worker[w].pc = "return"
    /\ Save(RouteOf(w), worker[w].row)
    /\ result' = [result EXCEPT ![worker[w].task] = "SUCCESS"]
    /\ Finish(w)
    /\ UNCHANGED <<mesh, jobs, args, queue, web>>

Return(w) ==
    /\ worker[w].pc = "return"
    /\ result' = [result EXCEPT ![worker[w].task] = "SUCCESS"]
    /\ Finish(w)
    /\ UNCHANGED <<tables, args, queue, web>>

Handler(w) ==
    IF worker[w].error = "odd" THEN "raise"
    ELSE IF worker[w].error = "inaccessible" /\ BackupsOf(w) # <<>> THEN "retry"
    ELSE "error"

\* A mutant: no update_state.
MarkNothing(w) ==
    /\ worker[w].pc = "failed"
    /\ Goto(w, Handler(w))
    /\ UNCHANGED <<tables, celery, web>>

\* The except block: update_state, then the test that chooses the handler.
MarkFailure(w) ==
    /\ worker[w].pc = "failed"
    /\ result' = [result EXCEPT ![worker[w].task] = "FAILURE"]
    /\ Goto(w, Handler(w))
    /\ UNCHANGED <<tables, args, queue, web>>

RetryOnNextMesh(w) ==
    /\ worker[w].pc = "retry"
    /\ LET next == Head(BackupsOf(w))
           row == Redirected(worker[w].row, next)
       IN  \/ /\ next \in Live
              /\ Save(RouteOf(w), row)
              /\ GotoWith(w, "resend", row, worker[w].error)
           \/ next \in Live /\ SaveFails(row) /\ Goto(w, "raise")
           \/ next \notin Live /\ UNCHANGED route /\ Goto(w, "raise")
    /\ UNCHANGED <<mesh, jobs, celery, web>>

Resend(w) ==
    /\ worker[w].pc = "resend"
    /\ \/ \E t \in Tasks :
            /\ Delay(t, RouteOf(w), AllButFirst(BackupsOf(w)))
            /\ worker' = [worker EXCEPT ![w].pc = "record", ![w].next = t]
       \/ /\ "broker" \in Events
          /\ Goto(w, "raise")
          /\ UNCHANGED <<args, queue>>
    /\ UNCHANGED <<tables, result, web>>

\* Two mutants of raise Ignore() forgotten after a retry: the task returns,
\* and Celery stores SUCCESS; or it falls through to the error handler.
RetryReturns(w) ==
    /\ worker[w].pc = "record"
    /\ CreateJob(worker[w].next, RouteOf(w))
    /\ result' = [result EXCEPT ![worker[w].task] = "SUCCESS"]
    /\ Finish(w)
    /\ UNCHANGED <<mesh, route, args, queue, web>>

RetryFallsThrough(w) ==
    /\ worker[w].pc = "record"
    /\ CreateJob(worker[w].next, RouteOf(w))
    /\ Goto(w, "error")
    /\ UNCHANGED <<mesh, route, celery, web>>

RecordRetryJob(w) ==
    /\ worker[w].pc = "record"
    /\ \/ CreateJob(worker[w].next, RouteOf(w)) /\ Finish(w)
       \/ ~Exists(RouteOf(w)) /\ UNCHANGED jobs /\ Goto(w, "raise")
    /\ UNCHANGED <<mesh, route, celery, web>>

RecordError(w) ==
    /\ worker[w].pc = "error"
    /\ LET row == [worker[w].row EXCEPT !.info = "error"]
       IN  \/ Save(RouteOf(w), row) /\ Finish(w)
           \/ SaveFails(row) /\ Goto(w, "raise")
    /\ UNCHANGED <<mesh, jobs, celery, web>>

\* A mutant: the task is declared with autoretry.
RaiseRetries(w) ==
    /\ worker[w].pc = "raise"
    /\ result' = [result EXCEPT ![worker[w].task] = "RETRY"]
    /\ Finish(w)
    /\ UNCHANGED <<tables, args, queue, web>>

\* An exception leaves the task: Celery stores FAILURE itself.
Raise(w) ==
    /\ worker[w].pc = "raise"
    /\ result' = [result EXCEPT ![worker[w].task] = "FAILURE"]
    /\ Finish(w)
    /\ UNCHANGED <<tables, args, queue, web>>

\* update_state, or the state that Celery stores when the task ends, is
\* refused.  The handler raises, and at the end nobody tries again.
StoreRefused(w) ==
    /\ "backend" \in Events
    /\ \/ worker[w].pc = "failed" /\ Goto(w, "raise")
       \/ worker[w].pc \in {"return", "raise"} /\ Finish(w)
    /\ UNCHANGED <<tables, celery, web>>

WorkerCrash(w) ==
    /\ "crash" \in Events
    /\ worker[w].pc # "idle"
    /\ Finish(w)
    /\ UNCHANGED <<tables, celery, web>>

\* The child process that runs the task dies, and the worker, its parent,
\* stores FAILURE (WorkerLostError).  No child dies between the state it has
\* stored and its report to the parent.
ChildKilled(w) ==
    /\ "kill" \in Events
    /\ worker[w].pc # "idle"
    /\ result' = [result EXCEPT ![worker[w].task] = "FAILURE"]
    /\ Finish(w)
    /\ UNCHANGED <<tables, args, queue, web>>

\* A task ends because what runs it dies.
WorkerDies(w) == WorkerCrash(w) \/ ChildKilled(w)

WorkerStep(w) ==
    \/ Take(w) \/ SaveUnsmoothed(w) \/ PlanFails(w) \/ SaveSmoothed(w)
    \/ SmoothFails(w) \/ Return(w) \/ MarkFailure(w) \/ RetryOnNextMesh(w)
    \/ Resend(w) \/ RecordRetryJob(w) \/ RecordError(w) \/ Raise(w)
    \/ StoreRefused(w)

----------------------------------------------------------------------------
(* The rest of the deployment *)

ImportMesh(m) ==
    /\ "import" \in Events
    /\ mesh[m] = "unborn"
    /\ mesh' = [mesh EXCEPT ![m] = "stored"]
    /\ UNCHANGED <<route, jobs, celery, web, worker>>

\* Deleting a mesh sets Route.mesh to NULL (on_delete=SET_NULL).
CleanupMesh(m) ==
    /\ "cleanup_meshes" \in Events
    /\ m \in Live
    /\ mesh' = [mesh EXCEPT ![m] = "deleted"]
    /\ route' = [r \in Routes |-> IF route[r].row.mesh = m
                                  THEN [route[r] EXCEPT !.row.mesh = None]
                                  ELSE route[r]]
    /\ UNCHANGED <<jobs, celery, web, worker>>

CleanupRoute(r) ==
    /\ "cleanup_routes" \in Events
    /\ Exists(r) /\ route[r].row.calculated
    /\ DeleteRoute(r)
    /\ UNCHANGED <<mesh, celery, web, worker>>

\* Results are dropped a day after they were stored, long after the task.
ResultExpires(t) ==
    /\ "expire" \in Events
    /\ result[t] # "PENDING"
    /\ \A w \in Workers : worker[w].task # t
    /\ result' = [result EXCEPT ![t] = "PENDING"]
    /\ UNCHANGED <<tables, args, queue, web, worker>>

\* Every request is answered and no task is left: the system may rest here.
Quiescent ==
    /\ \A p \in Posts : post[p].pc \in {"done", "crashed"}
    /\ \A c \in Cancels : cancel[c].pc \in {"done", "crashed"}
    /\ queue = {}
    /\ \A w \in Workers : worker[w].pc = "idle"

Rest == Quiescent /\ UNCHANGED vars

----------------------------------------------------------------------------

Next ==
    \/ \E p \in Posts : PostSelect(p) \/ PostStep(p) \/ PostCrash(p)
    \/ \E c \in Cancels : CancelFind(c) \/ CancelStep(c) \/ CancelCrash(c)
    \/ \E w \in Workers : WorkerStep(w) \/ WorkerDies(w)
    \/ \E m \in Meshes : ImportMesh(m) \/ CleanupMesh(m)
    \/ \E r \in Routes : CleanupRoute(r)
    \/ \E t \in Tasks : ResultExpires(t)
    \/ Rest

Spec == Init /\ [][Next]_vars

\* Web threads and workers keep running once they have begun; clients need
\* not call, and the environment need not act.
Fairness ==
    /\ \A p \in Posts : WF_vars(PostStep(p))
    /\ \A c \in Cancels : WF_vars(CancelStep(c))
    /\ \A w \in Workers : WF_vars(WorkerStep(w))

FairSpec == Spec /\ Fairness

----------------------------------------------------------------------------
(* Safety *)

\* Who may still call save() on the Route object r: a POST about to send its
\* task, a task in the broker, a worker before its last save of the row.
WritingPc == {"plan", "smooth", "failed", "retry", "resend", "error"}
Sending(r) == {p \in Posts : post[p].pc = "send" /\ post[p].route = r}
Queued(r) == {t \in queue : args[t].route = r}
Writing(r) ==
    {w \in Workers : /\ worker[w].pc \in WritingPc
                     /\ RouteOf(w) = r}

NoWriter(r) == Sending(r) = {} /\ Queued(r) = {} /\ Writing(r) = {}

\* save() writes every column from the copy a worker read when it started.
\* At most one party holds the right to write a route, through any chain of
\* retries, so no worker overwrites a row with a copy that another has
\* outdated (tasks.py:57, 121, 141, 156, 165).
OneWriter ==
    \A r \in Routes :
        /\ \A p, q \in Sending(r) : p = q
        /\ \A t, u \in Queued(r) : t = u
        /\ \A v, w \in Writing(r) : v = w
        /\ Sending(r) = {} \/ (Queued(r) = {} /\ Writing(r) = {})
        /\ Queued(r) = {} \/ Writing(r) = {}

\* JobStatusSerializer gives the URL of the route as soon as the result
\* backend says SUCCESS: the row that URL reads, in another database table,
\* is calculated by then and nobody writes it any more (tasks.py:139-143).
SuccessIsCalculated ==
    \A t \in Tasks :
        result[t] = "SUCCESS" =>
            LET r == args[t].route
            IN  /\ r \in Routes => NoWriter(r)
                /\ r \in Routes /\ Exists(r) => route[r].row.calculated

\* A stored path was computed on the mesh that the row names, whatever mesh
\* the retries moved the route to, unless that mesh was deleted since
\* (tasks.py:119, 136, 155).
PathsMatchMesh ==
    \A r \in Routes :
        LET row == route[r].row
        IN  /\ row.json_unsmoothed # None =>
                  row.mesh \in {row.json_unsmoothed, None}
            /\ row.json # None => row.json = row.json_unsmoothed

\* A route with a calculated timestamp has both kinds of path and no error:
\* clients tell the states of a route apart by these columns
\* (tasks.py:118, 138; views.py:496; serializers.py:220).
CalculatedIsComplete ==
    \A r \in Routes :
        LET row == route[r].row
        IN  row.calculated => /\ row.json # None
                              /\ row.json_unsmoothed # None
                              /\ row.info # "error"

\* Each retry drops the mesh it tries, so the tasks of a route have backup
\* lists of different lengths and the chain of retries ends (tasks.py:157).
RetryShortensBackups ==
    \A t, u \in Tasks :
        /\ ~Fresh(t) /\ args[t].route = args[u].route
        /\ Len(args[t].backups) = Len(args[u].backups)
        => t = u

\* No task plans a route on a mesh that an earlier one found inaccessible
\* (views.py:442, tasks.py:155-157).
NoMeshTwice ==
    \A t \in Tasks :
        LET r == args[t].route
            backups == args[t].backups
        IN  /\ \A i, j \in DOMAIN backups : backups[i] = backups[j] => i = j
            /\ t \in queue /\ Exists(r) =>
                  \A i \in DOMAIN backups : backups[i] # route[r].row.mesh

\* A worker appends its warnings to route.info["info"], which raises KeyError
\* outside the try block if the row holds an error instead: no task is ever
\* queued for a route whose row says that it failed (tasks.py:75, 154-157, 164).
QueuedRowTakesNotes ==
    \A t \in queue :
        LET r == args[t].route
        IN  Exists(r) => route[r].row.info # "error"

\* While no worker dies, the result backend refuses no state and no result
\* expires, a job that reads PENDING has its task in the broker or in a worker:
\* it is not pending for ever (tasks.py:147-166, every path out of the task
\* leads to a state).
PendingIsLive ==
    \A t \in Tasks :
        jobs[t].route # None /\ result[t] = "PENDING" =>
            t \in queue \/ \E w \in Workers : worker[w].task = t

\* A cancelled job stays unknown to GET /api/job/<id>: the POST or the retry
\* that creates the row cannot come after the cancellation (views.py:770).
CancelledJobIsGone ==
    \A c \in Cancels :
        cancel[c].code = 202 => jobs[cancel[c].job].route = None

----------------------------------------------------------------------------
(* What no step may do *)

\* A deleted route comes back only through the save() of a worker that still
\* holds a copy of it (models.Model.save at tasks.py:121, 141, 156, 165).
OnlyWritersRevive ==
    [][\A r \in Routes :
         route[r].state = "deleted" /\ route'[r].state # "deleted"
           => Writing(r) # {}]_vars

\* Once a client has read SUCCESS or FAILURE for a job, it never reads
\* anything else: no retry and no handler revises a state, while no child is
\* killed and until the result expires (tasks.py:143, 147-166).
StatusIsFinal ==
    [][\A t \in Tasks : result[t] # "PENDING" => result'[t] = result[t]]_vars

\* A POST that reuses a route is given one on a mesh of its own list, for
\* the same trip or one with both ends in tolerance (utils.py:85-101).
ReuseIsNear ==
    [][\A p \in Posts :
         post[p].pc = "lookup" /\ post'[p].pc = "reuse" =>
            LET trip == post[p].body.trip
                row == route[post'[p].route].row
            IN  /\ row.trip = trip \/ InTolerance(trip, row.trip)
                /\ \E i \in DOMAIN post'[p].meshes : post'[p].meshes[i] = row.mesh
      ]_vars

----------------------------------------------------------------------------
(* The abstract specification *)

Phase == [r \in Routes |-> IF route[r].state = "unborn" THEN "new"
                           ELSE IF NoWriter(r) THEN "settled"
                           ELSE "working"]

Lifecycle == INSTANCE RouteLifecycle WITH phase <- Phase

\* Through requests, retries, failures, crashes and cancellations, the Route
\* table behaves as RouteLifecycle promises (views.py:412, 770; tasks.py:121,
\* 141, 156, 165): in particular what a settled route serves never changes.
ImplementsLifecycle == Lifecycle!Spec

----------------------------------------------------------------------------
(* Liveness, while nothing dies, states are stored and no result expires *)

\* Every task that was sent is given a final state, whichever calls fail on
\* its way and whatever is deleted under it (tasks.py:143-166).
EveryTaskSettles ==
    \A t \in Tasks : t \in queue ~> result[t] # "PENDING"

\* Every request that a web thread has begun is answered.
EveryRequestIsAnswered ==
    /\ \A p \in Posts : post[p].pc = "lookup" ~> post[p].pc = "done"
    /\ \A c \in Cancels : cancel[c].pc = "found" ~> cancel[c].pc = "done"

=============================================================================
