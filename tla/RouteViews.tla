----------------------------- MODULE RouteViews -----------------------------
(***************************************************************************)
(* What clients read of the route jobs: GET /api/job/<id> (JobView and     *)
(* JobStatusSerializer), the GET /api/route/<id> its answer leads to       *)
(* (RouteDetailView and RouteSerializer), and the status column of         *)
(* GET /api/recent_routes.                                                 *)
(*                                                                         *)
(* The job serializer reads the result backend for each of its fields and  *)
(* the Route table once, and workers go on in between.  The module adds    *)
(* one such reader, with one action per read, to the system of RouteJobs   *)
(* and RouteAdmin.                                                         *)
(***************************************************************************)
EXTENDS RouteAdmin

VARIABLE reader

system == vars
viewVars == <<system, admin, reader>>

ReaderPc == {"away", "ready", "job", "status", "route", "url", "answered",
             "followed"}

\* `seen` is the AsyncResult that the serializer caches, `row` the Route
\* object that Django caches on the job; status, url and info are the answer
\* and detail is what the URL led to.
ReaderOK ==
    reader \in [pc : ReaderPc, job : Tasks \cup {None},
                seen : {"PENDING", "SUCCESS", "FAILURE"},
                found : BOOLEAN, row : Row,
                status : {None, "PENDING", "SUCCESS", "FAILURE"},
                url : Routes \cup {None},
                info : {None, "none", "note", "error"},
                code : {None, 200, 404, 500},
                detail : {None, "smoothed", "smoothing failed", "no routes"}]

NewReader(pc) == [pc |-> pc, job |-> None, seen |-> "PENDING",
                  found |-> FALSE, row |-> NoRow, status |-> None,
                  url |-> None, info |-> None, code |-> None, detail |-> None]

----------------------------------------------------------------------------
(* GET /api/job/<id> *)

JobGet(t) ==
    /\ reader.pc = "ready"
    /\ reader' = IF jobs[t].route # None
                 THEN [reader EXCEPT !.pc = "job", !.job = t]
                 ELSE [reader EXCEPT !.pc = "answered", !.code = 404]

\* A mutant: a new AsyncResult for each field.
StateUncached == result[reader.job]

\* AsyncResult.state asks the backend until it has seen a final state.
State == IF reader.seen = "PENDING" THEN result[reader.job] ELSE reader.seen

GetStatus ==
    /\ reader.pc = "job"
    /\ reader' = [reader EXCEPT !.pc = "status", !.status = State,
                                !.seen = State]

\* The field route_id loads job.route; a missing row reads None there.
GetRouteId ==
    /\ reader.pc = "status"
    /\ LET r == args[reader.job].route
       IN  reader' = [reader EXCEPT !.pc = "route", !.found = Exists(r),
                          !.row = IF Exists(r) THEN route[r].row ELSE NoRow]

\* obj.route in the fields below: the object that was read, or else, as a
\* failed look-up is not cached, the row that a worker has revived since.
\* Without either it raises.
RouteRead == reader.found \/ Exists(args[reader.job].route)
RowRead == IF reader.found THEN reader.row ELSE route[args[reader.job].route].row

GetRouteUrl ==
    /\ reader.pc = "route"
    /\ reader' = CASE State # "SUCCESS" ->
                        [reader EXCEPT !.pc = "url", !.seen = State]
                   [] State = "SUCCESS" /\ RouteRead ->
                        [reader EXCEPT !.pc = "url", !.seen = State,
                                       !.url = args[reader.job].route]
                   [] OTHER ->
                        [reader EXCEPT !.pc = "answered", !.code = 500]

GetInfo ==
    /\ reader.pc = "url"
    /\ reader' = CASE State # "FAILURE" ->
                        [reader EXCEPT !.pc = "answered", !.code = 200]
                   [] State = "FAILURE" /\ RouteRead ->
                        [reader EXCEPT !.pc = "answered", !.code = 200,
                                       !.seen = State, !.info = RowRead.info]
                   [] OTHER ->
                        [reader EXCEPT !.pc = "answered", !.code = 500]

----------------------------------------------------------------------------
(* GET /api/route/<id>, and the recent routes *)

\* A mutant: the paths without the answer around them.
RouteDetailBare(row) ==
    IF row.json # None THEN row.json ELSE "no routes"

\* RouteSerializer: smoothed paths if there are any, else unsmoothed ones
\* with the warning that smoothing failed, else an error.
RouteDetail(row) ==
    IF row.json # None THEN "smoothed"
    ELSE IF row.json_unsmoothed # None THEN "smoothing failed"
    ELSE "no routes"

FollowUrl ==
    /\ reader.pc = "answered" /\ reader.url # None
    /\ reader' = IF Exists(reader.url)
                 THEN [reader EXCEPT !.pc = "followed", !.code = 200,
                           !.detail = RouteDetail(route[reader.url].row)]
                 ELSE [reader EXCEPT !.pc = "followed", !.code = 404]

\* RecentRoutesView._get_celery_task_status, from the Route row alone.
RecentStatus(row) ==
    IF row.calculated THEN "SUCCESS"
    ELSE IF row.info = "error" THEN "FAILURE"
    ELSE "PENDING"

\* RecentRoutesView joins the routes with their jobs: a route is listed once
\* for each of its jobs, or once without a job.  All routes of a run are
\* younger than a day.
Recent ==
    {entry \in [id : Routes, job : Tasks \cup {None},
                status : {"SUCCESS", "FAILURE", "PENDING"}] :
        LET r == entry.id
        IN  /\ Exists(r)
            /\ entry.status = RecentStatus(route[r].row)
            /\ IF JobSet(jobs, r) = {} THEN entry.job = None
               ELSE entry.job \in JobSet(jobs, r)}

JobFields == GetStatus \/ GetRouteId \/ GetRouteUrl \/ GetInfo

----------------------------------------------------------------------------
(* Safety *)

\* The URL in the answer of a job leads to smoothed paths or, when the route
\* was cancelled or cleaned up in the meantime, to 404: never to the "no
\* routes" error or the smoothing warning (serializers.py:57-64, 220-234).
UrlLeadsToPaths ==
    reader.pc = "followed" /\ reader.code = 200 => reader.detail = "smoothed"

\* What a GET of a job ends with although each field asks the backend again: a
\* final status is borne out by the fields after it, SUCCESS by the URL, and
\* FAILURE has none; URL and info never come together; and the GET raises only
\* over a job that is gone with its route (serializers.py:42-71).  A PENDING
\* answer may have either field, which docs/requesting-routes.md:112 excludes.
FinalStatusIsBorneOut ==
    reader.pc = "answered" =>
        /\ reader.code = 200 =>
              /\ reader.status = "SUCCESS" => reader.url # None
              /\ reader.status = "FAILURE" => reader.url = None
              /\ reader.url = None \/ reader.info = None
        /\ reader.code = 500 => jobs[reader.job].route = None

Attempts(r) == {t \in Tasks : args[t].route = r}

\* The recent routes never show as SUCCESS a route whose newest attempt, the
\* one with the fewest backup meshes left, has failed, whatever its older
\* jobs read (tasks.py:118-166), unless an administrator has set its timestamp.
\* It is said of whole workers that die, not of a child that is killed after
\* its last save (141): the parent then stores FAILURE beside the timestamp.
RecentSuccessIsNoFailure ==
    \A entry \in Recent :
        entry.status = "SUCCESS" /\ entry.id \notin admin.edited =>
            \A t \in Attempts(entry.id) :
                (\A u \in Attempts(entry.id) :
                    Len(args[t].backups) <= Len(args[u].backups))
                => result[t] # "FAILURE"

\* A route that the recent routes show as FAILURE stays so until it is
\* deleted: no retry and no other worker brings it back (tasks.py:164-166),
\* only the timestamp of an administrator hides the failure.
RecentFailureIsFinal ==
    [][\A entry \in Recent : entry.status = "FAILURE" =>
         \A later \in Recent' :
           later.id = entry.id /\ later.id \notin admin'.edited
             => later.status = "FAILURE"]_viewVars

=============================================================================
