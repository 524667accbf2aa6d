----------------------------- MODULE RouteAdmin -----------------------------
(***************************************************************************)
(* An administrator at work on the routes and jobs of RouteJobs, through   *)
(* the admin site (route_api/admin.py).  The change form of a route offers *)
(* its names, tags and two timestamps; `calculated` may be null in the     *)
(* table but not blank in the form, so that a form which is accepted sets  *)
(* it.  The form is applied to a Route object that was read without its    *)
(* paths, and saving that object updates the columns that were read: it    *)
(* neither writes paths nor inserts a row.  Names and tags are left out.   *)
(* The administrator does one thing in a behaviour; RouteApi composes it   *)
(* with the system.                                                        *)
(***************************************************************************)
EXTENDS RouteJobs

VARIABLE admin

\* `row` is the object that a submitted form is applied to, `edited` the
\* routes that an administrator has saved.
NewAdmin(pc) == [pc |-> pc, route |-> None, row |-> NoRow, edited |-> {},
                 code |-> None]

AdminOK ==
    admin \in [pc : {"away", "ready", "save", "done"},
               route : Routes \cup {None}, row : Row,
               edited : SUBSET Routes, code : {None, 302, 500}]

----------------------------------------------------------------------------

\* POST of the change form: get_queryset defers json and json_unsmoothed.
AdminLoad(r) ==
    /\ admin.pc = "ready"
    /\ Exists(r)
    /\ admin' = [admin EXCEPT !.pc = "save", !.route = r,
                     !.row = [route[r].row EXCEPT !.json = None,
                                                  !.json_unsmoothed = None]]
    /\ UNCHANGED vars

\* A mutant: no defer(), and save() writes every column of the object.
AdminRowInFull(r) == [admin.row EXCEPT !.calculated = TRUE]

\* The row of r after the columns of the object were written into it.
AdminRow(r) == [admin.row EXCEPT !.calculated = TRUE,
                                 !.json = route[r].row.json,
                                 !.json_unsmoothed = route[r].row.json_unsmoothed]

\* save() of some columns raises DatabaseError when it updates no row.
AdminSave ==
    /\ admin.pc = "save"
    /\ LET r == admin.route
       IN  \/ /\ Exists(r)
              /\ Save(r, AdminRow(r))
              /\ admin' = [NewAdmin("done") EXCEPT !.edited = {r},
                                                   !.code = 302]
           \/ /\ ~Exists(r) \/ ~ForeignKeyHolds(admin.row)
              /\ admin' = [NewAdmin("done") EXCEPT !.code = 500]
              /\ UNCHANGED route
    /\ UNCHANGED <<mesh, jobs, celery, web, worker>>

\* Routes are deleted in whatever state, with their jobs; a job goes alone.
AdminDeleteRoute(r) ==
    /\ admin.pc = "ready"
    /\ Exists(r)
    /\ DeleteRoute(r)
    /\ admin' = [admin EXCEPT !.pc = "done", !.code = 302]
    /\ UNCHANGED <<mesh, celery, web, worker>>

AdminDeleteJob(t) ==
    /\ admin.pc = "ready"
    /\ jobs[t].route # None
    /\ jobs' = [jobs EXCEPT ![t] = NoJob]
    /\ admin' = [admin EXCEPT !.pc = "done", !.code = 302]
    /\ UNCHANGED <<mesh, route, celery, web, worker>>

AdminStep ==
    \/ \E r \in Routes : AdminLoad(r) \/ AdminDeleteRoute(r)
    \/ AdminSave
    \/ \E t \in Tasks : AdminDeleteJob(t)

----------------------------------------------------------------------------
(* Safety *)

\* Whatever an administrator saves and however old the object he saves is,
\* a job that reads SUCCESS keeps its route: the row, unless it was deleted,
\* has the smoothed paths and the timestamp that clients look for, and its
\* paths were found on one mesh (admin.py:38; tasks.py:136-143).
SuccessKeepsPaths ==
    \A t \in Tasks :
        LET r == args[t].route
        IN  result[t] = "SUCCESS" /\ r \in Routes /\ Exists(r) =>
                LET row == route[r].row
                IN  /\ row.calculated /\ row.json # None
                    /\ row.json = row.json_unsmoothed

=============================================================================
