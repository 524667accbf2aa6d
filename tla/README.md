# PolarRoute-server in TLA+

PolarRoute-server is a Django application that plans ship routes through
environmental meshes.  Web threads accept requests, Celery workers calculate,
and everything they know of each other passes through three stores: the
database, the task broker and the result backend.  This directory models that
traffic, model-checks it with TLC on small instances, and proves with TLAPS,
for instances of every size, each of the safety properties, the properties of
steps and the two refinements that the runs check.

Paths below are relative to the root of the repository; `api/` stands for
`src/polarrouteserver/route_api/`.

## 1. The system

| part | state it keeps | operations | meets |
|---|---|---|---|
| Mesh selection and route lookup (`api/utils.py`, properties of `api/models.py`) | none | `select_mesh`, `route_exists`, `_closest_route_in_tolerance` | reads Mesh, Route, Job and, through `Job.status`, the result backend |
| Route calculation (`api/views.py` RouteRequestView, JobView; `api/tasks.py` optimise_route) | Route and Job rows, tasks, results, a copy of a Route row in each worker | POST `/api/route`, DELETE `/api/job/<id>`, the task with its retries, `cleanup_routes` | lookup; meshes that ingestion adds and removes |
| Views of jobs and routes (`api/serializers.py`, `api/views.py`) | an AsyncResult and a Route object cached while one answer is built | GET `/api/job/<id>`, `/api/route/<id>`, `/api/recent_routes` | all three stores |
| Mesh ingestion (`api/tasks.py` import_new_meshes, cleanup_meshes; `settings/production.py`) | Mesh rows, the beat schedule | import, clean-up, the beat | files that PolarRoute-pipeline writes meanwhile |
| `insert_mesh` (`api/management/commands/insert_mesh.py`) | Mesh rows | insert one file | the same table, with another digest |
| Vehicle store (`api/views.py` VehicleRequestView, VehicleDetailView) | Vehicle rows | POST, GET, DELETE `/api/vehicle` | itself, in other threads |
| Demonstration client (`src/request_route/request_route.py`) | a job id and a counter | POST, poll, fetch | the API |
| Route evaluation (`api/views.py` EvaluateRouteView, `api/utils.py` select_mesh_for_route_evaluation, evaluate_route) | none, but two queries | POST `/api/evaluate_route` | the Mesh table |
| Admin site (`api/admin.py`) | a Route object behind a form | edit a route, delete routes, jobs and meshes | the tables that requests and workers use |
| Mesh and location views, answer formats, data warnings, settings, migrations | none of their own | single reads, layout | not modelled, see section 8 |

**What is hard here.**  The project sets no `ATOMIC_REQUESTS`: every ORM
statement commits on its own, and a request is a sequence of statements with
other threads and workers between any two of them.  A worker reads a Route row
once and `save()`s *every* column of that copy minutes later.  `save()` of a
row that was deleted inserts it again.  The retry of a calculation is a new
task with a new job for the same row.  The state of a task is published in the
result backend, its result in the Route table, and although the backend is a
table too (`settings/base.py:223`), no transaction spans both.  The death of a
worker leaves its task without a state; the death of the child process that
runs the task makes the worker store FAILURE for it.
Revocations reach no worker, because remote control is disabled
(`settings/base.py:228`).  Meshes disappear under requests and calculations.
`get_or_create` is two statements on a column without a unique constraint.

**What makes each part correct.**

* Lookup: a route that is reused is for a near trip, on a mesh of the request.
* Calculation: one writer per route; SUCCESS means a complete row; the state of
  a task is revised by nobody; retries end; no task or request is left hanging;
  a cancellation removes job and route.
* Views: in an answer that is read field by field a final status is borne out by
  the fields after it, and the URL leads to paths; the status among the recent
  routes does not contradict the jobs.
* Ingestion: a row holds the document that its digest and metadata describe; a
  mesh that is in place is in the table again and again; a digest has one row.
* Evaluation: a route is evaluated on a mesh that holds all of it.
* Admin site: whatever an administrator saves, and however old the object is
  that he saves, a route that clients are led to keeps its paths.
* Vehicles: nobody overwrites a vehicle unless forced, and then only the given
  fields; no two requests both create it.

`PROJECT.json` lists under `hazards` where each of these can go wrong, line by
line, and which property would show it.

## 2. The modules

```
RouteLookup            operators on table contents            (no state)
  RouteJobs            POST, DELETE, workers, tables, broker  -- implements --> RouteLifecycle
    RouteAdmin         an administrator at work on routes and jobs
      RouteViews       one reader, one action per read
        RouteClient    the demonstration client as that reader
    RouteEvaluation    a route evaluation
    RouteApi           composes RouteJobs, RouteClient and RouteEvaluation
    RouteClaims        sentences of the docs that RouteJobs contradicts
MeshIngest             beat, workers, files, insert_mesh      -- implements --> MeshCatalogue
VehicleStore           POST and DELETE of vehicles

RouteJobs_proofs         types, who may write a route, SUCCESS, revived rows
  RouteRows_proofs       what rows and copies of rows hold
    RouteLifecycle_proofs  RouteJobs implements RouteLifecycle
  RouteCancel_proofs     jobs, those who record them, cancellations
    RouteRequests_proofs (also of RouteRows_proofs) lookup, states, backups, meshes
      RouteApi_proofs    the whole API: administrator, readers, client, evaluation
MeshIngest_proofs        types, imports, MeshIngest implements MeshCatalogue
VehicleStore_proofs      types, counting of creations, forced fields

MCInstance, MCRouteJobs, MCRouteApi, MCMeshIngest, MCVehicleStore   instances for TLC
```

**RouteLookup** has the names of the code in capitals: `SelectMesh`,
`RouteExists`, `ClosestInTolerance`.  A query without `ORDER BY` may answer in
any order, so a function that returns "the first" row is the *set* of answers
it may give; None is the empty set.  Points are integer pairs and the distance
is a parameter, of which the proofs assume only that it is a natural number.
`RouteExists` keeps what the loop of `route_exists` really does: it stops at
the first mesh that has any successful route, and its search in tolerance runs
over all routes of that mesh, the failed ones included.

**RouteJobs** has one variable per store (`mesh`, `route`, `jobs` for the
tables; `args`, `queue` for the broker; `result` for the backend) and one
record of local state per POST, DELETE and worker.  `pc` names what comes next.
An action ends where the code next touches a store:

| code | actions |
|---|---|
| `RouteRequestView.post` (views.py:338-458) | `PostSelect`, `PostLookup`, `PostReuse` or `PostCreate`, `PostSend`, `PostRecord` |
| `JobView.delete` (views.py:750-778) | `CancelFind`, `CancelRevoke`, `CancelDelete` |
| `optimise_route` (tasks.py:40-166) | `Take`, `SaveUnsmoothed` or `PlanFails`, `SaveSmoothed` or `SmoothFails`, `Return` |
| its except block (tasks.py:145-166) | `MarkFailure`, then `RetryOnNextMesh`, `Resend`, `RecordRetryJob`, or `RecordError`, or `Raise` |
| `cleanup_routes`, `cleanup_meshes`, ingestion, result expiry | `CleanupRoute`, `CleanupMesh`, `ImportMesh`, `ResultExpires` |
| a state that the result backend refuses | `StoreRefused` |
| a process that dies: of the web, a whole worker, a worker's child | `PostCrash`, `CancelCrash`, `WorkerCrash`, `ChildKilled` |

A path is represented by the mesh it was computed on, which is all that the
properties tell apart.  The constant `Events` says which faults of the
environment a run allows: web processes and workers that die ("crash"), child
processes of workers that die ("kill"), a refusing broker, failing saves, states
that the result backend refuses ("backend"), expiring results, coordinates that
are no numbers ("invalid", answered 400), imports, meshes without the keys that
`check_mesh_data` reads, and the two clean-ups.  A save that would dangle its foreign
key fails whatever `Events` says.  Three things are coarser than the
code: the queries of one `route_exists` are one step (with the second query of
`select_mesh`), so that `Route.objects.get` of its last line never meets a row
that was deleted since; the reading of the Route and Mesh rows by a worker is
one step with taking the task; and a Route row goes together with its jobs,
where the cascade of the code deletes the jobs first and the row, which a job
inserted in between would keep, afterwards.

**RouteLifecycle** promises, without threads or tasks, that a Route row is
rewritten only until it is settled, and that a settled row can only be deleted
for good or lose its mesh.  RouteJobs implements it with the phase defined from
who may still write (`Phase`, from `NoWriter`).

**RouteAdmin** is an administrator who edits one route, or deletes one route or
job.  `AdminLoad` reads the object that a submitted form is applied to, without
its paths (`defer`, admin.py:38); `AdminSave` writes the columns that were read
and the timestamp that the form insists on, to a row that workers may have
rewritten, or raises when the row is gone.

**RouteViews** adds a reader: `JobGet`, then `GetStatus`, `GetRouteId`,
`GetRouteUrl`, `GetInfo`, one per field of `JobStatusSerializer`, with the
AsyncResult cached once it is final and the Route object cached once it is
read, where a look-up that found no row is repeated by the next field and may
meet a row that a worker has revived (`RouteRead`); then `FollowUrl`.  `Recent` is what `/api/recent_routes` answers, a join
of routes and jobs.

**RouteClient** drives that reader the way `request_route` does: it posts,
polls up to `NumRequests` + 1 times (the loop of request_route.py:151 runs while
the count is `<=` the argument), ends on an error, and fetches the route.

**RouteEvaluation** splits POST `/api/evaluate_route` at its queries:
`EvaluateFind` looks up the custom mesh or the date of the latest mesh that
holds the corners of the route, `EvaluateSelect` the meshes of that date, and
`Evaluate` is PolarRoute's.  `Corners` reads a GeoJSON position as the code
does, longitude for latitude.

**RouteApi** is the composition: one next-state relation over the tables of
RouteJobs in which, beside requests, workers and clean-ups, a client, a visitor,
an administrator or an evaluation takes its steps.  The constant `Actors` lists
who may act beside RouteJobs in one behaviour.

**MeshIngest** models the import record by record.  `Load` reads, decompresses
and checks one file against the metadata; `Get` and `Create` are the two
statements of `get_or_create`, whose defaults are evaluated before the first and
end the import when the document or the record lacks a key or a date
(`Complete`, constant `Incomplete`); `AfterSeveral` keeps that after
MultipleObjectsReturned the Python variables `created` and `mesh` are those of
an earlier record or unbound.  The clean-up collects rows in `Take` and removes
them in `Delete`.  The pipeline replaces files and metadata at any time, also
by half written files.  `Casts` says who takes part in a behaviour, and how many
workers may die in it.  **MeshCatalogue** is the promise about the table.

**VehicleStore** splits POST at the look for the vehicle: `PostCheck`, then
`PostUpdate` or `PostCreate` on a table that others have changed; DELETE is
`DeleteFind` and `DeleteRow`.

Definitions with a comment "A mutant" are slips a programmer could make in the
code (a slice forgotten, an exception swallowed, a check dropped); no
specification uses them.  `PROJECT.json` pairs each with the property that
notices it.

## 3. The runs

| run | instance | shows |
|---|---|---|
| core | 2 POSTs, 1 DELETE, 2 workers, 2 routes, 3 tasks, 2 meshes, failing plans and smoothings, web processes, workers and child processes that die, refused states, expiring results | `TypeOK`, `OneWriter`, `SuccessIsCalculated`, `CancelledJobIsGone`, `QueuedRowTakesNotes`, `CalculatedIsComplete`, `OnlyWritersRevive`, `ImplementsLifecycle` |
| live | 1 POST, 1 DELETE, 2 workers, 2 tasks, one mesh stored and one imported at any time, every fault but deaths, refused states and expiry, fair | `PathsMatchMesh`, `NoMeshTwice`, `RetryShortensBackups`, `ImplementsLifecycle`, `PendingIsLive`, `StatusIsFinal`, `EveryTaskSettles`, `EveryRequestIsAnswered` |
| reuse | 2 POSTs of three kinds (forced to a new route, for a trip nearby, with a custom mesh), the client, a mesh imported and meshes deleted between them | `ReuseIsNear`, `ClientGetsItsRoute` |
| views | 1 POST, 1 DELETE, 1 worker, 2 tasks; client, visitor, administrator or evaluation; crashes, refused states, expiry, clean-ups | `ApiTypeOK`, `UrlLeadsToPaths`, `FinalStatusIsBorneOut`, `RecentSuccessIsNoFailure`, `RecentFailureIsFinal`, `ClientRaisesWithoutJob`, `SuccessKeepsPaths`, `CornersAreEnough`, `EvaluationRaisesByDeletion` |
| ingest | 2 files, 2 documents, one metadata file, 4 ids, two days; 2 workers, or 1 that may die beside 1 `insert_mesh`; fair | `TypeOK`, `ReportIsTrue`, `ImplementsCatalogue`, `ReadyMeshIsIngested` |
| vehicles | 3 POSTs, 2 DELETEs of one type with two fields | `TypeOK`, `EachCreationCounts`, `OnlyForcedFieldsChange` |

**Why the bounds are enough.**  Two meshes give a list with one backup, hence
one retry and the decision to retry no further; a third mesh only repeats it.
Two parties that write or create are what each of the races needs; `core` has
two of each kind and a third task, so that either request may retry while the
other's task is queued or running, and `vehicles` a third POST, for the case that
a vehicle is created, deleted and created again.  In `core` both POSTs ask for
one trip, and a second route is made when neither finds the other's or the first
has failed; forced requests and other trips are in `reuse`.  Three trips (two
within tolerance of each other, one only on the larger mesh) reach every branch
of the lookup.  In `views` one other party acts per behaviour (`Actors`), and an
administrator does one thing; no reader therefore meets a row that an
administrator edited, and what is said of readers is not said of such rows.
Crashes, refused states and expiring results are in `core` and `views`, child
processes that die in `core`, refused calls of broker and database in `live`;
the kinds of fault are not all run together.  Two fields show that an update
leaves the other one alone.  In MeshIngest the metadata list both documents, and
before them a record without a date, in which the second document has the name
of the first one's file: it ends the import where the file is that document, and
is passed over where it is not.  `LastDay` lets meshes get old, `MaxInserted`
bounds the operator and `Casts` the deaths, and `Ids` has room for the rows of
every document and for the ids that a clean-up in another worker still refers
to.  A task that is in the queue already is not queued again, because two equal
tasks in a row do what one does.  `Overlap = FALSE` says that an import ends
before the next begins, as with a ten-minute schedule it normally does; what
happens otherwise is shown by `Claim_one_row`.

Vessel types are independent of each other, so one is enough.  Symmetry is
used on requests, workers, routes and tasks, in runs without liveness only.

**Fairness.**  A web thread that has begun a request and a worker that holds or
can take a task go on: `WF(PostStep)`, `WF(CancelStep)`, `WF(WorkerStep)` per
process.  `PostSelect` and `CancelFind` are not fair, since nobody need call.
No fault is fair.  In MeshIngest the beat sends each name of its schedule again
and again and the workers go on; the pipeline, the clock and the operator need
do nothing.  Threads and processes of the operating system justify no more, and
no property needs more.

## 4. Where code and documentation disagree

Six runs look for one sentence each and find a behaviour against it.

* `Claim_cancel`: a DELETE answers that the route is deleted
  (views.py:774).  The worker is not stopped and its next `save()` brings the
  row back, without a job.
* `Claim_reuse_failed`: "an existing route which was successful"
  (docs/how-polarroute-server-works.md:49).  A route *near* the request is
  reused even if all its jobs failed (utils.py:99).
* `Claim_one_row`: meshes already in the database are not ingested
  (docs/how-polarroute-server-works.md:37).  Two imports that overlap insert
  one twice; from then on imports of it run into MultipleObjectsReturned.
* `Claim_insert`: "Only meshes which are not present in the database will be
  inserted.  Uniqueness is based on the md5 hash of the unzipped vessel mesh
  file" (docs/deployment.md:64).  `insert_mesh` hashes the text of the parsed
  document (insert_mesh.py:31), the import an indented rewriting of it
  (tasks.py:203-206): each inserts what the other has inserted already.  That
  they do nothing worse is the theorem `TwoRowsCameTwoWays`.
* `Claim_cleanup_runs`: the mesh clean-up runs once a day
  (docs/configuration.md:41).  settings/production.py:39 sends a name that no
  worker knows, so it never runs.  The same holds for `cleanup_routes` at
  line 33.
* `Claim_evaluation`: "the latest mesh containing all points in the route will
  be chosen" (utils.py:205).  utils.py:216 takes the first number of a GeoJSON
  position, its longitude, for the latitude; the routes of the tests have equal
  numbers.

The models contain more behaviour that a maintainer may want to know of.  One
contradicts a sentence of the documentation, though no run is given to it:
docs/requesting-routes.md:112 says that `info` is only present when the status
is FAILURE.  The status is read before the info (serializers.py:52-71), so that
a task which fails in between is answered PENDING with info, as one which
succeeds is answered PENDING with a URL; and a FAILURE may come without details.
`FinalStatusIsBorneOut` therefore promises something of final states only.  Of
the others the documentation does not speak:

* A route without a job yet can be found by the search in tolerance;
  `job_set.latest` then raises and the second request is answered 500
  (`PostReuse`).
* The worker of a quick failure may record the job of the retry before the POST
  records its own: `latest` then names the failed first job.
* A route that goes, to a cancellation or a clean-up, between the answer of the
  lookup and the look at its newest job ends the POST with 500.
* A child process that is killed between the last save (tasks.py:141) and the
  stored SUCCESS leaves a calculated route whose job reads FAILURE: the recent
  routes show SUCCESS.
* Where the result backend refuses the state at the end of a task, the job reads
  PENDING for good, with a route that is calculated or shows an error.
* A document or a record that lacks a key or a date ends the import, and with it
  the import of every record that is listed later, each time (tasks.py:225-244).
* FAILURE is published before the error is saved, so that a reader in between
  sees no error details, and the error handler of a refused save may leave a
  row both calculated and failed.
* A task that raises outside the handler leaves no trace in the row: the recent
  routes show it as PENDING for good.  So does a task whose worker was killed.
* A request with a custom mesh may be given a route that is still being
  calculated for a default request; the retry of that one moves the route to
  another mesh afterwards.
* The date of an imported mesh is that of the metadata: with old metadata a
  mesh is cleaned up and ingested again, each time under a new id, and routes
  lose their mesh.
* A result that has expired reads PENDING, so that a route all of whose jobs
  failed counts as successful again (utils.py:76).
* A mesh without the keys that `check_mesh_data` reads makes the task raise
  outside its handler: the row says nothing of it.
* The admin's form cannot be saved without `calculated` (models.py:75): whoever
  tags a route that failed or is still being calculated must invent a timestamp,
  and the recent routes show SUCCESS.  Saving writes the mesh and the info back
  as they were read; a worker's `save()` in turn undoes what was edited.
* settings/base.py:290 counts the files of a loader `duacs_current`, where the
  loaders are named `duacs_currents` in line 281: the number of files for
  currents is never checked.
* A forced update of a vehicle that was deleted since it was found is answered
  200; a new vehicle posted with `force_properties` is answered 500.

## 5. What is proved

Every invariant and every property of steps that a passing run checks is a
theorem of its specification, and so are the two refinements.  `PROJECT.json`
lists them with the property of each.  They hold for all sets of requests,
workers, routes, tasks, meshes, files and vehicles, and, unless the table says
otherwise, for every choice of `Events`.

| module | theorem | states | under the hypothesis |
|---|---|---|---|
| RouteJobs_proofs | `TypeCorrect` | `TypeOK` | |
| | `RoutesHaveOneWriter` | `OneWriter` | |
| | `SuccessMeansCalculated` | `SuccessIsCalculated` | |
| | `DeletedRoutesComeBackByWriters` | `OnlyWritersRevive` | |
| RouteRows_proofs | `StoredPathsMatchTheirMesh` | `PathsMatchMesh` | |
| | `QueuedRowsTakeNotes` | `QueuedRowTakesNotes` | |
| | `CalculatedRoutesAreComplete` | `CalculatedIsComplete` | no refused saves |
| RouteCancel_proofs | `CancelledJobsStayGone` | `CancelledJobIsGone` | |
| RouteLifecycle_proofs | `RouteJobsImplementLifecycle` | `ImplementsLifecycle` | |
| RouteRequests_proofs | `ReusedRoutesAreNear` | `ReuseIsNear` | |
| | `StatesAreFinal` | `StatusIsFinal` | no child killed, no result expires |
| | `PendingJobsAreLive` | `PendingIsLive` | no crash, no refused state, no result expires |
| | `RetriesShortenBackups` | `RetryShortensBackups` | |
| | `MeshesAreTriedOnce` | `NoMeshTwice` | |
| RouteApi_proofs | `ApiTypeCorrect` | `ApiTypeOK` | |
| | `JobsSurviveTheAdministrator` | `OneWriter`, `SuccessIsCalculated`, `CancelledJobIsGone` of the whole API | |
| | `StatesSurviveTheAdministrator` | `StatusIsFinal`, `PendingIsLive` of the whole API | nothing dies, no refused state, no result expires |
| | `RetriesSurviveTheAdministrator` | `RetryShortensBackups` of the whole API | |
| | `SuccessfulRoutesKeepPaths` | `SuccessKeepsPaths` | |
| | `UrlsLeadToPaths`, `FinalStatusesAreBorneOut` | `UrlLeadsToPaths`, `FinalStatusIsBorneOut` | |
| | `ClientsGetTheirRoutes`, `ClientsRaiseWithoutJob` | `ClientGetsItsRoute`, `ClientRaisesWithoutJob` | |
| | `RecentFailuresAreFinal` | `RecentFailureIsFinal` | |
| | `RecentSuccessesAreTrue` | `RecentSuccessIsNoFailure` | no refused saves, no child killed |
| | `CornersSpeakForRoutes`, `EvaluationsRaiseByDeletion` | `CornersAreEnough`, `EvaluationRaisesByDeletion` | |
| MeshIngest_proofs | `TypeCorrect` | `TypeOK` | |
| | `ImportsReportTheTruth` | `ReportIsTrue` | imports do not overlap |
| | `TwoRowsCameTwoWays` | `TwiceOnlyInTwoWays` (of no run) | also one operator |
| | `IngestionImplementsCatalogue` | `ImplementsCatalogue` | also one operator |
| VehicleStore_proofs | `TypeCorrect` | `TypeOK` | |
| | `CreationsAreCounted` | `EachCreationCounts` | |
| | `StoredFieldsAreForced` | `OnlyForcedFieldsChange` | |

**Hypotheses.**  Each is one that the property needs, and the run of the
property has it too.  "No refused saves" is `"database" \notin Events`: a save
still fails where its foreign key dangles.  With other refusals the worker sets
`calculated` in its copy, fails to save it, and the error handler then saves it
with the error: such a row contradicts both properties (section 4).  "No child
killed" is `"kill" \notin Events`: the FAILURE that the worker stores for a
killed child may stand beside a calculated row.  For `StatusIsFinal` the
hypothesis keeps the theorem honest: the model leaves out the child that dies
after it has stored SUCCESS (section 8), whose state the worker may revise.  An
expired result reads PENDING again; the task of a worker that died stays so ("no
crash"), and so does one whose state the backend refused ("no refused state").  "Imports
do not overlap" is `~Overlap` and "one operator" is `OneOperator`; what
overlapping imports do is the subject of `Claim_one_row`.

**Assumptions.**  The constants are assumed to be what their names say.
`GeometryAssumption` types boxes, days, distances and the tolerance, and says
nothing of their values.  The set of meshes is finite (`MeshesAssumption`), and
so are the positions of an evaluated route, of which there is one at least
(`EvaluationsAssumption`).  `None` and `Null` are values of their own, no id,
number, trip or row (`NoneAssumption`, `NullAssumption`).  In MeshIngest two
documents differ in their digests, and the digest of a file differs from that
of a text (`DigestAssumption`).  The others (`EventsAssumption`,
`BodiesAssumption`, `StoredAssumption`, `ActorsAssumption`,
`NumRequestsAssumption`, `RequiredAssumption`, `PublicationsAssumption`,
`UploadsAssumption`, `IncompleteAssumption`, `CastsAssumption`, `IdsAssumption`,
`BoundsAssumption`) type a constant.

### Who may write a route: RouteJobs_proofs

Types alone are not inductive, since a step uses `Head` of a list or the route
of a local state: `TypeInv` adds which fields are set at which `pc` (`PostWF`,
`CancelWF`, `QueueWF`, `WorkerWF`).  `OneWriter` is not inductive either: that a
POST can send a second task for a route another worker writes is excluded only
because the route is its own.  The invariant is

    Inv == TypeInv /\ Born /\ UnsentPending /\ Exclusive /\ ReturnDone /\ SuccessDone

* `Born`: an unborn route has no writer and no task, so that a new row is safe;
* `UnsentPending`: a task that was not sent has no result, so that a new task
  cannot start out as SUCCESS;
* `Exclusive`: the right to write a route is held by one POST about to send,
  or one queued task, or one worker, where a worker about to send a retry counts
  as the holder until the task is queued;
* `ReturnDone`, `SuccessDone`: from the last save of a task on, and when its
  state is SUCCESS, nobody holds that right and the row, if it is stored, is
  calculated.

Most steps neither take nor pass on the right to write; `QuietStep` proves once
that they keep `Inv`, and one lemma per action treats the steps that do.

### Rows and copies: RouteRows_proofs, RouteLifecycle_proofs

That a stored path fits its row depends on the copies that workers will save.
`RowInv` says of every row and of every copy (`CopyOK`, by `pc`) whether it is
`Untried`, `Coherent` or, without refused saves, `Sound`; that the rows of
queued tasks are untried (`WaitingRows`); that a row which is not stored is blank;
and that a row names a mesh that was stored once (`KnownMeshes`).  The last part
is needed because ingestion and clean-up move on while a copy is held: a
calculated copy that could not be saved has lost its mesh for good, so that the
error handler cannot save it either.

For the refinement `PhaseByFree` restates the phase of a route by the writers
that `Exclusive` counts, and `WriteStep`, `RewriteStep`, `SettleStep`,
`DeleteStep`, `DropMeshStep` and `RequestStep` say which step of the life cycle
a change of row and writers is.  Each action is then one of them.

### Jobs: RouteCancel_proofs

`JobsInv` is that a job belongs to the route of its task (`JobsMatch`), that a
POST or worker about to record a job is the only one and nobody knows the job
yet (`Recorders`), and that a cancellation deletes the route of its job and
leaves no job (`Cancellations`).  A cancelled job stays gone because
nobody is left who could record it.

### Requests and retries: RouteRequests_proofs

* `RouteExistsIsNear` says of the lookup what its results have in common, for
  every geometry; it rests on `FiniteSetsAreBounded`, that a finite set of
  numbers has a least and a greatest member.
* `StatusInv`: a task is held by one worker and by no queue meanwhile, and its
  state follows from the `pc` of that worker (`StatusOf`).  `LiveTasks`: a
  task that was sent and has no state is queued or held.
* `BackupsInv`: the task whose turn it is has the fewest backup meshes of its
  route (`HasFewest`), so that the one it sends has fewer still.
* `MeshesInv`: no list has a mesh twice, and a list that waits avoids the mesh of
  its row.  That nobody moves the row meanwhile (`MeshKept`) is `Exclusive` again.

### The whole API: RouteApi_proofs

An administrator may write an old mesh or an old info into a row, so `RowInv`
and the life cycle are not invariants of `ApiSpec`.  What others rely on
survives.  `SystemInv` consists of `Inv`, `JobsInv` and

* `PathsInv`: a route whose task has returned or reads SUCCESS is `Settled`: no
  writer is left, and the row, if it is stored, has timestamp and paths.  The
  form does not touch the paths, and no one else writes a settled row;
* `JobsHaveRoutes`, `Accepted`: a job belongs to a stored route, and the task of
  an accepted POST is `Recorded`, that is, nobody will record it again;
* `ErrorsAreFinal`: a row that shows an error has no writer;
* `TripsInv`: the row, the copies and the form of a route agree on its trip,
  and the trip suits every request that was given the route;
* `AdminWF`: what the open form holds.

`Progress` says what no step takes away: settled routes stay settled, recorded
and lost jobs recorded and lost, tasks keep their arguments, accepted requests
their answer, and meshes only age.  The invariants of the parties beside the
jobs (`ReaderWF`, `ClientWF`, `EvaluationWF`) say, field by field that was read,
which of these stable facts it stands for; other parties' steps keep them by
`Progress` alone, so that each has to be shown only for the party's own actions
(`ReaderGoes`, `ClientGoes`, `EvaluationGoes`).  `ApiKeeps` is the lemma that
carries it.

The evaluation needs an argument about numbers besides: the corners are the
least and greatest coordinates of a finite, nonempty set of positions, and a box
that holds both corners holds every position (`CornersBound`).

`RecentInv` is for the recent routes.  A row with a timestamp that no
administrator set has no writer, and its newest task has not failed.  A worker
holds a timestamp only in a copy whose save was refused, and whose mesh is
therefore deleted; a worker about to raise holds an older task than the newest,
or nobody will calculate its route.  `RecentStep` says what a step must show,
and the last save of a task is shown from `BackupsInv` (its task is the newest)
and `StatusInv` (that task has no state yet).

`ApiTasks` says that a step of the API is one of `Spec` or leaves tasks, queue,
results, requests and workers alone.  `StatusInv`, `LiveTasks` and `BackupsInv`
speak of nothing else, so the theorems about states and retries carry over.

### Meshes and vehicles

MeshIngest: a row has the digest that its document has when added in its way
(`Digested`).  While imports follow one another, a digest that one has not
found is not inserted by another before it inserts (`ImportInv`), and no
document is added twice in one way (`Once`).  `InsertInv` says the same of
`insert_mesh`.  An import that is found to add a row is then an `Add` of the
catalogue, and all other steps only delete rows or leave the table alone.
`Digested` also shows that the two ways never find each other's rows.

VehicleStore: `CountInv` compares, for each vessel type, the cardinality of
the unforced POSTs that were answered 200 with that of the deletions that
succeeded and the row that is there.

### How the proofs were arrived at

The strengthened invariants are conjunctions of the kind that TLC can evaluate
and were checked on the instances of section 3, or smaller ones, before they
were proved.  A few leaves name a prover and a
time limit, where the default limit is too short for a slower machine.  The proofs cite no property that is only model-checked.

## 6. What is only model-checked

* Liveness: `EveryTaskSettles`, `EveryRequestIsAnswered` (run `live`) and
  `ReadyMeshIsIngested` (run `ingest`).  The provers have no rules for fairness
  and ENABLED.
* The six sentences of section 4 that have a run.  They are refuted by a behaviour that TLC
  finds.

## 7. Plan

Done: lookup, calculation, views, client, evaluation, admin site, ingestion,
insertion, vehicles and their composition; all safety properties, properties of
steps and refinements of the runs as theorems.

Next, in this order:

1. The rest of `Spec` as theorems of `ApiSpec`.  `PathsMatchMesh` does not
   survive the administrator, who saves a mesh beside paths that a worker wrote
   meanwhile; a form that excepts the edited routes may.  `NoMeshTwice` is open.
2. A safety half of `EveryTaskSettles`: a measure of the work left to a route
   that each step of a worker lowers, as a property of steps.
3. The two-statement delete of `cleanup_routes` and of the cascade to jobs.

## 8. What is not modelled, and why

* Rows that an administrator writes by hand (jobs, meshes, vehicles, locations),
  and the admin's columns, filters and search.
* A child process that dies between the state it has stored and its report to
  the worker, which may make the worker store FAILURE over a stored SUCCESS.
* The planner, the smoother and the mesh library are external.  They succeed,
  or raise what `PlanErrors` lists.
* `check_mesh_data` writes a text; what is kept is whether a note is left.
* Tags, route metrics, schemas, wording and logs carry no state that anything
  else reads.
* GET of meshes, vehicles and locations are single reads of a table.
* Settings, deployment files and migrations: the values that matter are
  constants of the modules.
