-------------------------- MODULE RouteJobs_proofs --------------------------
(***************************************************************************)
(* Proofs about RouteJobs for all sets of meshes, routes, tasks, requests  *)
(* and workers, every geography and every set of faults.                   *)
(***************************************************************************)
EXTENDS RouteJobs, FiniteSetTheorems, TLAPS

----------------------------------------------------------------------------
(* Facts about the lookup *)

\* The candidate lists of a POST are lists of meshes (utils.py:45).
LEMMA SortedBySizeType ==
    ASSUME NEW S \in SUBSET Meshes, NEW s \in SortedBySize(S)
    PROVE  s \in Seq(Meshes)
<1>1. IsFiniteSet(S)
  BY MeshesAssumption, FS_Subset DEF MeshesAssumption
<1>2. Cardinality(S) \in Nat
  BY <1>1, FS_CardinalityType
<1>3. s \in [1..Cardinality(S) -> S]
  BY DEF SortedBySize
<1> QED
  BY <1>2, <1>3

LEMMA CandidateListsType ==
    ASSUME TypeOK, NEW p \in Posts, NEW meshes \in CandidateLists(p),
           post[p].body.mesh_id # None => post[p].body.mesh_id \in Meshes
    PROVE  meshes \in Seq(Meshes)
<1>1. CASE post[p].body.mesh_id # None
  <2> DEFINE m == post[p].body.mesh_id
  <2>1. m \in Meshes
    BY <1>1
  <2>2. meshes = <<m>>
    BY <1>1 DEF CandidateLists
  <2> HIDE DEF m
  <2> QED
    BY <2>1, <2>2
<1>2. CASE post[p].body.mesh_id = None
  <2> DEFINE S == {m \in Containing(Live, post[p].body.trip) :
                     Day[m] = post[p].day}
  <2>1. S \in SUBSET Meshes
    BY DEF Containing, Live
  <2>2. meshes \in SortedBySize(S)
    BY <1>2 DEF CandidateLists, SelectMesh
  <2> QED
    BY <2>1, <2>2, SortedBySizeType
<1> QED
  BY <1>1, <1>2

\* Whatever route_exists answers is a route.
LEMMA RouteExistsType ==
    ASSUME NEW meshes, NEW trip
    PROVE  RouteExists(route, jobs, result, meshes, trip) \subseteq Routes
<1>1. \A m : OnMesh(route, m) \subseteq Routes
  BY DEF OnMesh
<1>2. \A m : MatchOnMesh(route, jobs, result, m, trip) \subseteq Routes
  BY <1>1 DEF MatchOnMesh, Successful, ClosestInTolerance
<1> QED
  BY <1>2 DEF RouteExists

----------------------------------------------------------------------------
(* Type correctness *)

\* What a process has read by the time it reaches a point of the code.
PostWF ==
    \A p \in Posts :
        /\ post[p].pc \in {"create", "send"} => post[p].meshes # <<>>
        /\ post[p].pc \in {"reuse", "send", "record"} => post[p].route \in Routes
        /\ post[p].pc = "record" => post[p].task \in Tasks

CancelWF ==
    \A c \in Cancels :
        cancel[c].pc \in {"found", "revoked"} =>
            cancel[c].job \in Tasks /\ cancel[c].route \in Routes

QueueWF == \A t \in queue : args[t].route \in Routes

WorkerWF ==
    \A w \in Workers :
        /\ worker[w].pc # "idle" =>
              worker[w].task \in Tasks /\ RouteOf(w) \in Routes
        /\ worker[w].pc \in {"retry", "resend"} => BackupsOf(w) # <<>>
        /\ worker[w].pc = "record" => worker[w].next \in Tasks

TypeInv == TypeOK /\ PostWF /\ CancelWF /\ QueueWF /\ WorkerWF

LEMMA InitType == Init => TypeInv
<1> SUFFICES ASSUME Init PROVE TypeInv
  OBVIOUS
<1> USE NoneAssumption, BodiesAssumption, StoredAssumption
        DEF Init
<1>1. NoRow \in Row
  BY DEF NoRow, Row
<1>2. TypeOK
  <2>1. mesh \in [Meshes -> RowState]
    BY DEF RowState
  <2>2. route \in [Routes -> RouteRow]
    BY <1>1 DEF RouteRow, RowState
  <2>3. jobs \in [Tasks -> JobRow]
    BY DEF JobRow, NoJob
  <2>4. args \in [Tasks -> TaskArgs]
    BY DEF TaskArgs, NoArgs
  <2>5. queue \subseteq Tasks /\ result \in [Tasks -> Result]
    BY DEF Result
  <2>6. post \in [Posts -> PostState]
    <3>1. \A body \in Bodies : IdlePost(body) \in PostState
      BY DEF IdlePost, PostState, PostPc, Code
    <3> QED
      BY <3>1
  <2>7. cancel \in [Cancels -> CancelState]
    BY DEF IdleCancel, CancelState, CancelPc, Code
  <2>8. worker \in [Workers -> WorkerState]
    BY <1>1 DEF IdleWorker, WorkerState, WorkerPc, PlanErrorKinds
  <2> QED
    BY <2>1, <2>2, <2>3, <2>4, <2>5, <2>6, <2>7, <2>8 DEF TypeOK
<1>3. PostWF /\ CancelWF /\ QueueWF /\ WorkerWF
  BY DEF PostWF, CancelWF, QueueWF, WorkerWF, IdlePost, IdleCancel, IdleWorker
<1> QED
  BY <1>2, <1>3 DEF TypeInv

\* A step of a POST that leaves the other processes and the tables' types
\* alone keeps the types, if its new local state is well formed.
LEMMA PostChange ==
    ASSUME TypeInv, NEW p \in Posts, NEW s \in PostState,
           post' = [post EXCEPT ![p] = s],
           s.pc \in {"create", "send"} => s.meshes # <<>>,
           s.pc \in {"reuse", "send", "record"} => s.route \in Routes,
           s.pc = "record" => s.task \in Tasks
    PROVE  post' \in [Posts -> PostState] /\ PostWF'
BY DEF TypeInv, TypeOK, PostWF

LEMMA AnswerType ==
    ASSUME TypeInv, NEW p \in Posts, NEW code \in Code,
           NEW t \in Tasks \cup {None}, Answer(p, code, t)
    PROVE  /\ post' \in [Posts -> PostState] /\ PostWF'
           /\ post'[p].pc = "done"
           /\ \A q \in Posts : q # p => post'[q] = post[q]
<1> DEFINE s == [post[p] EXCEPT !.pc = "done", !.code = code, !.task = t,
                     !.day = None, !.meshes = <<>>, !.route = None]
<1>1. post[p] \in PostState
  BY DEF TypeInv, TypeOK
<1>2. s \in PostState
  <2> DEFINE empty == <<>>
  <2>1. empty \in Seq(Meshes)
    OBVIOUS
  <2> HIDE DEF empty
  <2>2. [post[p] EXCEPT !.pc = "done", !.code = code, !.task = t, !.day = None,
                        !.meshes = empty, !.route = None] \in PostState
    BY <1>1, <2>1 DEF PostState, PostPc
  <2> QED
    BY <2>2 DEF empty
<1>3. s.pc = "done"
  BY <1>1 DEF PostState
<1>4. post' = [post EXCEPT ![p] = s]
  BY DEF Answer
<1> HIDE DEF s
<1> QED
  BY <1>2, <1>3, <1>4, PostChange DEF TypeInv, TypeOK

\* save(), delete() and create() keep the types of the tables.
LEMMA SaveType ==
    ASSUME TypeOK, NEW r \in Routes, NEW row \in Row, Save(r, row)
    PROVE  route' \in [Routes -> RouteRow]
<1> DEFINE s == [state |-> "stored", row |-> row]
<1>1. s \in RouteRow
  BY DEF RouteRow, RowState
<1>2. route' = [route EXCEPT ![r] = s]
  BY DEF Save
<1> HIDE DEF s
<1> QED
  BY <1>1, <1>2 DEF TypeOK

LEMMA DeleteType ==
    ASSUME TypeOK, NEW r \in Routes, DeleteRoute(r)
    PROVE  route' \in [Routes -> RouteRow] /\ jobs' \in [Tasks -> JobRow]
<1>1. [state |-> "deleted", row |-> NoRow] \in RouteRow
  BY NoneAssumption DEF RouteRow, RowState, NoRow, Row
<1>2. NoJob \in JobRow
  BY DEF NoJob, JobRow
<1> QED
  BY <1>1, <1>2 DEF DeleteRoute, TypeOK

LEMMA CreateJobType ==
    ASSUME TypeOK, NEW t \in Tasks, NEW r \in Routes, CreateJob(t, r)
    PROVE  jobs' \in [Tasks -> JobRow]
<1> DEFINE s == [route |-> r, after |-> JobSet(jobs, r)]
<1>1. s \in JobRow
  BY DEF JobRow, JobSet
<1>2. jobs' = [jobs EXCEPT ![t] = s]
  BY DEF CreateJob
<1> HIDE DEF s
<1> QED
  BY <1>1, <1>2 DEF TypeOK

\* delay() adds a fresh task and changes the arguments of no other.
LEMMA DelayType ==
    ASSUME TypeInv, NEW t \in Tasks, NEW r \in Routes,
           NEW backups \in Seq(Meshes), Delay(t, r, backups)
    PROVE  /\ args' \in [Tasks -> TaskArgs]
           /\ queue' \subseteq Tasks
           /\ QueueWF'
           /\ args[t].route = None /\ args'[t].route = r
           /\ \A u \in Tasks : u # t => args'[u] = args[u]
           /\ queue' = queue \cup {t}
<1> DEFINE s == [route |-> r, backups |-> backups]
<1>1. s \in TaskArgs /\ s.route = r
  BY DEF TaskArgs
<1>2. args' = [args EXCEPT ![t] = s]
  BY DEF Delay
<1> HIDE DEF s
<1> QED
  BY <1>1, <1>2 DEF TypeInv, TypeOK, QueueWF, Delay, Fresh

LEMMA TailType ==
    ASSUME NEW meshes \in Seq(Meshes), meshes # <<>>
    PROVE  AllButFirst(meshes) \in Seq(Meshes) /\ Head(meshes) \in Meshes
BY DEF AllButFirst

\* The web thread of a POST keeps the types.
LEMMA PostType ==
    ASSUME TypeInv, NEW p \in Posts,
           PostSelect(p) \/ PostStep(p) \/ PostCrash(p)
    PROVE  TypeInv'
<1> USE DEF tables, celery
<1>0. post[p] \in PostState
  BY DEF TypeInv, TypeOK
<1>1. CASE PostSelect(p)
  <2>1. ASSUME NEW m \in Meshes,
               post' = [post EXCEPT ![p].pc = "lookup", ![p].day = Day[m]]
        PROVE  post' \in [Posts -> PostState] /\ PostWF'
    <3> DEFINE s == [post[p] EXCEPT !.pc = "lookup", !.day = Day[m]]
    <3>1. Day[m] \in Nat
      BY GeometryAssumption DEF GeometryAssumption
    <3>2. s \in PostState /\ s.pc = "lookup"
      BY <1>0, <3>1 DEF PostState, PostPc
    <3>3. post' = [post EXCEPT ![p] = s]
      BY <2>1 DEF TypeInv, TypeOK
    <3> HIDE DEF s
    <3> QED
      BY <3>2, <3>3, PostChange
  <2>2. ASSUME post' = [post EXCEPT ![p].pc = "lookup"]
        PROVE  post' \in [Posts -> PostState] /\ PostWF'
    <3> DEFINE s == [post[p] EXCEPT !.pc = "lookup"]
    <3>1. s \in PostState /\ s.pc = "lookup"
      BY <1>0 DEF PostState, PostPc
    <3>2. post' = [post EXCEPT ![p] = s]
      BY <2>2 DEF TypeInv, TypeOK
    <3> HIDE DEF s
    <3> QED
      BY <3>1, <3>2, PostChange
  <2>3. ASSUME Answer(p, 404, None)
        PROVE  post' \in [Posts -> PostState] /\ PostWF'
    BY <2>3, AnswerType DEF Code
  <2>4. ASSUME Answer(p, 400, None)
        PROVE  post' \in [Posts -> PostState] /\ PostWF'
    BY <2>4, AnswerType DEF Code
  <2>5. post' \in [Posts -> PostState] /\ PostWF'
    BY <1>1, <2>1, <2>2, <2>3, <2>4 DEF PostSelect, Latest, Containing, Live
  <2> QED
    BY <1>1, <2>5 DEF PostSelect, TypeInv, TypeOK, CancelWF, QueueWF,
                      WorkerWF, RouteOf, BackupsOf
<1>2. CASE PostLookup(p)
  <2>1. PICK meshes \in CandidateLists(p) :
          \/ \E r \in RouteExists(route, jobs, result, meshes,
                                  post[p].body.trip) :
               post' = [post EXCEPT ![p].pc = "reuse", ![p].route = r,
                                    ![p].meshes = meshes]
          \/ /\ meshes # <<>>
             /\ post' = [post EXCEPT ![p].pc = "create", ![p].meshes = meshes]
          \/ Answer(p, 500, None)
    BY <1>2 DEF PostLookup
  <2>2. meshes \in Seq(Meshes)
    <3>1. post[p].body.mesh_id # None => post[p].body.mesh_id \in Meshes
      BY <1>0, BodiesAssumption DEF PostState, BodiesAssumption
    <3> QED
      BY <3>1, CandidateListsType DEF TypeInv
  <2>3. ASSUME NEW r \in RouteExists(route, jobs, result, meshes,
                                     post[p].body.trip),
               post' = [post EXCEPT ![p].pc = "reuse", ![p].route = r,
                                    ![p].meshes = meshes]
        PROVE  post' \in [Posts -> PostState] /\ PostWF'
    <3> DEFINE s == [post[p] EXCEPT !.pc = "reuse", !.route = r,
                                    !.meshes = meshes]
    <3>1. r \in Routes
      BY RouteExistsType
    <3>2. s \in PostState /\ s.pc = "reuse" /\ s.route = r
      BY <1>0, <2>2, <3>1 DEF PostState, PostPc
    <3>3. post' = [post EXCEPT ![p] = s]
      BY <2>3 DEF TypeInv, TypeOK
    <3> HIDE DEF s
    <3> QED
      BY <3>1, <3>2, <3>3, PostChange
  <2>4. ASSUME meshes # <<>>,
               post' = [post EXCEPT ![p].pc = "create", ![p].meshes = meshes]
        PROVE  post' \in [Posts -> PostState] /\ PostWF'
    <3> DEFINE s == [post[p] EXCEPT !.pc = "create", !.meshes = meshes]
    <3>1. s \in PostState /\ s.pc = "create" /\ s.meshes = meshes
      BY <1>0, <2>2 DEF PostState, PostPc
    <3>2. post' = [post EXCEPT ![p] = s]
      BY <2>4 DEF TypeInv, TypeOK
    <3> HIDE DEF s
    <3> QED
      BY <2>4, <3>1, <3>2, PostChange
  <2>5. ASSUME Answer(p, 500, None)
        PROVE  post' \in [Posts -> PostState] /\ PostWF'
    BY <2>5, AnswerType DEF Code
  <2>6. post' \in [Posts -> PostState] /\ PostWF'
    BY <2>1, <2>3, <2>4, <2>5
  <2> QED
    BY <1>2, <2>6 DEF PostLookup, TypeInv, TypeOK, CancelWF, QueueWF,
                      WorkerWF, RouteOf, BackupsOf
<1>3. CASE PostReuse(p)
  <2>1. post' \in [Posts -> PostState] /\ PostWF'
    BY <1>3, AnswerType DEF PostReuse, Code, LatestJobs, JobSet
  <2> QED
    BY <1>3, <2>1 DEF PostReuse, TypeInv, TypeOK, CancelWF, QueueWF,
                      WorkerWF, RouteOf, BackupsOf
<1>4. CASE PostCreate(p)
  <2> DEFINE row == [NoRow EXCEPT !.trip = post[p].body.trip,
                                  !.mesh = Head(post[p].meshes)]
  <2>1. row \in Row
    <3>1. Head(post[p].meshes) \in Meshes
      BY <1>0, <1>4, TailType DEF PostCreate, TypeInv, PostWF, PostState
    <3>2. post[p].body.trip \in Trips
      BY <1>0, BodiesAssumption DEF PostState, BodiesAssumption
    <3> QED
      BY <3>1, <3>2 DEF NoRow, Row
  <2> HIDE DEF row
  <2>2. \/ \E r \in Routes :
             /\ Save(r, row)
             /\ post' = [post EXCEPT ![p].pc = "send", ![p].route = r]
        \/ SaveFails(row) /\ Answer(p, 500, None)
    BY <1>4 DEF PostCreate, row
  <2>3. ASSUME NEW r \in Routes, Save(r, row),
               post' = [post EXCEPT ![p].pc = "send", ![p].route = r]
        PROVE  /\ route' \in [Routes -> RouteRow]
               /\ post' \in [Posts -> PostState] /\ PostWF'
    <3> DEFINE s == [post[p] EXCEPT !.pc = "send", !.route = r]
    <3>1. s \in PostState /\ s.pc = "send" /\ s.route = r
            /\ s.meshes = post[p].meshes
      BY <1>0 DEF PostState, PostPc
    <3>2. post' = [post EXCEPT ![p] = s]
      BY <2>3 DEF TypeInv, TypeOK
    <3>3. post[p].meshes # <<>>
      BY <1>4 DEF PostCreate, TypeInv, PostWF
    <3> HIDE DEF s
    <3>4. post' \in [Posts -> PostState] /\ PostWF'
      BY <3>1, <3>2, <3>3, PostChange
    <3> QED
      BY <2>1, <2>3, <3>4, SaveType DEF TypeInv
  <2>4. ASSUME SaveFails(row), Answer(p, 500, None)
        PROVE  /\ route' \in [Routes -> RouteRow]
               /\ post' \in [Posts -> PostState] /\ PostWF'
    BY <2>4, AnswerType DEF Code, SaveFails, TypeInv, TypeOK
  <2>5. /\ route' \in [Routes -> RouteRow]
        /\ post' \in [Posts -> PostState] /\ PostWF'
    BY <2>2, <2>3, <2>4
  <2> QED
    BY <1>4, <2>5 DEF PostCreate, TypeInv, TypeOK, CancelWF, QueueWF,
                      WorkerWF, RouteOf, BackupsOf
<1>5. CASE PostSend(p)
  <2>1. ASSUME NEW t \in Tasks,
               Delay(t, post[p].route, AllButFirst(post[p].meshes)),
               post' = [post EXCEPT ![p].pc = "record", ![p].task = t]
        PROVE  TypeInv'
    <3> DEFINE s == [post[p] EXCEPT !.pc = "record", !.task = t]
    <3>1. post[p].route \in Routes
            /\ AllButFirst(post[p].meshes) \in Seq(Meshes)
      BY <1>0, <1>5, TailType DEF PostSend, TypeInv, PostWF, PostState
    <3>2. /\ args' \in [Tasks -> TaskArgs] /\ queue' \subseteq Tasks
          /\ QueueWF' /\ args[t].route = None
          /\ \A u \in Tasks : u # t => args'[u] = args[u]
      BY <2>1, <3>1, DelayType
    <3>3. s \in PostState /\ s.pc = "record" /\ s.task = t
            /\ s.route = post[p].route
      BY <1>0 DEF PostState, PostPc
    <3>4. post' = [post EXCEPT ![p] = s]
      BY <2>1 DEF TypeInv, TypeOK
    <3> HIDE DEF s
    <3>5. post' \in [Posts -> PostState] /\ PostWF'
      BY <3>1, <3>3, <3>4, PostChange
    <3>6. WorkerWF'
      BY <1>5, <3>2, NoneAssumption
         DEF PostSend, TypeInv, WorkerWF, RouteOf, BackupsOf
    <3> QED
      BY <1>5, <3>2, <3>5, <3>6 DEF PostSend, TypeInv, TypeOK, CancelWF
  <2>2. ASSUME Answer(p, 500, None), UNCHANGED <<args, queue>>
        PROVE  TypeInv'
    <3>1. post' \in [Posts -> PostState] /\ PostWF'
      BY <2>2, AnswerType DEF Code
    <3> QED
      BY <1>5, <2>2, <3>1 DEF PostSend, TypeInv, TypeOK, CancelWF, QueueWF,
                              WorkerWF, RouteOf, BackupsOf
  <2> QED
    BY <1>5, <2>1, <2>2 DEF PostSend
<1>6. CASE PostRecord(p)
  <2>1. post[p].task \in Tasks /\ post[p].route \in Routes
    BY <1>6 DEF PostRecord, TypeInv, PostWF
  <2>2. post' \in [Posts -> PostState] /\ PostWF'
    BY <1>6, <2>1, AnswerType DEF PostRecord, Code
  <2>3. jobs' \in [Tasks -> JobRow]
    BY <1>6, <2>1, CreateJobType DEF PostRecord, TypeInv, TypeOK
  <2> QED
    BY <1>6, <2>2, <2>3 DEF PostRecord, TypeInv, TypeOK, CancelWF, QueueWF,
                            WorkerWF, RouteOf, BackupsOf
<1>7. CASE PostCrash(p)
  <2> DEFINE s == [IdlePost(post[p].body) EXCEPT !.pc = "crashed"]
  <2>1. s \in PostState /\ s.pc = "crashed"
    <3>1. post[p].body \in Bodies
      BY <1>0 DEF PostState
    <3>2. IdlePost(post[p].body) \in PostState
      BY <3>1 DEF IdlePost, PostState, PostPc, Code
    <3> QED
      BY <3>2 DEF PostState, PostPc
  <2>2. post' = [post EXCEPT ![p] = s]
    BY <1>7 DEF PostCrash
  <2> HIDE DEF s
  <2>3. post' \in [Posts -> PostState] /\ PostWF'
    BY <2>1, <2>2, PostChange
  <2> QED
    BY <1>7, <2>3 DEF PostCrash, TypeInv, TypeOK, CancelWF, QueueWF,
                      WorkerWF, RouteOf, BackupsOf
<1> QED
  BY <1>1, <1>2, <1>3, <1>4, <1>5, <1>6, <1>7 DEF PostStep

LEMMA AnsweredCancel ==
    ASSUME NEW s \in CancelState, NEW code \in Code
    PROVE  /\ [s EXCEPT !.pc = "done", !.code = code] \in CancelState
           /\ [s EXCEPT !.pc = "done", !.code = code].pc = "done"
BY DEF CancelState, CancelPc

\* The web thread of a DELETE keeps the types.
LEMMA CancelType ==
    ASSUME TypeInv, NEW c \in Cancels,
           CancelFind(c) \/ CancelStep(c) \/ CancelCrash(c)
    PROVE  TypeInv'
<1> USE DEF tables, celery
<1>0. cancel[c] \in CancelState
  BY DEF TypeInv, TypeOK
<1>1. ASSUME NEW s \in CancelState, cancel' = [cancel EXCEPT ![c] = s],
             s.pc \in {"found", "revoked"} =>
                s.job \in Tasks /\ s.route \in Routes
      PROVE  cancel' \in [Cancels -> CancelState] /\ CancelWF'
  BY <1>1 DEF TypeInv, TypeOK, CancelWF
<1>2. CASE CancelFind(c)
  <2>1. PICK t \in Tasks :
          \/ /\ jobs[t].route # None
             /\ cancel' = [cancel EXCEPT ![c].pc = "found", ![c].job = t,
                                         ![c].route = jobs[t].route]
          \/ cancel' = [cancel EXCEPT ![c].pc = "done", ![c].code = 404]
    BY <1>2 DEF CancelFind
  <2> DEFINE r == jobs[t].route
             found == [cancel[c] EXCEPT !.pc = "found", !.job = t, !.route = r]
             done == [cancel[c] EXCEPT !.pc = "done", !.code = 404]
  <2>a. r # None => r \in Routes
    BY DEF TypeInv, TypeOK, JobRow
  <2>2. r # None => /\ found \in CancelState /\ found.pc = "found"
                    /\ found.job = t /\ found.route = r
    BY <1>0, <2>a DEF CancelState, CancelPc
  <2>3. done \in CancelState /\ done.pc = "done"
    <3>1. 404 \in Code
      BY DEF Code
    <3> QED
      BY <1>0, <3>1, AnsweredCancel, ZenonT(40)
  <2>4. \/ r # None /\ cancel' = [cancel EXCEPT ![c] = found]
        \/ cancel' = [cancel EXCEPT ![c] = done]
    <3>1. ASSUME cancel' = [cancel EXCEPT ![c].pc = "found", ![c].job = t,
                                          ![c].route = r]
          PROVE  cancel' = [cancel EXCEPT ![c] = found]
      BY <3>1 DEF TypeInv, TypeOK
    <3>2. ASSUME cancel' = [cancel EXCEPT ![c].pc = "done", ![c].code = 404]
          PROVE  cancel' = [cancel EXCEPT ![c] = done]
      BY <3>2, ZenonT(40) DEF TypeInv, TypeOK
    <3> QED
      BY <2>1, <3>1, <3>2
  <2> HIDE DEF r, found, done
  <2>5. cancel' \in [Cancels -> CancelState] /\ CancelWF'
    BY <1>1, <2>a, <2>2, <2>3, <2>4
  <2> QED
    BY <1>2, <2>5 DEF CancelFind, TypeInv, TypeOK, PostWF, QueueWF, WorkerWF,
                      RouteOf, BackupsOf
<1>3. CASE CancelRevoke(c)
  <2> DEFINE revoked == [cancel[c] EXCEPT !.pc = "revoked"]
             done == [cancel[c] EXCEPT !.pc = "done", !.code = 500]
  <2>1. cancel[c].job \in Tasks /\ cancel[c].route \in Routes
    BY <1>3 DEF CancelRevoke, TypeInv, CancelWF
  <2>2. /\ revoked \in CancelState /\ revoked.pc = "revoked"
        /\ revoked.route = cancel[c].route /\ revoked.job = cancel[c].job
    BY <1>0 DEF CancelState, CancelPc
  <2>3. done \in CancelState /\ done.pc = "done"
    <3>1. 500 \in Code
      BY DEF Code
    <3> QED
      BY <1>0, <3>1, AnsweredCancel, ZenonT(40)
  <2>4. \/ cancel' = [cancel EXCEPT ![c] = revoked]
        \/ cancel' = [cancel EXCEPT ![c] = done]
    <3>1. ASSUME cancel' = [cancel EXCEPT ![c].pc = "revoked"]
          PROVE  cancel' = [cancel EXCEPT ![c] = revoked]
      BY <3>1 DEF TypeInv, TypeOK
    <3>2. ASSUME cancel' = [cancel EXCEPT ![c].pc = "done", ![c].code = 500]
          PROVE  cancel' = [cancel EXCEPT ![c] = done]
      BY <3>2, ZenonT(40) DEF TypeInv, TypeOK
    <3> QED
      BY <1>3, <3>1, <3>2 DEF CancelRevoke
  <2> HIDE DEF revoked, done
  <2>5. cancel' \in [Cancels -> CancelState] /\ CancelWF'
    BY <1>1, <2>1, <2>2, <2>3, <2>4
  <2> QED
    BY <1>3, <2>5 DEF CancelRevoke, TypeInv, TypeOK, PostWF, QueueWF,
                      WorkerWF, RouteOf, BackupsOf
<1>4. CASE CancelDelete(c)
  <2> DEFINE done == [cancel[c] EXCEPT !.pc = "done", !.code = 202]
  <2>1. done \in CancelState /\ done.pc = "done"
    <3>1. 202 \in Code
      BY DEF Code
    <3> QED
      BY <1>0, <3>1, AnsweredCancel
  <2>2. cancel' = [cancel EXCEPT ![c] = done]
    BY <1>4 DEF CancelDelete, TypeInv, TypeOK
  <2> HIDE DEF done
  <2>3. cancel' \in [Cancels -> CancelState] /\ CancelWF'
    BY <1>1, <2>1, <2>2
  <2>4. route' \in [Routes -> RouteRow] /\ jobs' \in [Tasks -> JobRow]
    BY <1>4, DeleteType DEF CancelDelete, TypeInv, CancelWF
  <2> QED
    BY <1>4, <2>3, <2>4 DEF CancelDelete, TypeInv, TypeOK, PostWF, QueueWF,
                            WorkerWF, RouteOf, BackupsOf
<1>5. CASE CancelCrash(c)
  <2> DEFINE s == [cancel[c] EXCEPT !.pc = "crashed"]
  <2>1. s \in CancelState /\ s.pc = "crashed"
    BY <1>0 DEF CancelState, CancelPc
  <2>2. cancel' = [cancel EXCEPT ![c] = s]
    BY <1>5 DEF CancelCrash, TypeInv, TypeOK
  <2> HIDE DEF s
  <2>3. cancel' \in [Cancels -> CancelState] /\ CancelWF'
    BY <1>1, <2>1, <2>2
  <2> QED
    BY <1>5, <2>3 DEF CancelCrash, TypeInv, TypeOK, PostWF, QueueWF,
                      WorkerWF, RouteOf, BackupsOf
<1> QED
  BY <1>2, <1>3, <1>4, <1>5 DEF CancelStep

\* A step of a worker to a well-formed local state keeps the types, while
\* the task it works on keeps its arguments.
LEMMA WorkerChange ==
    ASSUME TypeInv, NEW w \in Workers, NEW s \in WorkerState,
           worker' = [worker EXCEPT ![w] = s], UNCHANGED args,
           s.pc # "idle" =>
              s.task \in Tasks /\ args[s.task].route \in Routes,
           s.pc \in {"retry", "resend"} => args[s.task].backups # <<>>,
           s.pc = "record" => s.next \in Tasks
    PROVE  worker' \in [Workers -> WorkerState] /\ WorkerWF'
BY DEF TypeInv, TypeOK, WorkerWF, RouteOf, BackupsOf

LEMMA IdleWorkerType == IdleWorker \in WorkerState /\ IdleWorker.pc = "idle"
<1>1. NoRow \in Row
  BY DEF NoRow, Row
<1> QED
  BY <1>1 DEF IdleWorker, WorkerState, WorkerPc, PlanErrorKinds

LEMMA FinishType ==
    ASSUME TypeInv, NEW w \in Workers, Finish(w), UNCHANGED args
    PROVE  worker' \in [Workers -> WorkerState] /\ WorkerWF'
<1>1. worker' = [worker EXCEPT ![w] = IdleWorker]
  BY DEF Finish
<1> QED
  BY <1>1, IdleWorkerType, WorkerChange

LEMMA GotoType ==
    ASSUME TypeInv, NEW w \in Workers, NEW pc \in WorkerPc,
           worker[w].pc # "idle", Goto(w, pc), UNCHANGED args,
           pc \in {"retry", "resend"} => BackupsOf(w) # <<>>,
           pc # "record"
    PROVE  worker' \in [Workers -> WorkerState] /\ WorkerWF'
<1> DEFINE s == [worker[w] EXCEPT !.pc = pc]
<1>1. worker[w] \in WorkerState
  BY DEF TypeInv, TypeOK
<1>2. s \in WorkerState /\ s.pc = pc /\ s.task = worker[w].task
  BY <1>1 DEF WorkerState
<1>3. worker' = [worker EXCEPT ![w] = s]
  BY DEF Goto, TypeInv, TypeOK
<1>4. worker[w].task \in Tasks /\ RouteOf(w) \in Routes
  BY DEF TypeInv, WorkerWF
<1> HIDE DEF s
<1> QED
  BY <1>2, <1>3, <1>4, WorkerChange DEF RouteOf, BackupsOf

LEMMA GotoWithType ==
    ASSUME TypeInv, NEW w \in Workers, NEW pc \in WorkerPc, NEW row \in Row,
           NEW error \in PlanErrorKinds \cup {"none"},
           worker[w].pc # "idle", GotoWith(w, pc, row, error), UNCHANGED args,
           pc \in {"retry", "resend"} => BackupsOf(w) # <<>>,
           pc # "record"
    PROVE  worker' \in [Workers -> WorkerState] /\ WorkerWF'
<1> DEFINE s == [worker[w] EXCEPT !.pc = pc, !.row = row, !.error = error]
<1>1. worker[w] \in WorkerState
  BY DEF TypeInv, TypeOK
<1>2. s \in WorkerState /\ s.pc = pc /\ s.task = worker[w].task
  BY <1>1 DEF WorkerState
<1>3. worker' = [worker EXCEPT ![w] = s]
  BY DEF GotoWith, TypeInv, TypeOK
<1>4. worker[w].task \in Tasks /\ RouteOf(w) \in Routes
  BY DEF TypeInv, WorkerWF
<1> HIDE DEF s
<1> QED
  BY <1>2, <1>3, <1>4, WorkerChange DEF RouteOf, BackupsOf

\* The copies of a row that a worker makes are rows.
LEMMA RowType ==
    ASSUME NEW row \in Row, NEW m \in Meshes
    PROVE  /\ Unsmoothed(row) \in Row
           /\ Smoothed(row) \in Row
           /\ Redirected(row, m) \in Row
           /\ [row EXCEPT !.info = "error"] \in Row
           /\ [row EXCEPT !.info = "note"] \in Row
BY DEF Unsmoothed, Smoothed, Redirected, Row

\* A worker keeps the types.
LEMMA WorkerType ==
    ASSUME TypeInv, NEW w \in Workers, WorkerStep(w) \/ WorkerDies(w)
    PROVE  TypeInv'
<1> USE DEF tables, celery, web
<1>0. /\ worker[w] \in WorkerState /\ worker[w].row \in Row
      /\ worker[w].error \in PlanErrorKinds \cup {"none"}
  BY DEF TypeInv, TypeOK, WorkerState
<1>a. worker[w].pc # "idle" =>
        /\ worker[w].task \in Tasks /\ RouteOf(w) \in Routes
        /\ BackupsOf(w) \in Seq(Meshes)
  BY DEF TypeInv, TypeOK, WorkerWF, BackupsOf, TaskArgs
<1>1. CASE Take(w)
  <2>1. PICK t \in queue :
          /\ queue' = queue \ {t}
          /\ \/ /\ route[args[t].route].row.mesh # None
                /\ \E info \in {route[args[t].route].row.info, "note"} :
                     worker' = [worker EXCEPT ![w] =
                       [[IdleWorker EXCEPT !.task = t] EXCEPT !.pc = "plan",
                          !.row = [route[args[t].route].row
                                     EXCEPT !.info = info]]]
             \/ worker' = [worker EXCEPT ![w] =
                  [[IdleWorker EXCEPT !.task = t] EXCEPT !.pc = "raise"]]
    BY <1>1 DEF Take
  <2>2. t \in Tasks /\ args[t].route \in Routes
    BY DEF TypeInv, TypeOK, QueueWF
  <2>3. route[args[t].route].row \in Row
    BY <2>2 DEF TypeInv, TypeOK, RouteRow
  <2>4. ASSUME NEW info \in {route[args[t].route].row.info, "note"}
        PROVE  [route[args[t].route].row EXCEPT !.info = info] \in Row
    BY <2>3 DEF Row
  <2>5. ASSUME NEW s, s \in WorkerState, s.pc \in {"plan", "raise"},
               s.task = t, worker' = [worker EXCEPT ![w] = s]
        PROVE  worker' \in [Workers -> WorkerState] /\ WorkerWF'
    BY <1>1, <2>2, <2>5, WorkerChange DEF Take
  <2>6. ASSUME NEW row \in Row
        PROVE  LET s == [[IdleWorker EXCEPT !.task = t]
                           EXCEPT !.pc = "plan", !.row = row]
               IN  s \in WorkerState /\ s.pc = "plan" /\ s.task = t
    BY <2>2, IdleWorkerType DEF WorkerState, WorkerPc
  <2>7. LET s == [[IdleWorker EXCEPT !.task = t] EXCEPT !.pc = "raise"]
        IN  s \in WorkerState /\ s.pc = "raise" /\ s.task = t
    BY <2>2, IdleWorkerType DEF WorkerState, WorkerPc
  <2>8. worker' \in [Workers -> WorkerState] /\ WorkerWF'
    BY <2>1, <2>4, <2>5, <2>6, <2>7
  <2> QED
    BY <1>1, <2>1, <2>8 DEF Take, TypeInv, TypeOK, PostWF, CancelWF, QueueWF
<1>2. CASE SaveUnsmoothed(w)
  <2> DEFINE row == Unsmoothed(worker[w].row)
  <2>1. row \in Row
    BY <1>0 DEF Unsmoothed, Row
  <2> HIDE DEF row
  <2>2. \/ Save(RouteOf(w), row) /\ GotoWith(w, "smooth", row, "none")
        \/ SaveFails(row) /\ GotoWith(w, "failed", row, "error")
    BY <1>2 DEF SaveUnsmoothed, row
  <2>3. worker' \in [Workers -> WorkerState] /\ WorkerWF'
    BY <1>2, <2>1, <2>2, GotoWithType
       DEF SaveUnsmoothed, WorkerPc, PlanErrorKinds
  <2>4. route' \in [Routes -> RouteRow]
    BY <1>2, <1>a, <2>1, <2>2, SaveType
       DEF SaveUnsmoothed, SaveFails, TypeInv, TypeOK
  <2> QED
    BY <1>2, <2>3, <2>4 DEF SaveUnsmoothed, TypeInv, TypeOK, PostWF, CancelWF,
                            QueueWF
<1>3. CASE PlanFails(w)
  <2>1. worker' \in [Workers -> WorkerState] /\ WorkerWF'
    BY <1>0, <1>3, EventsAssumption, GotoWithType
       DEF PlanFails, WorkerPc, EventsAssumption
  <2> QED
    BY <1>3, <2>1 DEF PlanFails, TypeInv, TypeOK, PostWF, CancelWF, QueueWF
<1>4. CASE SaveSmoothed(w)
  <2> DEFINE row == Smoothed(worker[w].row)
  <2>1. row \in Row
    BY <1>0 DEF Smoothed, Row
  <2> HIDE DEF row
  <2>2. \/ Save(RouteOf(w), row) /\ GotoWith(w, "return", row, "none")
        \/ SaveFails(row) /\ GotoWith(w, "failed", row, "error")
    BY <1>4 DEF SaveSmoothed, row
  <2>3. worker' \in [Workers -> WorkerState] /\ WorkerWF'
    BY <1>4, <2>1, <2>2, GotoWithType
       DEF SaveSmoothed, WorkerPc, PlanErrorKinds
  <2>4. route' \in [Routes -> RouteRow]
    BY <1>4, <1>a, <2>1, <2>2, SaveType
       DEF SaveSmoothed, SaveFails, TypeInv, TypeOK
  <2> QED
    BY <1>4, <2>3, <2>4 DEF SaveSmoothed, TypeInv, TypeOK, PostWF, CancelWF,
                            QueueWF
<1>5. CASE SmoothFails(w)
  <2>1. worker' \in [Workers -> WorkerState] /\ WorkerWF'
    BY <1>0, <1>5, EventsAssumption, GotoWithType
       DEF SmoothFails, WorkerPc, EventsAssumption
  <2> QED
    BY <1>5, <2>1 DEF SmoothFails, TypeInv, TypeOK, PostWF, CancelWF, QueueWF
<1>6. CASE Return(w)
  <2>1. worker' \in [Workers -> WorkerState] /\ WorkerWF'
    BY <1>6, FinishType DEF Return
  <2>2. result' \in [Tasks -> Result]
    BY <1>6 DEF Return, TypeInv, TypeOK, Result
  <2> QED
    BY <1>6, <2>1, <2>2 DEF Return, TypeInv, TypeOK, PostWF, CancelWF, QueueWF
<1>7. CASE MarkFailure(w)
  <2>1. Handler(w) \in WorkerPc /\ Handler(w) # "record"
          /\ (Handler(w) \in {"retry", "resend"} => BackupsOf(w) # <<>>)
    BY DEF Handler, WorkerPc
  <2>2. worker' \in [Workers -> WorkerState] /\ WorkerWF'
    BY <1>7, <2>1, GotoType DEF MarkFailure
  <2>3. result' \in [Tasks -> Result]
    BY <1>7 DEF MarkFailure, TypeInv, TypeOK, Result
  <2> QED
    BY <1>7, <2>2, <2>3 DEF MarkFailure, TypeInv, TypeOK, PostWF, CancelWF,
                            QueueWF
<1>8. CASE RetryOnNextMesh(w)
  <2> DEFINE next == Head(BackupsOf(w))
             row == Redirected(worker[w].row, next)
  <2>1. next \in Meshes /\ BackupsOf(w) # <<>>
    BY <1>8, <1>a, TailType DEF RetryOnNextMesh, TypeInv, WorkerWF
  <2>2. row \in Row
    BY <1>0, <2>1, RowType
  <2> HIDE DEF next, row
  <2>3. \/ Save(RouteOf(w), row) /\ GotoWith(w, "resend", row, worker[w].error)
        \/ UNCHANGED route /\ Goto(w, "raise")
    BY <1>8 DEF RetryOnNextMesh, SaveFails, row, next
  <2>4. worker' \in [Workers -> WorkerState] /\ WorkerWF'
    BY <1>0, <1>8, <2>1, <2>2, <2>3, GotoType, GotoWithType
       DEF RetryOnNextMesh, WorkerPc
  <2>5. route' \in [Routes -> RouteRow]
    BY <1>8, <1>a, <2>2, <2>3, SaveType DEF RetryOnNextMesh, TypeInv, TypeOK
  <2> QED
    BY <1>8, <2>4, <2>5 DEF RetryOnNextMesh, TypeInv, TypeOK, PostWF, CancelWF,
                            QueueWF
<1>9. CASE Resend(w)
  <2>1. BackupsOf(w) # <<>> /\ AllButFirst(BackupsOf(w)) \in Seq(Meshes)
    BY <1>9, <1>a, TailType DEF Resend, TypeInv, WorkerWF
  <2>2. ASSUME NEW t \in Tasks,
               Delay(t, RouteOf(w), AllButFirst(BackupsOf(w))),
               worker' = [worker EXCEPT ![w].pc = "record", ![w].next = t]
        PROVE  TypeInv'
    <3>1. /\ args' \in [Tasks -> TaskArgs] /\ queue' \subseteq Tasks
          /\ QueueWF' /\ args[t].route = None /\ args'[t].route = RouteOf(w)
          /\ \A u \in Tasks : u # t => args'[u] = args[u]
      BY <1>9, <1>a, <2>1, <2>2, DelayType DEF Resend
    <3>2. worker' \in [Workers -> WorkerState]
      <4> DEFINE s == [worker[w] EXCEPT !.pc = "record", !.next = t]
      <4>1. s \in WorkerState
        BY <1>0 DEF WorkerState, WorkerPc
      <4>2. worker' = [worker EXCEPT ![w] = s]
        BY <2>2 DEF TypeInv, TypeOK
      <4> HIDE DEF s
      <4> QED
        BY <4>1, <4>2 DEF TypeInv, TypeOK
    <3>3. \A v \in Workers :
            /\ worker'[v].task = worker[v].task
            /\ v # w => worker'[v] = worker[v]
            /\ v = w => worker'[v].pc = "record" /\ worker'[v].next = t
      BY <1>0, <2>2 DEF TypeInv, TypeOK, WorkerState
    <3>4. WorkerWF'
      BY <1>9, <3>1, <3>3, NoneAssumption
         DEF Resend, TypeInv, WorkerWF, RouteOf, BackupsOf
    <3> QED
      BY <1>9, <3>1, <3>2, <3>4 DEF Resend, TypeInv, TypeOK, PostWF, CancelWF
  <2>3. ASSUME Goto(w, "raise"), UNCHANGED <<args, queue>>
        PROVE  TypeInv'
    <3>1. worker' \in [Workers -> WorkerState] /\ WorkerWF'
      BY <1>9, <2>3, GotoType DEF Resend, WorkerPc
    <3> QED
      BY <1>9, <2>3, <3>1 DEF Resend, TypeInv, TypeOK, PostWF, CancelWF, QueueWF
  <2> QED
    BY <1>9, <2>2, <2>3 DEF Resend
<1>10. CASE RecordRetryJob(w)
  <2>1. worker[w].next \in Tasks
    BY <1>10 DEF RecordRetryJob, TypeInv, WorkerWF
  <2>2. worker' \in [Workers -> WorkerState] /\ WorkerWF'
    BY <1>10, FinishType, GotoType DEF RecordRetryJob, WorkerPc
  <2>3. jobs' \in [Tasks -> JobRow]
    BY <1>10, <1>a, <2>1, CreateJobType DEF RecordRetryJob, TypeInv, TypeOK
  <2> QED
    BY <1>10, <2>2, <2>3 DEF RecordRetryJob, TypeInv, TypeOK, PostWF, CancelWF,
                             QueueWF
<1>11. CASE RecordError(w)
  <2> DEFINE row == [worker[w].row EXCEPT !.info = "error"]
  <2>1. row \in Row
    BY <1>0 DEF Row
  <2> HIDE DEF row
  <2>2. \/ Save(RouteOf(w), row) /\ Finish(w)
        \/ SaveFails(row) /\ Goto(w, "raise")
    BY <1>11 DEF RecordError, row
  <2>3. worker' \in [Workers -> WorkerState] /\ WorkerWF'
    BY <1>11, <2>2, FinishType, GotoType DEF RecordError, WorkerPc
  <2>4. route' \in [Routes -> RouteRow]
    BY <1>11, <1>a, <2>1, <2>2, SaveType
       DEF RecordError, SaveFails, TypeInv, TypeOK
  <2> QED
    BY <1>11, <2>3, <2>4 DEF RecordError, TypeInv, TypeOK, PostWF, CancelWF,
                             QueueWF
<1>12. CASE Raise(w)
  <2>1. worker' \in [Workers -> WorkerState] /\ WorkerWF'
    BY <1>12, FinishType DEF Raise
  <2>2. result' \in [Tasks -> Result]
    BY <1>12 DEF Raise, TypeInv, TypeOK, Result
  <2> QED
    BY <1>12, <2>1, <2>2 DEF Raise, TypeInv, TypeOK, PostWF, CancelWF, QueueWF
<1>13. CASE WorkerCrash(w)
  <2>1. worker' \in [Workers -> WorkerState] /\ WorkerWF'
    BY <1>13, FinishType DEF WorkerCrash
  <2> QED
    BY <1>13, <2>1 DEF WorkerCrash, TypeInv, TypeOK, PostWF, CancelWF, QueueWF
<1>14. CASE ChildKilled(w)
  <2>1. worker' \in [Workers -> WorkerState] /\ WorkerWF'
    BY <1>14, FinishType DEF ChildKilled
  <2>2. result' \in [Tasks -> Result]
    BY <1>14 DEF ChildKilled, TypeInv, TypeOK, Result
  <2> QED
    BY <1>14, <2>1, <2>2
       DEF ChildKilled, TypeInv, TypeOK, PostWF, CancelWF, QueueWF
<1>15. CASE StoreRefused(w)
  <2>1. worker' \in [Workers -> WorkerState] /\ WorkerWF'
    BY <1>15, FinishType, GotoType DEF StoreRefused, WorkerPc
  <2> QED
    BY <1>15, <2>1 DEF StoreRefused, TypeInv, TypeOK, PostWF, CancelWF, QueueWF
<1> QED
  BY <1>1, <1>2, <1>3, <1>4, <1>5, <1>6, <1>7, <1>8, <1>9, <1>10, <1>11,
     <1>12, <1>13, <1>14, <1>15 DEF WorkerStep, WorkerDies

\* So do the imports, the clean-ups and the expiry of results.
LEMMA EnvironmentType ==
    ASSUME TypeInv,
           \/ \E m \in Meshes : ImportMesh(m) \/ CleanupMesh(m)
           \/ \E r \in Routes : CleanupRoute(r)
           \/ \E t \in Tasks : ResultExpires(t)
    PROVE  TypeInv'
<1> USE DEF tables, celery, web
<1>1. ASSUME NEW m \in Meshes, ImportMesh(m)
      PROVE  TypeInv'
  BY <1>1 DEF ImportMesh, TypeInv, TypeOK, RowState, PostWF, CancelWF, QueueWF,
              WorkerWF, RouteOf, BackupsOf
<1>2. ASSUME NEW m \in Meshes, CleanupMesh(m)
      PROVE  TypeInv'
  <2>1. mesh' \in [Meshes -> RowState]
    BY <1>2 DEF CleanupMesh, TypeInv, TypeOK, RowState
  <2>2. ASSUME NEW s \in RouteRow
        PROVE  [s EXCEPT !.row.mesh = None] \in RouteRow
    <3>1. [s.row EXCEPT !.mesh = None] \in Row
      BY DEF RouteRow, Row
    <3>2. [s EXCEPT !.row.mesh = None]
            = [s EXCEPT !.row = [s.row EXCEPT !.mesh = None]]
      BY DEF RouteRow
    <3> QED
      BY <3>1, <3>2 DEF RouteRow
  <2>3. route' \in [Routes -> RouteRow]
    BY <1>2, <2>2 DEF CleanupMesh, TypeInv, TypeOK
  <2> QED
    BY <1>2, <2>1, <2>3 DEF CleanupMesh, TypeInv, TypeOK, PostWF, CancelWF,
                            QueueWF, WorkerWF, RouteOf, BackupsOf
<1>3. ASSUME NEW r \in Routes, CleanupRoute(r)
      PROVE  TypeInv'
  <2>1. route' \in [Routes -> RouteRow] /\ jobs' \in [Tasks -> JobRow]
    BY <1>3, DeleteType DEF CleanupRoute, TypeInv
  <2> QED
    BY <1>3, <2>1 DEF CleanupRoute, TypeInv, TypeOK, PostWF, CancelWF, QueueWF,
                      WorkerWF, RouteOf, BackupsOf
<1>4. ASSUME NEW t \in Tasks, ResultExpires(t)
      PROVE  TypeInv'
  BY <1>4 DEF ResultExpires, TypeInv, TypeOK, Result, PostWF, CancelWF, QueueWF,
              WorkerWF, RouteOf, BackupsOf
<1> QED
  BY <1>1, <1>2, <1>3, <1>4

LEMMA NextType == TypeInv /\ [Next]_vars => TypeInv'
<1> SUFFICES ASSUME TypeInv, [Next]_vars PROVE TypeInv'
  OBVIOUS
<1>1. ASSUME UNCHANGED vars PROVE TypeInv'
  BY <1>1 DEF vars, TypeInv, TypeOK, PostWF, CancelWF, QueueWF, WorkerWF,
              RouteOf, BackupsOf
<1> QED
  BY <1>1, PostType, CancelType, WorkerType, EnvironmentType DEF Next, Rest

\* Every table, the queue, the result backend and the local states keep their
\* types, and no process reaches a point of the code without what it reads
\* there.
THEOREM TypeCorrect == Spec => []TypeOK
<1>1. TypeInv => TypeOK
  BY DEF TypeInv
<1> QED
  BY <1>1, InitType, NextType, PTL DEF Spec

----------------------------------------------------------------------------
(* One writer per route, and what SUCCESS means *)

\* No POST, queued task or worker may write the route any more: NoWriter of
\* RouteJobs, process by process.
Free(r) ==
    /\ \A p \in Posts : post[p].pc = "send" => post[p].route # r
    /\ \A t \in queue : args[t].route # r
    /\ \A w \in Workers : worker[w].pc \in WritingPc => RouteOf(w) # r

\* The routes of writers, and of all tasks that were sent, were created.
Born ==
    /\ \A p \in Posts :
         post[p].pc = "send" => route[post[p].route].state # "unborn"
    /\ \A t \in Tasks :
         args[t].route # None => route[args[t].route].state # "unborn"

UnsentPending ==
    \A t \in Tasks : args[t].route = None => result[t] = "PENDING"

\* OneWriter, process by process.
Exclusive ==
    /\ \A p, q \in Posts :
         /\ post[p].pc = "send" /\ post[q].pc = "send"
         /\ post[p].route = post[q].route
         => p = q
    /\ \A t, u \in queue : args[t].route = args[u].route => t = u
    /\ \A v, w \in Workers :
         /\ worker[v].pc \in WritingPc /\ worker[w].pc \in WritingPc
         /\ RouteOf(v) = RouteOf(w)
         => v = w
    /\ \A p \in Posts : \A t \in queue :
         post[p].pc = "send" => post[p].route # args[t].route
    /\ \A p \in Posts : \A w \in Workers :
         post[p].pc = "send" /\ worker[w].pc \in WritingPc =>
            post[p].route # RouteOf(w)
    /\ \A t \in queue : \A w \in Workers :
         worker[w].pc \in WritingPc => args[t].route # RouteOf(w)

Done(r) == Free(r) /\ (Exists(r) => route[r].row.calculated)

ReturnDone ==
    \A w \in Workers : worker[w].pc = "return" => Done(RouteOf(w))

SuccessDone ==
    \A t \in Tasks : result[t] = "SUCCESS" => Done(args[t].route)

Inv == /\ TypeInv /\ Born /\ UnsentPending /\ Exclusive
       /\ ReturnDone /\ SuccessDone

\* The two forms of the invariant agree.
LEMMA FreeIsNoWriter ==
    ASSUME NEW r
    PROVE  Free(r) <=> NoWriter(r)
BY DEF Free, NoWriter, Sending, Queued, Writing

LEMMA ExclusiveIsOneWriter == ASSUME Exclusive PROVE OneWriter
BY DEF Exclusive, OneWriter, Sending, Queued, Writing

LEMMA DoneIsSuccess ==
    ASSUME SuccessDone PROVE SuccessIsCalculated
BY FreeIsNoWriter DEF SuccessDone, SuccessIsCalculated, Done

\* What the continuations of a worker change.
LEMMA GotoEffect ==
    ASSUME TypeOK, NEW w \in Workers, NEW pc, Goto(w, pc)
    PROVE  /\ worker'[w].pc = pc /\ worker'[w].task = worker[w].task
           /\ \A v \in Workers : v # w => worker'[v] = worker[v]
BY DEF TypeOK, WorkerState, Goto

LEMMA GotoWithEffect ==
    ASSUME TypeOK, NEW w \in Workers, NEW pc, NEW row, NEW error,
           GotoWith(w, pc, row, error)
    PROVE  /\ worker'[w].pc = pc /\ worker'[w].task = worker[w].task
           /\ \A v \in Workers : v # w => worker'[v] = worker[v]
BY DEF TypeOK, WorkerState, GotoWith

LEMMA FinishEffect ==
    ASSUME TypeOK, NEW w \in Workers, Finish(w)
    PROVE  /\ worker'[w].pc = "idle"
           /\ \A v \in Workers : v # w => worker'[v] = worker[v]
BY DEF TypeOK, WorkerState, Finish, IdleWorker

LEMMA SaveEffect ==
    ASSUME TypeOK, NEW r \in Routes, NEW row, Save(r, row)
    PROVE  /\ route'[r].state = "stored" /\ route'[r].row = row
           /\ \A q \in Routes : q # r => route'[q] = route[q]
BY DEF TypeOK, Save

\* A row of which nobody is a writer is not created, revived or reset.
KeepsFreeRoutes ==
    \A r \in Routes :
        /\ route[r].state # "unborn" => route'[r].state # "unborn"
        /\ Free(r) /\ route'[r].state = "stored" =>
              /\ Exists(r)
              /\ route[r].row.calculated => route'[r].row.calculated

LEMMA SaveKeepsFreeRoutes ==
    ASSUME TypeInv, NEW w \in Workers, worker[w].pc \in WritingPc,
           NEW row, Save(RouteOf(w), row)
    PROVE  KeepsFreeRoutes
<1>1. RouteOf(w) \in Routes
  BY DEF TypeInv, WorkerWF, WritingPc
<1> QED
  BY <1>1, SaveEffect DEF KeepsFreeRoutes, Free, Exists, TypeInv

LEMMA DeleteKeepsFreeRoutes ==
    ASSUME TypeInv, NEW r \in Routes, DeleteRoute(r)
    PROVE  KeepsFreeRoutes
BY DEF KeepsFreeRoutes, DeleteRoute, Exists, TypeInv, TypeOK

\* A step keeps the invariant if nobody becomes a writer by it, no new task
\* is sent, and SUCCESS is stored only for a task that has returned.
LEMMA QuietStep ==
    ASSUME Inv, TypeInv', KeepsFreeRoutes, UNCHANGED args,
           queue' \subseteq queue,
           \A p \in Posts : post'[p].pc = "send" =>
              post[p].pc = "send" /\ post'[p].route = post[p].route,
           \A w \in Workers : worker'[w].pc \in WritingPc =>
              worker[w].pc \in WritingPc /\ worker'[w].task = worker[w].task,
           \A w \in Workers : worker'[w].pc = "return" =>
              worker[w].pc = "return" /\ worker'[w].task = worker[w].task,
           \A t \in Tasks :
              \/ result'[t] = result[t]
              \/ args[t].route # None /\ result'[t] # "SUCCESS"
              \/ \E w \in Workers : worker[w].pc = "return" /\ worker[w].task = t
    PROVE  Inv'
<1>1. \A r : Free(r) => Free(r)'
  BY DEF Free, RouteOf
<1>2. \A r \in Routes : Done(r) => Done(r)'
  BY <1>1 DEF Done, KeepsFreeRoutes, Exists
<1>3. Born'
  BY SMTT(30) DEF Inv, TypeInv, TypeOK, PostWF, TaskArgs, Born, KeepsFreeRoutes
<1>4. UnsentPending'
  BY NoneAssumption
     DEF Inv, UnsentPending, TypeInv, WorkerWF, RouteOf
<1>5. Exclusive'
  BY DEF Inv, Exclusive, RouteOf
<1>6. ReturnDone'
  BY <1>2 DEF Inv, TypeInv, WorkerWF, ReturnDone, RouteOf
<1>7. SuccessDone'
  <2> SUFFICES ASSUME NEW t \in Tasks, result'[t] = "SUCCESS"
               PROVE  Done(args[t].route)'
    BY DEF SuccessDone
  <2>1. ASSUME result[t] = "SUCCESS"
        PROVE  args[t].route \in Routes /\ Done(args[t].route)
    BY <2>1 DEF Inv, SuccessDone, TypeInv, TypeOK, TaskArgs, UnsentPending
  <2>2. ASSUME NEW w \in Workers, worker[w].pc = "return", worker[w].task = t
        PROVE  args[t].route \in Routes /\ Done(args[t].route)
    BY <2>2 DEF Inv, ReturnDone, TypeInv, WorkerWF, RouteOf
  <2>3. args[t].route \in Routes /\ Done(args[t].route)
    BY <2>1, <2>2
  <2> QED
    BY <1>2, <2>3
<1> QED
  BY <1>3, <1>4, <1>5, <1>6, <1>7 DEF Inv

LEMMA InitInv == Init => Inv
<1> SUFFICES ASSUME Init PROVE Inv
  OBVIOUS
<1>1. TypeInv
  BY InitType
<1>2. \A p \in Posts : post[p].pc = "ready"
  BY DEF Init, IdlePost
<1>3. \A w \in Workers : worker[w].pc = "idle"
  BY DEF Init, IdleWorker
<1>4. \A t \in Tasks : args[t].route = None /\ result[t] = "PENDING"
  BY DEF Init, NoArgs
<1>5. queue = {}
  BY DEF Init
<1> QED
  BY <1>1, <1>2, <1>3, <1>4, <1>5
     DEF Inv, Born, UnsentPending, Exclusive, ReturnDone, SuccessDone,
         WritingPc

LEMMA SameKeepsFreeRoutes ==
    ASSUME TypeInv, UNCHANGED route PROVE KeepsFreeRoutes
BY DEF KeepsFreeRoutes, Exists

\* A step of a POST that does not make it a sender.
LEMMA QuietPost ==
    ASSUME Inv, TypeInv', NEW p \in Posts, KeepsFreeRoutes,
           UNCHANGED <<celery, worker>>, post'[p].pc # "send",
           \A q \in Posts : q # p => post'[q] = post[q]
    PROVE  Inv'
BY QuietStep DEF celery, RouteOf

\* A step of a worker that stores no SUCCESS and sends no task.
LEMMA QuietWorker ==
    ASSUME Inv, TypeInv', NEW w \in Workers, KeepsFreeRoutes,
           UNCHANGED <<args, post>>, queue' \subseteq queue,
           \/ UNCHANGED result
           \/ /\ worker[w].pc # "idle"
              /\ result' = [result EXCEPT ![worker[w].task] = "FAILURE"],
           \A v \in Workers : v # w => worker'[v] = worker[v],
           worker'[w].pc \in WritingPc =>
              worker[w].pc \in WritingPc /\ worker'[w].task = worker[w].task,
           worker'[w].pc # "return"
    PROVE  Inv'
<1>1. \A t \in Tasks :
         \/ result'[t] = result[t]
         \/ args[t].route # None /\ result'[t] # "SUCCESS"
  BY NoneAssumption DEF Inv, TypeInv, TypeOK, WorkerWF, RouteOf
<1> QED
  BY <1>1, QuietStep

----------------------------------------------------------------------------

\* A POST that creates a route becomes its first writer.
LEMMA PostCreateInv ==
    ASSUME Inv, TypeInv', NEW p \in Posts, PostCreate(p)
    PROVE  Inv'
<1> USE DEF tables, celery
<1> DEFINE row == [NoRow EXCEPT !.trip = post[p].body.trip,
                                !.mesh = Head(post[p].meshes)]
<1>1. ASSUME NEW r \in Routes, route[r].state = "unborn", Save(r, row),
             post' = [post EXCEPT ![p].pc = "send", ![p].route = r]
      PROVE  Inv'
  <2> HIDE DEF row
  <2>1. /\ UNCHANGED <<args, queue, result, worker>>
        /\ route'[r].state = "stored"
        /\ \A q \in Routes : q # r => route'[q] = route[q]
    BY <1>1, SaveEffect DEF PostCreate, Inv, TypeInv
  <2>2. /\ post'[p].pc = "send" /\ post'[p].route = r
        /\ \A q \in Posts : q # p => post'[q] = post[q]
    BY <1>1 DEF Inv, TypeInv, TypeOK, PostState
  <2>3. \A t \in Tasks : args[t].route # r
    BY <1>1, NoneAssumption DEF Inv, Born
  <2>4. \A q \in Posts : post[q].pc = "send" => post[q].route # r
    BY <1>1 DEF Inv, Born
  <2>5. \A w \in Workers : worker[w].pc # "idle" =>
            worker[w].task \in Tasks /\ RouteOf(w) # r /\ RouteOf(w)' = RouteOf(w)
    BY <2>1, <2>3 DEF Inv, TypeInv, WorkerWF, RouteOf
  <2>6. \A t \in queue : t \in Tasks
    BY DEF Inv, TypeInv, TypeOK
  <2>7. \A q \in Routes : q # r /\ Done(q) => Done(q)'
    BY <2>1, <2>2 DEF Done, Free, Exists, RouteOf
  <2>8. Born'
    <3>1. \A q \in Routes : route[q].state # "unborn" => route'[q].state # "unborn"
      BY <2>1
    <3>2. ASSUME NEW q \in Posts, post'[q].pc = "send"
          PROVE  route'[post'[q].route].state # "unborn"
      <4>1. CASE q = p
        BY <2>1, <2>2, <4>1
      <4>2. CASE q # p
        BY <2>2, <3>1, <3>2, <4>2 DEF Inv, Born, TypeInv, PostWF
      <4> QED
        BY <4>1, <4>2
    <3>3. ASSUME NEW t \in Tasks, args[t].route # None
          PROVE  route'[args[t].route].state # "unborn"
      BY <3>1, <3>3 DEF Inv, Born, TypeInv, TypeOK, TaskArgs
    <3> QED
      BY <2>1, <3>2, <3>3 DEF Born
  <2>9. Exclusive'
    BY <2>1, <2>2, <2>3, <2>4, <2>5, <2>6 DEF Inv, Exclusive, WritingPc
  <2>10. ReturnDone'
    BY <2>1, <2>5, <2>7 DEF Inv, ReturnDone, TypeInv, WorkerWF
  <2>11. SuccessDone'
    BY <2>1, <2>3, <2>7
       DEF Inv, SuccessDone, UnsentPending, TypeInv, TypeOK, TaskArgs
  <2> QED
    BY <2>1, <2>8, <2>9, <2>10, <2>11 DEF Inv, UnsentPending
<1>2. ASSUME SaveFails(row), Answer(p, 500, None)
      PROVE  Inv'
  <2> HIDE DEF row
  <2>1. KeepsFreeRoutes
    BY <1>2, SameKeepsFreeRoutes DEF SaveFails, Inv
  <2>2. post'[p].pc = "done" /\ \A q \in Posts : q # p => post'[q] = post[q]
    BY <1>2, AnswerType DEF Code, Inv
  <2> QED
    BY <2>1, <2>2, QuietPost DEF PostCreate
<1> QED
  BY <1>1, <1>2 DEF PostCreate

\* Who has a task in hand does not have a fresh one.
LEMMA HeldIsSent ==
    ASSUME TypeInv, NEW t \in Tasks, args[t].route = None,
           NEW w \in Workers, worker[w].pc # "idle"
    PROVE  worker[w].task # t
BY NoneAssumption DEF TypeInv, WorkerWF, RouteOf

\* The right to write passes from the POST to the task.
LEMMA PostSendInv ==
    ASSUME Inv, TypeInv', NEW p \in Posts, PostSend(p)
    PROVE  Inv'
<1> USE DEF tables, celery
<1> DEFINE r == post[p].route
           backups == AllButFirst(post[p].meshes)
<1>0. post[p] \in PostState /\ r \in Routes /\ backups \in Seq(Meshes)
  BY TailType DEF PostSend, Inv, TypeInv, TypeOK, PostWF, PostState
<1>1. ASSUME NEW t \in Tasks, Delay(t, r, backups),
             post' = [post EXCEPT ![p].pc = "record", ![p].task = t]
      PROVE  Inv'
  <2> HIDE DEF backups
  <2>1. /\ UNCHANGED <<route, result, worker>>
        /\ queue' = queue \cup {t}
        /\ args[t].route = None /\ args'[t].route = r
        /\ \A u \in Tasks : u # t => args'[u] = args[u]
    BY <1>0, <1>1, DelayType DEF PostSend, Inv
  <2>2. /\ post'[p].pc = "record"
        /\ \A q \in Posts : q # p => post'[q] = post[q]
    BY <1>0, <1>1 DEF Inv, TypeInv, TypeOK, PostState
  <2>3. post[p].pc = "send"
    BY DEF PostSend
  <2>4. \A w \in Workers : worker[w].pc # "idle" =>
            worker[w].task \in Tasks /\ RouteOf(w)' = RouteOf(w)
    BY <2>1, HeldIsSent DEF Inv, TypeInv, WorkerWF, RouteOf
  <2>5. \A u \in queue : u # t /\ u \in Tasks
    BY <2>1, NoneAssumption DEF Inv, TypeInv, TypeOK, QueueWF
  <2> HIDE DEF r
  <2>6. \A q \in Routes : Done(q) => Done(q)'
    <3>1. \A q \in Routes : Free(q) => Free(q)'
      BY <2>1, <2>2, <2>3, <2>4, <2>5 DEF Free, WritingPc, r
    <3> QED
      BY <2>1, <3>1 DEF Done, Exists
  <2>7. Born'
    BY <2>1, <2>2, <2>3 DEF Inv, Born, r
  <2>8. UnsentPending'
    BY <2>1 DEF Inv, UnsentPending
  <2>9. Exclusive'
    BY <2>1, <2>2, <2>3, <2>4, <2>5 DEF Inv, Exclusive, WritingPc, r
  <2>10. ReturnDone'
    BY <2>1, <2>4, <2>6 DEF Inv, ReturnDone, TypeInv, WorkerWF
  <2>11. SuccessDone'
    BY <2>1, <2>6
       DEF Inv, SuccessDone, UnsentPending, TypeInv, TypeOK, TaskArgs
  <2> QED
    BY <2>7, <2>8, <2>9, <2>10, <2>11 DEF Inv
<1>2. ASSUME Answer(p, 500, None), UNCHANGED <<args, queue>>
      PROVE  Inv'
  <2>1. KeepsFreeRoutes
    BY SameKeepsFreeRoutes DEF PostSend, Inv
  <2>2. post'[p].pc = "done" /\ \A q \in Posts : q # p => post'[q] = post[q]
    BY <1>2, AnswerType DEF Code, Inv
  <2> QED
    BY <1>2, <2>1, <2>2, QuietPost DEF PostSend
<1> QED
  BY <1>1, <1>2 DEF PostSend

\* The steps of a POST that neither create a row nor send a task.
LEMMA PostMoves ==
    ASSUME TypeInv, NEW p \in Posts,
           \/ PostSelect(p) \/ PostLookup(p) \/ PostReuse(p) \/ PostRecord(p)
           \/ PostCrash(p)
    PROVE  /\ post'[p].pc # "send"
           /\ \A q \in Posts : q # p => post'[q] = post[q]
           /\ UNCHANGED <<mesh, route, args, queue, result, cancel, worker>>
<1> USE DEF tables, celery
<1>0. post[p] \in PostState
  BY DEF TypeInv, TypeOK
<1>1. CASE PostSelect(p)
  <2>1. \/ \E m : post' = [post EXCEPT ![p].pc = "lookup", ![p].day = Day[m]]
        \/ post' = [post EXCEPT ![p].pc = "lookup"]
        \/ Answer(p, 404, None) \/ Answer(p, 400, None)
    BY <1>1 DEF PostSelect
  <2>2. \A q \in Posts : q # p => post'[q] = post[q]
    BY <1>0, <2>1, AnswerType DEF TypeInv, TypeOK, Code
  <2>3. post'[p].pc \in {"lookup", "done"}
    <3>1. CASE Answer(p, 404, None) \/ Answer(p, 400, None)
      BY <1>0, <3>1, AnswerType DEF Code
    <3>2. CASE ~Answer(p, 404, None) /\ ~Answer(p, 400, None)
      BY <1>0, <2>1, <3>2 DEF TypeInv, TypeOK, PostState
    <3> QED
      BY <3>1, <3>2
  <2> QED
    BY <1>1, <2>2, <2>3 DEF PostSelect
<1>2. CASE PostLookup(p)
  <2>1. \/ \E meshes, r :
             post' = [post EXCEPT ![p].pc = "reuse", ![p].route = r,
                                  ![p].meshes = meshes]
        \/ \E meshes :
             post' = [post EXCEPT ![p].pc = "create", ![p].meshes = meshes]
        \/ Answer(p, 500, None)
    BY <1>2 DEF PostLookup
  <2>2. ASSUME Answer(p, 500, None)
        PROVE  /\ post'[p].pc # "send"
               /\ \A q \in Posts : q # p => post'[q] = post[q]
    BY <1>0, <2>2, AnswerType DEF Code
  <2>3. ASSUME ~Answer(p, 500, None)
        PROVE  /\ post'[p].pc # "send"
               /\ \A q \in Posts : q # p => post'[q] = post[q]
    <3>1. \A q \in Posts : q # p => post'[q] = post[q]
      BY <1>0, <2>1, <2>3 DEF TypeInv, TypeOK
    <3>2. post'[p].pc \in {"reuse", "create"}
      BY <1>0, <2>1, <2>3, ZenonT(40) DEF TypeInv, TypeOK, PostState
    <3> QED
      BY <3>1, <3>2
  <2> QED
    BY <1>2, <2>2, <2>3 DEF PostLookup
<1>3. CASE PostReuse(p)
  <2>1. \E t \in Tasks \cup {None}, code \in Code : Answer(p, code, t)
    BY <1>3 DEF PostReuse, LatestJobs, JobSet, Code
  <2>2. post'[p].pc # "send" /\ \A q \in Posts : q # p => post'[q] = post[q]
    BY <1>0, <2>1, AnswerType
  <2> QED
    BY <1>3, <2>2 DEF PostReuse
<1>4. CASE PostRecord(p)
  <2>1. \E t \in Tasks \cup {None}, code \in Code : Answer(p, code, t)
    BY <1>0, <1>4 DEF PostRecord, TypeInv, PostWF, Code
  <2>2. post'[p].pc # "send" /\ \A q \in Posts : q # p => post'[q] = post[q]
    BY <1>0, <2>1, AnswerType
  <2> QED
    BY <1>4, <2>2 DEF PostRecord
<1>5. CASE PostCrash(p)
  <2>1. post'[p].pc # "send" /\ \A q \in Posts : q # p => post'[q] = post[q]
    BY <1>0, <1>5 DEF PostCrash, TypeInv, TypeOK, IdlePost
  <2> QED
    BY <1>5, <2>1 DEF PostCrash
<1> QED
  BY <1>1, <1>2, <1>3, <1>4, <1>5

LEMMA PostInv ==
    ASSUME Inv, NEW p \in Posts, PostSelect(p) \/ PostStep(p) \/ PostCrash(p)
    PROVE  Inv'
<1>0. TypeInv' /\ TypeInv
  BY PostType DEF Inv
<1>1. CASE \/ PostSelect(p) \/ PostLookup(p) \/ PostReuse(p) \/ PostRecord(p)
           \/ PostCrash(p)
  BY <1>0, <1>1, PostMoves, QuietPost, SameKeepsFreeRoutes DEF celery
<1> QED
  BY <1>0, <1>1, PostCreateInv, PostSendInv DEF PostStep

LEMMA CancelInv ==
    ASSUME Inv, NEW c \in Cancels,
           CancelFind(c) \/ CancelStep(c) \/ CancelCrash(c)
    PROVE  Inv'
<1> USE DEF tables, celery
<1>1. TypeInv' /\ TypeInv
  BY CancelType DEF Inv
<1>2. UNCHANGED <<celery, post, worker>>
  BY DEF CancelFind, CancelStep, CancelRevoke, CancelDelete, CancelCrash
<1>3. KeepsFreeRoutes
  <2>1. CASE CancelDelete(c)
    BY <1>1, <2>1, DeleteKeepsFreeRoutes DEF CancelDelete, TypeInv, CancelWF
  <2>2. CASE ~CancelDelete(c)
    BY <1>1, <2>2, SameKeepsFreeRoutes
       DEF CancelFind, CancelStep, CancelRevoke, CancelCrash
  <2> QED
    BY <2>1, <2>2
<1> QED
  BY <1>1, <1>2, <1>3, QuietStep

\* The right to write passes from the task to the worker that takes it.
LEMMA TakeInv ==
    ASSUME Inv, TypeInv', NEW w \in Workers, Take(w)
    PROVE  Inv'
<1> USE DEF tables, web
<1>1. PICK t \in queue :
        /\ queue' = queue \ {t}
        /\ \E s : /\ s.task = t /\ s.pc \in {"plan", "raise"}
                  /\ worker' = [worker EXCEPT ![w] = s]
  <2>1. PICK t \in queue :
          /\ queue' = queue \ {t}
          /\ \/ \E info : worker' = [worker EXCEPT ![w] =
                             [[IdleWorker EXCEPT !.task = t] EXCEPT !.pc = "plan",
                                !.row = [route[args[t].route].row EXCEPT
                                           !.info = info]]]
             \/ worker' = [worker EXCEPT ![w] =
                             [[IdleWorker EXCEPT !.task = t] EXCEPT !.pc = "raise"]]
    BY DEF Take
  <2> QED
    BY <2>1 DEF IdleWorker
<1>2. /\ worker'[w].task = t /\ worker'[w].pc \in {"plan", "raise"}
      /\ \A v \in Workers : v # w => worker'[v] = worker[v]
  BY <1>1 DEF Inv, TypeInv, TypeOK
<1>3. /\ worker[w].pc = "idle" /\ UNCHANGED <<route, args, result, post>>
      /\ t \in Tasks
  BY DEF Take, Inv, TypeInv, TypeOK
<1>4. \A v \in Workers : v # w => RouteOf(v)' = RouteOf(v)
  BY <1>2, <1>3 DEF RouteOf
<1>5. RouteOf(w)' = args[t].route
  BY <1>2, <1>3 DEF RouteOf
<1>6. \A q \in Routes : Done(q) => Done(q)'
  <2>1. \A q \in Routes : Free(q) => Free(q)'
    BY <1>1, <1>2, <1>3, <1>4, <1>5 DEF Free
  <2> QED
    BY <1>3, <2>1 DEF Done, Exists
<1>7. Exclusive'
  BY <1>1, <1>2, <1>3, <1>4, <1>5 DEF Inv, Exclusive, WritingPc
<1>8. ReturnDone'
  BY <1>2, <1>4, <1>6 DEF Inv, ReturnDone, TypeInv, WorkerWF
<1>9. SuccessDone'
  BY <1>3, <1>6
     DEF Inv, SuccessDone, UnsentPending, TypeInv, TypeOK, TaskArgs
<1> QED
  BY <1>3, <1>7, <1>8, <1>9 DEF Inv, Born, UnsentPending

\* The last save of a calculation gives the right to write up.
LEMMA SaveSmoothedInv ==
    ASSUME Inv, TypeInv', NEW w \in Workers, SaveSmoothed(w)
    PROVE  Inv'
<1> USE DEF tables, celery, web
<1> DEFINE row == Smoothed(worker[w].row)
           r == RouteOf(w)
<1>0. r \in Routes /\ worker[w] \in WorkerState /\ worker[w].pc = "smooth"
  BY DEF SaveSmoothed, Inv, TypeInv, TypeOK, WorkerWF
<1>1. row.calculated
  BY <1>0 DEF Smoothed, WorkerState, Row
<1>2. ASSUME Save(r, row), GotoWith(w, "return", row, "none")
      PROVE  Inv'
  <2> HIDE DEF row
  <2>1. /\ UNCHANGED <<args, queue, result, post>>
        /\ route'[r].state = "stored" /\ route'[r].row = row
        /\ \A q \in Routes : q # r => route'[q] = route[q]
    BY <1>0, <1>2, SaveEffect DEF SaveSmoothed, Inv, TypeInv
  <2>2. /\ worker'[w].pc = "return" /\ worker'[w].task = worker[w].task
        /\ \A v \in Workers : v # w => worker'[v] = worker[v]
    BY <1>2, GotoWithEffect DEF Inv, TypeInv
  <2>3. \A v \in Workers : RouteOf(v)' = RouteOf(v)
    BY <2>1, <2>2 DEF RouteOf
  <2>4. \A q \in Routes : Free(q) => Free(q)'
    BY <2>1, <2>2, <2>3 DEF Free, WritingPc
  <2>5. \A q \in Routes : Done(q) => Done(q)'
    BY <1>1, <2>1, <2>4 DEF Done, Exists
  <2>6. Done(r)'
    <3>1. Free(r)'
      BY <1>0, <2>1, <2>2, <2>3 DEF Inv, Exclusive, Free, WritingPc
    <3> QED
      BY <1>1, <2>1, <2>3, <3>1 DEF Done, Exists
  <2>7. \A q : route[q].state # "unborn" /\ q \in Routes
                  => route'[q].state # "unborn"
    BY <2>1
  <2> HIDE DEF r
  <2>8. Born'
    BY <2>1, <2>7 DEF Inv, Born, TypeInv, TypeOK, PostWF, TaskArgs
  <2>9. Exclusive'
    BY <1>0, <2>1, <2>2, <2>3 DEF Inv, Exclusive, WritingPc
  <2>10. ReturnDone'
    BY <2>2, <2>3, <2>5, <2>6 DEF Inv, ReturnDone, TypeInv, WorkerWF, r
  <2>11. SuccessDone'
    BY <2>1, <2>5
       DEF Inv, SuccessDone, UnsentPending, TypeInv, TypeOK, TaskArgs
  <2> QED
    BY <2>1, <2>8, <2>9, <2>10, <2>11 DEF Inv, UnsentPending
<1>3. ASSUME SaveFails(row), GotoWith(w, "failed", row, "error")
      PROVE  Inv'
  <2> HIDE DEF row
  <2>1. KeepsFreeRoutes
    BY <1>3, SameKeepsFreeRoutes DEF SaveFails, Inv
  <2>2. /\ worker'[w].pc = "failed" /\ worker'[w].task = worker[w].task
        /\ \A v \in Workers : v # w => worker'[v] = worker[v]
    BY <1>3, GotoWithEffect DEF Inv, TypeInv
  <2> QED
    BY <1>0, <2>1, <2>2, QuietWorker DEF SaveSmoothed, WritingPc
<1> QED
  BY <1>2, <1>3 DEF SaveSmoothed

\* The right to write passes from the worker to the task of the retry.
LEMMA ResendInv ==
    ASSUME Inv, TypeInv', NEW w \in Workers, Resend(w)
    PROVE  Inv'
<1> USE DEF tables, web
<1> DEFINE r == RouteOf(w)
           backups == AllButFirst(BackupsOf(w))
<1>0. /\ r \in Routes /\ backups \in Seq(Meshes) /\ worker[w] \in WorkerState
      /\ worker[w].pc = "resend" /\ worker[w].task \in Tasks
  BY TailType DEF Resend, Inv, TypeInv, TypeOK, WorkerWF, BackupsOf, TaskArgs
<1>1. ASSUME NEW t \in Tasks, Delay(t, r, backups),
             worker' = [worker EXCEPT ![w].pc = "record", ![w].next = t]
      PROVE  Inv'
  <2> HIDE DEF backups
  <2>1. /\ UNCHANGED <<route, result, post>>
        /\ queue' = queue \cup {t}
        /\ args[t].route = None /\ args'[t].route = r
        /\ \A u \in Tasks : u # t => args'[u] = args[u]
    BY <1>0, <1>1, DelayType DEF Resend, Inv
  <2>2. /\ worker'[w].pc = "record" /\ worker'[w].task = worker[w].task
        /\ \A v \in Workers : v # w => worker'[v] = worker[v]
    BY <1>0, <1>1 DEF Inv, TypeInv, TypeOK, WorkerState
  <2>3. \A v \in Workers : worker[v].pc # "idle" =>
            worker[v].task \in Tasks /\ RouteOf(v)' = RouteOf(v)
    BY <2>1, <2>2, HeldIsSent DEF Inv, TypeInv, WorkerWF, RouteOf
  <2>4. \A u \in queue : u # t /\ u \in Tasks
    BY <2>1, NoneAssumption DEF Inv, TypeInv, TypeOK, QueueWF
  <2>5. route[r].state # "unborn"
    BY <1>0, NoneAssumption DEF Inv, Born, RouteOf
  <2> HIDE DEF r
  <2>6. \A q \in Routes : Done(q) => Done(q)'
    <3>1. \A q \in Routes : Free(q) => Free(q)'
      BY <1>0, <2>1, <2>2, <2>3, <2>4 DEF Free, WritingPc, r
    <3> QED
      BY <2>1, <3>1 DEF Done, Exists
  <2>7. Born'
    BY <2>1, <2>5 DEF Inv, Born
  <2>8. UnsentPending'
    BY <2>1 DEF Inv, UnsentPending
  <2>9. Exclusive'
    BY <1>0, <2>1, <2>2, <2>3, <2>4 DEF Inv, Exclusive, WritingPc, r
  <2>10. ReturnDone'
    BY <2>2, <2>3, <2>6 DEF Inv, ReturnDone, TypeInv, WorkerWF
  <2>11. SuccessDone'
    BY <2>1, <2>6
       DEF Inv, SuccessDone, UnsentPending, TypeInv, TypeOK, TaskArgs
  <2> QED
    BY <2>7, <2>8, <2>9, <2>10, <2>11 DEF Inv
<1>2. ASSUME Goto(w, "raise"), UNCHANGED <<args, queue>>
      PROVE  Inv'
  <2>1. /\ worker'[w].pc = "raise"
        /\ \A v \in Workers : v # w => worker'[v] = worker[v]
    BY <1>2, GotoEffect DEF Inv, TypeInv
  <2> QED
    BY <1>2, <2>1, QuietWorker, SameKeepsFreeRoutes DEF Resend, Inv, WritingPc
<1> QED
  BY <1>1, <1>2 DEF Resend

LEMMA WorkerInv ==
    ASSUME Inv, NEW w \in Workers, WorkerStep(w) \/ WorkerDies(w)
    PROVE  Inv'
<1> USE DEF tables, celery, web
<1>0. TypeInv' /\ TypeInv /\ TypeOK
  BY WorkerType DEF Inv, TypeInv
<1>a. worker[w].pc # "idle" => args[worker[w].task].route # None
  BY NoneAssumption DEF Inv, TypeInv, WorkerWF, RouteOf
<1>1. CASE SaveUnsmoothed(w)
  <2> DEFINE row == Unsmoothed(worker[w].row)
  <2>1. \/ Save(RouteOf(w), row) /\ GotoWith(w, "smooth", row, "none")
        \/ UNCHANGED route /\ GotoWith(w, "failed", row, "error")
    BY <1>1 DEF SaveUnsmoothed, SaveFails
  <2> HIDE DEF row
  <2>2. worker[w].pc = "plan" /\ UNCHANGED <<args, queue, result, post>>
    BY <1>1 DEF SaveUnsmoothed
  <2>3. KeepsFreeRoutes
    BY <1>0, <2>1, <2>2, SaveKeepsFreeRoutes, SameKeepsFreeRoutes
       DEF WritingPc
  <2>4. /\ worker'[w].pc \in {"smooth", "failed"}
        /\ worker'[w].task = worker[w].task
        /\ \A v \in Workers : v # w => worker'[v] = worker[v]
    BY <1>0, <2>1, GotoWithEffect
  <2> QED
    BY <1>0, <2>2, <2>3, <2>4, QuietWorker DEF WritingPc
<1>2. CASE PlanFails(w) \/ SmoothFails(w)
  <2>1. /\ worker[w].pc \in WritingPc
        /\ UNCHANGED <<route, args, queue, result, post>>
        /\ \E error : GotoWith(w, "failed", worker[w].row, error)
    BY <1>2 DEF PlanFails, SmoothFails, WritingPc
  <2>2. /\ worker'[w].pc = "failed" /\ worker'[w].task = worker[w].task
        /\ \A v \in Workers : v # w => worker'[v] = worker[v]
    BY <1>0, <2>1, GotoWithEffect
  <2> QED
    BY <1>0, <2>1, <2>2, QuietWorker, SameKeepsFreeRoutes
<1>3. CASE Return(w)
  <2>1. /\ worker[w].pc = "return" /\ UNCHANGED <<route, args, queue, post>>
        /\ result' = [result EXCEPT ![worker[w].task] = "SUCCESS"]
    BY <1>3 DEF Return
  <2>2. /\ worker'[w].pc = "idle"
        /\ \A v \in Workers : v # w => worker'[v] = worker[v]
    BY <1>0, <1>3, FinishEffect DEF Return
  <2>3. \A t \in Tasks :
          \/ result'[t] = result[t]
          \/ worker[w].pc = "return" /\ worker[w].task = t
    BY <1>0, <2>1 DEF TypeOK
  <2> QED
    BY <1>0, <2>1, <2>2, <2>3, QuietStep, SameKeepsFreeRoutes DEF WritingPc
<1>4. CASE MarkFailure(w)
  <2>1. /\ worker[w].pc = "failed" /\ UNCHANGED <<route, args, queue, post>>
        /\ result' = [result EXCEPT ![worker[w].task] = "FAILURE"]
    BY <1>4 DEF MarkFailure
  <2>2. /\ worker'[w].pc \in {"raise", "retry", "error"}
        /\ worker'[w].task = worker[w].task
        /\ \A v \in Workers : v # w => worker'[v] = worker[v]
    BY <1>0, <1>4, GotoEffect DEF MarkFailure, Handler
  <2> QED
    BY <1>0, <2>1, <2>2, QuietWorker, SameKeepsFreeRoutes DEF WritingPc
<1>5. CASE RetryOnNextMesh(w)
  <2> DEFINE row == Redirected(worker[w].row, Head(BackupsOf(w)))
  <2>1. \/ /\ Save(RouteOf(w), row)
           /\ GotoWith(w, "resend", row, worker[w].error)
        \/ UNCHANGED route /\ Goto(w, "raise")
    BY <1>5 DEF RetryOnNextMesh, SaveFails
  <2> HIDE DEF row
  <2>2. worker[w].pc = "retry" /\ UNCHANGED <<args, queue, result, post>>
    BY <1>5 DEF RetryOnNextMesh
  <2>3. KeepsFreeRoutes
    BY <1>0, <2>1, <2>2, SaveKeepsFreeRoutes, SameKeepsFreeRoutes
       DEF WritingPc
  <2>4. /\ worker'[w].pc \in {"resend", "raise"}
        /\ worker'[w].task = worker[w].task
        /\ \A v \in Workers : v # w => worker'[v] = worker[v]
    BY <1>0, <2>1, GotoEffect, GotoWithEffect
  <2> QED
    BY <1>0, <2>2, <2>3, <2>4, QuietWorker DEF WritingPc
<1>6. CASE RecordRetryJob(w)
  <2>1. /\ worker[w].pc = "record"
        /\ UNCHANGED <<route, args, queue, result, post>>
        /\ Finish(w) \/ Goto(w, "raise")
    BY <1>6 DEF RecordRetryJob
  <2>2. /\ worker'[w].pc \in {"idle", "raise"}
        /\ \A v \in Workers : v # w => worker'[v] = worker[v]
    BY <1>0, <2>1, GotoEffect, FinishEffect
  <2> QED
    BY <1>0, <2>1, <2>2, QuietWorker, SameKeepsFreeRoutes DEF WritingPc
<1>7. CASE RecordError(w)
  <2> DEFINE row == [worker[w].row EXCEPT !.info = "error"]
  <2>1. \/ Save(RouteOf(w), row) /\ Finish(w)
        \/ UNCHANGED route /\ Goto(w, "raise")
    BY <1>7 DEF RecordError, SaveFails
  <2> HIDE DEF row
  <2>2. worker[w].pc = "error" /\ UNCHANGED <<args, queue, result, post>>
    BY <1>7 DEF RecordError
  <2>3. KeepsFreeRoutes
    BY <1>0, <2>1, <2>2, SaveKeepsFreeRoutes, SameKeepsFreeRoutes
       DEF WritingPc
  <2>4. /\ worker'[w].pc \in {"idle", "raise"}
        /\ \A v \in Workers : v # w => worker'[v] = worker[v]
    BY <1>0, <2>1, GotoEffect, FinishEffect
  <2> QED
    BY <1>0, <2>2, <2>3, <2>4, QuietWorker DEF WritingPc
<1>8. CASE Raise(w)
  <2>1. /\ worker[w].pc = "raise" /\ UNCHANGED <<route, args, queue, post>>
        /\ result' = [result EXCEPT ![worker[w].task] = "FAILURE"]
    BY <1>8 DEF Raise
  <2>2. /\ worker'[w].pc = "idle"
        /\ \A v \in Workers : v # w => worker'[v] = worker[v]
    BY <1>0, <1>8, FinishEffect DEF Raise
  <2> QED
    BY <1>0, <2>1, <2>2, QuietWorker, SameKeepsFreeRoutes DEF WritingPc
<1>9. CASE WorkerCrash(w)
  <2>1. UNCHANGED <<route, args, queue, result, post>>
    BY <1>9 DEF WorkerCrash
  <2>2. /\ worker'[w].pc = "idle"
        /\ \A v \in Workers : v # w => worker'[v] = worker[v]
    BY <1>0, <1>9, FinishEffect DEF WorkerCrash
  <2> QED
    BY <1>0, <2>1, <2>2, QuietWorker, SameKeepsFreeRoutes DEF WritingPc
<1>10. CASE ChildKilled(w)
  <2>1. /\ worker[w].pc # "idle" /\ UNCHANGED <<route, args, queue, post>>
        /\ result' = [result EXCEPT ![worker[w].task] = "FAILURE"]
    BY <1>10 DEF ChildKilled
  <2>2. /\ worker'[w].pc = "idle"
        /\ \A v \in Workers : v # w => worker'[v] = worker[v]
    BY <1>0, <1>10, FinishEffect DEF ChildKilled
  <2> QED
    BY <1>0, <2>1, <2>2, QuietWorker, SameKeepsFreeRoutes DEF WritingPc
<1>11. CASE StoreRefused(w)
  <2>1. /\ UNCHANGED <<route, args, queue, result, post>>
        /\ Finish(w) \/ Goto(w, "raise")
    BY <1>11 DEF StoreRefused
  <2>2. /\ worker'[w].pc \in {"idle", "raise"}
        /\ \A v \in Workers : v # w => worker'[v] = worker[v]
    BY <1>0, <2>1, GotoEffect, FinishEffect
  <2> QED
    BY <1>0, <2>1, <2>2, QuietWorker, SameKeepsFreeRoutes DEF WritingPc
<1> QED
  BY <1>0, <1>1, <1>2, <1>3, <1>4, <1>5, <1>6, <1>7, <1>8, <1>9, <1>10, <1>11,
     TakeInv, SaveSmoothedInv, ResendInv DEF WorkerStep, WorkerDies

LEMMA EnvironmentInv ==
    ASSUME Inv,
           \/ \E m \in Meshes : ImportMesh(m) \/ CleanupMesh(m)
           \/ \E r \in Routes : CleanupRoute(r)
           \/ \E t \in Tasks : ResultExpires(t)
    PROVE  Inv'
<1> USE DEF tables, celery, web
<1>0. TypeInv' /\ TypeInv /\ TypeOK
  BY EnvironmentType DEF Inv, TypeInv
<1>1. UNCHANGED <<args, queue, post, worker>>
  BY DEF ImportMesh, CleanupMesh, CleanupRoute, ResultExpires
<1>2. KeepsFreeRoutes
  <2>1. ASSUME NEW m \in Meshes, CleanupMesh(m)
        PROVE  KeepsFreeRoutes
    <3>1. \A r \in Routes :
            /\ route'[r].state = route[r].state
            /\ route'[r].row.calculated = route[r].row.calculated
      <4> SUFFICES ASSUME NEW r \in Routes
                   PROVE  /\ route'[r].state = route[r].state
                          /\ route'[r].row.calculated = route[r].row.calculated
        OBVIOUS
      <4>1. route[r] \in RouteRow
        BY <1>0 DEF TypeOK
      <4>2. route'[r] \in {route[r], [route[r] EXCEPT !.row.mesh = None]}
        BY <2>1 DEF CleanupMesh
      <4> QED
        BY <4>1, <4>2 DEF RouteRow, Row
    <3> QED
      BY <3>1 DEF KeepsFreeRoutes, Exists
  <2>2. ASSUME NEW r \in Routes, CleanupRoute(r)
        PROVE  KeepsFreeRoutes
    BY <1>0, <2>2, DeleteKeepsFreeRoutes DEF CleanupRoute
  <2>3. ASSUME UNCHANGED route PROVE KeepsFreeRoutes
    BY <1>0, <2>3, SameKeepsFreeRoutes
  <2> QED
    BY <2>1, <2>2, <2>3 DEF ImportMesh, ResultExpires
<1>3. \A t \in Tasks :
        \/ result'[t] = result[t]
        \/ args[t].route # None /\ result'[t] # "SUCCESS"
  <2>1. ASSUME NEW u \in Tasks, ResultExpires(u), NEW t \in Tasks
        PROVE  \/ result'[t] = result[t]
               \/ args[t].route # None /\ result'[t] # "SUCCESS"
    BY <1>0, <2>1 DEF ResultExpires, Inv, UnsentPending, TypeOK
  <2> QED
    BY <2>1 DEF ImportMesh, CleanupMesh, CleanupRoute
<1> QED
  BY <1>0, <1>1, <1>2, <1>3, QuietStep

LEMMA NextInv == Inv /\ [Next]_vars => Inv'
<1> SUFFICES ASSUME Inv, [Next]_vars PROVE Inv'
  OBVIOUS
<1>1. ASSUME UNCHANGED vars PROVE Inv'
  <2>1. TypeInv' /\ TypeInv
    BY NextType DEF Inv
  <2> QED
    BY <1>1, <2>1, QuietStep, SameKeepsFreeRoutes DEF vars
<1> QED
  BY <1>1, PostInv, CancelInv, WorkerInv, EnvironmentInv DEF Next, Rest

\* At most one POST, queued task or worker may write a route, through any
\* chain of retries, faults, cancellations and clean-ups: no save() of
\* optimise_route overwrites what another party has written meanwhile.
THEOREM RoutesHaveOneWriter == Spec => []OneWriter
<1>1. Inv => OneWriter
  BY ExclusiveIsOneWriter DEF Inv
<1> QED
  BY <1>1, InitInv, NextInv, PTL DEF Spec

\* When the result backend says SUCCESS, the row of the route is calculated
\* or deleted, and nobody will write it any more.
THEOREM SuccessMeansCalculated == Spec => []SuccessIsCalculated
<1>1. Inv => SuccessIsCalculated
  BY DoneIsSuccess DEF Inv
<1> QED
  BY <1>1, InitInv, NextInv, PTL DEF Spec

----------------------------------------------------------------------------
(* What a cancellation can and cannot undo *)

\* The step of OnlyWritersRevive.
RevivedByWriter ==
    \A r \in Routes :
        route[r].state = "deleted" /\ route'[r].state # "deleted"
          => Writing(r) # {}

\* An insertion of a new row, a save() of a writer, a deletion and the
\* clean-up of a mesh are the only steps that change the Route table.
LEMMA ReviveStep == TypeInv /\ [Next]_vars => [RevivedByWriter]_vars
<1> SUFFICES ASSUME TypeInv, Next PROVE RevivedByWriter
  BY DEF vars
<1> USE DEF tables, celery, web
<1>0. TypeOK
  BY DEF TypeInv
<1>1. ASSUME UNCHANGED route PROVE RevivedByWriter
  BY <1>1 DEF RevivedByWriter
<1>2. ASSUME NEW w \in Workers, worker[w].pc \in WritingPc,
             NEW row, Save(RouteOf(w), row)
      PROVE  RevivedByWriter
  <2>1. RouteOf(w) \in Routes
    BY <1>2 DEF TypeInv, WorkerWF, WritingPc
  <2>2. \A q \in Routes : q # RouteOf(w) => route'[q] = route[q]
    BY <1>0, <1>2, <2>1, SaveEffect
  <2>3. Writing(RouteOf(w)) # {}
    BY <1>2 DEF Writing
  <2> QED
    BY <2>2, <2>3 DEF RevivedByWriter
<1>3. ASSUME NEW r \in Routes, DeleteRoute(r) PROVE RevivedByWriter
  BY <1>0, <1>3 DEF DeleteRoute, RevivedByWriter, TypeOK, Exists
<1>4. ASSUME NEW p \in Posts, PostSelect(p) \/ PostStep(p) \/ PostCrash(p)
      PROVE  RevivedByWriter
  <2>1. CASE PostCreate(p)
    <3>1. ASSUME NEW r \in Routes, route[r].state = "unborn",
                 NEW row, Save(r, row)
          PROVE  RevivedByWriter
      <4>1. \A q \in Routes : q # r => route'[q] = route[q]
        BY <1>0, <3>1, SaveEffect
      <4> QED
        BY <3>1, <4>1 DEF RevivedByWriter
    <3> QED
      BY <1>1, <2>1, <3>1 DEF PostCreate, SaveFails
  <2>2. CASE ~PostCreate(p)
    <3>1. UNCHANGED route
      BY <1>4, <2>2 DEF PostSelect, PostStep, PostCrash, PostLookup, PostReuse,
                        PostSend, PostRecord
    <3> QED
      BY <1>1, <3>1
  <2> QED
    BY <2>1, <2>2
<1>5. ASSUME NEW c \in Cancels, CancelFind(c) \/ CancelStep(c) \/ CancelCrash(c)
      PROVE  RevivedByWriter
  <2>1. CASE CancelDelete(c)
    <3>1. cancel[c].route \in Routes
      BY <2>1 DEF CancelDelete, TypeInv, CancelWF
    <3> QED
      BY <1>3, <2>1, <3>1 DEF CancelDelete
  <2>2. CASE ~CancelDelete(c)
    <3>1. UNCHANGED route
      BY <1>5, <2>2 DEF CancelFind, CancelStep, CancelRevoke, CancelCrash
    <3> QED
      BY <1>1, <3>1
  <2> QED
    BY <2>1, <2>2
<1>6. ASSUME NEW w \in Workers, WorkerStep(w) \/ WorkerDies(w)
      PROVE  RevivedByWriter
  <2>1. \/ UNCHANGED route
        \/ worker[w].pc \in WritingPc /\ \E row : Save(RouteOf(w), row)
    BY <1>6 DEF WorkerStep, Take, SaveUnsmoothed, PlanFails, SaveSmoothed,
                SmoothFails, Return, MarkFailure, RetryOnNextMesh, Resend,
                RecordRetryJob, RecordError, Raise, StoreRefused, WorkerDies,
                WorkerCrash, ChildKilled, SaveFails, WritingPc
  <2> QED
    BY <1>1, <1>2, <2>1
<1>7. ASSUME NEW m \in Meshes, CleanupMesh(m) PROVE RevivedByWriter
  <2> SUFFICES ASSUME NEW r \in Routes
               PROVE  route'[r].state = route[r].state
    BY DEF RevivedByWriter
  <2>1. route[r] \in RouteRow
    BY <1>0 DEF TypeOK
  <2>2. route'[r] \in {route[r], [route[r] EXCEPT !.row.mesh = None]}
    BY <1>7 DEF CleanupMesh
  <2> QED
    BY <2>1, <2>2 DEF RouteRow
<1>8. ASSUME NEW r \in Routes, CleanupRoute(r) PROVE RevivedByWriter
  BY <1>3, <1>8 DEF CleanupRoute
<1>9. ASSUME \/ \E m \in Meshes : ImportMesh(m)
             \/ \E t \in Tasks : ResultExpires(t)
             \/ Rest
      PROVE  UNCHANGED route
  BY <1>9 DEF ImportMesh, ResultExpires, Rest, vars
<1> QED
  BY <1>1, <1>4, <1>5, <1>6, <1>7, <1>8, <1>9 DEF Next

\* A route that was deleted comes back only by the save() of a worker that
\* holds a copy of it: not by a request, a retry that was sent, or a reuse.
THEOREM DeletedRoutesComeBackByWriters == Spec => OnlyWritersRevive
<1>1. OnlyWritersRevive <=> [][RevivedByWriter]_vars
  BY DEF OnlyWritersRevive, RevivedByWriter
<1> QED
  BY <1>1, InitType, NextType, ReviveStep, PTL DEF Spec

=============================================================================
