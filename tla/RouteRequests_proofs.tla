------------------------ MODULE RouteRequests_proofs ------------------------
(***************************************************************************)
(* What a request finds, and what becomes of it: the route that            *)
(* route_exists answers, the states that the result backend reads for its  *)
(* tasks, the tasks that still have to run, and the meshes that the tasks  *)
(* of a route try one after the other.                                     *)
(***************************************************************************)
EXTENDS RouteRows_proofs, RouteCancel_proofs, FiniteSetTheorems

----------------------------------------------------------------------------
(* Bounds of finite sets of numbers *)

Bounded(S) ==
    /\ \E x \in S : \A y \in S : x <= y
    /\ \E x \in S : \A y \in S : y <= x

\* A finite set of integers has a least and a greatest element: there is no
\* smallest set without them.
LEMMA FiniteSetsAreBounded ==
    ASSUME NEW S \in SUBSET Int, IsFiniteSet(S), S # {}
    PROVE  Bounded(S)
<1> DEFINE Unbounded == {U \in SUBSET S : U # {} /\ ~Bounded(U)}
<1>1. IsWellFoundedOn(StrictSubsetOrdering(S), SUBSET S)
  BY FS_StrictSubsetOrderingWellFounded, FS_FiniteSubsetsOfFinite
<1>2. ASSUME Unbounded # {} PROVE FALSE
  <2> HIDE DEF Unbounded
  <2>0. Unbounded \subseteq SUBSET S
    BY DEF Unbounded
  <2>1. PICK U \in Unbounded :
          \A V \in Unbounded : ~ (<<V, U>> \in StrictSubsetOrdering(S))
    BY <1>1, <1>2, <2>0, WFMin
  <2>2. U \subseteq S /\ U # {} /\ ~Bounded(U)
    BY DEF Unbounded
  <2>3. PICK u \in U : TRUE
    BY <2>2
  <2> DEFINE V == U \ {u}
  <2>4. CASE V = {}
    <3>1. \A y \in U : y = u
      BY <2>4
    <3> QED
      BY <2>2, <2>3, <3>1 DEF Bounded
  <2>5. CASE V # {}
    <3>1. <<V, U>> \in StrictSubsetOrdering(S)
      BY <2>2, <2>3 DEF StrictSubsetOrdering
    <3>2. Bounded(V)
      <4>1. V \notin Unbounded /\ V \in SUBSET S
        BY <2>1, <2>2, <3>1
      <4> QED
        BY <2>5, <4>1 DEF Unbounded
    <3>3. PICK a \in V, b \in V : \A y \in V : a <= y /\ y <= b
      BY <3>2 DEF Bounded
    <3>4. \A y \in U : y \in V \/ y = u
      OBVIOUS
    <3>5. a \in Int /\ b \in Int /\ u \in Int /\ a \in U /\ b \in U
      BY <2>2
    <3>6. \E x \in U : \A y \in U : x <= y
      <4>1. CASE a <= u
        BY <3>3, <3>4, <3>5, <4>1
      <4>2. CASE u <= a
        <5>1. \A y \in U : u <= y
          BY <2>2, <3>3, <3>4, <3>5, <4>2
        <5> QED
          BY <5>1
      <4> QED
        BY <3>5, <4>1, <4>2
    <3>7. \E x \in U : \A y \in U : y <= x
      <4>1. CASE u <= b
        BY <3>3, <3>4, <3>5, <4>1
      <4>2. CASE b <= u
        <5>1. \A y \in U : y <= u
          BY <2>2, <3>3, <3>4, <3>5, <4>2
        <5> QED
          BY <5>1
      <4> QED
        BY <3>5, <4>1, <4>2
    <3> QED
      BY <2>2, <3>6, <3>7 DEF Bounded
  <2> QED
    BY <2>4, <2>5
<1> QED
  BY <1>2

----------------------------------------------------------------------------
(* The route that a request is answered with *)

\* The first mesh with a successful route is one of the list, and the route
\* that is found for it lies on it and suits the request.
LEMMA RouteExistsIsNear ==
    ASSUME NEW meshes \in Seq(Meshes), NEW trip,
           NEW r \in RouteExists(route, jobs, result, meshes, trip)
    PROVE  /\ \E i \in DOMAIN meshes : meshes[i] = route[r].row.mesh
           /\ \/ route[r].row.trip = trip
              \/ InTolerance(trip, route[r].row.trip)
<1> DEFINE deciding == {i \in DOMAIN meshes :
                          Successful(route, jobs, result, meshes[i]) # {}}
           first == CHOOSE i \in deciding : \A k \in deciding : i <= k
<1>1. deciding # {} /\ r \in MatchOnMesh(route, jobs, result, meshes[first], trip)
  BY DEF RouteExists
<1>2. first \in DOMAIN meshes
  <2>1. DOMAIN meshes = 1..Len(meshes) /\ Len(meshes) \in Nat
    OBVIOUS
  <2>2. IsFiniteSet(deciding)
    <3>1. IsFiniteSet(1..Len(meshes))
      BY <2>1, FS_Interval
    <3> QED
      BY <2>1, <3>1, FS_Subset
  <2>3. deciding \in SUBSET Int
    BY <2>1
  <2>4. \E i \in deciding : \A k \in deciding : i <= k
    BY <1>1, <2>2, <2>3, FiniteSetsAreBounded DEF Bounded
  <2> QED
    BY <2>4
<1> HIDE DEF first
<1>3. r \in OnMesh(route, meshes[first])
  BY <1>1 DEF MatchOnMesh, Successful, ClosestInTolerance
<1>4. route[r].row.trip = trip \/ InTolerance(trip, route[r].row.trip)
  BY <1>1 DEF MatchOnMesh, ClosestInTolerance
<1> QED
  BY <1>2, <1>3, <1>4 DEF OnMesh

\* The step of ReuseIsNear.
FindsNear ==
    \A p \in Posts :
        post[p].pc = "lookup" /\ post'[p].pc = "reuse" =>
            LET trip == post[p].body.trip
                row == route[post'[p].route].row
            IN  /\ row.trip = trip \/ InTolerance(trip, row.trip)
                /\ \E i \in DOMAIN post'[p].meshes : post'[p].meshes[i] = row.mesh

LEMMA LookupFinds ==
    ASSUME TypeInv, NEW p \in Posts, PostLookup(p)
    PROVE  FindsNear
<1>0. TypeOK /\ post[p] \in PostState
  BY DEF TypeInv, TypeOK
<1>1. /\ post[p].pc = "lookup"
      /\ \A q \in Posts : q # p => post'[q] = post[q]
  BY <1>0, PostMoves DEF PostLookup, TypeInv
<1>2. ASSUME NEW code \in {404, 500}, Answer(p, code, None)
      PROVE  post'[p].pc # "reuse"
  BY <1>2, AnswerType DEF TypeInv, Code
<1>3. ASSUME NEW meshes, post' = [post EXCEPT ![p].pc = "create",
                                              ![p].meshes = meshes]
      PROVE  post'[p].pc # "reuse"
  BY <1>0, <1>3 DEF TypeOK, PostState
<1>4. ASSUME NEW meshes \in CandidateLists(p),
             NEW r \in RouteExists(route, jobs, result, meshes,
                                   post[p].body.trip),
             post' = [post EXCEPT ![p].pc = "reuse", ![p].route = r,
                                  ![p].meshes = meshes]
      PROVE  FindsNear
  <2>1. meshes \in Seq(Meshes)
    BY <1>0, CandidateListsType, BodiesAssumption DEF BodiesAssumption, PostState
  <2>2. post'[p].route = r /\ post'[p].meshes = meshes
    BY <1>0, <1>4 DEF TypeOK, PostState
  <2>3. /\ \E i \in DOMAIN meshes : meshes[i] = route[r].row.mesh
        /\ \/ route[r].row.trip = post[p].body.trip
           \/ InTolerance(post[p].body.trip, route[r].row.trip)
    BY <2>1, RouteExistsIsNear
  <2>4. ASSUME NEW q \in Posts, post[q].pc = "lookup", post'[q].pc = "reuse"
        PROVE  q = p
    BY <1>1, <2>4
  <2> QED
    BY <2>2, <2>3, <2>4 DEF FindsNear
<1> QED
  BY <1>1, <1>2, <1>3, <1>4, ZenonT(40) DEF PostLookup, FindsNear

\* A route that is reused lies on a mesh of the list that the request was
\* given, and is for the same trip or one with both ends in tolerance, at the
\* moment it is found (utils.py:85-101).
THEOREM ReusedRoutesAreNear == Spec => ReuseIsNear
<1>1. TypeInv /\ [Next]_vars => [FindsNear]_vars
  <2> SUFFICES ASSUME TypeInv, Next PROVE FindsNear
    OBVIOUS
  <2>0. TypeOK
    BY DEF TypeInv
  <2>1. ASSUME NEW p \in Posts, PostSelect(p) \/ PostStep(p) \/ PostCrash(p),
               ~PostLookup(p)
        PROVE  FindsNear
    <3>1. post[p].pc # "lookup" \/ post'[p].pc # "reuse"
      <4>1. CASE PostCrash(p)
        BY <2>0, <4>1 DEF PostCrash, TypeOK, IdlePost
      <4>2. CASE ~PostCrash(p)
        BY <2>1, <4>2 DEF PostSelect, PostStep, PostReuse, PostCreate, PostSend,
                          PostRecord
      <4> QED
        BY <4>1, <4>2
    <3>2. \A q \in Posts : q # p => post'[q] = post[q]
      <4>1. CASE PostCreate(p)
        BY <2>0, <4>1 DEF PostCreate, Answer, TypeOK
      <4>2. CASE PostSend(p)
        BY <2>0, <4>2 DEF PostSend, Answer, TypeOK
      <4> QED
        BY <2>1, <4>1, <4>2, PostMoves DEF PostStep
    <3> QED
      BY <3>1, <3>2 DEF FindsNear
  <2>2. ASSUME UNCHANGED post PROVE FindsNear
    BY <2>2 DEF FindsNear
  <2>3. CASE \E p \in Posts : PostSelect(p) \/ PostStep(p) \/ PostCrash(p)
    BY <2>1, <2>3, LookupFinds
  <2>4. CASE ~ \E p \in Posts : PostSelect(p) \/ PostStep(p) \/ PostCrash(p)
    <3>1. UNCHANGED post
      BY <2>4 DEF Next, CancelFind, CancelStep, CancelRevoke, CancelDelete,
         CancelCrash, WorkerStep, Take, SaveUnsmoothed, PlanFails,
         SaveSmoothed, SmoothFails, Return, MarkFailure, RetryOnNextMesh,
         Resend, RecordRetryJob, RecordError, Raise, StoreRefused, WorkerDies,
         WorkerCrash, ChildKilled, ImportMesh, CleanupMesh, CleanupRoute,
         ResultExpires, Rest, web, vars
    <3> QED
      BY <2>2, <3>1
  <2> QED
    BY <2>3, <2>4
<1> QED
  BY <1>1, InitType, NextType, PTL DEF Spec, ReuseIsNear, FindsNear

----------------------------------------------------------------------------
(* How a worker takes a task and sends one *)

\* The record that a worker holds once it has taken a task.
LEMMA TakeEffect ==
    ASSUME TypeInv, NEW w \in Workers, Take(w)
    PROVE  \E t \in queue :
             /\ queue' = queue \ {t} /\ worker'[w].task = t
             /\ \/ worker'[w].pc = "raise"
                \/ LET r == args[t].route
                   IN  /\ worker'[w].pc = "plan"
                       /\ Exists(r) /\ route[r].row.mesh # None
                       /\ \E info \in {route[r].row.info, "note"} :
                            worker'[w].row = [route[r].row EXCEPT !.info = info]
<1>0. TypeOK
  BY DEF TypeInv
<1>1. PICK t \in queue :
        /\ queue' = queue \ {t}
        /\ \/ /\ Exists(args[t].route) /\ route[args[t].route].row.mesh # None
              /\ \E info \in {route[args[t].route].row.info, "note"} :
                   worker' = [worker EXCEPT ![w] =
                      [[IdleWorker EXCEPT !.task = t] EXCEPT !.pc = "plan",
                         !.row = [route[args[t].route].row EXCEPT !.info = info]]]
           \/ worker' = [worker EXCEPT ![w] =
                 [[IdleWorker EXCEPT !.task = t] EXCEPT !.pc = "raise"]]
  BY DEF Take
<1>2. CASE worker' = [worker EXCEPT ![w] =
                 [[IdleWorker EXCEPT !.task = t] EXCEPT !.pc = "raise"]]
  <2>1. worker'[w].pc = "raise" /\ worker'[w].task = t
    BY <1>0, <1>2 DEF TypeOK, IdleWorker
  <2> QED
    BY <1>1, <2>1
<1>3. ASSUME Exists(args[t].route), route[args[t].route].row.mesh # None,
             NEW info \in {route[args[t].route].row.info, "note"},
             worker' = [worker EXCEPT ![w] =
                      [[IdleWorker EXCEPT !.task = t] EXCEPT !.pc = "plan",
                         !.row = [route[args[t].route].row EXCEPT !.info = info]]]
      PROVE  /\ worker'[w].pc = "plan" /\ worker'[w].task = t
             /\ worker'[w].row = [route[args[t].route].row EXCEPT !.info = info]
  BY <1>0, <1>3 DEF TypeOK, IdleWorker
<1> QED
  BY <1>1, <1>2, <1>3

LEMMA ResendEffect ==
    ASSUME TypeInv, NEW w \in Workers, Resend(w)
    PROVE  /\ worker[w].pc = "resend" /\ RouteOf(w) \in Routes
           /\ UNCHANGED <<mesh, route, jobs, result, post, cancel>>
           /\ worker'[w].pc \in {"record", "raise"}
           /\ worker'[w].task = worker[w].task
           /\ \A v \in Workers : v # w => worker'[v] = worker[v]
           /\ \/ UNCHANGED <<args, queue>>
              \/ \E t \in Tasks :
                   /\ args[t].route = None
                   /\ args'[t] = [route |-> RouteOf(w),
                                  backups |-> AllButFirst(BackupsOf(w))]
                   /\ \A u \in Tasks : u # t => args'[u] = args[u]
                   /\ queue' = queue \cup {t}
<1>0. TypeOK
  BY DEF TypeInv
<1>1. /\ worker[w].pc = "resend"
      /\ UNCHANGED <<mesh, route, jobs, result, post, cancel>>
  BY DEF Resend, tables, web
<1>2. /\ RouteOf(w) \in Routes /\ worker[w].task \in Tasks
      /\ BackupsOf(w) # <<>>
  BY <1>1 DEF TypeInv, WorkerWF
<1>3. AllButFirst(BackupsOf(w)) \in Seq(Meshes)
  BY <1>0, <1>2, TailType DEF TypeOK, TaskArgs, BackupsOf
<1>4. CASE Goto(w, "raise") /\ UNCHANGED <<args, queue>>
  BY <1>0, <1>1, <1>2, <1>4, GotoEffect
<1>5. ASSUME NEW t \in Tasks, Delay(t, RouteOf(w), AllButFirst(BackupsOf(w))),
             worker' = [worker EXCEPT ![w].pc = "record", ![w].next = t]
      PROVE  /\ worker'[w].pc = "record" /\ worker'[w].task = worker[w].task
             /\ \A v \in Workers : v # w => worker'[v] = worker[v]
             /\ args[t].route = None
             /\ args'[t] = [route |-> RouteOf(w),
                            backups |-> AllButFirst(BackupsOf(w))]
             /\ \A u \in Tasks : u # t => args'[u] = args[u]
             /\ queue' = queue \cup {t}
  <2>1. /\ worker'[w].pc = "record" /\ worker'[w].task = worker[w].task
        /\ \A v \in Workers : v # w => worker'[v] = worker[v]
    BY <1>0, <1>5 DEF TypeOK, WorkerState
  <2>2. args'[t] = [route |-> RouteOf(w), backups |-> AllButFirst(BackupsOf(w))]
    BY <1>0, <1>5 DEF Delay, TypeOK
  <2> QED
    BY <1>2, <1>3, <1>5, <2>1, <2>2, DelayType
<1> QED
  BY <1>1, <1>2, <1>4, <1>5 DEF Resend

LEMMA SendEffect ==
    ASSUME TypeInv, NEW p \in Posts, PostSend(p)
    PROVE  /\ post[p].pc = "send" /\ post[p].route \in Routes
           /\ post[p].meshes \in Seq(Meshes) /\ post[p].meshes # <<>>
           /\ UNCHANGED <<mesh, route, jobs, result, cancel, worker>>
           /\ post'[p].pc \in {"record", "done"}
           /\ \A q \in Posts : q # p => post'[q] = post[q]
           /\ \/ UNCHANGED <<args, queue>>
              \/ \E t \in Tasks :
                   /\ args[t].route = None
                   /\ args'[t] = [route |-> post[p].route,
                                  backups |-> AllButFirst(post[p].meshes)]
                   /\ \A u \in Tasks : u # t => args'[u] = args[u]
                   /\ queue' = queue \cup {t}
<1>0. TypeOK /\ post[p] \in PostState
  BY DEF TypeInv, TypeOK
<1>1. /\ post[p].pc = "send"
      /\ UNCHANGED <<mesh, route, jobs, result, cancel, worker>>
  BY DEF PostSend, tables
<1>2. /\ post[p].route \in Routes /\ post[p].meshes \in Seq(Meshes)
      /\ post[p].meshes # <<>>
  BY <1>0, <1>1 DEF TypeInv, PostWF, PostState
<1>3. CASE Answer(p, 500, None) /\ UNCHANGED <<args, queue>>
  <2>1. post'[p].pc = "done" /\ \A q \in Posts : q # p => post'[q] = post[q]
    BY <1>3, AnswerType DEF Code
  <2> QED
    BY <1>1, <1>2, <1>3, <2>1
<1>4. ASSUME NEW t \in Tasks,
             Delay(t, post[p].route, AllButFirst(post[p].meshes)),
             post' = [post EXCEPT ![p].pc = "record", ![p].task = t]
      PROVE  /\ post'[p].pc = "record"
             /\ \A q \in Posts : q # p => post'[q] = post[q]
             /\ args[t].route = None
             /\ args'[t] = [route |-> post[p].route,
                            backups |-> AllButFirst(post[p].meshes)]
             /\ \A u \in Tasks : u # t => args'[u] = args[u]
             /\ queue' = queue \cup {t}
  BY <1>0, <1>4 DEF Delay, Fresh, TypeOK, PostState
<1> QED
  BY <1>1, <1>2, <1>3, <1>4 DEF PostSend

----------------------------------------------------------------------------
(* The state of a task *)

\* Nobody works on t.
Unheld(t) == \A w \in Workers : worker[w].pc # "idle" => worker[w].task # t

\* What the result backend reads for the task of w, as far as w is in it.
StatusOf(w) ==
    LET state == result[worker[w].task]
        pc == worker[w].pc
    IN  /\ pc \in {"plan", "smooth", "return", "failed"} => state = "PENDING"
        /\ pc \in {"retry", "resend", "record", "error"} => state = "FAILURE"
        /\ pc = "raise" => state \in {"PENDING", "FAILURE"}

\* A task is done once, by one worker, and has no state before that.
StatusInv ==
    /\ \A t \in queue : result[t] = "PENDING" /\ Unheld(t)
    /\ \A v, w \in Workers :
         /\ worker[v].pc # "idle" /\ worker[w].pc # "idle"
         /\ worker[v].task = worker[w].task
         => v = w
    /\ \A w \in Workers : worker[w].pc = "idle" => worker[w].task = None
    /\ \A w \in Workers : StatusOf(w)

\* A task that was sent waits, is being done, or has a state.
LiveTasks ==
    \A t \in Tasks : args[t].route # None /\ result[t] = "PENDING" =>
        t \in queue \/ \E w \in Workers : worker[w].task = t

\* No state is taken back.
StatesStay ==
    \A t \in Tasks : result[t] # "PENDING" => result'[t] = result[t]

LEMMA StatusInit == Init => StatusInv /\ LiveTasks
<1> SUFFICES ASSUME Init PROVE StatusInv /\ LiveTasks
  OBVIOUS
<1>1. queue = {} /\ \A w \in Workers : worker[w].pc = "idle" /\ worker[w].task = None
  BY DEF Init, IdleWorker
<1>2. \A t \in Tasks : args[t].route = None
  BY DEF Init, NoArgs
<1> QED
  BY <1>1, <1>2 DEF StatusInv, StatusOf, LiveTasks

\* A step of others, who may send a task.
LEMMA StatusSent ==
    ASSUME TypeInv, UnsentPending, StatusInv, UNCHANGED <<result, worker>>,
           \/ UNCHANGED <<args, queue>>
           \/ \E t \in Tasks :
                /\ args[t].route = None /\ queue' = queue \cup {t}
                /\ \A u \in Tasks : u # t => args'[u] = args[u]
    PROVE  StatusInv' /\ StatesStay /\ (LiveTasks => LiveTasks')
<1>1. CASE UNCHANGED <<args, queue>>
  BY <1>1 DEF StatusInv, StatusOf, Unheld, StatesStay, LiveTasks
<1>2. ASSUME NEW t \in Tasks, args[t].route = None, queue' = queue \cup {t},
             \A u \in Tasks : u # t => args'[u] = args[u]
      PROVE  StatusInv' /\ StatesStay /\ (LiveTasks => LiveTasks')
  <2>1. result[t] = "PENDING" /\ Unheld(t)
    BY <1>2, HeldIsSent DEF UnsentPending, Unheld
  <2>2. StatusInv'
    BY <1>2, <2>1 DEF StatusInv, StatusOf, Unheld
  <2> QED
    BY <1>2, <2>2 DEF StatesStay, LiveTasks
<1> QED
  BY <1>1, <1>2

\* A worker that goes on with its task.
LEMMA StatusGoesOn ==
    ASSUME TypeInv, StatusInv, UNCHANGED <<args, queue>>, NEW w \in Workers,
           worker[w].pc # "idle", worker'[w].pc # "idle",
           worker'[w].task = worker[w].task,
           \A v \in Workers : v # w => worker'[v] = worker[v],
           \/ UNCHANGED result
           \/ /\ result[worker[w].task] = "PENDING"
              /\ result' = [result EXCEPT ![worker[w].task] = "FAILURE"],
           StatusOf(w)'
    PROVE  StatusInv' /\ StatesStay /\ (LiveTasks => LiveTasks')
<1> PICK t : t = worker[w].task
  OBVIOUS
<1>1. t \in Tasks /\ t \notin queue
  BY DEF TypeInv, WorkerWF, StatusInv, Unheld
<1>2. /\ \A u \in Tasks : u # t => result'[u] = result[u]
      /\ result[t] # "PENDING" => result'[t] = result[t]
  BY <1>1 DEF TypeInv, TypeOK
<1>3. \A v \in Workers : v # w /\ worker[v].pc # "idle" =>
        worker[v].task \in Tasks /\ worker[v].task # t
  BY DEF TypeInv, WorkerWF, StatusInv
<1>4. \A v \in Workers : v # w => StatusOf(v)'
  <2> SUFFICES ASSUME NEW v \in Workers, v # w PROVE StatusOf(v)'
    OBVIOUS
  <2>1. worker'[v] = worker[v] /\ StatusOf(v)
    BY DEF StatusInv
  <2>2. worker[v].pc # "idle" => result'[worker[v].task] = result[worker[v].task]
    BY <1>2, <1>3
  <2> QED
    BY <2>1, <2>2 DEF StatusOf
<1>5. \A u \in queue : u \in Tasks /\ result'[u] = "PENDING" /\ Unheld(u)'
  BY <1>1, <1>2 DEF StatusInv, Unheld, TypeInv, TypeOK
<1>6. StatusInv'
  BY <1>4, <1>5 DEF StatusInv
<1>7. LiveTasks => LiveTasks'
  BY <1>2 DEF LiveTasks
<1> QED
  BY <1>2, <1>6, <1>7 DEF StatesStay

\* A worker that has done with its task, or was killed.
LEMMA StatusFinishes ==
    ASSUME TypeInv, StatusInv, UNCHANGED <<args, queue>>, NEW w \in Workers,
           worker[w].pc # "idle", Finish(w),
           \/ UNCHANGED result
           \/ /\ result[worker[w].task] = "PENDING"
              /\ \E state : result' = [result EXCEPT ![worker[w].task] = state]
    PROVE  /\ StatusInv' /\ StatesStay
           /\ LiveTasks /\ result'[worker[w].task] # "PENDING" => LiveTasks'
<1> PICK t : t = worker[w].task
  OBVIOUS
<1>0. /\ worker'[w].pc = "idle" /\ worker'[w].task = None
      /\ \A v \in Workers : v # w => worker'[v] = worker[v]
  BY DEF TypeInv, TypeOK, Finish, IdleWorker
<1>1. t \in Tasks /\ t \notin queue
  BY DEF TypeInv, WorkerWF, StatusInv, Unheld
<1>2. /\ \A u \in Tasks : u # t => result'[u] = result[u]
      /\ result[t] # "PENDING" => result'[t] = result[t]
  BY <1>1 DEF TypeInv, TypeOK
<1>3. \A v \in Workers : v # w /\ worker[v].pc # "idle" =>
        worker[v].task \in Tasks /\ worker[v].task # t
  BY DEF TypeInv, WorkerWF, StatusInv
<1>4. \A v \in Workers : StatusOf(v)'
  <2> SUFFICES ASSUME NEW v \in Workers, v # w PROVE StatusOf(v)'
    BY <1>0 DEF StatusOf
  <2>1. worker'[v] = worker[v] /\ StatusOf(v)
    BY <1>0 DEF StatusInv
  <2>2. worker[v].pc # "idle" => result'[worker[v].task] = result[worker[v].task]
    BY <1>2, <1>3
  <2> QED
    BY <2>1, <2>2 DEF StatusOf
<1>5. \A u \in queue : u \in Tasks /\ result'[u] = "PENDING" /\ Unheld(u)'
  BY <1>0, <1>1, <1>2 DEF StatusInv, Unheld, TypeInv, TypeOK
<1>6. StatusInv'
  BY <1>0, <1>4, <1>5 DEF StatusInv
<1>7. ASSUME LiveTasks, result'[t] # "PENDING" PROVE LiveTasks'
  BY <1>0, <1>2, <1>7 DEF LiveTasks
<1> QED
  BY <1>2, <1>6, <1>7 DEF StatesStay

LEMMA TakeStatus ==
    ASSUME TypeInv, StatusInv, NEW w \in Workers, Take(w)
    PROVE  StatusInv' /\ StatesStay /\ (LiveTasks => LiveTasks')
<1>1. PICK t \in queue :
        /\ queue' = queue \ {t} /\ worker'[w].task = t
        /\ worker'[w].pc \in {"plan", "raise"}
  BY TakeEffect
<1>2. /\ UNCHANGED <<args, result>> /\ worker[w].pc = "idle"
      /\ \A v \in Workers : v # w => worker'[v] = worker[v]
  BY DEF Take, TypeInv, TypeOK
<1>3. t \in Tasks /\ result[t] = "PENDING" /\ Unheld(t)
  BY DEF StatusInv, TypeInv, TypeOK
<1>4. StatusOf(w)'
  BY <1>1, <1>2, <1>3 DEF StatusOf
<1>5. \A v \in Workers : v # w => StatusOf(v)'
  BY <1>2 DEF StatusInv, StatusOf
<1>6. StatusInv'
  BY <1>1, <1>2, <1>3, <1>4, <1>5 DEF StatusInv, Unheld
<1>7. LiveTasks => LiveTasks'
  <2> SUFFICES ASSUME LiveTasks, NEW u \in Tasks, args[u].route # None,
                      result[u] = "PENDING"
               PROVE  u \in queue' \/ \E v \in Workers : worker'[v].task = u
    BY <1>2 DEF LiveTasks
  <2>1. CASE u = t
    BY <1>1, <2>1
  <2>2. ASSUME u # t, NEW v \in Workers, worker[v].task = u
        PROVE  worker'[v].task = u
    BY <1>2, <2>2, NoneAssumption DEF StatusInv
  <2> QED
    BY <1>1, <2>1, <2>2 DEF LiveTasks
<1> QED
  BY <1>2, <1>6, <1>7 DEF StatesStay

LEMMA WorkerStatus ==
    ASSUME Inv, StatusInv, NEW w \in Workers, WorkerStep(w) \/ WorkerDies(w)
    PROVE  /\ StatusInv' /\ StatesStay
           /\ LiveTasks /\ ~WorkerCrash(w) /\ ~StoreRefused(w) => LiveTasks'
<1> USE DEF tables, celery, web
<1>0. TypeInv /\ TypeOK /\ UnsentPending /\ StatusOf(w)
  BY DEF Inv, TypeInv, StatusInv
<1>1. CASE Take(w)
  BY <1>0, <1>1, TakeStatus
<1>2. CASE Resend(w)
  <2>1. /\ worker[w].pc = "resend" /\ worker'[w].pc \in {"record", "raise"}
        /\ worker'[w].task = worker[w].task /\ UNCHANGED result
        /\ \A v \in Workers : v # w => worker'[v] = worker[v]
        /\ \/ UNCHANGED <<args, queue>>
           \/ \E t \in Tasks :
                /\ args[t].route = None /\ queue' = queue \cup {t}
                /\ \A u \in Tasks : u # t => args'[u] = args[u]
    BY <1>0, <1>2, ResendEffect
  <2>2. StatusOf(w)'
    BY <1>0, <2>1 DEF StatusOf
  <2>3. CASE UNCHANGED <<args, queue>>
    BY <1>0, <2>1, <2>2, <2>3, StatusGoesOn
  <2>4. ASSUME NEW t \in Tasks, args[t].route = None, queue' = queue \cup {t},
               \A u \in Tasks : u # t => args'[u] = args[u]
        PROVE  StatusInv' /\ StatesStay /\ (LiveTasks => LiveTasks')
    <3>1. result[t] = "PENDING" /\ Unheld(t)
      BY <1>0, <2>4, HeldIsSent DEF UnsentPending, Unheld
    <3>2. Unheld(t)'
      BY <2>1, <3>1 DEF Unheld
    <3>3. \A v \in Workers : StatusOf(v)'
      BY <2>1, <2>2 DEF StatusInv, StatusOf
    <3>4. StatusInv'
      BY <2>1, <2>4, <3>1, <3>2, <3>3 DEF StatusInv, Unheld
    <3>5. LiveTasks => LiveTasks'
      BY <2>1, <2>4 DEF LiveTasks
    <3> QED
      BY <2>1, <3>4, <3>5 DEF StatesStay
  <2> QED
    BY <2>1, <2>3, <2>4
<1>3. CASE SaveUnsmoothed(w) \/ PlanFails(w) \/ SaveSmoothed(w) \/ SmoothFails(w)
  <2>1. /\ worker[w].pc \in {"plan", "smooth"} /\ UNCHANGED <<args, queue, result>>
        /\ \E pc \in {"smooth", "failed", "return"} : \E row, error :
              GotoWith(w, pc, row, error)
    BY <1>3 DEF SaveUnsmoothed, PlanFails, SaveSmoothed, SmoothFails
  <2>2. /\ worker'[w].pc \in {"smooth", "failed", "return"}
        /\ worker'[w].task = worker[w].task
        /\ \A v \in Workers : v # w => worker'[v] = worker[v]
    BY <1>0, <2>1, GotoWithEffect
  <2>3. StatusOf(w)'
    BY <1>0, <2>1, <2>2 DEF StatusOf
  <2> QED
    BY <1>0, <2>1, <2>2, <2>3, StatusGoesOn
<1>4. CASE Return(w)
  <2>1. /\ worker[w].pc = "return" /\ UNCHANGED <<args, queue>> /\ Finish(w)
        /\ result' = [result EXCEPT ![worker[w].task] = "SUCCESS"]
    BY <1>4 DEF Return
  <2>2. worker[w].task \in Tasks /\ result[worker[w].task] = "PENDING"
    BY <1>0, <2>1 DEF StatusOf, TypeInv, WorkerWF
  <2>3. result'[worker[w].task] # "PENDING"
    BY <1>0, <2>1, <2>2 DEF TypeOK
  <2> QED
    BY <1>0, <2>1, <2>2, <2>3, StatusFinishes
<1>5. CASE MarkFailure(w)
  <2>1. /\ worker[w].pc = "failed" /\ UNCHANGED <<args, queue>>
        /\ result' = [result EXCEPT ![worker[w].task] = "FAILURE"]
        /\ \E pc \in {"raise", "retry", "error"} : Goto(w, pc)
    BY <1>5 DEF MarkFailure, Handler
  <2>2. worker[w].task \in Tasks /\ result[worker[w].task] = "PENDING"
    BY <1>0, <2>1 DEF StatusOf, TypeInv, WorkerWF
  <2>3. /\ worker'[w].pc \in {"raise", "retry", "error"}
        /\ worker'[w].task = worker[w].task
        /\ \A v \in Workers : v # w => worker'[v] = worker[v]
    BY <1>0, <2>1, GotoEffect
  <2>4. StatusOf(w)'
    BY <1>0, <2>1, <2>2, <2>3 DEF StatusOf, TypeOK
  <2> QED
    BY <1>0, <2>1, <2>2, <2>3, <2>4, StatusGoesOn
<1>6. CASE RetryOnNextMesh(w)
  <2>1. /\ worker[w].pc = "retry" /\ UNCHANGED <<args, queue, result>>
        /\ \/ \E row, error : GotoWith(w, "resend", row, error)
           \/ Goto(w, "raise")
    BY <1>6 DEF RetryOnNextMesh
  <2>2. /\ worker'[w].pc \in {"resend", "raise"}
        /\ worker'[w].task = worker[w].task
        /\ \A v \in Workers : v # w => worker'[v] = worker[v]
    BY <1>0, <2>1, GotoEffect, GotoWithEffect
  <2>3. StatusOf(w)'
    BY <1>0, <2>1, <2>2 DEF StatusOf
  <2> QED
    BY <1>0, <2>1, <2>2, <2>3, StatusGoesOn
<1>7. CASE RecordRetryJob(w) \/ RecordError(w)
  <2>1. /\ worker[w].pc \in {"record", "error"} /\ UNCHANGED <<args, queue, result>>
        /\ Finish(w) \/ Goto(w, "raise")
    BY <1>7 DEF RecordRetryJob, RecordError
  <2>2. CASE Finish(w)
    <3>1. result'[worker[w].task] # "PENDING"
      BY <1>0, <2>1 DEF StatusOf
    <3> QED
      BY <1>0, <2>1, <2>2, <3>1, StatusFinishes
  <2>3. CASE Goto(w, "raise")
    <3>1. /\ worker'[w].pc = "raise" /\ worker'[w].task = worker[w].task
          /\ \A v \in Workers : v # w => worker'[v] = worker[v]
      BY <1>0, <2>3, GotoEffect
    <3>2. StatusOf(w)'
      BY <1>0, <2>1, <3>1 DEF StatusOf
    <3> QED
      BY <1>0, <2>1, <3>1, <3>2, StatusGoesOn
  <2> QED
    BY <2>1, <2>2, <2>3
<1>8. CASE Raise(w)
  <2>1. /\ worker[w].pc = "raise" /\ UNCHANGED <<args, queue>> /\ Finish(w)
        /\ result' = [result EXCEPT ![worker[w].task] = "FAILURE"]
    BY <1>8 DEF Raise
  <2>2. /\ worker[w].task \in Tasks
        /\ result[worker[w].task] \in {"PENDING", "FAILURE"}
    BY <1>0, <2>1 DEF StatusOf, TypeInv, WorkerWF
  <2>3. result'[worker[w].task] # "PENDING"
    BY <1>0, <2>1, <2>2 DEF TypeOK
  <2>4. result[worker[w].task] = "FAILURE" => UNCHANGED result
    BY <1>0, <2>1, <2>2 DEF TypeOK
  <2> QED
    BY <1>0, <2>1, <2>2, <2>3, <2>4, StatusFinishes
<1>9. CASE WorkerCrash(w)
  <2>1. /\ worker[w].pc # "idle" /\ Finish(w) /\ UNCHANGED <<args, queue, result>>
    BY <1>9 DEF WorkerCrash
  <2> QED
    BY <1>0, <1>9, <2>1, StatusFinishes
<1>10. CASE ChildKilled(w)
  <2>1. /\ worker[w].pc # "idle" /\ UNCHANGED <<args, queue>> /\ Finish(w)
        /\ result' = [result EXCEPT ![worker[w].task] = "FAILURE"]
    BY <1>10 DEF ChildKilled
  <2>2. /\ worker[w].task \in Tasks
        /\ result[worker[w].task] \in {"PENDING", "FAILURE"}
    BY <1>0, <2>1 DEF StatusOf, TypeInv, TypeOK, WorkerWF, WorkerState, WorkerPc
  <2>3. result'[worker[w].task] # "PENDING"
    BY <1>0, <2>1, <2>2 DEF TypeOK
  <2>4. result[worker[w].task] = "FAILURE" => UNCHANGED result
    BY <1>0, <2>1, <2>2 DEF TypeOK
  <2> QED
    BY <1>0, <2>1, <2>2, <2>3, <2>4, StatusFinishes
<1>11. CASE StoreRefused(w)
  <2>1. /\ UNCHANGED <<args, queue, result>> /\ worker[w].pc # "idle"
        /\ Finish(w) \/ (worker[w].pc = "failed" /\ Goto(w, "raise"))
    BY <1>11 DEF StoreRefused
  <2>2. CASE Finish(w)
    BY <1>0, <1>11, <2>1, <2>2, StatusFinishes
  <2>3. CASE worker[w].pc = "failed" /\ Goto(w, "raise")
    <3>1. /\ worker'[w].pc = "raise" /\ worker'[w].task = worker[w].task
          /\ \A v \in Workers : v # w => worker'[v] = worker[v]
      BY <1>0, <2>3, GotoEffect
    <3>2. StatusOf(w)'
      BY <1>0, <2>1, <2>3, <3>1 DEF StatusOf
    <3> QED
      BY <1>0, <2>1, <3>1, <3>2, StatusGoesOn
  <2> QED
    BY <2>1, <2>2, <2>3
<1> QED
  BY <1>1, <1>2, <1>3, <1>4, <1>5, <1>6, <1>7, <1>8, <1>9, <1>10, <1>11
     DEF WorkerStep, WorkerDies

LEMMA NextStatus ==
    Inv /\ StatusInv /\ [Next]_vars =>
        /\ StatusInv'
        /\ "expire" \notin Events => StatesStay
        /\ {"crash", "backend", "expire"} \cap Events = {} /\ LiveTasks
             => LiveTasks'
<1> SUFFICES ASSUME Inv, StatusInv, [Next]_vars
             PROVE  /\ StatusInv'
                    /\ "expire" \notin Events => StatesStay
                    /\ {"crash", "backend", "expire"} \cap Events = {} /\ LiveTasks
                         => LiveTasks'
  OBVIOUS
<1> USE DEF tables, celery, web
<1>0. TypeInv /\ TypeOK /\ UnsentPending
  BY DEF Inv, TypeInv
<1>1. CASE UNCHANGED <<args, queue, result, worker>>
  BY <1>0, <1>1, StatusSent
<1>2. ASSUME NEW p \in Posts, PostSelect(p) \/ PostStep(p) \/ PostCrash(p)
      PROVE  StatusInv' /\ StatesStay /\ (LiveTasks => LiveTasks')
  <2>1. CASE PostSend(p)
    BY <1>0, <2>1, SendEffect, StatusSent
  <2>2. CASE PostCreate(p)
    BY <1>0, <2>2, StatusSent DEF PostCreate
  <2>3. CASE ~PostSend(p) /\ ~PostCreate(p)
    BY <1>0, <1>2, <2>3, PostMoves, StatusSent DEF PostStep
  <2> QED
    BY <2>1, <2>2, <2>3
<1>3. ASSUME NEW w \in Workers, WorkerStep(w) \/ WorkerDies(w)
      PROVE  /\ StatusInv' /\ StatesStay
             /\ LiveTasks /\ {"crash", "backend"} \cap Events = {} => LiveTasks'
  BY <1>3, WorkerStatus DEF WorkerCrash, StoreRefused
<1>4. ASSUME NEW t \in Tasks, ResultExpires(t)
      PROVE  StatusInv' /\ "expire" \in Events
  <2>1. /\ UNCHANGED <<queue, worker>> /\ \A w \in Workers : worker[w].task # t
        /\ result'[t] = "PENDING" /\ "expire" \in Events
        /\ \A u \in Tasks : u # t => result'[u] = result[u]
    BY <1>0, <1>4 DEF ResultExpires, TypeOK
  <2>2. ASSUME NEW w \in Workers PROVE StatusOf(w)'
    <3>1. worker[w].pc # "idle" => worker[w].task \in Tasks
      BY <1>0 DEF TypeInv, WorkerWF
    <3> QED
      BY <2>1, <3>1 DEF StatusInv, StatusOf
  <2>3. queue \subseteq Tasks
    BY <1>0 DEF TypeOK
  <2> QED
    BY <2>1, <2>2, <2>3 DEF StatusInv, Unheld
<1>5. CASE ~ \/ \E p \in Posts : PostSelect(p) \/ PostStep(p) \/ PostCrash(p)
             \/ \E w \in Workers : WorkerStep(w) \/ WorkerDies(w)
             \/ \E t \in Tasks : ResultExpires(t)
  <2>1. UNCHANGED <<args, queue, result, worker>>
    BY <1>5 DEF Next, CancelFind, CancelStep, CancelRevoke, CancelDelete,
       CancelCrash, ImportMesh, CleanupMesh, CleanupRoute, Rest, vars
  <2> QED
    BY <1>1, <2>1
<1> QED
  BY <1>2, <1>3, <1>4, <1>5

\* A state of a job that a client has read is final: while no child process is
\* killed and no result expires, a retry stores its outcome under a task of its
\* own, and no task stores two, whichever writes are refused and whichever web
\* processes and workers die (tasks.py:147, 143).
THEOREM StatesAreFinal ==
    ASSUME {"kill", "expire"} \cap Events = {} PROVE Spec => StatusIsFinal
<1>1. StatusIsFinal <=> [][StatesStay]_vars
  BY DEF StatusIsFinal, StatesStay
<1>2. Inv /\ StatusInv /\ [Next]_vars => [StatesStay]_vars
  BY NextStatus
<1> QED
  BY <1>1, <1>2, InitInv, NextInv, StatusInit, NextStatus, PTL DEF Spec

\* A job that reads PENDING is not lost: its task waits or is in the hands of
\* a worker, so that the client who polls it waits for something, as long as
\* no whole worker dies, the result backend refuses no state and no result
\* expires (tasks.py:147-166).
THEOREM PendingJobsAreLive ==
    ASSUME {"crash", "backend", "expire"} \cap Events = {}
    PROVE  Spec => []PendingIsLive
<1>1. TypeInv /\ JobsInv /\ LiveTasks => PendingIsLive
  BY DEF JobsInv, JobsMatch, LiveTasks, PendingIsLive
<1>2. Init => Inv /\ JobsInv /\ StatusInv /\ LiveTasks
  BY InitInv, JobsInvInit, StatusInit
<1>3. /\ Inv /\ JobsInv /\ StatusInv /\ LiveTasks /\ [Next]_vars
      => (Inv /\ JobsInv /\ StatusInv /\ LiveTasks)'
  BY NextInv, NextJobs, NextStatus DEF Inv
<1> QED
  BY <1>1, <1>2, <1>3, PTL DEF Spec, Inv

----------------------------------------------------------------------------
(* The backup meshes of a task *)

\* No task of the same route has fewer backup meshes.
HasFewest(t) ==
    \A u \in Tasks : args[u].route = args[t].route =>
        Len(args[t].backups) <= Len(args[u].backups)

\* The task whose turn it is has the shortest list of its route, and a route
\* whose task is yet to be sent has none.
BackupsInv ==
    /\ RetryShortensBackups
    /\ \A p \in Posts : post[p].pc = "send" =>
         \A t \in Tasks : args[t].route # post[p].route
    /\ \A t \in queue : HasFewest(t)
    /\ \A w \in Workers : worker[w].pc \in WritingPc => HasFewest(worker[w].task)

LEMMA BackupsInit == Init => BackupsInv
<1> SUFFICES ASSUME Init PROVE BackupsInv
  OBVIOUS
<1>1. /\ queue = {} /\ \A w \in Workers : worker[w].pc = "idle"
      /\ \A p \in Posts : post[p].pc = "ready"
  BY DEF Init, IdleWorker, IdlePost
<1>2. \A t \in Tasks : args[t].route = None
  BY DEF Init, NoArgs
<1> QED
  BY <1>1, <1>2 DEF BackupsInv, RetryShortensBackups, Fresh, WritingPc

\* A step that sends no task.
LEMMA BackupsQuiet ==
    ASSUME Inv, BackupsInv, TypeInv', UNCHANGED args, queue' \subseteq queue,
           \A p \in Posts : post'[p].pc = "send" =>
              \/ post[p].pc = "send" /\ post'[p].route = post[p].route
              \/ route[post'[p].route].state = "unborn",
           \A w \in Workers : worker'[w].pc \in WritingPc =>
              \/ worker[w].pc \in WritingPc /\ worker'[w].task = worker[w].task
              \/ worker'[w].task \in queue
    PROVE  BackupsInv'
<1>1. \A p \in Posts : post'[p].pc = "send" =>
        \A t \in Tasks : args[t].route # post'[p].route
  BY NoneAssumption DEF BackupsInv, Inv, Born, TypeInv, PostWF
<1>2. \A t : HasFewest(t)' <=> HasFewest(t)
  BY DEF HasFewest
<1> QED
  BY <1>1, <1>2 DEF BackupsInv, RetryShortensBackups, Fresh

\* A task is sent with fewer backup meshes than the tasks of its route
\* before it, by the one party who had the right to send it.
LEMMA BackupsSent ==
    ASSUME TypeInv, BackupsInv, NEW t \in Tasks, NEW r \in Routes,
           NEW backups \in Seq(Meshes), args[t].route = None,
           args'[t] = [route |-> r, backups |-> backups],
           \A u \in Tasks : u # t => args'[u] = args[u],
           queue' = queue \cup {t},
           \A u \in Tasks : args[u].route = r =>
              Len(backups) < Len(args[u].backups),
           \A u \in queue : args[u].route # r,
           \A p \in Posts : post'[p].pc = "send" =>
              /\ post[p].pc = "send" /\ post'[p].route = post[p].route
              /\ post[p].route # r,
           \A w \in Workers : worker'[w].pc \in WritingPc =>
              /\ worker[w].pc \in WritingPc /\ worker'[w].task = worker[w].task
              /\ RouteOf(w) # r
    PROVE  BackupsInv'
<1>1. \A u \in Tasks : Len(args[u].backups) \in Nat
  BY DEF TypeInv, TypeOK, TaskArgs
<1>2. Len(backups) \in Nat
  OBVIOUS
<1>3. args'[t].route = r /\ args'[t].backups = backups
  OBVIOUS
<1>4. HasFewest(t)'
  BY <1>2, <1>3 DEF HasFewest
<1>5. ASSUME NEW u \in Tasks, HasFewest(u), args[u].route \in Routes,
             args[u].route # r
      PROVE  HasFewest(u)'
  BY <1>3, <1>5, NoneAssumption DEF HasFewest
<1>6. RetryShortensBackups'
  <2> SUFFICES ASSUME NEW u \in Tasks, NEW v \in Tasks, args'[u].route # None,
                      args'[u].route = args'[v].route,
                      Len(args'[u].backups) = Len(args'[v].backups)
               PROVE  u = v
    BY DEF RetryShortensBackups, Fresh
  <2> QED
    BY <1>1, <1>2, <1>3 DEF BackupsInv, RetryShortensBackups, Fresh
<1>7. \A u \in queue : u \in Tasks /\ args[u].route \in Routes
  BY DEF TypeInv, TypeOK, QueueWF
<1>8. \A w \in Workers : worker[w].pc \in WritingPc =>
        worker[w].task \in Tasks /\ RouteOf(w) \in Routes
  BY DEF TypeInv, WorkerWF, WritingPc
<1>9. \A p \in Posts : post'[p].pc = "send" =>
        \A u \in Tasks : args'[u].route # post'[p].route
  BY <1>3 DEF BackupsInv
<1> QED
  BY <1>4, <1>5, <1>6, <1>7, <1>8, <1>9 DEF BackupsInv, RouteOf

LEMMA SendBackups ==
    ASSUME Inv, BackupsInv, TypeInv', NEW p \in Posts, PostSend(p)
    PROVE  BackupsInv'
<1>0. TypeInv /\ Exclusive
  BY DEF Inv
<1>1. /\ post[p].pc = "send" /\ post[p].route \in Routes
      /\ AllButFirst(post[p].meshes) \in Seq(Meshes)
      /\ UNCHANGED worker /\ post'[p].pc # "send"
      /\ \A q \in Posts : q # p => post'[q] = post[q]
  BY <1>0, SendEffect, TailType
<1>2. CASE UNCHANGED <<args, queue>>
  BY <1>1, <1>2, BackupsQuiet
<1>3. ASSUME NEW t \in Tasks, args[t].route = None,
             args'[t] = [route |-> post[p].route,
                         backups |-> AllButFirst(post[p].meshes)],
             \A u \in Tasks : u # t => args'[u] = args[u],
             queue' = queue \cup {t}
      PROVE  BackupsInv'
  <2>1. \A u \in Tasks : args[u].route # post[p].route
    BY <1>1 DEF BackupsInv
  <2>2. \A u \in queue : args[u].route # post[p].route
    BY <1>0, <2>1 DEF TypeInv, TypeOK
  <2>3. \A q \in Posts : post'[q].pc = "send" =>
          /\ post[q].pc = "send" /\ post'[q].route = post[q].route
          /\ post[q].route # post[p].route
    BY <1>0, <1>1 DEF Exclusive
  <2>4. \A w \in Workers : worker'[w].pc \in WritingPc =>
          /\ worker[w].pc \in WritingPc /\ worker'[w].task = worker[w].task
          /\ RouteOf(w) # post[p].route
    BY <1>0, <1>1 DEF Exclusive
  <2> QED
    BY <1>0, <1>1, <1>3, <2>1, <2>2, <2>3, <2>4, BackupsSent
<1> QED
  BY <1>0, <1>2, <1>3, SendEffect

LEMMA ResendBackups ==
    ASSUME Inv, BackupsInv, TypeInv', NEW w \in Workers, Resend(w)
    PROVE  BackupsInv'
<1>0. TypeInv /\ TypeOK /\ Exclusive
  BY DEF Inv, TypeInv
<1>1. /\ worker[w].pc = "resend" /\ RouteOf(w) \in Routes
      /\ UNCHANGED post /\ worker'[w].pc \notin WritingPc
      /\ \A v \in Workers : v # w => worker'[v] = worker[v]
  BY <1>0, ResendEffect DEF WritingPc
<1>2. /\ worker[w].task \in Tasks /\ BackupsOf(w) \in Seq(Meshes)
      /\ BackupsOf(w) # <<>>
  BY <1>0, <1>1 DEF TypeInv, TypeOK, TaskArgs, WorkerWF, BackupsOf
<1>3. /\ AllButFirst(BackupsOf(w)) \in Seq(Meshes)
      /\ Len(AllButFirst(BackupsOf(w))) < Len(BackupsOf(w))
      /\ Len(AllButFirst(BackupsOf(w))) \in Nat /\ Len(BackupsOf(w)) \in Nat
  BY <1>2 DEF AllButFirst
<1>4. CASE UNCHANGED <<args, queue>>
  BY <1>1, <1>4, BackupsQuiet
<1>5. ASSUME NEW t \in Tasks, args[t].route = None,
             args'[t] = [route |-> RouteOf(w),
                         backups |-> AllButFirst(BackupsOf(w))],
             \A u \in Tasks : u # t => args'[u] = args[u],
             queue' = queue \cup {t}
      PROVE  BackupsInv'
  <2>1. \A u \in Tasks : args[u].route = RouteOf(w) =>
          /\ Len(args[u].backups) \in Nat
          /\ Len(BackupsOf(w)) <= Len(args[u].backups)
    BY <1>0, <1>1 DEF BackupsInv, HasFewest, WritingPc, RouteOf, BackupsOf,
                      TypeOK, TaskArgs
  <2>2. \A u \in Tasks : args[u].route = RouteOf(w) =>
          Len(AllButFirst(BackupsOf(w))) < Len(args[u].backups)
    BY <1>3, <2>1
  <2>3. \A u \in queue : args[u].route # RouteOf(w)
    BY <1>0, <1>1 DEF Exclusive, WritingPc
  <2>4. \A p \in Posts : post'[p].pc = "send" =>
          /\ post[p].pc = "send" /\ post'[p].route = post[p].route
          /\ post[p].route # RouteOf(w)
    BY <1>0, <1>1 DEF Exclusive, WritingPc
  <2>5. \A v \in Workers : worker'[v].pc \in WritingPc =>
          /\ worker[v].pc \in WritingPc /\ worker'[v].task = worker[v].task
          /\ RouteOf(v) # RouteOf(w)
    BY <1>0, <1>1 DEF Exclusive, WritingPc
  <2> HIDE DEF BackupsInv
  <2> QED
    BY <1>0, <1>1, <1>3, <1>5, <2>2, <2>3, <2>4, <2>5, BackupsSent
<1> QED
  BY <1>0, <1>4, <1>5, ResendEffect

LEMMA WorkerBackups ==
    ASSUME Inv, BackupsInv, NEW w \in Workers, WorkerStep(w) \/ WorkerDies(w)
    PROVE  BackupsInv'
<1> USE DEF tables, celery, web
<1>0. TypeInv /\ TypeOK /\ TypeInv'
  BY WorkerType DEF Inv, TypeInv
<1>1. CASE Resend(w)
  BY <1>0, <1>1, ResendBackups
<1>2. CASE Take(w)
  <2>1. /\ UNCHANGED <<args, post>> /\ queue' \subseteq queue
        /\ worker'[w].task \in queue
        /\ \A v \in Workers : v # w => worker'[v] = worker[v]
    BY <1>0, <1>2, TakeEffect DEF Take, TypeOK
  <2> QED
    BY <1>0, <2>1, BackupsQuiet
<1>3. CASE ~Resend(w) /\ ~Take(w)
  <2>1. /\ UNCHANGED <<args, queue, post>>
        /\ \/ worker'[w].pc \notin WritingPc
           \/ worker[w].pc \in WritingPc /\ worker'[w].task = worker[w].task
        /\ \A v \in Workers : v # w => worker'[v] = worker[v]
    <3>1. CASE SaveUnsmoothed(w) \/ PlanFails(w) \/ SaveSmoothed(w)
               \/ SmoothFails(w) \/ MarkFailure(w) \/ RetryOnNextMesh(w)
      <4>1. /\ UNCHANGED <<args, queue, post>> /\ worker[w].pc \in WritingPc
            /\ \/ \E pc : Goto(w, pc)
               \/ \E pc, row, error : GotoWith(w, pc, row, error)
        BY <3>1 DEF SaveUnsmoothed, PlanFails, SaveSmoothed, SmoothFails,
                    MarkFailure, RetryOnNextMesh, WritingPc
      <4> QED
        BY <1>0, <4>1, GotoEffect, GotoWithEffect
    <3>2. CASE Return(w) \/ RecordRetryJob(w) \/ RecordError(w) \/ Raise(w)
               \/ StoreRefused(w) \/ WorkerDies(w)
      <4>1. /\ UNCHANGED <<args, queue, post>>
            /\ Finish(w) \/ Goto(w, "raise")
        BY <3>2 DEF Return, RecordRetryJob, RecordError, Raise, StoreRefused,
                    WorkerDies, WorkerCrash, ChildKilled
      <4> QED
        BY <1>0, <4>1, FinishEffect, GotoEffect DEF WritingPc
    <3> QED
      BY <1>3, <3>1, <3>2 DEF WorkerStep
  <2> QED
    BY <1>0, <2>1, BackupsQuiet
<1> QED
  BY <1>1, <1>2, <1>3

LEMMA NextBackups == Inv /\ BackupsInv /\ [Next]_vars => BackupsInv'
<1> SUFFICES ASSUME Inv, BackupsInv, [Next]_vars PROVE BackupsInv'
  OBVIOUS
<1> USE DEF tables, celery, web
<1>0. TypeInv /\ TypeOK /\ TypeInv'
  BY NextType DEF Inv, TypeInv
<1>1. CASE UNCHANGED <<args, queue, post, worker>>
  BY <1>0, <1>1, BackupsQuiet
<1>2. ASSUME NEW p \in Posts, PostSelect(p) \/ PostStep(p) \/ PostCrash(p)
      PROVE  BackupsInv'
  <2>1. CASE PostSend(p)
    BY <1>0, <2>1, SendBackups
  <2>2. CASE PostCreate(p)
    <3>1. /\ UNCHANGED <<args, queue, worker>>
          /\ \/ \E r \in Routes :
                  /\ route[r].state = "unborn"
                  /\ post' = [post EXCEPT ![p].pc = "send", ![p].route = r]
             \/ Answer(p, 500, None)
      BY <2>2 DEF PostCreate
    <3>2. CASE Answer(p, 500, None)
      <4>1. post'[p].pc = "done" /\ \A q \in Posts : q # p => post'[q] = post[q]
        BY <1>0, <3>2, AnswerType DEF Code
      <4> QED
        BY <1>0, <3>1, <4>1, BackupsQuiet
    <3>3. ASSUME NEW r \in Routes, route[r].state = "unborn",
                 post' = [post EXCEPT ![p].pc = "send", ![p].route = r]
          PROVE  BackupsInv'
      <4>1. /\ post'[p].route = r /\ \A q \in Posts : q # p => post'[q] = post[q]
        BY <1>0, <3>3 DEF TypeOK, PostState
      <4> QED
        BY <1>0, <3>1, <3>3, <4>1, BackupsQuiet
    <3> QED
      BY <3>1, <3>2, <3>3
  <2>3. CASE ~PostSend(p) /\ ~PostCreate(p)
    BY <1>0, <1>2, <2>3, PostMoves, BackupsQuiet DEF PostStep
  <2> QED
    BY <2>1, <2>2, <2>3
<1>3. CASE ~ \/ \E p \in Posts : PostSelect(p) \/ PostStep(p) \/ PostCrash(p)
             \/ \E w \in Workers : WorkerStep(w) \/ WorkerDies(w)
  <2>1. UNCHANGED <<args, queue, post, worker>>
    BY <1>3 DEF Next, CancelFind, CancelStep, CancelRevoke, CancelDelete,
       CancelCrash, ImportMesh, CleanupMesh, CleanupRoute, ResultExpires, Rest,
       vars
  <2> QED
    BY <1>1, <2>1
<1> QED
  BY <1>2, <1>3, WorkerBackups

\* A chain of retries ends: of two tasks of one route, one has fewer backup
\* meshes, because the worker that sends the later one held the shortest list
\* of the route and passes on all but its first mesh (tasks.py:150-157).
THEOREM RetriesShortenBackups == Spec => []RetryShortensBackups
<1>1. BackupsInv => RetryShortensBackups
  BY DEF BackupsInv
<1> QED
  BY <1>1, InitInv, NextInv, BackupsInit, NextBackups, PTL DEF Spec

----------------------------------------------------------------------------
(* The meshes that the tasks of a route try *)

Distinct(s) == \A i, j \in DOMAIN s : s[i] = s[j] => i = j

\* The mesh of a stored route is not in the list.
Avoids(r, s) == Exists(r) => \A i \in DOMAIN s : s[i] # route[r].row.mesh

\* A task that waits, or that is about to be sent, does not name the mesh of
\* its route among the backups.
MeshesInv ==
    /\ \A t \in Tasks : Distinct(args[t].backups)
    /\ \A p \in Posts :
         post[p].pc \in {"create", "send"} => Distinct(post[p].meshes)
    /\ \A p \in Posts :
         post[p].pc = "send" => Avoids(post[p].route, Tail(post[p].meshes))
    /\ \A t \in queue : Avoids(args[t].route, args[t].backups)
    /\ \A w \in Workers :
         worker[w].pc = "resend" => Avoids(RouteOf(w), Tail(BackupsOf(w)))

\* A row keeps its mesh, loses it, or is deleted.
MeshKept(r) ==
    route'[r].state = "stored" =>
        Exists(r) /\ route'[r].row.mesh \in {route[r].row.mesh, None}

LEMMA TailDistinct ==
    ASSUME NEW s \in Seq(Meshes), s # <<>>, Distinct(s)
    PROVE  /\ Tail(s) \in Seq(Meshes) /\ Distinct(Tail(s))
           /\ \A i \in DOMAIN Tail(s) : Tail(s)[i] # Head(s)
<1>1. /\ Tail(s) \in Seq(Meshes) /\ Len(Tail(s)) = Len(s) - 1
      /\ \A i \in 1 .. Len(Tail(s)) : Tail(s)[i] = s[i + 1]
      /\ Head(s) = s[1] /\ Len(s) \in Nat \ {0}
      /\ DOMAIN s = 1 .. Len(s) /\ DOMAIN Tail(s) = 1 .. Len(Tail(s))
  OBVIOUS
<1>2. ASSUME NEW i \in DOMAIN Tail(s)
      PROVE  i \in Int /\ i + 1 \in DOMAIN s /\ 1 \in DOMAIN s /\ i + 1 # 1
  BY <1>1
<1>3. \A i \in DOMAIN Tail(s) : Tail(s)[i] = s[i + 1]
  BY <1>1
<1>4. ASSUME NEW i \in DOMAIN Tail(s), NEW j \in DOMAIN Tail(s),
             Tail(s)[i] = Tail(s)[j]
      PROVE  i = j
  <2>1. i + 1 = j + 1
    BY <1>2, <1>3, <1>4 DEF Distinct
  <2> QED
    BY <1>2, <2>1
<1>5. \A i \in DOMAIN Tail(s) : Tail(s)[i] # Head(s)
  BY <1>1, <1>2, <1>3 DEF Distinct
<1> QED
  BY <1>1, <1>4, <1>5 DEF Distinct

\* A list that avoids the mesh of a route avoids the mesh it is left with.
LEMMA AvoidsKept ==
    ASSUME NEW r, NEW s \in Seq(Meshes), Avoids(r, s), MeshKept(r)
    PROVE  Avoids(r, s)'
<1>1. \A i \in DOMAIN s : s[i] # None
  BY NoneAssumption
<1> QED
  BY <1>1 DEF Avoids, MeshKept, Exists

\* What the candidates of a request are.
LEMMA CandidatesDistinct ==
    ASSUME NEW p \in Posts, NEW meshes \in CandidateLists(p)
    PROVE  Distinct(meshes)
<1>1. CASE post[p].body.mesh_id # None
  <2>1. PICK m : meshes = <<m>>
    BY <1>1 DEF CandidateLists
  <2> QED
    BY <2>1 DEF Distinct
<1>2. CASE post[p].body.mesh_id = None
  <2>1. PICK S : meshes \in SortedBySize(S)
    BY <1>2 DEF CandidateLists, SelectMesh
  <2>2. /\ DOMAIN meshes = 1 .. Cardinality(S)
        /\ \A i, j \in 1 .. Cardinality(S) : i < j => meshes[i] # meshes[j]
    BY <2>1 DEF SortedBySize
  <2>3. ASSUME NEW i \in DOMAIN meshes, NEW j \in DOMAIN meshes,
               meshes[i] = meshes[j]
        PROVE  i = j
    <3>1. i \in Int /\ j \in Int
      BY <2>2
    <3>2. ~(i < j) /\ ~(j < i)
      BY <2>2, <2>3
    <3> QED
      BY <3>1, <3>2
  <2> QED
    BY <2>3 DEF Distinct
<1> QED
  BY <1>1, <1>2

LEMMA MeshesInit == Init => MeshesInv
<1> SUFFICES ASSUME Init PROVE MeshesInv
  OBVIOUS
<1>1. /\ queue = {} /\ \A w \in Workers : worker[w].pc = "idle"
      /\ \A p \in Posts : post[p].pc = "ready"
  BY DEF Init, IdleWorker, IdlePost
<1>2. \A t \in Tasks : Distinct(args[t].backups)
  BY DEF Init, NoArgs, Distinct
<1> QED
  BY <1>1, <1>2 DEF MeshesInv

\* A step that sends no task.
LEMMA MeshesQuiet ==
    ASSUME TypeInv, MeshesInv, UNCHANGED args, queue' \subseteq queue,
           \A p \in Posts :
              \/ post'[p].pc \notin {"create", "send"}
              \/ post'[p] = post[p] /\ (post[p].pc = "send" => MeshKept(post[p].route))
              \/ /\ Distinct(post'[p].meshes)
                 /\ post'[p].pc = "send" =>
                      Avoids(post[p].route, Tail(post[p].meshes))',
           \A t \in queue' : MeshKept(args[t].route),
           \A w \in Workers :
              \/ worker'[w].pc # "resend"
              \/ /\ worker'[w] = worker[w]
                 /\ worker[w].pc = "resend" => MeshKept(RouteOf(w))
              \/ Avoids(RouteOf(w), Tail(BackupsOf(w)))'
    PROVE  MeshesInv'
<1>1. ASSUME NEW p \in Posts
      PROVE  /\ post'[p].pc \in {"create", "send"} => Distinct(post'[p].meshes)
             /\ post'[p].pc = "send" =>
                   Avoids(post[p].route, Tail(post[p].meshes))'
  <2>1. ASSUME post'[p] = post[p], post[p].pc = "send", MeshKept(post[p].route)
        PROVE  Avoids(post[p].route, Tail(post[p].meshes))'
    <3>1. /\ post[p].meshes \in Seq(Meshes) /\ post[p].meshes # <<>>
      BY <2>1 DEF TypeInv, TypeOK, PostState, PostWF
    <3>2. Tail(post[p].meshes) \in Seq(Meshes)
      BY <3>1
    <3>3. Avoids(post[p].route, Tail(post[p].meshes))
      BY <2>1 DEF MeshesInv
    <3> PICK r, s : r = post[p].route /\ s = Tail(post[p].meshes)
      OBVIOUS
    <3>4. Avoids(r, s)'
      BY <2>1, <3>2, <3>3, AvoidsKept
    <3> QED
      BY <2>1, <3>4 DEF Avoids
  <2> QED
    BY <2>1 DEF MeshesInv
<1>2. ASSUME NEW t \in queue'
      PROVE  Avoids(args[t].route, args[t].backups)'
  <2>1. t \in queue /\ args[t].backups \in Seq(Meshes)
    BY DEF TypeInv, TypeOK, TaskArgs
  <2> PICK r, s : r = args[t].route /\ s = args[t].backups
    OBVIOUS
  <2>2. Avoids(r, s)'
    BY <2>1, AvoidsKept DEF MeshesInv
  <2> QED
    BY <2>2 DEF Avoids
<1>3. ASSUME NEW w \in Workers, worker'[w].pc = "resend"
      PROVE  Avoids(RouteOf(w), Tail(BackupsOf(w)))'
  <2>1. ASSUME worker'[w] = worker[w], worker[w].pc = "resend",
               MeshKept(RouteOf(w))
        PROVE  Avoids(RouteOf(w), Tail(BackupsOf(w)))'
    <3>1. /\ BackupsOf(w) \in Seq(Meshes) /\ BackupsOf(w) # <<>>
      BY <2>1 DEF TypeInv, TypeOK, TaskArgs, WorkerWF, BackupsOf
    <3>2. Tail(BackupsOf(w)) \in Seq(Meshes)
      BY <3>1
    <3>3. Avoids(RouteOf(w), Tail(BackupsOf(w)))
      BY <2>1 DEF MeshesInv
    <3> PICK r, s : r = RouteOf(w) /\ s = Tail(BackupsOf(w))
      OBVIOUS
    <3>4. Avoids(r, s)'
      BY <2>1, <3>2, <3>3, AvoidsKept
    <3> QED
      BY <2>1, <3>4 DEF Avoids, RouteOf, BackupsOf
  <2> QED
    BY <1>3, <2>1
<1> QED
  BY <1>1, <1>2, <1>3 DEF MeshesInv, Distinct

\* A task is sent with a list that avoids the mesh of its route.
LEMMA MeshesSent ==
    ASSUME TypeInv, MeshesInv, NEW t \in Tasks, NEW r \in Routes,
           NEW backups, args[t].route = None,
           args'[t] = [route |-> r, backups |-> backups],
           Distinct(backups), Avoids(r, backups),
           \A u \in Tasks : u # t => args'[u] = args[u],
           queue' = queue \cup {t}, UNCHANGED route,
           \A p \in Posts : \/ post'[p] = post[p]
                            \/ post'[p].pc \notin {"create", "send"},
           \A w \in Workers : \/ worker'[w] = worker[w]
                              \/ worker'[w].pc # "resend"
    PROVE  MeshesInv'
<1>1. args'[t].route = r /\ args'[t].backups = backups
  OBVIOUS
<1>2. \A u \in Tasks : Distinct(args[u].backups)'
  BY <1>1 DEF MeshesInv, Distinct
<1>3. \A p \in Posts :
        /\ post'[p].pc \in {"create", "send"} => Distinct(post'[p].meshes)
        /\ post'[p].pc = "send" => Avoids(post[p].route, Tail(post[p].meshes))'
  BY DEF MeshesInv, Avoids, Exists
<1>4. ASSUME NEW u \in queue'
      PROVE  Avoids(args[u].route, args[u].backups)'
  <2>1. CASE u = t
    BY <1>1, <2>1 DEF Avoids, Exists
  <2>2. CASE u # t
    <3>1. u \in queue /\ args'[u] = args[u]
      BY <2>2 DEF TypeInv, TypeOK
    <3> QED
      BY <3>1 DEF MeshesInv, Avoids, Exists
  <2> QED
    BY <2>1, <2>2
<1>5. ASSUME NEW w \in Workers, worker'[w].pc = "resend"
      PROVE  Avoids(RouteOf(w), Tail(BackupsOf(w)))'
  <2>1. worker'[w] = worker[w] /\ worker[w].pc # "idle"
    BY <1>5
  <2>2. worker[w].task \in Tasks /\ worker[w].task # t
    BY <2>1, HeldIsSent DEF TypeInv, WorkerWF
  <2>3. Avoids(RouteOf(w), Tail(BackupsOf(w)))
    BY <1>5, <2>1 DEF MeshesInv
  <2> QED
    BY <2>1, <2>2, <2>3 DEF Avoids, Exists, RouteOf, BackupsOf
<1> QED
  BY <1>2, <1>3, <1>4, <1>5 DEF MeshesInv, Distinct

\* A step of others than workers that creates no route.
LEMMA MeshesOthers ==
    ASSUME TypeInv, MeshesInv, UNCHANGED <<args, queue, worker>>,
           \A r \in Routes : MeshKept(r),
           \A p \in Posts :
              \/ post'[p] = post[p]
              \/ post'[p].pc \notin {"create", "send"}
              \/ post'[p].pc = "create" /\ Distinct(post'[p].meshes)
    PROVE  MeshesInv'
<1>1. \A p \in Posts : post[p].pc = "send" => MeshKept(post[p].route)
  BY DEF TypeInv, PostWF
<1>2. \A t \in queue : MeshKept(args[t].route)
  BY DEF TypeInv, QueueWF
<1>3. \A w \in Workers : worker[w].pc = "resend" => MeshKept(RouteOf(w))
  BY DEF TypeInv, WorkerWF
<1> QED
  BY <1>1, <1>2, <1>3, MeshesQuiet

LEMMA SameMeshes == UNCHANGED route => \A r \in Routes : MeshKept(r)
BY DEF MeshKept, Exists

LEMMA LookupMeshes ==
    ASSUME TypeInv, MeshesInv, NEW p \in Posts, PostLookup(p)
    PROVE  MeshesInv'
<1>0. /\ TypeOK /\ post[p] \in PostState
      /\ UNCHANGED <<route, args, queue, worker>>
      /\ \A q \in Posts : q # p => post'[q] = post[q]
  BY PostMoves DEF TypeInv, TypeOK, PostLookup, tables, celery
<1>1. \/ post'[p].pc \notin {"create", "send"}
      \/ post'[p].pc = "create" /\ Distinct(post'[p].meshes)
  <2>1. \/ \E meshes, r :
             post' = [post EXCEPT ![p].pc = "reuse", ![p].route = r,
                                  ![p].meshes = meshes]
        \/ \E meshes \in CandidateLists(p) :
             post' = [post EXCEPT ![p].pc = "create", ![p].meshes = meshes]
        \/ Answer(p, 500, None)
    BY DEF PostLookup
  <2>2. CASE Answer(p, 500, None)
    BY <2>2, AnswerType DEF Code
  <2>3. ASSUME NEW meshes \in CandidateLists(p),
               post' = [post EXCEPT ![p].pc = "create", ![p].meshes = meshes]
        PROVE  post'[p].pc = "create" /\ Distinct(post'[p].meshes)
    <3>1. post'[p].pc = "create" /\ post'[p].meshes = meshes
      BY <1>0, <2>3 DEF TypeOK, PostState
    <3> QED
      BY <3>1, CandidatesDistinct
  <2>4. ASSUME NEW meshes, NEW r,
               post' = [post EXCEPT ![p].pc = "reuse", ![p].route = r,
                                    ![p].meshes = meshes]
        PROVE  post'[p].pc = "reuse"
    BY <1>0, <2>4 DEF TypeOK, PostState
  <2> QED
    BY <2>1, <2>2, <2>3, <2>4
<1> QED
  BY <1>0, <1>1, SameMeshes, MeshesOthers

LEMMA CreateMeshes ==
    ASSUME Inv, MeshesInv, NEW p \in Posts, PostCreate(p)
    PROVE  MeshesInv'
<1> USE DEF tables, celery
<1> DEFINE row == [NoRow EXCEPT !.trip = post[p].body.trip,
                                !.mesh = Head(post[p].meshes)]
<1>0. /\ TypeInv /\ TypeOK /\ Born /\ UNCHANGED <<args, queue, worker>>
      /\ post[p] \in PostState /\ post[p].pc = "create"
      /\ post[p].meshes \in Seq(Meshes) /\ post[p].meshes # <<>>
  BY DEF Inv, TypeInv, TypeOK, PostState, PostWF, PostCreate
<1>1. row.mesh = Head(post[p].meshes)
  BY DEF NoRow
<1>2. /\ Distinct(post[p].meshes)
      /\ \A i \in DOMAIN Tail(post[p].meshes) :
           Tail(post[p].meshes)[i] # row.mesh
  BY <1>0, <1>1, TailDistinct DEF MeshesInv
<1> HIDE DEF row
<1>3. ASSUME NEW r \in Routes, route[r].state = "unborn", Save(r, row),
             post' = [post EXCEPT ![p].pc = "send", ![p].route = r]
      PROVE  MeshesInv'
  <2>1. /\ route'[r].row = row
        /\ \A q \in Routes : q # r => route'[q] = route[q]
    BY <1>0, <1>3, SaveEffect
  <2>2. \A q \in Routes : q # r => MeshKept(q)
    BY <2>1 DEF MeshKept, Exists
  <2>3. /\ post'[p].pc = "send" /\ post'[p].route = r
        /\ post'[p].meshes = post[p].meshes
        /\ \A q \in Posts : q # p => post'[q] = post[q]
    BY <1>0, <1>3 DEF TypeOK, PostState
  <2>4. Avoids(post[p].route, Tail(post[p].meshes))'
    BY <1>2, <2>1, <2>3 DEF Avoids
  <2>5. \A q \in Posts : post[q].pc = "send" => MeshKept(post[q].route)
    BY <1>0, <1>3, <2>2 DEF Born, TypeInv, PostWF
  <2>6. \A t \in queue : MeshKept(args[t].route)
    BY <1>0, <1>3, <2>2, NoneAssumption DEF Born, TypeInv, TypeOK, QueueWF
  <2>7. \A w \in Workers : worker[w].pc = "resend" => MeshKept(RouteOf(w))
    BY <1>0, <1>3, <2>2, NoneAssumption DEF Born, TypeInv, WorkerWF, RouteOf
  <2> QED
    BY <1>0, <1>2, <2>3, <2>4, <2>5, <2>6, <2>7, MeshesQuiet
<1>4. ASSUME SaveFails(row), Answer(p, 500, None)
      PROVE  MeshesInv'
  <2>1. post'[p].pc = "done" /\ \A q \in Posts : q # p => post'[q] = post[q]
    BY <1>0, <1>4, AnswerType DEF Code
  <2> QED
    BY <1>0, <1>4, <2>1, SameMeshes, MeshesOthers DEF SaveFails
<1> QED
  BY <1>3, <1>4 DEF PostCreate, row

LEMMA SendMeshes ==
    ASSUME Inv, MeshesInv, NEW p \in Posts, PostSend(p)
    PROVE  MeshesInv'
<1>0. TypeInv
  BY DEF Inv
<1>1. /\ post[p].pc = "send" /\ post[p].route \in Routes
      /\ post[p].meshes \in Seq(Meshes) /\ post[p].meshes # <<>>
      /\ UNCHANGED <<route, worker>> /\ post'[p].pc \notin {"create", "send"}
      /\ \A q \in Posts : q # p => post'[q] = post[q]
  BY <1>0, SendEffect
<1>2. /\ Distinct(AllButFirst(post[p].meshes))
      /\ Avoids(post[p].route, AllButFirst(post[p].meshes))
  BY <1>1, TailDistinct DEF MeshesInv, AllButFirst
<1>3. CASE UNCHANGED <<args, queue>>
  BY <1>0, <1>1, <1>3, SameMeshes, MeshesOthers
<1>4. ASSUME NEW t \in Tasks, args[t].route = None,
             args'[t] = [route |-> post[p].route,
                         backups |-> AllButFirst(post[p].meshes)],
             \A u \in Tasks : u # t => args'[u] = args[u],
             queue' = queue \cup {t}
      PROVE  MeshesInv'
  BY <1>0, <1>1, <1>2, <1>4, MeshesSent
<1> QED
  BY <1>0, <1>3, <1>4, SendEffect

LEMMA ResendMeshes ==
    ASSUME Inv, MeshesInv, NEW w \in Workers, Resend(w)
    PROVE  MeshesInv'
<1>0. TypeInv
  BY DEF Inv
<1>1. /\ worker[w].pc = "resend" /\ RouteOf(w) \in Routes
      /\ UNCHANGED <<route, post>> /\ worker'[w].pc # "resend"
      /\ \A v \in Workers : v # w => worker'[v] = worker[v]
  BY <1>0, ResendEffect
<1>2. /\ worker[w].task \in Tasks /\ BackupsOf(w) \in Seq(Meshes)
      /\ BackupsOf(w) # <<>>
  BY <1>0, <1>1 DEF TypeInv, TypeOK, TaskArgs, WorkerWF, BackupsOf
<1>3. /\ Distinct(AllButFirst(BackupsOf(w)))
      /\ Avoids(RouteOf(w), AllButFirst(BackupsOf(w)))
  BY <1>1, <1>2, TailDistinct DEF MeshesInv, AllButFirst, BackupsOf
<1>4. CASE UNCHANGED <<args, queue>>
  <2>1. /\ \A t \in queue : MeshKept(args[t].route)
        /\ \A p \in Posts : post[p].pc = "send" => MeshKept(post[p].route)
        /\ \A v \in Workers : worker[v].pc = "resend" => MeshKept(RouteOf(v))
    BY <1>0, <1>1, SameMeshes DEF TypeInv, QueueWF, PostWF, WorkerWF
  <2> QED
    BY <1>0, <1>1, <1>4, <2>1, MeshesQuiet
<1>5. ASSUME NEW t \in Tasks, args[t].route = None,
             args'[t] = [route |-> RouteOf(w),
                         backups |-> AllButFirst(BackupsOf(w))],
             \A u \in Tasks : u # t => args'[u] = args[u],
             queue' = queue \cup {t}
      PROVE  MeshesInv'
  BY <1>0, <1>1, <1>3, <1>5, MeshesSent
<1> QED
  BY <1>0, <1>4, <1>5, ResendEffect

\* A worker that may save its copy: nobody else waits for that row.
LEMMA SaveMeshes ==
    ASSUME Inv, MeshesInv, NEW w \in Workers,
           UNCHANGED <<args, post>>, queue' \subseteq queue,
           \A v \in Workers : v # w => worker'[v] = worker[v],
           \/ UNCHANGED route
           \/ worker[w].pc \in WritingPc /\ \E row : Save(RouteOf(w), row),
           \/ worker'[w].pc # "resend"
           \/ Avoids(RouteOf(w), Tail(BackupsOf(w)))'
    PROVE  MeshesInv'
<1>0. TypeInv /\ TypeOK /\ Exclusive
  BY DEF Inv, TypeInv
<1>1. CASE UNCHANGED route
  <2>1. /\ \A t \in queue : MeshKept(args[t].route)
        /\ \A p \in Posts : post[p].pc = "send" => MeshKept(post[p].route)
        /\ \A v \in Workers : worker[v].pc = "resend" => MeshKept(RouteOf(v))
    BY <1>0, <1>1, SameMeshes DEF TypeInv, QueueWF, PostWF, WorkerWF
  <2> QED
    BY <1>0, <2>1, MeshesQuiet
<1>2. ASSUME worker[w].pc \in WritingPc, NEW row, Save(RouteOf(w), row)
      PROVE  MeshesInv'
  <2>1. RouteOf(w) \in Routes
    BY <1>0, <1>2 DEF TypeInv, WorkerWF, WritingPc
  <2>2. \A q \in Routes : q # RouteOf(w) => MeshKept(q)
    BY <1>0, <1>2, <2>1, SaveEffect DEF MeshKept, Exists
  <2>3. \A p \in Posts : post[p].pc = "send" => MeshKept(post[p].route)
    BY <1>0, <1>2, <2>2 DEF Exclusive, TypeInv, PostWF
  <2>4. \A t \in queue : MeshKept(args[t].route)
    BY <1>0, <1>2, <2>2 DEF Exclusive, TypeInv, QueueWF
  <2>5. \A v \in Workers : v # w /\ worker[v].pc = "resend" =>
          MeshKept(RouteOf(v))
    BY <1>0, <1>2, <2>2 DEF Exclusive, TypeInv, WorkerWF, WritingPc
  <2> QED
    BY <1>0, <2>3, <2>4, <2>5, MeshesQuiet
<1> QED
  BY <1>1, <1>2

LEMMA WorkerMeshes ==
    ASSUME Inv, MeshesInv, NEW w \in Workers, WorkerStep(w) \/ WorkerDies(w)
    PROVE  MeshesInv'
<1> USE DEF tables, celery, web
<1>0. TypeInv /\ TypeOK
  BY DEF Inv, TypeInv
<1>1. CASE Resend(w)
  BY <1>1, ResendMeshes
<1>2. CASE Take(w)
  <2>1. /\ UNCHANGED <<route, args, post>> /\ queue' \subseteq queue
        /\ worker'[w].pc # "resend"
        /\ \A v \in Workers : v # w => worker'[v] = worker[v]
    BY <1>0, <1>2, TakeEffect DEF Take, TypeOK
  <2> QED
    BY <2>1, SaveMeshes
<1>3. CASE RetryOnNextMesh(w)
  <2> DEFINE next == Head(BackupsOf(w))
             row == Redirected(worker[w].row, next)
  <2>1. /\ worker[w].pc = "retry" /\ UNCHANGED <<args, queue, post>>
        /\ \/ Save(RouteOf(w), row) /\ GotoWith(w, "resend", row, worker[w].error)
           \/ UNCHANGED route /\ Goto(w, "raise")
    BY <1>3 DEF RetryOnNextMesh, SaveFails
  <2>2. /\ RouteOf(w) \in Routes /\ worker[w].task \in Tasks
        /\ BackupsOf(w) \in Seq(Meshes) /\ BackupsOf(w) # <<>>
        /\ worker[w].row \in Row
    BY <1>0, <2>1 DEF TypeInv, TypeOK, TaskArgs, WorkerWF, WorkerState, BackupsOf
  <2>3. row.mesh = next
    BY <2>2 DEF Redirected, Row
  <2>4. \A i \in DOMAIN Tail(BackupsOf(w)) : Tail(BackupsOf(w))[i] # row.mesh
    BY <2>2, <2>3, TailDistinct DEF MeshesInv, BackupsOf
  <2> HIDE DEF row, next
  <2>5. CASE Save(RouteOf(w), row) /\ GotoWith(w, "resend", row, worker[w].error)
    <3>1. /\ worker'[w].task = worker[w].task
          /\ \A v \in Workers : v # w => worker'[v] = worker[v]
      BY <1>0, <2>5, GotoWithEffect
    <3>2. route'[RouteOf(w)].row = row
      BY <1>0, <2>2, <2>5, SaveEffect
    <3>3. RouteOf(w)' = RouteOf(w) /\ BackupsOf(w)' = BackupsOf(w)
      BY <2>1, <3>1 DEF RouteOf, BackupsOf
    <3>4. Avoids(RouteOf(w), Tail(BackupsOf(w)))'
      BY <2>4, <3>2, <3>3 DEF Avoids
    <3> QED
      BY <2>1, <2>5, <3>1, <3>4, SaveMeshes DEF WritingPc
  <2>6. CASE UNCHANGED route /\ Goto(w, "raise")
    <3>1. /\ worker'[w].pc = "raise"
          /\ \A v \in Workers : v # w => worker'[v] = worker[v]
      BY <1>0, <2>6, GotoEffect
    <3> QED
      BY <2>1, <2>6, <3>1, SaveMeshes
  <2> QED
    BY <2>1, <2>5, <2>6
<1>4. CASE ~Resend(w) /\ ~Take(w) /\ ~RetryOnNextMesh(w)
  <2>1. /\ UNCHANGED <<args, queue, post>>
        /\ \/ UNCHANGED route
           \/ worker[w].pc \in WritingPc /\ \E row : Save(RouteOf(w), row)
        /\ \/ Finish(w)
           \/ \E pc \in WorkerPc \ {"resend"} :
                Goto(w, pc) \/ \E row, error : GotoWith(w, pc, row, error)
    BY <1>4 DEF WorkerStep, SaveUnsmoothed, PlanFails, SaveSmoothed, SmoothFails,
                Return, MarkFailure, Handler, RecordRetryJob, RecordError, Raise,
                StoreRefused, WorkerDies, WorkerCrash, ChildKilled, SaveFails,
                WritingPc, WorkerPc
  <2>2. /\ worker'[w].pc # "resend"
        /\ \A v \in Workers : v # w => worker'[v] = worker[v]
    BY <1>0, <2>1, FinishEffect, GotoEffect, GotoWithEffect
  <2> QED
    BY <2>1, <2>2, SaveMeshes
<1> QED
  BY <1>1, <1>2, <1>3, <1>4

LEMMA NextMeshes == Inv /\ MeshesInv /\ [Next]_vars => MeshesInv'
<1> SUFFICES ASSUME Inv, MeshesInv, [Next]_vars PROVE MeshesInv'
  OBVIOUS
<1> USE DEF tables, celery, web
<1>0. TypeInv /\ TypeOK
  BY DEF Inv, TypeInv
<1>1. CASE UNCHANGED <<args, queue, post, worker>> /\ \A r \in Routes : MeshKept(r)
  BY <1>0, <1>1, MeshesOthers
<1>2. ASSUME NEW p \in Posts, PostSelect(p) \/ PostStep(p) \/ PostCrash(p)
      PROVE  MeshesInv'
  <2>1. CASE PostSelect(p) \/ PostReuse(p) \/ PostRecord(p) \/ PostCrash(p)
    <3>1. /\ UNCHANGED <<route, args, queue, worker>>
          /\ \A q \in Posts : q # p => post'[q] = post[q]
      BY <1>0, <2>1, PostMoves
    <3>2. post'[p].pc \notin {"create", "send"}
      <4>1. \/ \E d : post' = [post EXCEPT ![p].pc = "lookup", ![p].day = d]
            \/ post' = [post EXCEPT ![p].pc = "lookup"]
            \/ post' = [post EXCEPT ![p] = [IdlePost(@.body) EXCEPT !.pc = "crashed"]]
            \/ \E t \in Tasks \cup {None}, code \in Code : Answer(p, code, t)
        BY <1>0, <2>1 DEF PostSelect, PostReuse, LatestJobs, JobSet, PostRecord,
                          PostCrash, TypeInv, PostWF, Code
      <4>2. ASSUME NEW t \in Tasks \cup {None}, NEW code \in Code,
                   Answer(p, code, t)
            PROVE  post'[p].pc = "done"
        BY <1>0, <4>2, AnswerType
      <4>3. ASSUME NEW d, \/ post' = [post EXCEPT ![p].pc = "lookup", ![p].day = d]
                          \/ post' = [post EXCEPT ![p].pc = "lookup"]
            PROVE  post'[p].pc = "lookup"
        BY <1>0, <4>3 DEF TypeOK, PostState
      <4>4. ASSUME post' = [post EXCEPT ![p] =
                              [IdlePost(@.body) EXCEPT !.pc = "crashed"]]
            PROVE  post'[p].pc = "crashed"
        BY <1>0, <4>4 DEF TypeOK, IdlePost
      <4> QED
        BY <4>1, <4>2, <4>3, <4>4
    <3> QED
      BY <1>0, <3>1, <3>2, SameMeshes, MeshesOthers
  <2> QED
    BY <1>0, <1>2, <2>1, LookupMeshes, CreateMeshes, SendMeshes DEF PostStep
<1>3. CASE ~ \/ \E p \in Posts : PostSelect(p) \/ PostStep(p) \/ PostCrash(p)
             \/ \E w \in Workers : WorkerStep(w) \/ WorkerDies(w)
  <2>1. UNCHANGED <<args, queue, post, worker>>
    BY <1>3 DEF Next, CancelFind, CancelStep, CancelRevoke, CancelDelete,
       CancelCrash, ImportMesh, CleanupMesh, CleanupRoute, ResultExpires, Rest,
       vars
  <2>2. \A r \in Routes : MeshKept(r)
    <3>1. \/ UNCHANGED route \/ \E q \in Routes : DeleteRoute(q)
          \/ \E m \in Meshes : CleanupMesh(m)
      BY <1>0, <1>3 DEF Next, CancelFind, CancelStep, CancelRevoke, CancelDelete,
         CancelCrash, ImportMesh, CleanupRoute, ResultExpires, Rest, vars,
         TypeInv, CancelWF
    <3>2. ASSUME NEW q \in Routes, DeleteRoute(q)
          PROVE  \A r \in Routes : MeshKept(r)
      BY <1>0, <3>2 DEF DeleteRoute, TypeOK, MeshKept, Exists
    <3>3. ASSUME NEW m \in Meshes, CleanupMesh(m)
          PROVE  \A r \in Routes : MeshKept(r)
      <4> SUFFICES ASSUME NEW r \in Routes PROVE MeshKept(r)
        OBVIOUS
      <4>1. route[r] \in RouteRow /\ route[r].row \in Row
        BY <1>0 DEF TypeOK, RouteRow
      <4>2. route'[r] \in {route[r], [route[r] EXCEPT !.row.mesh = None]}
        BY <3>3 DEF CleanupMesh
      <4> QED
        BY <4>1, <4>2 DEF MeshKept, Exists, RouteRow, Row
    <3> QED
      BY <3>1, <3>2, <3>3, SameMeshes
  <2> QED
    BY <1>1, <2>1, <2>2
<1> QED
  BY <1>2, <1>3, WorkerMeshes

\* No route is planned twice on one mesh: the candidates of a request differ,
\* each task names the mesh it tries in the row and passes on the others, and
\* nobody moves the row to another mesh while its task waits (views.py:442,
\* tasks.py:155-157).
THEOREM MeshesAreTriedOnce == Spec => []NoMeshTwice
<1>1. TypeInv /\ MeshesInv => NoMeshTwice
  BY DEF MeshesInv, NoMeshTwice, Distinct, Avoids
<1> QED
  BY <1>1, InitInv, NextInv, MeshesInit, NextMeshes, PTL DEF Spec, Inv

=============================================================================
