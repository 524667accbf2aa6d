------------------------- MODULE RouteCancel_proofs -------------------------
(***************************************************************************)
(* What the Job table and the requests that read it agree on: the          *)
(* invariant JobsInv, and the property CancelledJobIsGone.                 *)
(***************************************************************************)
EXTENDS RouteJobs_proofs

\* A job is recorded for the route that its task was sent with.
JobsMatch ==
    \A t \in Tasks : jobs[t].route # None => jobs[t].route = args[t].route

\* A task whose job was not recorded, so that no client knows it.
Unrecorded(t) ==
    jobs[t].route = None /\ \A c \in Cancels : cancel[c].job # t

\* Whoever is about to record a job is the only one, and the first.
Recorders ==
    /\ \A p \in Posts : post[p].pc = "record" =>
          /\ args[post[p].task].route = post[p].route
          /\ Unrecorded(post[p].task)
    /\ \A w \in Workers : worker[w].pc = "record" =>
          /\ args[worker[w].next].route = RouteOf(w)
          /\ Unrecorded(worker[w].next)
    /\ \A p, q \in Posts :
          /\ post[p].pc = "record" /\ post[q].pc = "record"
          /\ post[p].task = post[q].task
          => p = q
    /\ \A v, w \in Workers :
          /\ worker[v].pc = "record" /\ worker[w].pc = "record"
          /\ worker[v].next = worker[w].next
          => v = w
    /\ \A p \in Posts : \A w \in Workers :
          post[p].pc = "record" /\ worker[w].pc = "record" =>
             post[p].task # worker[w].next

\* A cancellation names a task that was sent, and deletes its route.
Cancellations ==
    \A c \in Cancels :
        /\ cancel[c].job # None => args[cancel[c].job].route # None
        /\ cancel[c].pc \in {"found", "revoked"} =>
              cancel[c].route = args[cancel[c].job].route
        /\ cancel[c].code = 202 =>
              /\ cancel[c].pc = "done" /\ cancel[c].job \in Tasks
              /\ jobs[cancel[c].job].route = None

JobsInv == JobsMatch /\ Recorders /\ Cancellations

LEMMA JobsInvInit == Init => JobsInv
<1> SUFFICES ASSUME Init PROVE JobsInv
  OBVIOUS
<1>1. \A t \in Tasks : jobs[t].route = None
  BY DEF Init, NoJob
<1>2. \A p \in Posts : post[p].pc = "ready"
  BY DEF Init, IdlePost
<1>3. \A w \in Workers : worker[w].pc = "idle"
  BY DEF Init, IdleWorker
<1>4. \A c \in Cancels : /\ cancel[c].job = None /\ cancel[c].pc = "ready"
                         /\ cancel[c].code = None
  BY DEF Init, IdleCancel
<1>5. ASSUME NEW c \in Cancels PROVE cancel[c].code # 202
  BY <1>4, NoneAssumption
<1> QED
  BY <1>1, <1>2, <1>3, <1>4, <1>5 DEF JobsInv, JobsMatch, Recorders, Cancellations

\* A step by which nobody begins to record a job, and no job or DELETE changes
\* unless a job goes.
LEMMA JobsQuiet ==
    ASSUME TypeInv, JobsInv, UNCHANGED <<args, cancel>>,
           \A t \in Tasks : jobs'[t] = jobs[t] \/ jobs'[t] = NoJob,
           \A p \in Posts : post'[p].pc = "record" => post'[p] = post[p],
           \A w \in Workers : worker'[w].pc = "record" => worker'[w] = worker[w]
    PROVE  JobsInv'
<1>0. NoJob.route = None
  BY DEF NoJob
<1>1. \A t : t \in Tasks /\ Unrecorded(t) => Unrecorded(t)'
  BY <1>0 DEF Unrecorded
<1>2. JobsMatch'
  BY <1>0 DEF JobsInv, JobsMatch
<1>3. Recorders'
  <2>1. \A p \in Posts : post[p].pc = "record" => post[p].task \in Tasks
    BY DEF TypeInv, PostWF
  <2>2. \A w \in Workers : worker'[w].pc = "record" =>
          /\ worker[w].pc = "record" /\ worker[w].next \in Tasks
          /\ RouteOf(w)' = RouteOf(w)
    BY DEF TypeInv, WorkerWF, RouteOf
  <2> QED
    BY <1>1, <2>1, <2>2 DEF JobsInv, Recorders
<1>4. Cancellations'
  BY <1>0 DEF JobsInv, Cancellations
<1> QED
  BY <1>2, <1>3, <1>4 DEF JobsInv

\* The task that is sent is fresh: no job, no recorder and no DELETE has it.
LEMMA FreshIsUnknown ==
    ASSUME TypeInv, JobsInv, NEW t \in Tasks, Fresh(t)
    PROVE  /\ Unrecorded(t)
           /\ \A p \in Posts : post[p].pc = "record" => post[p].task # t
           /\ \A w \in Workers : worker[w].pc = "record" => worker[w].next # t
           /\ \A w \in Workers : worker[w].pc # "idle" => worker[w].task # t
           /\ \A c \in Cancels : cancel[c].job # t
<1>1. \A c \in Cancels : cancel[c].job # t
  BY NoneAssumption DEF JobsInv, Cancellations, Fresh
<1>2. Unrecorded(t)
  BY <1>1 DEF JobsInv, JobsMatch, Fresh, Unrecorded
<1>3. \A p \in Posts : post[p].pc = "record" => post[p].task # t
  BY NoneAssumption DEF JobsInv, Recorders, TypeInv, PostWF, Fresh
<1>4. \A w \in Workers : worker[w].pc = "record" => worker[w].next # t
  BY NoneAssumption DEF JobsInv, Recorders, TypeInv, WorkerWF, Fresh
<1>5. \A w \in Workers : worker[w].pc # "idle" => worker[w].task # t
  BY HeldIsSent DEF Fresh
<1> QED
  BY <1>1, <1>2, <1>3, <1>4, <1>5

\* A step that sends the fresh task t for the route r to be recorded by one
\* party, a POST or a worker.
LEMMA JobsSent ==
    ASSUME TypeInv, TypeInv', JobsInv, NEW t \in Tasks, Fresh(t), NEW r,
           args'[t].route = r, \A u \in Tasks : u # t => args'[u] = args[u],
           UNCHANGED <<jobs, cancel>>,
           \/ /\ UNCHANGED worker
              /\ \E p \in Posts :
                   /\ \A q \in Posts : q # p => post'[q] = post[q]
                   /\ post'[p].task = t /\ post'[p].route = r
           \/ /\ UNCHANGED post
              /\ \E w \in Workers :
                   /\ \A v \in Workers : v # w => worker'[v] = worker[v]
                   /\ worker'[w].next = t /\ RouteOf(w)' = r
    PROVE  JobsInv'
<1>0. /\ Unrecorded(t)'
      /\ \A p \in Posts : post[p].pc = "record" => post[p].task # t
      /\ \A w \in Workers : worker[w].pc = "record" => worker[w].next # t
      /\ \A w \in Workers : worker[w].pc # "idle" => worker[w].task # t
      /\ \A c \in Cancels : cancel[c].job # t
  BY FreshIsUnknown DEF Unrecorded
<1>1. \A u \in Tasks : Unrecorded(u) => Unrecorded(u)'
  BY DEF Unrecorded
<1>2. JobsMatch'
  BY DEF JobsInv, JobsMatch, Fresh
<1>3. \A c \in Cancels : cancel[c].job # None => cancel[c].job \in Tasks
  BY DEF TypeInv, TypeOK, CancelState
<1>4. Cancellations'
  <2>1. \A c \in Cancels :
          cancel[c].pc \in {"found", "revoked"} => cancel[c].job \in Tasks
    BY DEF TypeInv, CancelWF
  <2> QED
    BY <1>0, <1>3, <2>1 DEF JobsInv, Cancellations
<1>5. \A p \in Posts : post[p].pc = "record" =>
        /\ post[p].task \in Tasks \ {t}
        /\ args'[post[p].task].route = post[p].route
        /\ Unrecorded(post[p].task)'
  BY <1>0, <1>1 DEF JobsInv, Recorders, TypeInv, PostWF
<1>6. \A w \in Workers : worker[w].pc = "record" =>
        /\ worker[w].next \in Tasks \ {t} /\ worker[w].task \in Tasks \ {t}
        /\ args'[worker[w].next].route = args'[worker[w].task].route
        /\ Unrecorded(worker[w].next)'
  BY <1>0, <1>1 DEF JobsInv, Recorders, TypeInv, WorkerWF, RouteOf
<1>7. Recorders'
  <2>1. ASSUME UNCHANGED worker,
               NEW p \in Posts, \A q \in Posts : q # p => post'[q] = post[q],
               post'[p].task = t, post'[p].route = r
        PROVE  Recorders'
    <3>1. \A w \in Workers : worker'[w].pc = "record" =>
            /\ worker'[w].next = worker[w].next /\ worker[w].next # t
            /\ args'[worker[w].next].route = RouteOf(w)'
            /\ Unrecorded(worker[w].next)'
      BY <1>6, <2>1 DEF RouteOf
    <3>2. \A q \in Posts : q # p /\ post'[q].pc = "record" =>
            /\ post'[q] = post[q] /\ post[q].task # t
            /\ args'[post[q].task].route = post[q].route
            /\ Unrecorded(post[q].task)'
      BY <1>5, <2>1
    <3> QED
      BY <1>0, <2>1, <3>1, <3>2 DEF JobsInv, Recorders
  <2>2. ASSUME UNCHANGED post,
               NEW w \in Workers,
               \A v \in Workers : v # w => worker'[v] = worker[v],
               worker'[w].next = t, RouteOf(w)' = r
        PROVE  Recorders'
    <3>1. \A p \in Posts : post'[p].pc = "record" =>
            /\ post'[p] = post[p] /\ post[p].task # t
            /\ args'[post[p].task].route = post[p].route
            /\ Unrecorded(post[p].task)'
      BY <1>5, <2>2
    <3>2. \A v \in Workers : v # w /\ worker'[v].pc = "record" =>
            /\ worker'[v] = worker[v] /\ worker[v].next # t
            /\ args'[worker[v].next].route = RouteOf(v)'
            /\ Unrecorded(worker[v].next)'
      BY <1>6, <2>2 DEF RouteOf
    <3> QED
      BY <1>0, <2>2, <3>1, <3>2 DEF JobsInv, Recorders
  <2> QED
    BY <2>1, <2>2
<1> QED
  BY <1>2, <1>4, <1>7 DEF JobsInv

\* A step that records the job of a task which its recorder then forgets.
LEMMA JobsRecorded ==
    ASSUME TypeInv, JobsInv, NEW t \in Tasks, NEW r,
           CreateJob(t, r), args[t].route = r, Unrecorded(t),
           UNCHANGED <<args, cancel>>,
           \A p \in Posts : post'[p].pc = "record" =>
              post'[p] = post[p] /\ post[p].task # t,
           \A w \in Workers : worker'[w].pc = "record" =>
              worker'[w] = worker[w] /\ worker[w].next # t
    PROVE  JobsInv'
<1>0. jobs'[t].route = r /\ \A u \in Tasks : u # t => jobs'[u] = jobs[u]
  BY DEF CreateJob, TypeInv, TypeOK
<1>1. \A u \in Tasks : u # t /\ Unrecorded(u) => Unrecorded(u)'
  BY <1>0 DEF Unrecorded
<1>2. JobsMatch'
  BY <1>0 DEF JobsInv, JobsMatch
<1>3. Recorders'
  <2>1. \A p \in Posts : post[p].pc = "record" => post[p].task \in Tasks
    BY DEF TypeInv, PostWF
  <2>2. \A w \in Workers : worker'[w].pc = "record" =>
          /\ worker[w].pc = "record" /\ worker[w].next \in Tasks
          /\ RouteOf(w)' = RouteOf(w)
    BY DEF TypeInv, WorkerWF, RouteOf
  <2> QED
    BY <1>1, <2>1, <2>2 DEF JobsInv, Recorders
<1>4. Cancellations'
  BY <1>0 DEF JobsInv, Cancellations, Unrecorded
<1> QED
  BY <1>2, <1>3, <1>4 DEF JobsInv

----------------------------------------------------------------------------
(* The steps one by one *)

LEMMA PostJobs ==
    ASSUME TypeInv, JobsInv, NEW p \in Posts,
           PostSelect(p) \/ PostStep(p) \/ PostCrash(p)
    PROVE  JobsInv'
<1> USE DEF tables, celery
<1>0. TypeInv' /\ TypeOK /\ post[p] \in PostState
  BY PostType DEF TypeInv, TypeOK
<1>1. ASSUME UNCHANGED <<args, cancel, worker, jobs>>, post'[p].pc # "record",
             \A q \in Posts : q # p => post'[q] = post[q]
      PROVE  JobsInv'
  BY <1>1, JobsQuiet
<1>2. ASSUME NEW code \in Code, NEW t \in Tasks \cup {None}, Answer(p, code, t)
      PROVE  /\ post'[p].pc # "record"
             /\ \A q \in Posts : q # p => post'[q] = post[q]
  BY <1>2, AnswerType
<1>3. CASE PostSelect(p) \/ PostCrash(p)
  <2>1. UNCHANGED <<args, cancel, worker, jobs>>
    BY <1>3 DEF PostSelect, PostCrash
  <2>2. \/ Answer(p, 404, None) \/ Answer(p, 400, None)
        \/ /\ post'[p].pc \in {"lookup", "crashed"}
           /\ \A q \in Posts : q # p => post'[q] = post[q]
    BY <1>0, <1>3 DEF PostSelect, PostCrash, IdlePost, TypeOK, PostState
  <2> QED
    BY <1>1, <1>2, <2>1, <2>2 DEF Code
<1>4. CASE PostLookup(p)
  <2>1. UNCHANGED <<args, cancel, worker, jobs>>
    BY <1>4 DEF PostLookup
  <2>2. \/ \E meshes, r :
             post' = [post EXCEPT ![p].pc = "reuse", ![p].route = r,
                                  ![p].meshes = meshes]
        \/ \E meshes :
             post' = [post EXCEPT ![p].pc = "create", ![p].meshes = meshes]
        \/ Answer(p, 500, None)
    BY <1>4 DEF PostLookup
  <2>3. \/ Answer(p, 500, None)
        \/ /\ post'[p].pc \in {"reuse", "create"}
           /\ \A q \in Posts : q # p => post'[q] = post[q]
    BY <1>0, <2>2, ZenonT(40) DEF TypeOK, PostState
  <2> QED
    BY <1>1, <1>2, <2>1, <2>3 DEF Code
<1>5. CASE PostReuse(p)
  <2>1. UNCHANGED <<args, cancel, worker, jobs>>
    BY <1>5 DEF PostReuse
  <2>2. \E t \in Tasks \cup {None}, code \in Code : Answer(p, code, t)
    BY <1>5 DEF PostReuse, LatestJobs, JobSet, Code
  <2> QED
    BY <1>1, <1>2, <2>1, <2>2
<1>6. CASE PostCreate(p)
  <2>1. UNCHANGED <<args, cancel, worker, jobs>>
    BY <1>6 DEF PostCreate
  <2>2. \/ Answer(p, 500, None)
        \/ \E r : post' = [post EXCEPT ![p].pc = "send", ![p].route = r]
    BY <1>6 DEF PostCreate
  <2>3. \/ Answer(p, 500, None)
        \/ /\ post'[p].pc = "send"
           /\ \A q \in Posts : q # p => post'[q] = post[q]
    BY <1>0, <2>2 DEF TypeOK, PostState
  <2> QED
    BY <1>1, <1>2, <2>1, <2>3 DEF Code
<1>7. CASE PostSend(p)
  <2> DEFINE backups == AllButFirst(post[p].meshes)
  <2>1. UNCHANGED <<jobs, cancel, worker>>
    BY <1>7 DEF PostSend
  <2>2. post[p].route \in Routes /\ backups \in Seq(Meshes)
    BY <1>0, <1>7, TailType DEF PostSend, TypeInv, PostWF, PostState
  <2> HIDE DEF backups
  <2>3. ASSUME NEW t \in Tasks, Delay(t, post[p].route, backups),
               post' = [post EXCEPT ![p].pc = "record", ![p].task = t]
        PROVE  JobsInv'
    <3>1. /\ args[t].route = None /\ args'[t].route = post[p].route
          /\ \A u \in Tasks : u # t => args'[u] = args[u]
      BY <2>2, <2>3, DelayType
    <3>2. /\ \A q \in Posts : q # p => post'[q] = post[q]
          /\ post'[p].task = t /\ post'[p].route = post[p].route
      BY <1>0, <2>3 DEF TypeOK, PostState
    <3> QED
      BY <1>0, <2>1, <3>1, <3>2, JobsSent DEF Fresh
  <2>4. ASSUME Answer(p, 500, None), UNCHANGED args
        PROVE  JobsInv'
    BY <1>1, <1>2, <2>1, <2>4 DEF Code
  <2> QED
    BY <1>7, <2>3, <2>4 DEF PostSend, backups
<1>8. CASE PostRecord(p)
  <2> DEFINE t == post[p].task
             r == post[p].route
  <2>1. /\ UNCHANGED <<args, cancel, worker>> /\ post[p].pc = "record"
        /\ t \in Tasks
    BY <1>8 DEF PostRecord, TypeInv, PostWF
  <2>2. ASSUME CreateJob(t, r), Answer(p, 202, t)
        PROVE  JobsInv'
    <3>1. /\ post'[p].pc # "record"
          /\ \A q \in Posts : q # p => post'[q] = post[q]
      BY <1>2, <2>1, <2>2 DEF Code
    <3>2. args[t].route = r /\ Unrecorded(t)
      BY <2>1 DEF JobsInv, Recorders
    <3>3. \A q \in Posts : q # p /\ post[q].pc = "record" => post[q].task # t
      BY <2>1 DEF JobsInv, Recorders
    <3>4. \A w \in Workers : worker[w].pc = "record" => worker[w].next # t
      BY <2>1 DEF JobsInv, Recorders
    <3> HIDE DEF t, r
    <3>5. \A q \in Posts : post'[q].pc = "record" =>
            post'[q] = post[q] /\ post[q].task # t
      BY <3>1, <3>3
    <3>6. \A w \in Workers : worker'[w].pc = "record" =>
            worker'[w] = worker[w] /\ worker[w].next # t
      BY <2>1, <3>4
    <3> QED
      BY <2>1, <2>2, <3>2, <3>5, <3>6, JobsRecorded
  <2>3. ASSUME Answer(p, 500, None), UNCHANGED jobs
        PROVE  JobsInv'
    BY <1>1, <1>2, <2>1, <2>3 DEF Code
  <2> QED
    BY <1>8, <2>2, <2>3 DEF PostRecord
<1> QED
  BY <1>3, <1>4, <1>5, <1>6, <1>7, <1>8 DEF PostStep

\* A DELETE answers 202 only once it has deleted the route of its job, which
\* takes the job with it.
LEMMA CancelJobs ==
    ASSUME TypeInv, JobsInv, NEW c \in Cancels,
           CancelFind(c) \/ CancelStep(c) \/ CancelCrash(c)
    PROVE  JobsInv'
<1> USE DEF tables, celery
<1>0. /\ TypeInv' /\ TypeOK /\ cancel[c] \in CancelState
      /\ UNCHANGED <<args, post, worker>>
  BY CancelType DEF TypeInv, TypeOK, CancelFind, CancelStep, CancelRevoke,
                    CancelDelete, CancelCrash
<1>1. \A v \in Workers : RouteOf(v)' = RouteOf(v)
  BY <1>0 DEF RouteOf
<1>2. NoJob.route = None
  BY DEF NoJob
\* What the DELETE must know of its next state s.
<1>3. ASSUME NEW s, cancel' = [cancel EXCEPT ![c] = s], s.job # None,
             s.job \in Tasks, ~Unrecorded(s.job), args[s.job].route # None,
             \A t \in Tasks : jobs'[t] = jobs[t] \/ jobs'[t] = NoJob,
             s.pc \in {"found", "revoked"} => s.route = args[s.job].route,
             s.code = 202 => s.pc = "done" /\ jobs'[s.job].route = None
      PROVE  JobsInv'
  <2>1. cancel'[c] = s /\ \A d \in Cancels : d # c => cancel'[d] = cancel[d]
    BY <1>0, <1>3 DEF TypeOK
  <2>2. JobsMatch'
    BY <1>0, <1>2, <1>3 DEF JobsInv, JobsMatch
  <2>3. \A t \in Tasks : Unrecorded(t) => Unrecorded(t)'
    <3> SUFFICES ASSUME NEW t \in Tasks, Unrecorded(t) PROVE Unrecorded(t)'
      OBVIOUS
    <3>1. t # s.job
      BY <1>3
    <3> QED
      BY <1>2, <1>3, <2>1, <3>1 DEF Unrecorded
  <2>4. Recorders'
    BY <1>0, <1>1, <2>3 DEF JobsInv, Recorders, TypeInv, PostWF, WorkerWF
  <2>5. Cancellations'
    BY <1>0, <1>2, <1>3, <2>1 DEF JobsInv, Cancellations
  <2> QED
    BY <2>2, <2>4, <2>5 DEF JobsInv
\* A DELETE that is already known to the job it names.
<1>4. cancel[c].job \in Tasks =>
        /\ cancel[c].job # None /\ ~Unrecorded(cancel[c].job)
        /\ args[cancel[c].job].route # None
  BY NoneAssumption DEF JobsInv, Cancellations, Unrecorded
<1>5. CASE CancelFind(c)
  <2>1. cancel[c].pc = "ready" /\ UNCHANGED jobs
    BY <1>5 DEF CancelFind
  <2>2. ASSUME NEW t \in Tasks, jobs[t].route # None,
               cancel' = [cancel EXCEPT ![c].pc = "found", ![c].job = t,
                                        ![c].route = jobs[t].route]
        PROVE  JobsInv'
    <3> DEFINE s == [cancel[c] EXCEPT !.pc = "found", !.job = t,
                                      !.route = jobs[t].route]
    <3>1. /\ s.job = t /\ s.pc = "found" /\ s.code = cancel[c].code
          /\ s.route = jobs[t].route /\ cancel' = [cancel EXCEPT ![c] = s]
      BY <1>0, <2>2 DEF CancelState, TypeOK
    <3>2. /\ t # None /\ ~Unrecorded(t) /\ args[t].route # None
          /\ jobs[t].route = args[t].route
      BY <2>2, NoneAssumption DEF JobsInv, JobsMatch, Unrecorded
    <3>3. cancel[c].code # 202
      BY <2>1 DEF JobsInv, Cancellations
    <3> HIDE DEF s
    <3> QED
      BY <1>3, <2>1, <3>1, <3>2, <3>3
  <2>3. ASSUME cancel' = [cancel EXCEPT ![c].pc = "done", ![c].code = 404]
        PROVE  JobsInv'
    <3>1. /\ cancel'[c].pc = "done" /\ cancel'[c].code = 404
          /\ \A d \in Cancels : cancel'[d].job = cancel[d].job
          /\ \A d \in Cancels : d # c => cancel'[d] = cancel[d]
      BY <1>0, <2>3 DEF CancelState, TypeOK
    <3>2. \A t : Unrecorded(t) => Unrecorded(t)'
      BY <2>1, <3>1 DEF Unrecorded
    <3>3. Recorders'
      BY <1>0, <1>1, <3>2 DEF JobsInv, Recorders
    <3>4. Cancellations' /\ JobsMatch'
      BY <1>0, <2>1, <3>1 DEF JobsInv, Cancellations, JobsMatch
    <3> QED
      BY <3>3, <3>4 DEF JobsInv
  <2> QED
    BY <1>5, <2>2, <2>3 DEF CancelFind
<1>6. CASE CancelRevoke(c)
  <2> DEFINE j == cancel[c].job
             revoked == [cancel[c] EXCEPT !.pc = "revoked"]
             failed == [cancel[c] EXCEPT !.pc = "done", !.code = 500]
  <2>1. /\ cancel[c].pc = "found" /\ UNCHANGED jobs /\ j \in Tasks
        /\ cancel[c].code # 202 /\ cancel[c].route = args[j].route
    BY <1>6 DEF CancelRevoke, TypeInv, CancelWF, JobsInv, Cancellations
  <2>2. \/ cancel' = [cancel EXCEPT ![c] = revoked]
        \/ cancel' = [cancel EXCEPT ![c] = failed]
    <3>1. ASSUME cancel' = [cancel EXCEPT ![c].pc = "revoked"]
          PROVE  cancel' = [cancel EXCEPT ![c] = revoked]
      BY <1>0, <3>1 DEF TypeOK
    <3>2. ASSUME cancel' = [cancel EXCEPT ![c].pc = "done", ![c].code = 500]
          PROVE  cancel' = [cancel EXCEPT ![c] = failed]
      BY <1>0, <3>2, ZenonT(40) DEF TypeOK
    <3> QED
      BY <1>6, <3>1, <3>2 DEF CancelRevoke
  <2>3. /\ revoked.job = j /\ revoked.code = cancel[c].code
        /\ revoked.route = cancel[c].route
        /\ failed.job = j /\ failed.code = 500 /\ failed.pc = "done"
    BY <1>0 DEF CancelState
  <2> HIDE DEF j, revoked, failed
  <2> QED
    BY <1>3, <1>4, <2>1, <2>2, <2>3 DEF j
<1>7. CASE CancelDelete(c)
  <2> DEFINE j == cancel[c].job
             s == [cancel[c] EXCEPT !.pc = "done", !.code = 202]
  <2>1. /\ cancel[c].pc = "revoked" /\ j \in Tasks
        /\ cancel[c].route = args[j].route
        /\ cancel' = [cancel EXCEPT ![c] = s]
    BY <1>0, <1>7 DEF CancelDelete, TypeInv, TypeOK, CancelWF, JobsInv, Cancellations
  <2>2. jobs' = [t \in Tasks |-> IF jobs[t].route = args[j].route THEN NoJob
                                 ELSE jobs[t]]
    BY <1>7, <2>1 DEF CancelDelete, DeleteRoute
  <2>3. jobs'[j].route = None
    BY <1>2, <2>1, <2>2 DEF JobsInv, JobsMatch
  <2>4. s.job = j /\ s.pc = "done"
    BY <1>0 DEF CancelState
  <2> HIDE DEF j, s
  <2> QED
    BY <1>3, <1>4, <2>1, <2>2, <2>3, <2>4 DEF j
<1>8. CASE CancelCrash(c)
  <2> DEFINE s == [cancel[c] EXCEPT !.pc = "crashed"]
  <2>1. /\ cancel[c].job \in Tasks /\ UNCHANGED jobs /\ cancel[c].code # 202
        /\ cancel' = [cancel EXCEPT ![c] = s]
    BY <1>0, <1>8 DEF CancelCrash, TypeInv, TypeOK, CancelWF, JobsInv, Cancellations
  <2>2. s.job = cancel[c].job /\ s.pc = "crashed" /\ s.code = cancel[c].code
    BY <1>0 DEF CancelState
  <2> HIDE DEF s
  <2> QED
    BY <1>3, <1>4, <2>1, <2>2
<1> QED
  BY <1>5, <1>6, <1>7, <1>8 DEF CancelStep

\* Only a retry that was sent leaves a worker with a job to record.
LEMMA WorkerMoves ==
    ASSUME TypeInv, NEW w \in Workers, WorkerStep(w) \/ WorkerDies(w),
           ~Resend(w), ~RecordRetryJob(w)
    PROVE  /\ UNCHANGED <<jobs, args, post, cancel>>
           /\ worker'[w].pc # "record"
           /\ \A v \in Workers : v # w => worker'[v] = worker[v]
<1> USE DEF tables, celery, web
<1>0. TypeOK
  BY DEF TypeInv
<1>1. UNCHANGED <<jobs, args, post, cancel>>
  BY DEF WorkerStep, Take, SaveUnsmoothed, PlanFails, SaveSmoothed,
         SmoothFails, Return, MarkFailure, RetryOnNextMesh, RecordError, Raise,
         StoreRefused, WorkerDies, WorkerCrash, ChildKilled
<1>2. CASE Take(w)
  <2>1. PICK t \in queue :
          \/ \E info : worker' = [worker EXCEPT ![w] =
                [[IdleWorker EXCEPT !.task = t] EXCEPT !.pc = "plan",
                   !.row = [route[args[t].route].row EXCEPT !.info = info]]]
          \/ worker' = [worker EXCEPT ![w] =
                [[IdleWorker EXCEPT !.task = t] EXCEPT !.pc = "raise"]]
    BY <1>2 DEF Take
  <2>2. worker'[w].pc \in {"plan", "raise"}
    BY <1>0, <2>1 DEF TypeOK, IdleWorker
  <2>3. \A v \in Workers : v # w => worker'[v] = worker[v]
    BY <1>0, <2>1 DEF TypeOK
  <2> QED
    BY <1>1, <2>2, <2>3
<1>3. CASE ~Take(w)
  <2>1. \/ \E pc : pc # "record" /\ Goto(w, pc)
        \/ \E pc, row, error : pc # "record" /\ GotoWith(w, pc, row, error)
        \/ Finish(w)
    <3>1. Handler(w) # "record"
      BY DEF Handler
    <3> QED
      BY <1>3, <3>1
         DEF WorkerStep, SaveUnsmoothed, PlanFails, SaveSmoothed, SmoothFails,
             Return, MarkFailure, RetryOnNextMesh, RecordError, Raise,
             StoreRefused, WorkerDies, WorkerCrash, ChildKilled
  <2> QED
    BY <1>0, <1>1, <2>1, GotoEffect, GotoWithEffect, FinishEffect
<1> QED
  BY <1>2, <1>3

LEMMA WorkerJobs ==
    ASSUME TypeInv, JobsInv, NEW w \in Workers, WorkerStep(w) \/ WorkerDies(w)
    PROVE  JobsInv'
<1> USE DEF tables, celery, web
<1>0. TypeInv' /\ TypeOK /\ worker[w] \in WorkerState
  BY WorkerType DEF TypeInv, TypeOK
<1>1. CASE ~Resend(w) /\ ~RecordRetryJob(w)
  BY <1>1, WorkerMoves, JobsQuiet
<1>2. CASE Resend(w)
  <2> DEFINE backups == AllButFirst(BackupsOf(w))
  <2>1. /\ UNCHANGED <<jobs, cancel, post>> /\ worker[w].pc = "resend"
        /\ RouteOf(w) \in Routes /\ backups \in Seq(Meshes)
        /\ worker[w].task \in Tasks
    BY <1>2, TailType DEF Resend, TypeInv, TypeOK, WorkerWF, BackupsOf, TaskArgs
  <2> HIDE DEF backups
  <2>2. ASSUME NEW t \in Tasks, Delay(t, RouteOf(w), backups),
               worker' = [worker EXCEPT ![w].pc = "record", ![w].next = t]
        PROVE  JobsInv'
    <3>1. /\ args[t].route = None /\ args'[t].route = RouteOf(w)
          /\ \A u \in Tasks : u # t => args'[u] = args[u]
      BY <2>1, <2>2, DelayType
    <3>2. /\ \A v \in Workers : v # w => worker'[v] = worker[v]
          /\ worker'[w].next = t /\ worker'[w].task = worker[w].task
      BY <1>0, <2>2 DEF TypeOK, WorkerState
    <3>3. worker[w].task # t
      BY <2>1, <3>1, HeldIsSent
    <3>4. RouteOf(w)' = RouteOf(w)
      BY <2>1, <3>1, <3>2, <3>3 DEF RouteOf
    <3> QED
      BY <1>0, <2>1, <3>1, <3>2, <3>4, JobsSent DEF Fresh
  <2>3. ASSUME Goto(w, "raise"), UNCHANGED args
        PROVE  JobsInv'
    <3>1. /\ worker'[w].pc = "raise"
          /\ \A v \in Workers : v # w => worker'[v] = worker[v]
      BY <1>0, <2>3, GotoEffect
    <3> QED
      BY <2>1, <2>3, <3>1, JobsQuiet
  <2> QED
    BY <1>2, <2>2, <2>3 DEF Resend, backups
<1>3. CASE RecordRetryJob(w)
  <2> DEFINE t == worker[w].next
             r == RouteOf(w)
  <2>1. /\ UNCHANGED <<args, cancel, post>> /\ worker[w].pc = "record"
        /\ t \in Tasks
    BY <1>3 DEF RecordRetryJob, TypeInv, WorkerWF
  <2>2. /\ worker'[w].pc # "record"
        /\ \A v \in Workers : v # w => worker'[v] = worker[v]
    BY <1>0, <1>3, GotoEffect, FinishEffect DEF RecordRetryJob
  <2>3. args[t].route = r /\ Unrecorded(t)
    BY <2>1 DEF JobsInv, Recorders
  <2>4. \A p \in Posts : post[p].pc = "record" => post[p].task # t
    BY <2>1 DEF JobsInv, Recorders
  <2>5. \A v \in Workers : v # w /\ worker[v].pc = "record" => worker[v].next # t
    BY <2>1 DEF JobsInv, Recorders
  <2>6. CreateJob(t, r) \/ UNCHANGED jobs
    BY <1>3 DEF RecordRetryJob
  <2> HIDE DEF t, r
  <2>7. \A p \in Posts : post'[p].pc = "record" =>
          post'[p] = post[p] /\ post[p].task # t
    BY <2>1, <2>4
  <2>8. \A v \in Workers : worker'[v].pc = "record" =>
          worker'[v] = worker[v] /\ worker[v].next # t
    BY <2>2, <2>5
  <2>9. CASE CreateJob(t, r)
    BY <2>1, <2>3, <2>7, <2>8, <2>9, JobsRecorded
  <2>10. CASE UNCHANGED jobs
    BY <2>1, <2>7, <2>8, <2>10, JobsQuiet
  <2> QED
    BY <2>6, <2>9, <2>10
<1> QED
  BY <1>1, <1>2, <1>3

LEMMA NextJobs == TypeInv /\ JobsInv /\ [Next]_vars => JobsInv'
<1> SUFFICES ASSUME TypeInv, JobsInv, [Next]_vars PROVE JobsInv'
  OBVIOUS
<1> USE DEF tables, celery, web
<1>1. ASSUME UNCHANGED vars PROVE JobsInv'
  BY <1>1, JobsQuiet DEF vars
<1>2. ASSUME \/ \E m \in Meshes : ImportMesh(m) \/ CleanupMesh(m)
             \/ \E r \in Routes : CleanupRoute(r)
             \/ \E t \in Tasks : ResultExpires(t)
      PROVE  JobsInv'
  <2>1. /\ UNCHANGED <<args, cancel, post, worker>>
        /\ \A t \in Tasks : jobs'[t] = jobs[t] \/ jobs'[t] = NoJob
    BY <1>2 DEF ImportMesh, CleanupMesh, CleanupRoute, ResultExpires, DeleteRoute
  <2> QED
    BY <2>1, JobsQuiet
<1> QED
  BY <1>1, <1>2, PostJobs, CancelJobs, WorkerJobs DEF Next, Rest

\* Once DELETE /api/job/<id> has answered 202 for a job, no POST and no retry
\* that was under way records that job again (views.py:446, 770;
\* tasks.py:158).
THEOREM CancelledJobsStayGone == Spec => []CancelledJobIsGone
<1>1. JobsInv => CancelledJobIsGone
  BY DEF JobsInv, Cancellations, CancelledJobIsGone
<1> QED
  BY <1>1, InitType, NextType, JobsInvInit, NextJobs, PTL DEF Spec

=============================================================================
