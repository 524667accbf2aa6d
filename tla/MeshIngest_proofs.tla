------------------------- MODULE MeshIngest_proofs -------------------------
(***************************************************************************)
(* Proofs about MeshIngest for all sets of files, documents, publications, *)
(* workers and commands, every schedule and every bound.                   *)
(***************************************************************************)
EXTENDS MeshIngest, FiniteSetTheorems, TLAPS

\* What an import has established by the time it reaches a point of its loop.
LocalWF(s) ==
    /\ s.pc \in {"get", "create"} =>
          /\ s.records # <<>> /\ s.json \in Contents
          /\ Head(s.records).md5 = FileDigest[s.json]
    /\ s.created # None => s.mesh \in Ids /\ s.name \in Files

TaskWF == \A w \in Workers : LocalWF(task[w])

TypeInv == TypeOK /\ TaskWF

----------------------------------------------------------------------------
(* Type correctness *)

\* What the pipeline publishes is a list of records.
LEMMA RecordsType ==
    /\ \A record \in Records :
         record.file \in Files /\ record.md5 \in Digests /\ record.created \in Int
    /\ \A records \in Publications : records \in Seq(Records)
<1>1. ASSUME NEW records \in Publications
      PROVE  records \in Seq(Records)
  <2>1. records \in Seq([file : Files, md5 : Digests, created : Int])
    BY PublicationsAssumption DEF PublicationsAssumption
  <2>2. \A i \in DOMAIN records : records[i] \in Records
    BY DEF Records
  <2>3. /\ Len(records) \in Nat /\ DOMAIN records = 1..Len(records)
        /\ records = [i \in 1..Len(records) |-> records[i]]
    BY <2>1
  <2>4. records \in [1..Len(records) -> Records]
    BY <2>2, <2>3
  <2> QED
    BY <2>3, <2>4
<1>2. ASSUME NEW records \in Publications, NEW i \in DOMAIN records
      PROVE  records[i] \in [file : Files, md5 : Digests, created : Int]
  <2> DEFINE R == [file : Files, md5 : Digests, created : Int]
  <2>1. records \in Seq(R)
    BY PublicationsAssumption DEF PublicationsAssumption
  <2> HIDE DEF R
  <2>2. records[i] \in R
    BY <2>1
  <2> QED
    BY <2>2 DEF R
<1>3. ASSUME NEW record \in Records
      PROVE  record \in [file : Files, md5 : Digests, created : Int]
  BY <1>2 DEF Records
<1> QED
  BY <1>1, <1>3

\* The steps of a worker replace its local state.
LEMMA BecomeType ==
    ASSUME TypeInv, NEW w \in Workers, NEW s \in Task, LocalWF(s), Become(w, s)
    PROVE  /\ task' \in [Workers -> Task] /\ TaskWF'
           /\ task'[w] = s
           /\ \A v \in Workers : v # w => task'[v] = task[v]
BY DEF TypeInv, TypeOK, TaskWF, Become

LEMMA IdleType ==
    Idle \in Task /\ LocalWF(Idle) /\ Away \in Task /\ LocalWF(Away)
<1> DEFINE empty == <<>>
<1>1. empty \in Seq(Records) /\ None \in Flag
  BY DEF Flag
<1> HIDE DEF empty
<1>2. [pc |-> "idle", records |-> empty, json |-> None, mesh |-> None,
       name |-> None, created |-> None, added |-> {}, doomed |-> {}] \in Task
  BY <1>1 DEF Task
<1>3. Idle \in Task /\ Idle.pc = "idle" /\ Idle.created = None
  BY <1>2 DEF Idle, empty
<1>4. Away \in Task /\ Away.pc = "away" /\ Away.created = None
  BY <1>3 DEF Away, Task
<1> QED
  BY <1>3, <1>4 DEF LocalWF

\* The loop goes on to the next record.
LEMMA SkipType ==
    ASSUME TypeInv, NEW w \in Workers, task[w].records # <<>>
    PROVE  /\ Skip(w) \in Task /\ LocalWF(Skip(w))
           /\ Skip(w).pc = "next" /\ Skip(w).added = task[w].added
           /\ Skip(w).doomed = task[w].doomed
<1>1. task[w] \in Task /\ LocalWF(task[w])
  BY DEF TypeInv, TypeOK, TaskWF
<1>2. Tail(task[w].records) \in Seq(Records)
  BY <1>1 DEF Task
<1> QED
  BY <1>1, <1>2 DEF Skip, Task, LocalWF

\* The record at hand.
LEMMA RecordType ==
    ASSUME TypeInv, NEW w \in Workers, task[w].records # <<>>
    PROVE  /\ Record(w) \in Records /\ Record(w).file \in Files
           /\ Record(w).md5 \in Digests /\ Record(w).created \in Int
<1>1. task[w].records \in Seq(Records)
  BY DEF TypeInv, TypeOK, Task
<1>2. Record(w) \in Records
  BY <1>1 DEF Record
<1> QED
  BY <1>2, RecordsType

LEMMA ReportedType ==
    ASSUME TypeInv, NEW w \in Workers, task[w].records # <<>>,
           NEW i \in Ids, NEW name \in Files
    PROVE  /\ Reported(w, i, name) \in Task /\ LocalWF(Reported(w, i, name))
           /\ Reported(w, i, name).pc = "next"
           /\ Reported(w, i, name).added = task[w].added \cup
                {[id |-> i, md5 |-> Record(w).md5, name |-> name]}
<1> DEFINE report == [id |-> i, md5 |-> Record(w).md5, name |-> name]
           yes == TRUE
<1>1. report \in Report
  BY RecordType DEF Report
<1>2. yes \in Flag
  BY DEF Flag
<1>a. Reported(w, i, name) = [Skip(w) EXCEPT !.mesh = i, !.name = name,
                                !.created = yes, !.added = @ \cup {report}]
  BY DEF Reported
<1> HIDE DEF report, yes
<1>3. Skip(w) \in Task /\ Skip(w).pc = "next" /\ Skip(w).added = task[w].added
  BY SkipType
<1>4. task[w].added \in SUBSET Report
  BY DEF TypeInv, TypeOK, Task
<1> DEFINE added == task[w].added \cup {report}
<1>b. /\ added \in SUBSET Report
      /\ Reported(w, i, name) = [Skip(w) EXCEPT !.mesh = i, !.name = name,
                                   !.created = yes, !.added = added]
  BY <1>1, <1>3, <1>4, <1>a
<1> HIDE DEF added
<1>5. /\ Reported(w, i, name) \in Task
      /\ Reported(w, i, name).pc = "next"
      /\ Reported(w, i, name).mesh = i /\ Reported(w, i, name).name = name
      /\ Reported(w, i, name).added = added
  BY <1>2, <1>3, <1>b, ZenonT(40) DEF Task
<1> QED
  BY <1>5 DEF LocalWF, report, added

\* A row whose md5 is that of a document is no missing row.
LEMMA NoMeshIsNone == NoMesh \notin Mesh /\ NoMesh.md5 = None /\ NoMesh.by = "nobody"
BY DEF NoMesh, Mesh

LEMMA FoundType ==
    ASSUME TypeOK, NEW c \in Contents, NEW i \in WithDigest(FileDigest[c])
    PROVE  i \in Ids /\ table[i] \in Mesh /\ table[i].name \in Files
<1>1. i \in Ids /\ table[i].md5 = FileDigest[c] /\ FileDigest[c] \in Digests
  BY DEF WithDigest, Digests
<1>2. table[i] \in Mesh
  BY <1>1, NoMeshIsNone, NoneAssumption DEF TypeOK
<1> QED
  BY <1>1, <1>2 DEF Mesh

LEMMA InitType == Init => TypeInv
<1> SUFFICES ASSUME Init PROVE TypeInv
  OBVIOUS
<1>1. disk \in [Files -> DiskState] /\ metadata \in Publications \cup {None}
  BY DEF Init, DiskState
<1>2. table \in [Ids -> Mesh \cup {NoMesh}]
  BY DEF Init
<1>3. queue \in Seq(Schedule)
  BY DEF Init
<1>a. PICK cast \in Casts :
        /\ task = [w \in Workers |-> IF w \in cast.who THEN Idle ELSE Away]
        /\ command = [c \in Commands |-> IF c \in cast.who THEN None ELSE <<>>]
        /\ crashes = cast.crashes
  BY DEF Init
<1>4. task \in [Workers -> Task] /\ TaskWF
  BY <1>a, IdleType DEF TaskWF
<1>5. command \in [Commands -> {None, <<>>} \cup (Files \X Contents)]
  BY <1>a
<1>6. today \in 0..LastDay /\ crashes \in Nat
  BY <1>a, BoundsAssumption, CastsAssumption
     DEF Init, BoundsAssumption, CastsAssumption
<1> QED
  BY <1>1, <1>2, <1>3, <1>4, <1>5, <1>6 DEF TypeInv, TypeOK

\* What a worker does to the tasks; only the last step of get_or_create adds
\* to the table.
LEMMA TakeType ==
    ASSUME TypeInv, NEW w \in Workers, Take(w)
    PROVE  /\ TypeInv' /\ UNCHANGED <<table, command>>
           /\ task'[w].pc \in {"idle", "next", "delete"}
           /\ task'[w].pc = "next" => Overlap \/ Importing = {}
           /\ task'[w].added = {} /\ task'[w].doomed \subseteq Ids
           /\ \A v \in Workers : v # w => task'[v] = task[v]
<1> USE DEF pipeline, clock
<1>0. queue # <<>> /\ queue' = Tail(queue) /\ queue \in Seq(Schedule)
  BY DEF Take, TypeInv, TypeOK
<1>1. queue' \in Seq(Schedule)
  BY <1>0
<1>2. UNCHANGED <<disk, metadata, table, command, today, crashes>>
  BY DEF Take
<1> DEFINE Good(s) == /\ s \in Task /\ LocalWF(s) /\ s.added = {}
                      /\ s.pc \in {"idle", "next", "delete"}
                      /\ s.pc = "next" => Overlap \/ Importing = {}
<1>3. ASSUME metadata # None, Overlap \/ Importing = {}
      PROVE  Good([Idle EXCEPT !.pc = "next", !.records = metadata])
  <2> DEFINE s == [Idle EXCEPT !.pc = "next", !.records = metadata]
  <2>1. metadata \in Seq(Records)
    BY <1>3, RecordsType DEF TypeInv, TypeOK
  <2>2. Idle \in Task /\ Idle.created = None /\ Idle.added = {}
    BY IdleType DEF Idle
  <2>3. s \in Task /\ s.pc = "next" /\ s.created = None /\ s.added = {}
    BY <2>1, <2>2 DEF Task
  <2> QED
    BY <1>3, <2>3 DEF LocalWF
<1>4. ASSUME NEW doomed \in SUBSET Old
      PROVE  Good([Idle EXCEPT !.pc = "delete", !.doomed = doomed])
  <2> DEFINE s == [Idle EXCEPT !.pc = "delete", !.doomed = doomed]
  <2>1. doomed \in SUBSET Ids
    BY DEF Old
  <2>2. Idle \in Task /\ Idle.created = None /\ Idle.added = {}
    BY IdleType DEF Idle
  <2>3. s \in Task /\ s.pc = "delete" /\ s.created = None /\ s.added = {}
    BY <2>1, <2>2 DEF Task
  <2> QED
    BY <2>3 DEF LocalWF
<1>5. Good(Idle)
  BY IdleType DEF Idle
<1> HIDE DEF Good
<1>6. PICK s : Good(s) /\ Become(w, s)
  BY <1>3, <1>4, <1>5 DEF Take
<1>7. /\ s \in Task /\ LocalWF(s) /\ s.added = {} /\ s.doomed \subseteq Ids
      /\ s.pc \in {"idle", "next", "delete"}
      /\ s.pc = "next" => Overlap \/ Importing = {}
  BY <1>6 DEF Good, Task
<1>8. /\ task' \in [Workers -> Task] /\ TaskWF' /\ task'[w] = s
      /\ \A v \in Workers : v # w => task'[v] = task[v]
  BY <1>6, <1>7, BecomeType
<1>9. TypeInv'
  BY <1>1, <1>2, <1>8 DEF TypeInv, TypeOK
<1> QED
  BY <1>2, <1>7, <1>8, <1>9

LEMMA LoadType ==
    ASSUME TypeInv, NEW w \in Workers, Load(w)
    PROVE  /\ TypeInv' /\ UNCHANGED <<table, command>>
           /\ task[w].pc = "next" /\ task'[w].pc \in {"idle", "next", "get"}
           /\ task'[w].added \subseteq task[w].added
           /\ \A v \in Workers : v # w => task'[v] = task[v]
<1> USE DEF pipeline, clock
<1>0. /\ task[w].pc = "next" /\ task[w].records # <<>> /\ task[w] \in Task
      /\ UNCHANGED <<disk, metadata, table, queue, command, today, crashes>>
      /\ LocalWF(task[w])
  BY DEF Load, TypeInv, TypeOK, TaskWF
<1> DEFINE json == disk[Record(w).file]
           loaded == [task[w] EXCEPT !.pc = "get", !.json = json]
<1>1. ASSUME Matches(json, Record(w))
      PROVE  /\ loaded \in Task /\ LocalWF(loaded) /\ loaded.pc = "get"
             /\ loaded.added = task[w].added
  <2>1. json \in Contents /\ FileDigest[json] = Record(w).md5
    BY <1>1 DEF Matches
  <2> HIDE DEF json
  <2>2. /\ loaded \in Task /\ loaded.pc = "get" /\ loaded.json = json
        /\ loaded.records = task[w].records /\ loaded.added = task[w].added
        /\ loaded.created = task[w].created /\ loaded.mesh = task[w].mesh
        /\ loaded.name = task[w].name
    BY <1>0, <2>1 DEF Task
  <2> QED
    BY <1>0, <2>1, <2>2 DEF LocalWF, Record
<1> HIDE DEF loaded
<1>2. \/ Matches(json, Record(w)) /\ Become(w, loaded)
      \/ Become(w, Skip(w))
      \/ Become(w, Idle)
  BY DEF Load, loaded
<1>3. Idle.pc = "idle" /\ Idle.added = {}
  BY DEF Idle
<1>4. PICK s \in Task : /\ LocalWF(s) /\ Become(w, s)
                        /\ s.pc \in {"idle", "next", "get"}
                        /\ s.added \subseteq task[w].added
  BY <1>0, <1>1, <1>2, <1>3, IdleType, SkipType
<1>5. /\ task' \in [Workers -> Task] /\ TaskWF' /\ task'[w] = s
      /\ \A v \in Workers : v # w => task'[v] = task[v]
  BY <1>4, BecomeType
<1>6. TypeInv'
  BY <1>0, <1>5 DEF TypeInv, TypeOK
<1> QED
  BY <1>0, <1>4, <1>5, <1>6

\* The ways out of an import, of a worker, and of a clean-up.
LEMMA IdleEffect ==
    ASSUME TypeInv, NEW w \in Workers, Become(w, Idle)
    PROVE  /\ task' \in [Workers -> Task] /\ TaskWF'
           /\ task'[w].pc = "idle" /\ task'[w].added = {}
           /\ \A v \in Workers : v # w => task'[v] = task[v]
<1>1. Idle.pc = "idle" /\ Idle.added = {}
  BY DEF Idle
<1> QED
  BY <1>1, IdleType, BecomeType

LEMMA DeleteType ==
    ASSUME TypeInv, NEW w \in Workers, Delete(w)
    PROVE  /\ TypeInv' /\ UNCHANGED command
           /\ table' = [i \in Ids |-> IF i \in task[w].doomed THEN NoMesh
                                      ELSE table[i]]
           /\ task'[w].pc = "idle" /\ task'[w].added = {}
           /\ \A v \in Workers : v # w => task'[v] = task[v]
<1> USE DEF pipeline, clock
<1>1. /\ UNCHANGED <<disk, metadata, queue, command, today, crashes>>
      /\ table' = [i \in Ids |-> IF i \in task[w].doomed THEN NoMesh
                                 ELSE table[i]]
  BY DEF Delete
<1>2. /\ task' \in [Workers -> Task] /\ TaskWF'
      /\ task'[w].pc = "idle" /\ task'[w].added = {}
      /\ \A v \in Workers : v # w => task'[v] = task[v]
  BY IdleEffect DEF Delete
<1>3. table' \in [Ids -> Mesh \cup {NoMesh}]
  BY <1>1 DEF TypeInv, TypeOK
<1>4. TypeInv'
  BY <1>1, <1>2, <1>3 DEF TypeInv, TypeOK
<1> QED
  BY <1>1, <1>2, <1>4

LEMMA EndType ==
    ASSUME TypeInv, NEW w \in Workers, EndImport(w) \/ WorkerCrash(w)
    PROVE  /\ TypeInv' /\ UNCHANGED <<table, command>>
           /\ task'[w].pc = "idle" /\ task'[w].added = {}
           /\ \A v \in Workers : v # w => task'[v] = task[v]
<1> USE DEF pipeline, clock
<1>1. /\ UNCHANGED <<disk, metadata, table, queue, command, today>>
      /\ crashes' = crashes \/ (crashes' = crashes - 1 /\ crashes > 0)
  BY DEF EndImport, WorkerCrash
<1>2. crashes' \in Nat
  BY <1>1 DEF TypeInv, TypeOK
<1>3. /\ task' \in [Workers -> Task] /\ TaskWF'
      /\ task'[w].pc = "idle" /\ task'[w].added = {}
      /\ \A v \in Workers : v # w => task'[v] = task[v]
  BY IdleEffect DEF EndImport, WorkerCrash
<1>4. TypeInv'
  BY <1>1, <1>2, <1>3 DEF TypeInv, TypeOK
<1> QED
  BY <1>1, <1>3, <1>4

\* Missing keys or dates end the import.  A SELECT that finds nothing leads to
\* the INSERT; one that finds one row to the next record; one that finds
\* several may report another mesh.
LEMMA GetType ==
    ASSUME TypeInv, NEW w \in Workers, Get(w)
    PROVE  /\ TypeInv' /\ UNCHANGED <<table, command>> /\ task[w].pc = "get"
           /\ \/ /\ task'[w].pc = "create" /\ task'[w].json = task[w].json
                 /\ WithDigest(FileDigest[task[w].json]) = {}
                 /\ task'[w].added = task[w].added
              \/ task'[w].pc = "next" /\ task'[w].added = task[w].added
              \/ task'[w].pc = "idle" /\ task'[w].added = {}
              \/ /\ task'[w].pc \in {"idle", "next"}
                 /\ Cardinality(WithDigest(FileDigest[task[w].json])) > 1
           /\ \A v \in Workers : v # w => task'[v] = task[v]
<1> USE DEF pipeline, clock
<1>0. /\ task[w].pc = "get" /\ task[w] \in Task /\ LocalWF(task[w])
      /\ task[w].records # <<>> /\ task[w].json \in Contents
      /\ UNCHANGED <<disk, metadata, table, queue, command, today, crashes>>
  BY DEF Get, TypeInv, TypeOK, TaskWF, LocalWF
<1> DEFINE found == WithDigest(FileDigest[task[w].json])
<1>1. ASSUME found = {}, Become(w, [task[w] EXCEPT !.pc = "create"])
      PROVE  \E s \in Task : /\ LocalWF(s) /\ Become(w, s)
                             /\ s.pc = "create" /\ s.json = task[w].json
                             /\ s.added = task[w].added
  <2> DEFINE s == [task[w] EXCEPT !.pc = "create"]
  <2>1. /\ s \in Task /\ s.pc = "create" /\ s.json = task[w].json
        /\ s.records = task[w].records /\ s.added = task[w].added
        /\ s.created = task[w].created /\ s.mesh = task[w].mesh
        /\ s.name = task[w].name
    BY <1>0 DEF Task
  <2>2. LocalWF(s)
    BY <1>0, <2>1 DEF LocalWF
  <2> QED
    BY <1>1, <2>1, <2>2
<1>2. ASSUME NEW i \in found,
             Become(w, [Skip(w) EXCEPT !.mesh = i, !.created = FALSE,
                                       !.name = table[i].name])
      PROVE  \E s \in Task : /\ LocalWF(s) /\ Become(w, s)
                             /\ s.pc = "next" /\ s.added = task[w].added
  <2> DEFINE no == FALSE
             name == table[i].name
             s == [Skip(w) EXCEPT !.mesh = i, !.created = no, !.name = name]
  <2>1. i \in Ids /\ name \in Files
    BY <1>0, <1>2, FoundType DEF TypeInv
  <2>2. no \in Flag
    BY DEF Flag
  <2>a. Become(w, s)
    BY <1>2
  <2>3. /\ Skip(w) \in Task /\ Skip(w).pc = "next"
        /\ Skip(w).added = task[w].added
    BY <1>0, SkipType
  <2> HIDE DEF no, name
  <2>4. /\ s \in Task /\ s.pc = "next" /\ s.mesh = i /\ s.name = name
        /\ s.added = task[w].added
    BY <2>1, <2>2, <2>3 DEF Task
  <2>5. LocalWF(s)
    BY <2>1, <2>4 DEF LocalWF
  <2> QED
    BY <2>a, <2>4, <2>5
<1>3. ASSUME Become(w, AfterSeveral(w))
      PROVE  \E s \in Task : /\ LocalWF(s) /\ Become(w, s)
                             /\ s.pc \in {"idle", "next"}
  <2>1. CASE task[w].created = None
    <3>1. task[w].created # TRUE /\ task[w].created # FALSE
      BY <2>1, NoneAssumption, Zenon
    <3>2. AfterSeveral(w) = Idle
      BY <2>1, <3>1 DEF AfterSeveral
    <3>3. Idle.pc = "idle"
      BY DEF Idle
    <3> QED
      BY <1>3, <3>2, <3>3, IdleType
  <2>2. CASE task[w].created # None
    <3>1. task[w].mesh \in Ids /\ task[w].name \in Files
      BY <1>0, <2>2 DEF LocalWF
    <3>2. task[w].created = TRUE \/ task[w].created = FALSE
      <4>1. task[w].created \in Flag
        BY <1>0 DEF Task
      <4>2. task[w].created \in BOOLEAN
        BY <2>2, <4>1, Zenon DEF Flag
      <4> QED
        BY <4>2, Zenon
    <3>3. \/ AfterSeveral(w) = Reported(w, task[w].mesh, task[w].name)
          \/ AfterSeveral(w) = Skip(w)
      BY <2>2, <3>2 DEF AfterSeveral
    <3> QED
      BY <1>0, <1>3, <3>1, <3>3, ReportedType, SkipType
  <2> QED
    BY <2>1, <2>2
<1> HIDE DEF found
<1>4. \/ Become(w, Idle)
      \/ found = {} /\ Become(w, [task[w] EXCEPT !.pc = "create"])
      \/ Cardinality(found) > 1 /\ Become(w, AfterSeveral(w))
      \/ \E i \in found :
            Become(w, [Skip(w) EXCEPT !.mesh = i, !.created = FALSE,
                                      !.name = table[i].name])
  BY DEF Get, found
<1>5. PICK s \in Task :
        /\ LocalWF(s) /\ Become(w, s)
        /\ \/ /\ s.pc = "create" /\ s.json = task[w].json /\ found = {}
              /\ s.added = task[w].added
           \/ s.pc = "next" /\ s.added = task[w].added
           \/ s.pc = "idle" /\ s.added = {}
           \/ s.pc \in {"idle", "next"} /\ Cardinality(found) > 1
  <2>1. Idle.pc = "idle" /\ Idle.added = {}
    BY DEF Idle
  <2> QED
    BY <1>1, <1>2, <1>3, <1>4, <2>1, IdleType
<1>6. /\ task' \in [Workers -> Task] /\ TaskWF' /\ task'[w] = s
      /\ \A v \in Workers : v # w => task'[v] = task[v]
  BY <1>5, BecomeType
<1>7. TypeInv'
  BY <1>0, <1>6 DEF TypeInv, TypeOK
<1> QED
  BY <1>0, <1>5, <1>6, <1>7 DEF found

LEMMA NewIdFree ==
    ASSUME NEW i \in Ids, NewId(i)
    PROVE  /\ table[i] = NoMesh
           /\ \A w \in Workers : \A report \in task[w].added : report.id # i
BY DEF NewId, Unused

LEMMA CreateType ==
    ASSUME TypeInv, NEW w \in Workers, Create(w)
    PROVE  /\ TypeInv' /\ UNCHANGED command
           /\ task[w].pc = "create" /\ task'[w].pc = "next"
           /\ \E i \in Ids, row \in Mesh :
                /\ NewId(i) /\ table' = [table EXCEPT ![i] = row]
                /\ row.by = "import" /\ row.json = task[w].json
                /\ row.md5 = FileDigest[row.json] /\ row.md5 = Record(w).md5
                /\ row.name = Record(w).file
                /\ row.created = Record(w).created /\ Record(w) \in Records
                /\ task'[w].added = task[w].added \cup
                     {[id |-> i, md5 |-> row.md5, name |-> row.name]}
           /\ \A v \in Workers : v # w => task'[v] = task[v]
<1> USE DEF pipeline, clock
<1>0. /\ task[w].pc = "create" /\ task[w] \in Task /\ LocalWF(task[w])
      /\ task[w].records # <<>> /\ task[w].json \in Contents
      /\ Record(w).md5 = FileDigest[task[w].json]
      /\ UNCHANGED <<disk, metadata, queue, command, today, crashes>>
  BY DEF Create, TypeInv, TypeOK, TaskWF, LocalWF, Record
<1>1. PICK i \in Ids :
        /\ NewId(i)
        /\ table' = [table EXCEPT ![i] =
              NewMesh(FileDigest[task[w].json], task[w].json, Record(w).file,
                      Record(w).created, "import")]
        /\ Become(w, Reported(w, i, Record(w).file))
  BY DEF Create
<1> DEFINE row == NewMesh(FileDigest[task[w].json], task[w].json,
                          Record(w).file, Record(w).created, "import")
<1>2. /\ Record(w) \in Records /\ Record(w).file \in Files
      /\ Record(w).md5 \in Digests /\ Record(w).created \in Int
  BY <1>0, RecordType
<1>3. /\ row \in Mesh /\ row.by = "import" /\ row.json = task[w].json
      /\ row.md5 = FileDigest[task[w].json] /\ row.name = Record(w).file
      /\ row.created = Record(w).created
  BY <1>0, <1>2 DEF NewMesh, Mesh
<1> HIDE DEF row
<1>4. table' = [table EXCEPT ![i] = row]
  BY <1>1 DEF row
<1>5. table' \in [Ids -> Mesh \cup {NoMesh}]
  BY <1>3, <1>4 DEF TypeInv, TypeOK
<1> DEFINE s == Reported(w, i, Record(w).file)
<1>6. /\ s \in Task /\ LocalWF(s) /\ s.pc = "next"
      /\ s.added = task[w].added \cup
           {[id |-> i, md5 |-> Record(w).md5, name |-> Record(w).file]}
  BY <1>0, <1>2, ReportedType
<1> HIDE DEF s
<1>7. /\ task' \in [Workers -> Task] /\ TaskWF' /\ task'[w] = s
      /\ \A v \in Workers : v # w => task'[v] = task[v]
  BY <1>1, <1>6, BecomeType DEF s
<1>8. TypeInv'
  BY <1>0, <1>5, <1>7 DEF TypeInv, TypeOK
<1>9. task'[w].added = task[w].added \cup
        {[id |-> i, md5 |-> row.md5, name |-> row.name]}
  BY <1>0, <1>3, <1>6, <1>7
<1>10. task'[w].pc = "next" /\ row.md5 = FileDigest[row.json]
       /\ row.md5 = Record(w).md5
  BY <1>0, <1>3, <1>6, <1>7
<1>11. \E id \in Ids, mesh \in Mesh :
          /\ NewId(id) /\ table' = [table EXCEPT ![id] = mesh]
          /\ mesh.by = "import" /\ mesh.json = task[w].json
          /\ mesh.md5 = FileDigest[mesh.json] /\ mesh.md5 = Record(w).md5
          /\ mesh.name = Record(w).file
          /\ mesh.created = Record(w).created /\ Record(w) \in Records
          /\ task'[w].added = task[w].added \cup
               {[id |-> id, md5 |-> mesh.md5, name |-> mesh.name]}
  <2> WITNESS i \in Ids
  <2>1. row \in Mesh
    BY <1>3
  <2> WITNESS row \in Mesh
  <2> QED
    BY <1>1, <1>2, <1>3, <1>4, <1>9, <1>10
<1>12. \A v \in Workers : v # w => task'[v] = task[v]
  BY <1>7
<1> QED
  BY <1>0, <1>8, <1>10, <1>11, <1>12

LEMMA InsertGetType ==
    ASSUME TypeInv, NEW c \in Commands, InsertGet(c)
    PROVE  /\ TypeInv' /\ UNCHANGED <<table, task>>
           /\ command'[c][2] \in Contents
           /\ WithDigest(TextDigest[command'[c][2]]) = {}
           /\ \A d \in Commands : d # c => command'[d] = command[d]
<1> USE DEF pipeline, clock
<1>1. /\ UNCHANGED <<disk, metadata, table, queue, task, today, crashes>>
      /\ command \in [Commands -> {None, <<>>} \cup (Files \X Contents)]
  BY DEF InsertGet, TypeInv, TypeOK
<1>2. PICK f \in Files : /\ disk[f] \in Contents
                         /\ WithDigest(TextDigest[disk[f]]) = {}
                         /\ command' = [command EXCEPT ![c] = <<f, disk[f]>>]
  BY DEF InsertGet
<1>3. /\ command' \in [Commands -> {None, <<>>} \cup (Files \X Contents)]
      /\ command'[c] = <<f, disk[f]>>
      /\ \A d \in Commands : d # c => command'[d] = command[d]
  BY <1>1, <1>2
<1>4. TypeInv'
  BY <1>1, <1>3 DEF TypeInv, TypeOK, TaskWF, LocalWF
<1> QED
  BY <1>1, <1>2, <1>3, <1>4

LEMMA InsertCreateType ==
    ASSUME TypeInv, NEW c \in Commands, InsertCreate(c)
    PROVE  /\ TypeInv' /\ UNCHANGED task /\ command[c] \in Files \X Contents
           /\ command[c][2] \in Contents /\ command'[c] = None
           /\ \E i \in Ids, row \in Mesh :
                /\ NewId(i) /\ table' = [table EXCEPT ![i] = row]
                /\ row.by = "insert" /\ row.json = command[c][2]
                /\ row.md5 = TextDigest[row.json]
           /\ \A d \in Commands : d # c => command'[d] = command[d]
<1> USE DEF pipeline, clock
<1>0. /\ UNCHANGED <<disk, metadata, queue, task, today, crashes>>
      /\ command[c] \in Files \X Contents /\ command' = [command EXCEPT ![c] = None]
      /\ command \in [Commands -> {None, <<>>} \cup (Files \X Contents)]
      /\ today \in 0..LastDay
  BY DEF InsertCreate, TypeInv, TypeOK
<1>1. command[c][1] \in Files /\ command[c][2] \in Contents
  BY <1>0
<1> DEFINE row == NewMesh(TextDigest[command[c][2]], command[c][2],
                          command[c][1], today, "insert")
<1>2. /\ row \in Mesh /\ row.by = "insert" /\ row.json = command[c][2]
      /\ row.md5 = TextDigest[command[c][2]]
  <2>1. today \in Int
    BY <1>0
  <2>2. TextDigest[command[c][2]] \in Digests
    BY <1>1 DEF Digests
  <2> QED
    BY <1>1, <2>1, <2>2 DEF NewMesh, Mesh
<1>3. PICK i \in Ids : NewId(i) /\ table' = [table EXCEPT ![i] = row]
  BY DEF InsertCreate
<1> HIDE DEF row
<1>4. table' \in [Ids -> Mesh \cup {NoMesh}]
  BY <1>2, <1>3 DEF TypeInv, TypeOK
<1>5. /\ command' \in [Commands -> {None, <<>>} \cup (Files \X Contents)]
      /\ command'[c] = None
      /\ \A d \in Commands : d # c => command'[d] = command[d]
  BY <1>0
<1>6. TypeInv'
  BY <1>0, <1>4, <1>5 DEF TypeInv, TypeOK, TaskWF, LocalWF
<1> QED
  BY <1>0, <1>1, <1>2, <1>3, <1>5, <1>6

\* The pipeline, the clock and the beat change no row and no task.
LEMMA OutsideType ==
    ASSUME TypeInv,
           \/ \E f \in Files : Upload(f)
           \/ Publish \/ NextDay
           \/ \E name \in Schedule : Beat(name)
           \/ UNCHANGED vars
    PROVE  TypeInv' /\ UNCHANGED <<table, task, command>>
<1> USE DEF pipeline, clock
<1>1. UNCHANGED <<table, task, command, crashes>>
  BY DEF Upload, Publish, NextDay, Beat, vars
<1>2. disk' \in [Files -> DiskState]
  BY UploadsAssumption
     DEF TypeInv, TypeOK, Upload, Publish, NextDay, Beat, vars,
         UploadsAssumption, DiskState
<1>3. metadata' \in Publications \cup {None}
  BY DEF TypeInv, TypeOK, Upload, Publish, NextDay, Beat, vars
<1>4. queue' \in Seq(Schedule)
  BY SMTT(30) DEF TypeInv, TypeOK, Upload, Publish, NextDay, Beat, vars
<1>5. today' \in 0..LastDay
  BY BoundsAssumption
     DEF TypeInv, TypeOK, Upload, Publish, NextDay, Beat, vars,
         BoundsAssumption
<1> QED
  BY <1>1, <1>2, <1>3, <1>4, <1>5 DEF TypeInv, TypeOK, TaskWF, LocalWF

LEMMA NextType == TypeInv /\ [Next]_vars => TypeInv'
BY TakeType, DeleteType, LoadType, EndType, GetType, CreateType,
   InsertGetType, InsertCreateType, OutsideType DEF Next, WorkerStep

\* Rows, tasks and commands keep their types, also when imports overlap and
\* several rows answer to one digest (tasks.py:184-257, insert_mesh.py:37-64).
THEOREM TypeCorrect == Spec => []TypeOK
<1>1. TypeInv => TypeOK
  BY DEF TypeInv
<1> QED
  BY <1>1, InitType, NextType, PTL DEF Spec

----------------------------------------------------------------------------
(* The table *)

\* A row has the digest that who added it computes.
DigestOf(row) ==
    IF row.by = "import" THEN FileDigest[row.json] ELSE TextDigest[row.json]

Digested == \A i \in Ids : table[i] # NoMesh => table[i].md5 = DigestOf(table[i])

\* A document has one digest as a file and another as a text.
LEMMA DigestIsDocument ==
    ASSUME TypeOK, Digested, NEW c \in Contents, NEW i \in Ids
    PROVE  /\ table[i].md5 = FileDigest[c] <=>
                table[i].by = "import" /\ table[i].json = c
           /\ table[i].md5 = TextDigest[c] <=>
                table[i].by = "insert" /\ table[i].json = c
<1>1. CASE table[i] = NoMesh
  <2>1. FileDigest[c] \in Digests /\ TextDigest[c] \in Digests
    BY DEF Digests
  <2> QED
    BY <1>1, <2>1, NoMeshIsNone, NoneAssumption
<1>2. CASE table[i] # NoMesh
  <2>1. table[i] \in Mesh /\ table[i].md5 = DigestOf(table[i])
    BY <1>2 DEF TypeOK, Digested
  <2>2. table[i].json \in Contents /\ table[i].by \in {"import", "insert"}
    BY <2>1 DEF Mesh
  <2> QED
    BY <2>1, <2>2, DigestAssumption DEF DigestOf, DigestAssumption
<1> QED
  BY <1>1, <1>2

\* Deleting rows and inserting one are all that happens to the table.
Deleting(S) == table' = [i \in Ids |-> IF i \in S THEN NoMesh ELSE table[i]]

Inserting(i, row) ==
    /\ table[i] = NoMesh /\ row \in Mesh /\ row.md5 = DigestOf(row)
    /\ table' = [table EXCEPT ![i] = row]

LEMMA DeletingDigested ==
    ASSUME TypeOK, Digested, NEW S, Deleting(S)
    PROVE  Digested'
BY DEF TypeOK, Digested, Deleting, DigestOf

LEMMA InsertingDigested ==
    ASSUME TypeOK, Digested, NEW i \in Ids, NEW row, Inserting(i, row)
    PROVE  Digested'
BY DEF TypeOK, Digested, Inserting, DigestOf

LEMMA InitDigested == Init => Digested
BY DEF Init, Digested

LEMMA NextDigested == TypeInv /\ Digested /\ [Next]_vars => Digested'
<1> SUFFICES ASSUME TypeInv, Digested, [Next]_vars PROVE Digested'
  OBVIOUS
<1>0. TypeOK
  BY DEF TypeInv
<1>1. ASSUME UNCHANGED table PROVE Digested'
  BY <1>1 DEF Digested, DigestOf
<1>2. ASSUME NEW w \in Workers, Create(w) PROVE Digested'
  <2>1. PICK i \in Ids, row \in Mesh :
          /\ NewId(i) /\ table' = [table EXCEPT ![i] = row]
          /\ row.by = "import" /\ row.md5 = FileDigest[row.json]
    BY <1>2, CreateType
  <2>2. Inserting(i, row)
    BY <2>1, NewIdFree DEF Inserting, DigestOf
  <2> QED
    BY <1>0, <2>2, InsertingDigested
<1>3. ASSUME NEW c \in Commands, InsertCreate(c) PROVE Digested'
  <2>1. PICK i \in Ids, row \in Mesh :
          /\ NewId(i) /\ table' = [table EXCEPT ![i] = row]
          /\ row.by = "insert" /\ row.md5 = TextDigest[row.json]
    BY <1>3, InsertCreateType
  <2>2. Inserting(i, row)
    BY <2>1, NewIdFree DEF Inserting, DigestOf
  <2> QED
    BY <1>0, <2>2, InsertingDigested
<1>4. ASSUME NEW w \in Workers, Delete(w) PROVE Digested'
  <2>1. Deleting(task[w].doomed)
    BY <1>4, DeleteType DEF Deleting
  <2> QED
    BY <1>0, <2>1, DeletingDigested
<1> QED
  BY <1>1, <1>2, <1>3, <1>4, TakeType, LoadType, EndType, GetType,
     InsertGetType, OutsideType DEF Next, WorkerStep

----------------------------------------------------------------------------
(* Imports that follow one another *)

\* No document was added twice in one way.
Once(by) ==
    \A i, k \in Ids :
        table[i].by = by /\ table[k].by = by /\ table[i].json = table[k].json
          => i = k

LEMMA DeletingOnce ==
    ASSUME NEW by \in {"import", "insert"}, Once(by), NEW S, Deleting(S)
    PROVE  Once(by)'
BY NoMeshIsNone DEF Once, Deleting

LEMMA InsertingOnce ==
    ASSUME TypeOK, NEW by, Once(by), NEW i \in Ids, NEW row, Inserting(i, row),
           row.by = by =>
             \A k \in Ids : table[k].by = by => table[k].json # row.json
    PROVE  Once(by)'
BY DEF TypeOK, Once, Inserting

\* Imports follow one another, so that what the SELECT of one has not found
\* is not there when it inserts.
OneImport == \A v, w \in Importing : v = w
Creating ==
    \A w \in Workers : task[w].pc = "create" =>
        \A i \in Ids : table[i].by = "import" => table[i].json # task[w].json

ImportInv == Once("import") /\ OneImport /\ Creating

\* Nobody runs an import at the start.
LEMMA InitTask ==
    ASSUME Init, NEW w \in Workers
    PROVE  task[w].pc \in {"idle", "away"} /\ task[w].added = {}
<1>1. task[w] = Idle \/ task[w] = Away
  BY DEF Init
<1>2. Idle.pc = "idle" /\ Idle.added = {}
  BY DEF Idle
<1>3. Away.pc = "away" /\ Away.added = {}
  BY <1>2, IdleType DEF Away, Task
<1> QED
  BY <1>1, <1>2, <1>3

LEMMA InitImport == Init => ImportInv
<1> SUFFICES ASSUME Init PROVE ImportInv
  OBVIOUS
<1>1. Once("import")
  BY NoMeshIsNone DEF Init, Once
<1>2. OneImport /\ Creating
  BY InitTask DEF OneImport, Importing, Creating
<1> QED
  BY <1>1, <1>2 DEF ImportInv

\* While imports follow one another, no digest of a file has two rows.
LEMMA NeverSeveral ==
    ASSUME TypeOK, Digested, Once("import"), NEW c \in Contents
    PROVE  ~(Cardinality(WithDigest(FileDigest[c])) > 1)
<1>1. CASE WithDigest(FileDigest[c]) = {}
  <2>1. Cardinality(WithDigest(FileDigest[c])) = 0
    BY <1>1, FS_EmptySet
  <2> QED
    BY <2>1
<1>2. CASE WithDigest(FileDigest[c]) # {}
  <2>1. PICK i : i \in WithDigest(FileDigest[c])
    BY <1>2
  <2>2. WithDigest(FileDigest[c]) = {i}
    BY <2>1, DigestIsDocument DEF WithDigest, Once
  <2>3. Cardinality(WithDigest(FileDigest[c])) = 1
    BY <2>2, FS_Singleton
  <2> QED
    BY <2>3
<1> QED
  BY <1>1, <1>2

\* A step of one worker that adds no row.
LEMMA QuietImport ==
    ASSUME ImportInv, NEW w \in Workers,
           \A v \in Workers : v # w => task'[v] = task[v],
           \/ task'[w].pc \notin {"next", "get", "create"}
           \/ w \in Importing \/ Importing = {},
           task'[w].pc # "create",
           UNCHANGED table \/ \E S : Deleting(S)
    PROVE  ImportInv'
<1>1. Once("import")'
  BY DeletingOnce DEF ImportInv, Once
<1>2. OneImport'
  BY DEF ImportInv, OneImport, Importing
<1>3. \A i \in Ids : table'[i].by = "import" => table'[i] = table[i]
  BY NoMeshIsNone DEF Deleting
<1>4. Creating'
  BY <1>3 DEF ImportInv, Creating
<1> QED
  BY <1>1, <1>2, <1>4 DEF ImportInv

LEMMA GetImport ==
    ASSUME TypeInv, Digested, ImportInv, NEW w \in Workers, Get(w)
    PROVE  ImportInv' /\ task'[w].added \subseteq task[w].added
<1>0. task[w].json \in Contents /\ w \in Importing /\ TypeOK
  BY DEF Get, TypeInv, TaskWF, LocalWF, Importing
<1>1. /\ UNCHANGED table
      /\ \/ /\ task'[w].pc = "create" /\ task'[w].json = task[w].json
            /\ WithDigest(FileDigest[task[w].json]) = {}
            /\ task'[w].added = task[w].added
         \/ task'[w].pc = "next" /\ task'[w].added = task[w].added
         \/ task'[w].pc = "idle" /\ task'[w].added = {}
      /\ \A v \in Workers : v # w => task'[v] = task[v]
  BY <1>0, GetType, NeverSeveral DEF ImportInv
<1>2. CASE task'[w].pc = "create"
  <2>1. \A i \in Ids : table[i].by = "import" => table[i].json # task[w].json
    BY <1>0, <1>1, <1>2, DigestIsDocument DEF WithDigest
  <2>2. Once("import")' /\ OneImport'
    BY <1>0, <1>1 DEF ImportInv, Once, OneImport, Importing
  <2>3. Creating'
    BY <1>1, <1>2, <2>1 DEF ImportInv, Creating
  <2> QED
    BY <1>1, <1>2, <2>2, <2>3 DEF ImportInv
<1>3. CASE task'[w].pc \in {"idle", "next"}
  BY <1>0, <1>1, <1>3, QuietImport
<1> QED
  BY <1>1, <1>2, <1>3

LEMMA CreateImport ==
    ASSUME TypeInv, ImportInv, NEW w \in Workers, Create(w)
    PROVE  ImportInv'
<1>1. PICK i \in Ids, row \in Mesh :
        /\ NewId(i) /\ table' = [table EXCEPT ![i] = row]
        /\ row.by = "import" /\ row.json = task[w].json
        /\ row.md5 = FileDigest[row.json]
  BY CreateType
<1>2. /\ task[w].pc = "create" /\ task'[w].pc = "next"
      /\ \A v \in Workers : v # w => task'[v] = task[v]
  BY CreateType
<1>3. Inserting(i, row)
  BY <1>1, NewIdFree DEF Inserting, DigestOf
<1>4. \A k \in Ids : table[k].by = "import" => table[k].json # row.json
  BY <1>1, <1>2 DEF ImportInv, Creating
<1>5. Once("import")'
  BY <1>3, <1>4, InsertingOnce DEF ImportInv, TypeInv
<1>6. OneImport'
  BY <1>2 DEF ImportInv, OneImport, Importing
<1>7. \A v \in Workers : task'[v].pc # "create"
  BY <1>2 DEF ImportInv, OneImport, Importing
<1> QED
  BY <1>5, <1>6, <1>7 DEF ImportInv, Creating

LEMMA InsertImport ==
    ASSUME TypeInv, ImportInv, NEW c \in Commands, InsertCreate(c)
    PROVE  ImportInv'
<1>1. PICK i \in Ids, row \in Mesh :
        /\ NewId(i) /\ table' = [table EXCEPT ![i] = row]
        /\ row.by = "insert" /\ row.md5 = TextDigest[row.json]
  BY InsertCreateType
<1>2. Inserting(i, row)
  BY <1>1, NewIdFree DEF Inserting, DigestOf
<1>3. Once("import")'
  BY <1>1, <1>2, InsertingOnce DEF ImportInv, TypeInv
<1>4. UNCHANGED task
  BY InsertCreateType
<1>5. \A k \in Ids : table'[k].by = "import" => table'[k] = table[k]
  BY <1>1 DEF TypeInv, TypeOK
<1> QED
  BY <1>3, <1>4, <1>5 DEF ImportInv, OneImport, Importing, Creating

LEMMA NextImport ==
    ~Overlap /\ TypeInv /\ Digested /\ ImportInv /\ [Next]_vars => ImportInv'
<1> SUFFICES ASSUME ~Overlap, TypeInv, Digested, ImportInv, [Next]_vars
             PROVE  ImportInv'
  OBVIOUS
<1>1. ASSUME NEW w \in Workers, Take(w) PROVE ImportInv'
  BY <1>1, TakeType, QuietImport
<1>2. ASSUME NEW w \in Workers, Load(w) PROVE ImportInv'
  <2>1. w \in Importing
    BY <1>2 DEF Load, Importing
  <2> QED
    BY <1>2, <2>1, LoadType, QuietImport
<1>3. ASSUME NEW w \in Workers, EndImport(w) \/ WorkerCrash(w)
      PROVE  ImportInv'
  BY <1>3, EndType, QuietImport
<1>4. ASSUME NEW w \in Workers, Delete(w) PROVE ImportInv'
  <2>1. Deleting(task[w].doomed)
    BY <1>4, DeleteType DEF Deleting
  <2> QED
    BY <1>4, <2>1, DeleteType, QuietImport
<1>5. ASSUME UNCHANGED <<table, task>> PROVE ImportInv'
  BY <1>5 DEF ImportInv, Once, OneImport, Importing, Creating
<1> QED
  BY <1>1, <1>2, <1>3, <1>4, <1>5, GetImport, CreateImport, InsertImport,
     InsertGetType, OutsideType DEF Next, WorkerStep

----------------------------------------------------------------------------
(* What an import reports *)

LEMMA InitReport == Init => ReportIsTrue
BY InitTask DEF ReportIsTrue

\* A step of one worker that reports nothing new and adds no row.
LEMMA QuietReport ==
    ASSUME ReportIsTrue, NEW w \in Workers,
           \A v \in Workers : v # w => task'[v] = task[v],
           task'[w].added \subseteq task[w].added,
           \A u \in Workers : \A report \in task[u].added : report.id \in Ids,
           UNCHANGED table \/ \E S : Deleting(S)
    PROVE  ReportIsTrue'
BY DEF ReportIsTrue, Deleting

LEMMA InsertingReport ==
    ASSUME TypeOK, ReportIsTrue, NEW i \in Ids, NEW row, Inserting(i, row), NewId(i),
           NEW u \in Workers, NEW report \in task[u].added,
           report.id \in Ids, table'[report.id] # NoMesh
    PROVE  /\ table'[report.id].md5 = report.md5
           /\ table'[report.id].name = report.name
<1>1. report.id # i
  BY NewIdFree
<1>2. table'[report.id] = table[report.id]
  BY <1>1 DEF Inserting, TypeOK
<1> QED
  BY <1>2 DEF ReportIsTrue

LEMMA NextReport ==
    ~Overlap /\ TypeInv /\ Digested /\ ImportInv /\ ReportIsTrue /\ [Next]_vars
      => ReportIsTrue'
<1> SUFFICES ASSUME ~Overlap, TypeInv, Digested, ImportInv, ReportIsTrue,
                    [Next]_vars
             PROVE  ReportIsTrue'
  OBVIOUS
<1>0. /\ TypeOK
      /\ \A u \in Workers : \A report \in task[u].added : report.id \in Ids
  BY DEF TypeInv, TypeOK, Task, Report
<1>1. ASSUME NEW w \in Workers, Take(w) \/ EndImport(w) \/ WorkerCrash(w)
      PROVE  ReportIsTrue'
  BY <1>0, <1>1, TakeType, EndType, QuietReport
<1>2. ASSUME NEW w \in Workers, Load(w) PROVE ReportIsTrue'
  BY <1>0, <1>2, LoadType, QuietReport
<1>3. ASSUME NEW w \in Workers, Get(w) PROVE ReportIsTrue'
  BY <1>0, <1>3, GetType, GetImport, QuietReport
<1>4. ASSUME NEW w \in Workers, Delete(w) PROVE ReportIsTrue'
  <2>1. Deleting(task[w].doomed)
    BY <1>4, DeleteType DEF Deleting
  <2> QED
    BY <1>0, <1>4, <2>1, DeleteType, QuietReport
<1>5. ASSUME NEW w \in Workers, Create(w) PROVE ReportIsTrue'
  <2>1. PICK i \in Ids, row \in Mesh :
          /\ NewId(i) /\ table' = [table EXCEPT ![i] = row]
          /\ row.by = "import" /\ row.md5 = FileDigest[row.json]
          /\ task'[w].added = task[w].added \cup
               {[id |-> i, md5 |-> row.md5, name |-> row.name]}
    BY <1>5, CreateType
  <2>2. Inserting(i, row) /\ table'[i] = row
    BY <1>0, <2>1, NewIdFree DEF Inserting, DigestOf, TypeOK
  <2>3. \A v \in Workers : v # w => task'[v] = task[v]
    BY <1>5, CreateType
  <2>4. ASSUME NEW v \in Workers, NEW report \in task'[v].added,
               table'[report.id] # NoMesh
        PROVE  /\ table'[report.id].md5 = report.md5
               /\ table'[report.id].name = report.name
    <3>1. CASE report \in task[v].added
      BY <1>0, <2>1, <2>2, <2>4, <3>1, InsertingReport
    <3>2. CASE report \notin task[v].added
      <4>1. report = [id |-> i, md5 |-> row.md5, name |-> row.name]
        BY <2>1, <2>3, <2>4, <3>2
      <4> QED
        BY <2>2, <4>1
    <3> QED
      BY <3>1, <3>2
  <2> QED
    BY <2>4 DEF ReportIsTrue
<1>6. ASSUME NEW c \in Commands, InsertCreate(c) PROVE ReportIsTrue'
  <2>1. PICK i \in Ids, row \in Mesh :
          /\ NewId(i) /\ table' = [table EXCEPT ![i] = row]
          /\ row.by = "insert" /\ row.md5 = TextDigest[row.json]
    BY <1>6, InsertCreateType
  <2>2. Inserting(i, row)
    BY <2>1, NewIdFree DEF Inserting, DigestOf
  <2>3. UNCHANGED task
    BY <1>6, InsertCreateType
  <2>4. ASSUME NEW v \in Workers, NEW report \in task'[v].added,
               table'[report.id] # NoMesh
        PROVE  /\ table'[report.id].md5 = report.md5
               /\ table'[report.id].name = report.name
    BY <1>0, <2>1, <2>2, <2>3, <2>4, InsertingReport
  <2> QED
    BY <2>4 DEF ReportIsTrue
<1>7. ASSUME UNCHANGED <<table, task>> PROVE ReportIsTrue'
  BY <1>7 DEF ReportIsTrue
<1> QED
  BY <1>1, <1>2, <1>3, <1>4, <1>5, <1>6, <1>7, InsertGetType, OutsideType
     DEF Next, WorkerStep

\* When no import lasts until beat sends the next, what each one reports is
\* what it inserted, beside commands, clean-ups and crashes
\* (tasks.py:249-255).
THEOREM ImportsReportTheTruth == ASSUME ~Overlap PROVE Spec => []ReportIsTrue
<1>1. Init => TypeInv /\ Digested /\ ImportInv /\ ReportIsTrue
  BY InitType, InitDigested, InitImport, InitReport
<1>2. TypeInv /\ Digested /\ ImportInv /\ ReportIsTrue /\ [Next]_vars
        => (TypeInv /\ Digested /\ ImportInv /\ ReportIsTrue)'
  BY NextType, NextDigested, NextImport, NextReport
<1> QED
  BY <1>1, <1>2, PTL DEF Spec

----------------------------------------------------------------------------
(* The command insert_mesh *)

\* One operator inserts a mesh at a time.
OneOperator == \A c, d \in Commands : c = d

\* What the SELECT of a command has not found is not there when it inserts.
InsertInv ==
    /\ Once("insert")
    /\ \A c \in Commands : command[c] \in Files \X Contents =>
         \A i \in Ids : table[i].by = "insert" => table[i].json # command[c][2]

LEMMA InitInsert == Init => InsertInv
BY NoMeshIsNone DEF Init, InsertInv, Once

LEMMA NextInsert ==
    OneOperator /\ TypeInv /\ Digested /\ InsertInv /\ [Next]_vars => InsertInv'
<1> SUFFICES ASSUME OneOperator, TypeInv, Digested, InsertInv, [Next]_vars
             PROVE  InsertInv'
  OBVIOUS
<1>0. TypeOK
  BY DEF TypeInv
<1>1. ASSUME UNCHANGED <<table, command>> PROVE InsertInv'
  BY <1>1 DEF InsertInv, Once
<1>2. ASSUME NEW w \in Workers, Delete(w) PROVE InsertInv'
  <2>1. Deleting(task[w].doomed) /\ UNCHANGED command
    BY <1>2, DeleteType DEF Deleting
  <2>2. Once("insert")'
    BY <2>1, DeletingOnce DEF InsertInv
  <2>3. \A i \in Ids : table'[i].by = "insert" => table'[i] = table[i]
    BY <2>1, NoMeshIsNone DEF Deleting
  <2> QED
    BY <2>1, <2>2, <2>3 DEF InsertInv
<1>3. ASSUME NEW w \in Workers, Create(w) PROVE InsertInv'
  <2>1. PICK i \in Ids, row \in Mesh :
          /\ NewId(i) /\ table' = [table EXCEPT ![i] = row]
          /\ row.by = "import" /\ row.md5 = FileDigest[row.json]
    BY <1>3, CreateType
  <2>2. Inserting(i, row) /\ UNCHANGED command
    BY <1>3, <2>1, NewIdFree, CreateType DEF Inserting, DigestOf
  <2>3. Once("insert")'
    BY <1>0, <2>1, <2>2, InsertingOnce DEF InsertInv
  <2>4. \A k \in Ids : table'[k].by = "insert" => table'[k] = table[k]
    BY <1>0, <2>1 DEF TypeOK
  <2> QED
    BY <2>2, <2>3, <2>4 DEF InsertInv
<1>4. ASSUME NEW c \in Commands, InsertGet(c) PROVE InsertInv'
  <2>1. /\ UNCHANGED table /\ command'[c][2] \in Contents
        /\ WithDigest(TextDigest[command'[c][2]]) = {}
        /\ \A d \in Commands : d # c => command'[d] = command[d]
    BY <1>4, InsertGetType
  <2>2. \A i \in Ids : table[i].by = "insert" => table[i].json # command'[c][2]
    BY <1>0, <2>1, DigestIsDocument DEF WithDigest
  <2> QED
    BY <2>1, <2>2 DEF InsertInv, Once
<1>5. ASSUME NEW c \in Commands, InsertCreate(c) PROVE InsertInv'
  <2>1. PICK i \in Ids, row \in Mesh :
          /\ NewId(i) /\ table' = [table EXCEPT ![i] = row]
          /\ row.by = "insert" /\ row.json = command[c][2]
          /\ row.md5 = TextDigest[row.json]
    BY <1>5, InsertCreateType
  <2>2. /\ Inserting(i, row) /\ command'[c] = None
        /\ command[c] \in Files \X Contents
    BY <1>5, <2>1, NewIdFree, InsertCreateType DEF Inserting, DigestOf
  <2>3. Once("insert")'
    BY <1>0, <2>1, <2>2, InsertingOnce DEF InsertInv
  <2>4. \A d \in Commands : command'[d] = None
    BY <2>2 DEF OneOperator
  <2> QED
    BY <2>3, <2>4, NoneAssumption DEF InsertInv
<1> QED
  BY <1>1, <1>2, <1>3, <1>4, <1>5, TakeType, LoadType, EndType, GetType,
     OutsideType DEF Next, WorkerStep

\* insert_mesh hashes str() of a document and the import its indented JSON,
\* so that neither finds a row of the other.  A document that has two rows
\* was added once in either way: neither inserts again what it has inserted,
\* through crashes, replaced files and clean-ups (insert_mesh.py:29-37;
\* tasks.py:205-223).
TwiceOnlyInTwoWays ==
    \A i, k \in Ids :
        i # k /\ table[i].json = table[k].json /\ table[i] # NoMesh
          => table[i].by # table[k].by

\* When neither imports nor operators overlap, a document has two rows only
\* if one was imported and the other inserted by hand (tasks.py:205-223;
\* insert_mesh.py:29-37).
THEOREM TwoRowsCameTwoWays ==
    ASSUME ~Overlap, OneOperator PROVE Spec => []TwiceOnlyInTwoWays
<1>1. Init => TypeInv /\ Digested /\ ImportInv /\ InsertInv
  BY InitType, InitDigested, InitImport, InitInsert
<1>2. TypeInv /\ Digested /\ ImportInv /\ InsertInv /\ [Next]_vars
        => (TypeInv /\ Digested /\ ImportInv /\ InsertInv)'
  BY NextType, NextDigested, NextImport, NextInsert
<1>3. TypeInv /\ ImportInv /\ InsertInv => TwiceOnlyInTwoWays
  <2> SUFFICES ASSUME TypeInv, Once("import"), Once("insert"),
                      NEW i \in Ids, NEW k \in Ids, i # k, table[i] # NoMesh,
                      table[i].json = table[k].json, table[i].by = table[k].by
               PROVE  FALSE
    BY DEF ImportInv, InsertInv, TwiceOnlyInTwoWays
  <2>1. table[i].by \in {"import", "insert"}
    BY DEF TypeInv, TypeOK, Mesh
  <2> QED
    BY <2>1 DEF Once
<1> QED
  BY <1>1, <1>2, <1>3, PTL DEF Spec

----------------------------------------------------------------------------
(* The Mesh table implements MeshCatalogue *)

\* A row that is inserted under a digest that no row has is one that the
\* catalogue may add.
LEMMA InsertingIsAdd ==
    ASSUME TypeOK, Digested, NEW i \in Ids, NEW row, Inserting(i, row),
           \A k \in Ids : table[k].by = row.by => table[k].json # row.json,
           row.by = "import" =>
             \E entry \in Records : Catalogue!Listed(entry, row)
    PROVE  Catalogue!Next
<1>1. table[i] = NoMesh /\ row \in Mesh /\ row.md5 = DigestOf(row)
        /\ table' = [table EXCEPT ![i] = row] /\ table'[i] = row
  BY DEF Inserting, TypeOK
<1>2. row.json \in Contents /\ row.by \in {"import", "insert"}
  BY <1>1 DEF Mesh
<1>3. \A k \in Ids : table[k].md5 # row.md5
  BY <1>1, <1>2, DigestIsDocument DEF DigestOf
<1>4. row \in {r \in Mesh : r.md5 = IF r.by = "import" THEN FileDigest[r.json]
                                    ELSE TextDigest[r.json]}
  BY <1>1 DEF DigestOf
<1>5. Catalogue!Add(i)
  BY <1>1, <1>3, <1>4 DEF Catalogue!Add
<1> QED
  BY <1>5 DEF Catalogue!Next

LEMMA NextCatalogue ==
    TypeInv /\ Digested /\ ImportInv /\ InsertInv /\ [Next]_vars
      => [Catalogue!Next]_table
<1> SUFFICES ASSUME TypeInv, Digested, ImportInv, InsertInv, [Next]_vars
             PROVE  Catalogue!Next \/ UNCHANGED table
  OBVIOUS
<1>0. TypeOK
  BY DEF TypeInv
<1>1. ASSUME NEW w \in Workers, Delete(w) PROVE Catalogue!Next
  <2>1. table' = [i \in Ids |-> IF i \in task[w].doomed THEN NoMesh
                                ELSE table[i]]
    BY <1>1, DeleteType
  <2>2. task[w].doomed \in SUBSET Ids
    BY <1>0 DEF TypeOK, Task
  <2>3. Catalogue!Remove(task[w].doomed)
    BY <2>1 DEF Catalogue!Remove
  <2> QED
    BY <2>2, <2>3 DEF Catalogue!Next
<1>2. ASSUME NEW w \in Workers, Create(w) PROVE Catalogue!Next
  <2>1. PICK i \in Ids, row \in Mesh :
          /\ NewId(i) /\ table' = [table EXCEPT ![i] = row]
          /\ row.by = "import" /\ row.json = task[w].json
          /\ row.md5 = FileDigest[row.json] /\ row.md5 = Record(w).md5
          /\ row.name = Record(w).file
          /\ row.created = Record(w).created /\ Record(w) \in Records
    BY <1>2, CreateType
  <2>2. Inserting(i, row)
    BY <2>1, NewIdFree DEF Inserting, DigestOf
  <2>3. task[w].pc = "create"
    BY <1>2, CreateType
  <2>4. \A k \in Ids : table[k].by = row.by => table[k].json # row.json
    BY <2>1, <2>3 DEF ImportInv, Creating
  <2>5. Catalogue!Listed(Record(w), row)
    BY <2>1 DEF Catalogue!Listed
  <2> QED
    BY <1>0, <2>1, <2>2, <2>4, <2>5, InsertingIsAdd
<1>3. ASSUME NEW c \in Commands, InsertCreate(c) PROVE Catalogue!Next
  <2>1. PICK i \in Ids, row \in Mesh :
          /\ NewId(i) /\ table' = [table EXCEPT ![i] = row]
          /\ row.by = "insert" /\ row.json = command[c][2]
          /\ row.md5 = TextDigest[row.json]
    BY <1>3, InsertCreateType
  <2>2. Inserting(i, row) /\ command[c] \in Files \X Contents
    BY <1>3, <2>1, NewIdFree, InsertCreateType DEF Inserting, DigestOf
  <2>3. \A k \in Ids : table[k].by = row.by => table[k].json # row.json
    BY <2>1, <2>2 DEF InsertInv
  <2> QED
    BY <1>0, <2>1, <2>2, <2>3, InsertingIsAdd
<1> QED
  BY <1>1, <1>2, <1>3, TakeType, LoadType, EndType, GetType, InsertGetType,
     OutsideType DEF Next, WorkerStep

\* When neither imports nor operators overlap, the Mesh table behaves as
\* MeshCatalogue promises (tasks.py:184-242, insert_mesh.py:29-64).
THEOREM IngestionImplementsCatalogue ==
    ASSUME ~Overlap, OneOperator PROVE Spec => ImplementsCatalogue
<1>1. Init => TypeInv /\ Digested /\ ImportInv /\ InsertInv
  BY InitType, InitDigested, InitImport, InitInsert
<1>2. TypeInv /\ Digested /\ ImportInv /\ InsertInv /\ [Next]_vars
        => (TypeInv /\ Digested /\ ImportInv /\ InsertInv)'
  BY NextType, NextDigested, NextImport, NextInsert
<1>3. Init => Catalogue!Init
  BY DEF Init, Catalogue!Init
<1> QED
  BY <1>1, <1>2, <1>3, NextCatalogue, PTL
     DEF Spec, ImplementsCatalogue, Catalogue!Spec

=============================================================================
