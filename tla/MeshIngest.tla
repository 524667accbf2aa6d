----------------------------- MODULE MeshIngest -----------------------------
(***************************************************************************)
(* How meshes enter and leave the database: the periodic tasks that celery *)
(* beat sends (settings/production.py), the Celery workers that run        *)
(* import_new_meshes and cleanup_meshes (route_api/tasks.py), the command  *)
(* insert_mesh, and the directory of files into which the pipeline writes  *)
(* while they read.                                                        *)
(*                                                                         *)
(* get_or_create is two statements, a SELECT and an INSERT, and nothing in *)
(* the table makes digests unique.  QuerySet.delete is two as well: it     *)
(* collects the rows before it deletes them.                               *)
(***************************************************************************)
EXTENDS Integers, Sequences, FiniteSets

CONSTANTS
    Files,          \* names of files in MESH_DIR
    VesselFiles,    \* those that match VESSEL_MESH_FILENAME_PATTERN
    Contents,       \* mesh documents
    FileDigest,     \* FileDigest[c]: md5 of c written with indent=4
    TextDigest,     \* TextDigest[c]: md5 of str(c)
    Publications,   \* the lists of records that the pipeline publishes
    Uploads,        \* Uploads[f]: what the file f may turn into
    Incomplete,     \* documents and records that lack a key or a date
    Ids,            \* ids of Mesh rows, numbers
    Workers,        \* Celery workers
    Commands,       \* shells in which an operator runs insert_mesh
    Casts,          \* who takes part in a behaviour and how many workers die
    Schedule,       \* names of the tasks that celery beat sends
    MaxAge,         \* settings.CLEANUP_MESHES_DAYS
    LastDay,        \* bound on the clock
    MaxInserted,    \* bound on the rows of insert_mesh
    Overlap,        \* whether an import may last until beat sends the next
    None

Records == UNION {{records[i] : i \in DOMAIN records} : records \in Publications}

Digests == {FileDigest[c] : c \in Contents} \cup {TextDigest[c] : c \in Contents}

\* Different documents have different digests, and str(c) is not JSON.
ASSUME DigestAssumption ==
    \A c, d \in Contents : /\ FileDigest[c] = FileDigest[d] => c = d
                           /\ TextDigest[c] = TextDigest[d] => c = d
                           /\ FileDigest[c] # TextDigest[d]

ASSUME PublicationsAssumption ==
    \A records \in Publications :
        records \in Seq([file : Files, md5 : Digests, created : Int])

ASSUME UploadsAssumption ==
    Uploads \in [Files -> SUBSET (Contents \cup {"unreadable", "broken"})]

ASSUME IncompleteAssumption == Incomplete \subseteq Contents \cup Records

ASSUME CastsAssumption ==
    Casts \subseteq [who : SUBSET (Workers \cup Commands), crashes : Nat]

ASSUME IdsAssumption == Ids \subseteq Int

ASSUME NoneAssumption ==
    /\ None \notin Files /\ None \notin Contents /\ None \notin Digests
    /\ None \notin Ids /\ None \notin Publications /\ None \notin BOOLEAN
    /\ None \notin Files \X Contents

ASSUME BoundsAssumption == LastDay \in Nat

VARIABLES
    disk,       \* disk[f]: a document, "unreadable" (or missing) or "broken"
    metadata,   \* the latest metadata file, or None if it cannot be read
    table,      \* the Mesh row of each id
    queue,      \* names of the tasks in the broker, oldest first
    task,       \* local state of each worker
    command,    \* the file and the document of each insert_mesh, None if it
                \* is not running, <<>> if nobody runs it in this behaviour
    today,      \* the clock
    crashes     \* how many workers may still die, a bound

vars == <<disk, metadata, table, queue, task, command, today, crashes>>
pipeline == <<disk, metadata>>
clock == <<today, crashes>>

----------------------------------------------------------------------------

DiskState == Contents \cup {"unreadable", "broken"}

\* `by` says who added the row; the table has no such column.
Mesh == [md5 : Digests, json : Contents, name : Files, created : Int,
         by : {"import", "insert"}]
NoMesh == [md5 |-> None, json |-> None, name |-> None, created |-> 0,
           by |-> "nobody"]

Report == [id : Ids, md5 : Digests, name : Files]

\* `created` is the Python variable: None if unbound, or what the last call of
\* get_or_create assigned.  So is `mesh`, by its id and its name.
Idle == [pc |-> "idle", records |-> <<>>, json |-> None, mesh |-> None,
         name |-> None, created |-> None, added |-> {}, doomed |-> {}]

Away == [Idle EXCEPT !.pc = "away"]

Flag == BOOLEAN \cup {None}

Task == [pc : {"away", "idle", "next", "get", "create", "delete"},
         records : Seq(Records), json : Contents \cup {None},
         mesh : Ids \cup {None}, name : Files \cup {None}, created : Flag,
         added : SUBSET Report, doomed : SUBSET Ids]

TypeOK ==
    /\ disk \in [Files -> DiskState]
    /\ metadata \in Publications \cup {None}
    /\ table \in [Ids -> Mesh \cup {NoMesh}]
    /\ queue \in Seq(Schedule)
    /\ task \in [Workers -> Task]
    /\ command \in [Commands -> {None, <<>>} \cup (Files \X Contents)]
    /\ today \in 0..LastDay
    /\ crashes \in Nat

Init ==
    /\ disk = [f \in Files |-> "unreadable"]
    /\ metadata = None
    /\ table = [i \in Ids |-> NoMesh]
    /\ queue = <<>>
    /\ \E cast \in Casts :
        /\ task = [w \in Workers |-> IF w \in cast.who THEN Idle ELSE Away]
        /\ command = [c \in Commands |-> IF c \in cast.who THEN None ELSE <<>>]
        /\ crashes = cast.crashes
    /\ today = 0

----------------------------------------------------------------------------
(* The pipeline, the administrator and the clock *)

\* Files are written in any order, replaced, and seen half written.
Upload(f) ==
    /\ \E state \in Uploads[f] : disk' = [disk EXCEPT ![f] = state]
    /\ UNCHANGED <<metadata, table, queue, task, command, clock>>

Publish ==
    /\ metadata' \in Publications \cup {None}
    /\ UNCHANGED <<disk, table, queue, task, command, clock>>

NextDay ==
    /\ today < LastDay
    /\ today' = today + 1
    /\ UNCHANGED <<pipeline, table, queue, task, command, crashes>>

----------------------------------------------------------------------------
(* Celery beat and the tasks that workers know *)

\* Two equal tasks in the queue do what one does.
Beat(name) ==
    /\ \A k \in DOMAIN queue : queue[k] # name
    /\ queue' = Append(queue, name)
    /\ UNCHANGED <<pipeline, table, task, command, clock>>

ImportTask == "polarrouteserver.route_api.tasks.import_new_meshes"
CleanupTask == "polarrouteserver.route_api.tasks.cleanup_meshes"
Registered == {ImportTask, CleanupTask}

\* What settings.production schedules.
ProductionSchedule == {ImportTask, "cleanup_meshes"}

Old == {i \in Ids : table[i] # NoMesh /\ table[i].created < today - MaxAge}

Importing == {w \in Workers : task[w].pc \in {"next", "get", "create"}}

Become(w, state) == task' = [task EXCEPT ![w] = state]

\* A worker takes the oldest task.  It discards a name that it does not know;
\* an import without a metadata file raises; a clean-up collects the old rows
\* that an administrator has not protected.
Take(w) ==
    /\ task[w] = Idle
    /\ queue # <<>>
    /\ queue' = Tail(queue)
    /\ Head(queue) = ImportTask /\ ~Overlap => Importing = {}
    /\ LET name == Head(queue)
       IN  \/ /\ name = ImportTask /\ metadata # None
              /\ Become(w, [Idle EXCEPT !.pc = "next", !.records = metadata])
           \/ /\ name = CleanupTask
              /\ \E doomed \in SUBSET Old :
                    Become(w, [Idle EXCEPT !.pc = "delete", !.doomed = doomed])
           \/ /\ \/ name = ImportTask /\ metadata = None
                 \/ name \notin Registered
              /\ Become(w, Idle)
    /\ UNCHANGED <<pipeline, table, command, clock>>

Delete(w) ==
    /\ task[w].pc = "delete"
    /\ table' = [i \in Ids |-> IF i \in task[w].doomed THEN NoMesh ELSE table[i]]
    /\ Become(w, Idle)
    /\ UNCHANGED <<pipeline, queue, command, clock>>

----------------------------------------------------------------------------
(* import_new_meshes *)

Record(w) == Head(task[w].records)

\* A mutant: break instead of continue.
SkipAll(w) == [task[w] EXCEPT !.pc = "next", !.records = <<>>, !.json = None]

\* The local state with which the loop goes on to the next record.
Skip(w) == [task[w] EXCEPT !.pc = "next", !.records = Tail(@), !.json = None]

\* A mutant: no cross reference of the digests.
UncheckedMatch(json, record) == json \in Contents

\* The file holds the document that the metadata describes.
Matches(json, record) == json \in Contents /\ FileDigest[json] = record.md5

\* Each record is read, checked and inserted before the next one is read.  A
\* half written file raises out of the task, whatever comes after it.
Load(w) ==
    /\ task[w].pc = "next" /\ task[w].records # <<>>
    /\ LET json == disk[Record(w).file]
           vessel == Record(w).file \in VesselFiles
       IN  \/ /\ vessel /\ Matches(json, Record(w))
              /\ Become(w, [task[w] EXCEPT !.pc = "get", !.json = json])
           \/ /\ ~vessel \/ (json # "broken" /\ ~Matches(json, Record(w)))
              /\ Become(w, Skip(w))
           \/ /\ vessel /\ json = "broken"
              /\ Become(w, Idle)
    /\ UNCHANGED <<pipeline, table, queue, command, clock>>

EndImport(w) ==
    /\ task[w].pc = "next" /\ task[w].records = <<>>
    /\ Become(w, Idle)
    /\ UNCHANGED <<pipeline, table, queue, command, clock>>

WithDigest(md5) == {i \in Ids : table[i].md5 = md5}

\* meshes_added gets the mesh variable's id and name, and the record's md5.
Reported(w, i, name) ==
    [Skip(w) EXCEPT !.mesh = i, !.name = name, !.created = TRUE,
        !.added = @ \cup {[id |-> i, md5 |-> Record(w).md5, name |-> name]}]

\* MultipleObjectsReturned is logged, and `if created` reads the variable of
\* an earlier record, or none: then UnboundLocalError ends the task.
AfterSeveral(w) ==
    CASE task[w].created = None -> Idle
      [] task[w].created = TRUE -> Reported(w, task[w].mesh, task[w].name)
      [] task[w].created = FALSE -> Skip(w)

\* What the defaults of get_or_create are read from has every key and date.
Complete(json, record) == {json, record} \cap Incomplete = {}

\* The SELECT of get_or_create.  Its defaults are evaluated first, also for a
\* mesh that has a row: a missing key or a bad date raises out of the task.
Get(w) ==
    /\ task[w].pc = "get"
    /\ LET found == WithDigest(FileDigest[task[w].json])
           complete == Complete(task[w].json, Record(w))
       IN  \/ ~complete /\ Become(w, Idle)
           \/ /\ complete
              /\ CASE found = {} -> Become(w, [task[w] EXCEPT !.pc = "create"])
                   [] Cardinality(found) > 1 -> Become(w, AfterSeveral(w))
                   [] OTHER -> \E i \in found :
                        Become(w, [Skip(w) EXCEPT !.mesh = i, !.created = FALSE,
                                                  !.name = table[i].name])
    /\ UNCHANGED <<pipeline, table, queue, command, clock>>

\* Rows have the smallest ids that no row has and no task refers to: which
\* number the database would give them makes no difference.
Unused == {i \in Ids : /\ table[i] = NoMesh
                       /\ \A w \in Workers :
                            /\ task[w].mesh # i /\ i \notin task[w].doomed
                            /\ \A report \in task[w].added : report.id # i}

NewId(i) == i \in Unused /\ \A k \in Unused : i <= k

\* A mutant: a row without its date.
UndatedMesh(md5, json, name, created, by) ==
    [md5 |-> md5, json |-> json, name |-> name, created |-> None, by |-> by]

NewMesh(md5, json, name, created, by) ==
    [md5 |-> md5, json |-> json, name |-> name, created |-> created, by |-> by]

\* The INSERT of get_or_create.
Create(w) ==
    /\ task[w].pc = "create"
    /\ \E i \in Ids :
        /\ NewId(i)
        /\ table' = [table EXCEPT ![i] =
              NewMesh(FileDigest[task[w].json], task[w].json, Record(w).file,
                      Record(w).created, "import")]
        /\ Become(w, Reported(w, i, Record(w).file))
    /\ UNCHANGED <<pipeline, queue, command, clock>>

WorkerCrash(w) ==
    /\ crashes > 0
    /\ task[w].pc \notin {"away", "idle"}
    /\ crashes' = crashes - 1
    /\ Become(w, Idle)
    /\ UNCHANGED <<pipeline, table, queue, command, today>>

WorkerStep(w) ==
    Take(w) \/ Delete(w) \/ Load(w) \/ EndImport(w) \/ Get(w) \/ Create(w)

----------------------------------------------------------------------------
(* The command insert_mesh, for one file *)

\* The command reads the file and queries the digest.  A document that lacks
\* a key, or a row with the digest, ends the command; two rows end it with an
\* exception, from stderr.write.
InsertGet(c) ==
    /\ command[c] = None
    /\ Cardinality({i \in Ids : table[i].by = "insert"}) < MaxInserted
    /\ \E f \in Files :
        /\ disk[f] \in Contents \ Incomplete
        /\ WithDigest(TextDigest[disk[f]]) = {}
        /\ command' = [command EXCEPT ![c] = <<f, disk[f]>>]
    /\ UNCHANGED <<pipeline, table, queue, task, clock>>

InsertCreate(c) ==
    /\ command[c] \in Files \X Contents
    /\ LET f == command[c][1]
           json == command[c][2]
       IN  \E i \in Ids :
              /\ NewId(i)
              /\ table' = [table EXCEPT ![i] =
                    NewMesh(TextDigest[json], json, f, today, "insert")]
    /\ command' = [command EXCEPT ![c] = None]
    /\ UNCHANGED <<pipeline, queue, task, clock>>

----------------------------------------------------------------------------

Next ==
    \/ \E f \in Files : Upload(f)
    \/ Publish \/ NextDay
    \/ \E name \in Schedule : Beat(name)
    \/ \E w \in Workers : WorkerStep(w) \/ WorkerCrash(w)
    \/ \E c \in Commands : InsertGet(c) \/ InsertCreate(c)

Spec == Init /\ [][Next]_vars

\* Beat and the workers keep running; nobody else has to do anything.
Fairness ==
    /\ \A name \in Schedule : WF_vars(Beat(name))
    /\ \A w \in Workers : WF_vars(WorkerStep(w))

FairSpec == Spec /\ Fairness

----------------------------------------------------------------------------
(* Properties *)

\* The Mesh table behaves as MeshCatalogue promises while the pipeline writes
\* files under the import and one import runs at a time: each row holds the
\* very document that its digest and the metadata describe (tasks.py:184-242).
Catalogue == INSTANCE MeshCatalogue WITH
    Meshes <- {row \in Mesh : row.md5 = IF row.by = "import"
                                        THEN FileDigest[row.json]
                                        ELSE TextDigest[row.json]}

ImplementsCatalogue == Catalogue!Spec

\* What an import reports is what it did: each reported id is the row of the
\* reported digest and name, or was deleted since (tasks.py:249-255).
ReportIsTrue ==
    \A w \in Workers : \A report \in task[w].added :
        LET row == table[report.id]
        IN  row # NoMesh => row.md5 = report.md5 /\ row.name = report.name

\* A record for which no import ends before its time.
Passes(record) ==
    record.file \in VesselFiles =>
        /\ disk[record.file] # "broken"
        /\ Matches(disk[record.file], record)
             => Complete(disk[record.file], record)

\* A record that stays in the metadata with its file in place, and with no
\* half written file and no document without keys or dates before it, is in the
\* table again and again, whatever the pipeline does to other files and whatever
\* clean-ups delete: the beat repeats the import (tasks.py:169-257,
\* production.py:26-29).
Ready(records, k) ==
    /\ records[k].file \in VesselFiles
    /\ Matches(disk[records[k].file], records[k])
    /\ \A j \in 1..k : Passes(records[j])

ReadyMeshIsIngested ==
    \A records \in Publications : \A k \in DOMAIN records :
        <>[](metadata = records /\ Ready(records, k))
          => []<>(WithDigest(records[k].md5) # {})

----------------------------------------------------------------------------
(* What the documentation says and the code does not do *)

\* "only meshes which are not already in the database (determined using their
\* md5 hash) are ingested" (docs/how-polarroute-server-works.md:37): no two
\* rows have one digest.  Two imports that overlap insert a mesh twice.
OneRowPerDigest == \A d \in Digests : Cardinality(WithDigest(d)) <= 1

\* "Only meshes which are not present in the database will be inserted.
\* Uniqueness is based on the md5 hash of the unzipped vessel mesh file"
\* (docs/deployment.md:64).  The command hashes str() of the document and the
\* import its indented JSON (insert_mesh.py:31, tasks.py:206): neither finds
\* the row of the other.
InsertsOnlyNewMeshes ==
    [][\A c \in Commands : \A i \in Ids :
         command[c] = None /\ command'[c] \in Files \X Contents
           => table[i].json # command'[c][2]]_vars

\* "Mesh cleanup, runs once per day by default, at 03:00UTC"
\* (docs/configuration.md:41): with the schedule of settings.production,
\* cleanup_meshes runs again and again.
CleanupRuns == []<>(\E w \in Workers : task[w].pc = "delete")

=============================================================================
