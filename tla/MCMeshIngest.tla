---------------------------- MODULE MCMeshIngest ----------------------------
(***************************************************************************)
(* MeshIngest on two files, two documents and a metadata file: it lists    *)
(* both documents, and before them a record without its date, in which the *)
(* name of the first file has been taken over by the second document.      *)
(***************************************************************************)
EXTENDS MeshIngest, TLC

CONSTANTS a, b

MCFileDigest == a :> "file a" @@ b :> "file b"
MCTextDigest == a :> "text a" @@ b :> "text b"

Entry(file, json, created) ==
    [file |-> file, md5 |-> MCFileDigest[json], created |-> created]

Undated == Entry("f", b, 1)
MCPublications == {<<Undated, Entry("f", a, 0), Entry("g", b, 0)>>}
MCIncomplete == {Undated}
MCUploads == "f" :> {a, b, "broken"} @@ "g" :> {b}

\* Two workers, or an operator beside one worker that may die.
Cast(who, deaths) == [who |-> who, crashes |-> deaths]
Workforce == {Cast(Workers, 0)}
Operator == {Cast(Commands \cup {CHOOSE w \in Workers : TRUE}, 1)}
PairOrOperator == Workforce \cup Operator

FullNames == {ImportTask, CleanupTask}
Imports == {ImportTask}

=============================================================================
