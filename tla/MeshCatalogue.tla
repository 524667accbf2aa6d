---------------------------- MODULE MeshCatalogue ----------------------------
(***************************************************************************)
(* What mesh ingestion promises about the Mesh table, without files, tasks *)
(* or queues.  A mesh that is added is a verified document which the table *)
(* does not hold yet under the same digest.  Once added, it never changes  *)
(* until it is removed.                                                    *)
(***************************************************************************)

CONSTANTS
    Ids,        \* ids of Mesh rows
    NoMesh,     \* the content of an id without a row
    Meshes,     \* what a row may hold: documents with a digest of theirs
    Records     \* the metadata that the pipeline may have published

VARIABLE table  \* the row of each id

Init == table = [i \in Ids |-> NoMesh]

\* `entry` is the metadata that the new mesh is listed in.
Listed(entry, row) == /\ row.md5 = entry.md5 /\ row.name = entry.file
                      /\ row.created = entry.created

Add(i) ==
    /\ table[i] = NoMesh
    /\ table'[i] \in Meshes
    /\ \A k \in Ids : table[k].md5 # table'[i].md5
    /\ table'[i].by = "import" => \E entry \in Records : Listed(entry, table'[i])
    /\ table' = [table EXCEPT ![i] = table'[i]]

Remove(S) == table' = [i \in Ids |-> IF i \in S THEN NoMesh ELSE table[i]]

Next == \/ \E i \in Ids : Add(i)
        \/ \E S \in SUBSET Ids : Remove(S)

Spec == Init /\ [][Next]_table

=============================================================================
