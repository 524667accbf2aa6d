--------------------------- MODULE RouteLifecycle ---------------------------
(***************************************************************************)
(* What the route jobs promise about each row of the Route table, without  *)
(* threads, tasks or retries.  A route is being worked on from its         *)
(* creation until it is settled.  While it is worked on its row may be     *)
(* rewritten and, if it was deleted, come back; publishing a calculated    *)
(* row settles it.  A settled route is immutable: it can only be deleted   *)
(* for good or lose the reference to its mesh.                             *)
(***************************************************************************)

CONSTANTS
    Routes,     \* ids of Route rows
    Meshes,     \* ids of Mesh rows
    Row,        \* possible rows
    NoRow,      \* the content of a row that is not stored
    None

VARIABLES
    phase,      \* "new", "working" or "settled" for each route
    route       \* [state, row] for each route

vars == <<phase, route>>

Init ==
    /\ phase = [r \in Routes |-> "new"]
    /\ route = [r \in Routes |-> [state |-> "unborn", row |-> NoRow]]

\* Only the row of r changes, and it is stored afterwards.
Writes(r) ==
    /\ route' = [route EXCEPT ![r] = [state |-> "stored", row |-> route'[r].row]]
    /\ route'[r].row \in Row

Request(r) ==
    /\ phase[r] = "new"
    /\ Writes(r)
    /\ phase' = [phase EXCEPT ![r] = "working"]

Rewrite(r) ==
    /\ phase[r] = "working"
    /\ Writes(r)
    /\ ~route'[r].row.calculated
    /\ UNCHANGED phase

Settle(r) ==
    /\ phase[r] = "working"
    /\ Writes(r) \/ UNCHANGED route
    /\ phase' = [phase EXCEPT ![r] = "settled"]

Delete(r) ==
    /\ route[r].state = "stored"
    /\ route' = [route EXCEPT ![r] = [state |-> "deleted", row |-> NoRow]]
    /\ UNCHANGED phase

DropMesh(m) ==
    /\ route' = [r \in Routes |-> IF route[r].row.mesh = m
                                  THEN [route[r] EXCEPT !.row.mesh = None]
                                  ELSE route[r]]
    /\ UNCHANGED phase

Next ==
    \/ \E r \in Routes : Request(r) \/ Rewrite(r) \/ Settle(r) \/ Delete(r)
    \/ \E m \in Meshes : DropMesh(m)

Spec == Init /\ [][Next]_vars

=============================================================================
