-------------------------- MODULE RouteEvaluation --------------------------
(***************************************************************************)
(* POST /api/evaluate_route (EvaluateRouteView of route_api/views.py, with *)
(* select_mesh_for_route_evaluation and evaluate_route of utils.py): the   *)
(* travel time and fuel of a given route on a stored mesh, while meshes    *)
(* are imported and deleted in RouteJobs.                                  *)
(*                                                                         *)
(* The route is GeoJSON, so a position is <<longitude, latitude>>.  Of the *)
(* route only the set of its positions matters here, and of the evaluation *)
(* itself, which is PolarRoute's, whether it succeeds.                     *)
(***************************************************************************)
EXTENDS RouteJobs

CONSTANT Evaluations    \* [positions, custom_mesh_id] of the requests

ASSUME EvaluationsAssumption ==
    \A e \in Evaluations :
        /\ IsFiniteSet(e.positions) /\ e.positions # {}
        /\ e.positions \subseteq Int \X Int
        /\ e.custom_mesh_id \in Meshes \cup {None}

VARIABLE evaluation

EvaluationPc == {"away", "ready", "select", "evaluate", "done"}

EvaluationOK ==
    evaluation \in [pc : EvaluationPc, request : Evaluations \cup {None},
                    day : Nat \cup {None}, mesh : Meshes \cup {None},
                    code : Code \cup {200}, outcome : {None, "route", "error"}]

NewEvaluation(pc) ==
    [pc |-> pc, request |-> None, day |-> None, mesh |-> None,
     code |-> None, outcome |-> None]

----------------------------------------------------------------------------

Least(S) == CHOOSE x \in S : \A y \in S : x <= y
Greatest(S) == CHOOSE x \in S : \A y \in S : y <= x

\* A mutant: the first of the two corners twice.
OneCorner(positions) ==
    LET lats == {c[1] : c \in positions}
        lons == {c[2] : c \in positions}
    IN  [start |-> [lat |-> Least(lats), lon |-> Least(lons)],
         end |-> [lat |-> Least(lats), lon |-> Least(lons)]]

\* The corners of the route's bounding box, which select_mesh is given for
\* end points.  The code takes c[0] of a position for the latitude.
Corners(positions) ==
    LET lats == {c[1] : c \in positions}
        lons == {c[2] : c \in positions}
    IN  [start |-> [lat |-> Least(lats), lon |-> Least(lons)],
         end |-> [lat |-> Greatest(lats), lon |-> Greatest(lons)]]

Answered(code, outcome) ==
    evaluation' = [evaluation EXCEPT !.pc = "done", !.code = code,
                                     !.outcome = outcome]

\* A mutant: filter() in the place of get(), and meshes[0] raises.
EvaluateFindByFilter(request) ==
    /\ evaluation.pc = "ready"
    /\ LET custom == request.custom_mesh_id
       IN  /\ custom # None
           /\ evaluation' = [evaluation EXCEPT
                  !.pc = IF custom \in Live THEN "evaluate" ELSE "done",
                  !.code = IF custom \in Live THEN None ELSE 500,
                  !.request = request,
                  !.mesh = IF custom \in Live THEN custom ELSE None]
    /\ UNCHANGED vars

\* The custom mesh, or the date of the latest mesh that holds the corners.
EvaluateFind(request) ==
    /\ evaluation.pc = "ready"
    /\ LET custom == request.custom_mesh_id
           containing == Containing(Live, Corners(request.positions))
           asked == [evaluation EXCEPT !.request = request]
       IN  \/ /\ custom \in Live
              /\ evaluation' = [asked EXCEPT !.pc = "evaluate", !.mesh = custom]
           \/ /\ custom = None
              /\ \E m \in Latest(containing) :
                   evaluation' = [asked EXCEPT !.pc = "select", !.day = Day[m]]
           \/ /\ custom \in Meshes \ Live \/ (custom = None /\ containing = {})
              /\ evaluation' = [asked EXCEPT !.pc = "done", !.code = 404]
    /\ UNCHANGED vars

\* The meshes of that date.  Those found first may have been deleted, and
\* only None is tested for: meshes[0] of an empty list raises.
EvaluateSelect ==
    /\ evaluation.pc = "select"
    /\ \E meshes \in SelectMesh(Live, Corners(evaluation.request.positions),
                                evaluation.day) :
        \/ /\ meshes # <<>>
           /\ evaluation' = [evaluation EXCEPT !.pc = "evaluate",
                                               !.mesh = Head(meshes)]
        \/ meshes = <<>> /\ Answered(500, None)
    /\ UNCHANGED vars

\* Any exception of PolarRoute is answered 200 with an error message.
Evaluate ==
    /\ evaluation.pc = "evaluate"
    /\ Answered(200, "route") \/ Answered(200, "error")
    /\ UNCHANGED vars

EvaluationStep ==
    (\E request \in Evaluations : EvaluateFind(request))
      \/ EvaluateSelect \/ Evaluate

----------------------------------------------------------------------------
(* Safety *)

\* The mesh that was selected by the two corners of the route holds every
\* position between them too, read as the code reads it, even if the meshes
\* changed between the two queries (utils.py:215-219).
CornersAreEnough ==
    evaluation.mesh # None /\ evaluation.request.custom_mesh_id = None =>
        \A c \in evaluation.request.positions :
            ContainsPoint(evaluation.mesh, [lat |-> c[1], lon |-> c[2]])

\* An evaluation ends with an exception only when every mesh of the date it
\* had read was deleted before it asked again: a mesh_id that does not exist,
\* or is deleted at any moment, is answered otherwise (views.py:690-704).
EvaluationRaisesByDeletion ==
    evaluation.code = 500 =>
        LET request == evaluation.request
            found == {m \in Containing(Meshes, Corners(request.positions)) :
                        Day[m] = evaluation.day}
        IN  /\ request.custom_mesh_id = None
            /\ \E m \in found : mesh[m] = "deleted"

----------------------------------------------------------------------------
(* A claim *)

\* "The latest mesh containing all points in the route will be chosen"
\* (utils.py:205), of a GeoJSON route, whose positions are <<lon, lat>>.
EvaluatedOnItsMesh ==
    evaluation.code = 200 /\ evaluation.request.custom_mesh_id = None =>
        \A c \in evaluation.request.positions :
            ContainsPoint(evaluation.mesh, [lat |-> c[2], lon |-> c[1]])

=============================================================================
