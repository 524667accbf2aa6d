----------------------------- MODULE MCRouteApi -----------------------------
(* RouteApi, and the modules it composes, on the instance of MCInstance. *)
EXTENDS RouteApi, MCInstance

Evaluation(positions, mesh_id) ==
    [positions |-> positions, custom_mesh_id |-> mesh_id]

\* Read as <<lat, lon>>, the positions of the first route are all in m2 only,
\* the second begins in m1 and leaves it, the third stays in m1.
MCEvaluations == {Evaluation({<<5, 12>>, <<7, 14>>, <<6, 19>>}, None),
                  Evaluation({<<1, 4>>, <<2, 1>>, <<6, 2>>}, None),
                  Evaluation({<<1, 1>>, <<2, 3>>}, None),
                  Evaluation({<<1, 1>>, <<2, 3>>}, m1)}

Symmetry == Permutations(Routes) \cup Permutations(Tasks)
              \cup Permutations(Workers) \cup Permutations(Posts)

=============================================================================
