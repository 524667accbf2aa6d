---------------------------- MODULE MCRouteJobs ----------------------------
(* RouteJobs and the claims about it, on the instance of MCInstance. *)
EXTENDS RouteClaims, MCInstance

Symmetry == Permutations(Routes) \cup Permutations(Tasks)
              \cup Permutations(Workers) \cup Permutations(Posts)

=============================================================================
