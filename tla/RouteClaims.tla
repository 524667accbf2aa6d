---------------------------- MODULE RouteClaims ----------------------------
(***************************************************************************)
(* What the documentation, the comments and the messages of PolarRoute-    *)
(* server say of the route jobs, where RouteJobs shows that the code does  *)
(* something else.  Each is checked alone, and TLC finds a behaviour that  *)
(* contradicts it.                                                         *)
(***************************************************************************)
EXTENDS RouteJobs

\* "Job ... cancellation requested and route ... deleted" (views.py:774): a
\* DELETE that was answered leaves no route behind.  The worker that holds
\* the task inserts the row again with its next save().
CancelIsFinal ==
    \A c \in Cancels :
        cancel[c].code = 202 => route[cancel[c].route].state = "deleted"

\* "if there is already an existing route which was successful, this is
\* returned" (docs/how-polarroute-server-works.md:49) and "remove any failed
\* routes" (utils.py:71): a route whose jobs have all failed is not reused.
\* The search in tolerance is made over all the routes of the mesh.
ReusedRouteHasNotFailed ==
    [][\A p \in Posts :
         LET found == JobSet(jobs, post'[p].route)
         IN  post[p].pc = "lookup" /\ post'[p].pc = "reuse" /\ found # {} =>
                \E t \in found : result[t] # "FAILURE"]_vars

=============================================================================
