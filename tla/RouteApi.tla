------------------------------ MODULE RouteApi ------------------------------
(***************************************************************************)
(* The whole of the route API: the requests, workers and clean-ups of      *)
(* RouteJobs, and beside them the demonstration client of RouteClient, a   *)
(* visitor who reads any job as in RouteViews, the administrator of        *)
(* RouteAdmin, or a route evaluation of RouteEvaluation.  They share the   *)
(* tables and the result backend.                                          *)
(***************************************************************************)
EXTENDS RouteClient, RouteEvaluation

CONSTANT Actors     \* who acts beside RouteJobs, a choice of these sets

ActorKinds == {"client", "visitor", "administrator", "evaluation"}

ASSUME ActorsAssumption == Actors \subseteq SUBSET ActorKinds

apiVars == <<system, admin, reader, client, evaluation>>

ApiInit ==
    /\ Init
    /\ \E actors \in Actors :
        LET Starts(who, pc) == IF who \in actors THEN pc ELSE "away"
        IN  /\ admin = NewAdmin(Starts("administrator", "ready"))
            /\ client = NewClient(Starts("client", "post"))
            /\ evaluation = NewEvaluation(Starts("evaluation", "ready"))
            /\ reader = NewReader(IF actors \cap {"client", "visitor"} = {}
                                  THEN "away" ELSE "ready")

ApiNext ==
    \/ Next /\ UNCHANGED <<admin, reader, client, evaluation>>
    \/ ClientStep /\ UNCHANGED evaluation
    \/ JobFields /\ UNCHANGED <<system, admin, client, evaluation>>
    \/ Visit /\ UNCHANGED <<system, admin, client, evaluation>>
    \/ AdminStep /\ UNCHANGED <<reader, client, evaluation>>
    \/ EvaluationStep /\ UNCHANGED <<admin, reader, client>>

ApiSpec == ApiInit /\ [][ApiNext]_apiVars

----------------------------------------------------------------------------
(* Types *)

ApiTypeOK == AdminOK /\ ReaderOK /\ ClientOK /\ EvaluationOK

=============================================================================
