---------------------------- MODULE RouteLookup ----------------------------
(***************************************************************************)
(* How a route request is matched with the meshes and the routes that the  *)
(* database already holds: select_mesh, route_exists and                   *)
(* _closest_route_in_tolerance of route_api/utils.py, and the model        *)
(* properties they read (Mesh.size, Job.status).                           *)
(*                                                                         *)
(* The module has no state.  Table contents are parameters: `live` is the  *)
(* set of Mesh rows, `route` and `jobs` are the Route and Job tables, and  *)
(* `result` holds the Celery state of every task.  A query without an      *)
(* ORDER BY may answer in any order, so a function of the code that takes  *)
(* "the first" of such rows is the SET of answers it may give, and None is *)
(* the empty set.                                                          *)
(***************************************************************************)
EXTENDS Integers, Sequences, FiniteSets

CONSTANTS
    Meshes,         \* ids of Mesh rows
    Routes,         \* ids of Route rows
    Tasks,          \* ids of Celery tasks; a Job row has the id of its task
    Trips,          \* requested trips: [start |-> point, end |-> point]
    Box,            \* Box[m]: lat_min, lat_max, lon_min, lon_max of a mesh
    Day,            \* Day[m]: the date part of Mesh.created
    Dist(_, _),     \* haversine distance of two points
    Tolerance,      \* settings.WAYPOINT_DISTANCE_TOLERANCE
    None

Points == {trip.start : trip \in Trips} \cup {trip.end : trip \in Trips}

ASSUME GeometryAssumption ==
    /\ Box \in [Meshes -> [lat_min : Int, lat_max : Int,
                           lon_min : Int, lon_max : Int]]
    /\ Day \in [Meshes -> Nat]
    /\ \A trip \in Trips : /\ trip.start.lat \in Int /\ trip.start.lon \in Int
                           /\ trip.end.lat \in Int /\ trip.end.lon \in Int
    /\ \A a, b \in Points : Dist(a, b) \in Nat
    /\ Tolerance \in Nat

ASSUME MeshesAssumption == IsFiniteSet(Meshes)

ASSUME NoneAssumption ==
    None \notin Meshes \cup Routes \cup Tasks \cup Trips \cup Nat

----------------------------------------------------------------------------
(* Mesh selection *)

Magnitude(x) == IF x < 0 THEN -x ELSE x

Size(m) == Magnitude(Box[m].lat_max - Box[m].lat_min)
             * Magnitude(Box[m].lon_max - Box[m].lon_min)

ContainsPoint(m, p) ==
    /\ Box[m].lat_min <= p.lat /\ p.lat <= Box[m].lat_max
    /\ Box[m].lon_min <= p.lon /\ p.lon <= Box[m].lon_max

\* The first query of select_mesh: meshes with both end points inside.
Containing(live, trip) ==
    {m \in live : ContainsPoint(m, trip.start) /\ ContainsPoint(m, trip.end)}

\* containing_meshes.latest("created"), of which only the date is used.
Latest(S) == {m \in S : \A other \in S : Day[other] <= Day[m]}

\* sorted(valid_meshes, key=size): equal sizes keep the order of the query,
\* which is any order.
SortedBySize(S) ==
    {s \in [1..Cardinality(S) -> S] :
        \A i, j \in 1..Cardinality(S) :
            i < j => s[i] # s[j] /\ Size(s[i]) <= Size(s[j])}

\* The candidate lists of select_mesh once the latest date is known.
SelectMesh(live, trip, day) ==
    SortedBySize({m \in Containing(live, trip) : Day[m] = day})

----------------------------------------------------------------------------
(* Finding a stored route *)

OnMesh(route, m) ==
    {r \in Routes : route[r].state = "stored" /\ route[r].row.mesh = m}

JobSet(jobs, r) == {t \in Tasks : jobs[t].route = r}

\* route_exists calls a route successful when some job of it has not failed.
Successful(route, jobs, result, m) ==
    {r \in OnMesh(route, m) :
        \E t \in JobSet(jobs, r) : result[t] # "FAILURE"}

InTolerance(trip, other) ==
    /\ Dist(trip.start, other.start) < Tolerance
    /\ Dist(trip.end, other.end) < Tolerance

CumulativeDistance(trip, other) ==
    Dist(trip.start, other.start) + Dist(trip.end, other.end)

\* A mutant: the closest route, however far.
ClosestOfAll(route, S, trip) ==
    {r \in S : \A q \in S :
        CumulativeDistance(trip, route[r].row.trip)
          <= CumulativeDistance(trip, route[q].row.trip)}

ClosestInTolerance(route, S, trip) ==
    LET near == {r \in S : InTolerance(trip, route[r].row.trip)}
    IN  {r \in near : \A q \in near :
            CumulativeDistance(trip, route[r].row.trip)
              <= CumulativeDistance(trip, route[q].row.trip)}

\* What the first mesh with a successful route answers; the meshes after it
\* are never looked at.
MatchOnMesh(route, jobs, result, m, trip) ==
    LET exact == {r \in Successful(route, jobs, result, m) :
                    route[r].row.trip = trip}
    IN  IF exact # {} THEN exact
        ELSE ClosestInTolerance(route, OnMesh(route, m), trip)

RouteExists(route, jobs, result, meshes, trip) ==
    LET deciding == {i \in DOMAIN meshes :
                        Successful(route, jobs, result, meshes[i]) # {}}
        first == CHOOSE i \in deciding : \A k \in deciding : i <= k
    IN  IF deciding = {} THEN {}
        ELSE MatchOnMesh(route, jobs, result, meshes[first], trip)

=============================================================================
