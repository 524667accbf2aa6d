----------------------------- MODULE MCInstance -----------------------------
(***************************************************************************)
(* The geography of the model-checked instances.  Mesh m1 is small and     *)
(* holds the trips Near and Nearby; m2 is larger, wider than high, and     *)
(* holds Far as well.  Near and Nearby are within tolerance of each other. *)
(***************************************************************************)
EXTENDS RouteLookup, TLC

CONSTANTS m1, m2

Point(lat, lon) == [lat |-> lat, lon |-> lon]
Near == [start |-> Point(0, 0), end |-> Point(3, 3)]
Nearby == [start |-> Point(0, 1), end |-> Point(3, 3)]
Far == [start |-> Point(0, 0), end |-> Point(8, 8)]
MCTrips == {Near, Nearby, Far}

Rectangle(lat, lon) == [lat_min |-> 0, lat_max |-> lat,
                        lon_min |-> 0, lon_max |-> lon]
MCBox == m1 :> Rectangle(4, 4) @@ m2 :> Rectangle(9, 20)
SameDay == m1 :> 1 @@ m2 :> 1
NewerBig == m1 :> 1 @@ m2 :> 2

\* Any metric will do; the tolerance of the runs is two units.
Manhattan(a, b) == Magnitude(a.lat - b.lat) + Magnitude(a.lon - b.lon)

Body(trip, mesh_id, force) ==
    [trip |-> trip, mesh_id |-> mesh_id, force_new_route |-> force]

OneBody == {Body(Near, None, FALSE)}
NearBodies == {Body(Near, None, FALSE), Body(Nearby, None, FALSE)}
MixedBodies ==
    {Body(Near, None, TRUE), Body(Nearby, None, FALSE), Body(Far, m2, FALSE)}

AllMeshes == Meshes
OnlyM1 == {m1}

=============================================================================
