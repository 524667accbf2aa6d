SPECIFICATION ApiSpec
CONSTANTS
    None = None
    m1 = m1
    m2 = m2
    Meshes = {m1, m2}
    Routes = {r1, r2}
    Tasks = {t1, t2}
    Posts = {p1, p2}
    Cancels = {}
    Workers = {w1}
    Trips <- MCTrips
    Box <- MCBox
    Day <- NewerBig
    Dist <- Manhattan
    Tolerance = 2
    Bodies <- MixedBodies
    Stored <- OnlyM1
    PlanErrors = {"error"}
    Events = {"import", "cleanup_meshes"}
    Evaluations <- MCEvaluations
    NumRequests = 0
    Actors = {{"client"}}
SYMMETRY Symmetry
INVARIANTS
    ClientGetsItsRoute
PROPERTIES
    ReuseIsNear
