SPECIFICATION ApiSpec
CONSTANTS
    None = None
    m1 = m1
    m2 = m2
    Meshes = {m1, m2}
    Routes = {r1}
    Tasks = {t1}
    Posts = {p1}
    Cancels = {}
    Workers = {w1}
    Trips <- MCTrips
    Box <- MCBox
    Day <- SameDay
    Dist <- Manhattan
    Tolerance = 2
    Bodies <- OneBody
    Stored <- AllMeshes
    PlanErrors = {}
    Events = {}
    Evaluations <- MCEvaluations
    NumRequests = 0
    Actors = {{"evaluation"}}
SYMMETRY Symmetry
INVARIANTS
    EvaluatedOnItsMesh
