SPECIFICATION ApiSpec
CONSTANTS
    None = None
    m1 = m1
    m2 = m2
    Meshes = {m1, m2}
    Routes = {r1}
    Tasks = {t1, t2}
    Posts = {p1}
    Cancels = {c1}
    Workers = {w1}
    Trips <- MCTrips
    Box <- MCBox
    Day <- SameDay
    Dist <- Manhattan
    Tolerance = 2
    Bodies <- OneBody
    Stored <- AllMeshes
    PlanErrors = {"inaccessible", "error", "odd"}
    Events = {"crash", "expire", "backend", "cleanup_meshes", "cleanup_routes"}
    Evaluations <- MCEvaluations
    NumRequests = 1
    Actors = {{"client"}, {"visitor"}, {"administrator"}, {"evaluation"}}
SYMMETRY Symmetry
INVARIANTS
    ApiTypeOK
    UrlLeadsToPaths
    FinalStatusIsBorneOut
    RecentSuccessIsNoFailure
    ClientRaisesWithoutJob
    SuccessKeepsPaths
    CornersAreEnough
    EvaluationRaisesByDeletion
PROPERTIES
    RecentFailureIsFinal
