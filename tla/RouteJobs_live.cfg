SPECIFICATION FairSpec
CONSTANTS
    None = None
    m1 = m1
    m2 = m2
    Meshes = {m1, m2}
    Routes = {r1}
    Tasks = {t1, t2}
    Posts = {p1}
    Cancels = {c1}
    Workers = {w1, w2}
    Trips <- MCTrips
    Box <- MCBox
    Day <- SameDay
    Dist <- Manhattan
    Tolerance = 2
    Bodies <- OneBody
    Stored <- OnlyM1
    PlanErrors = {"inaccessible", "odd"}
    Events = {"broker", "database", "invalid", "import", "malformed", "cleanup_meshes", "cleanup_routes"}
INVARIANTS
    PendingIsLive
    PathsMatchMesh
    NoMeshTwice
    RetryShortensBackups
PROPERTIES
    StatusIsFinal
    ImplementsLifecycle
    EveryTaskSettles
    EveryRequestIsAnswered
