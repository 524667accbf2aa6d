SPECIFICATION Spec
CONSTANTS
    None = None
    m1 = m1
    m2 = m2
    Meshes = {m1, m2}
    Routes = {r1, r2}
    Tasks = {t1, t2, t3}
    Posts = {p1, p2}
    Cancels = {c1}
    Workers = {w1, w2}
    Trips <- MCTrips
    Box <- MCBox
    Day <- SameDay
    Dist <- Manhattan
    Tolerance = 2
    Bodies <- OneBody
    Stored <- AllMeshes
    PlanErrors = {"inaccessible", "error"}
    Events = {"crash", "kill", "backend", "expire"}
SYMMETRY Symmetry
INVARIANTS
    TypeOK
    OneWriter
    SuccessIsCalculated
    CancelledJobIsGone
    QueuedRowTakesNotes
    CalculatedIsComplete
PROPERTIES
    OnlyWritersRevive
    ImplementsLifecycle
