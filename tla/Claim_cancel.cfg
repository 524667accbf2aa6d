SPECIFICATION Spec
CONSTANTS
    None = None
    m1 = m1
    m2 = m2
    Meshes = {m1, m2}
    Routes = {r1}
    Tasks = {t1}
    Posts = {p1}
    Cancels = {c1}
    Workers = {w1}
    Trips <- MCTrips
    Box <- MCBox
    Day <- SameDay
    Dist <- Manhattan
    Tolerance = 2
    Bodies <- OneBody
    Stored <- OnlyM1
    PlanErrors = {}
    Events = {}
SYMMETRY Symmetry
INVARIANTS
    CancelIsFinal
