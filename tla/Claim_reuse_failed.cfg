SPECIFICATION Spec
CONSTANTS
    None = None
    m1 = m1
    m2 = m2
    Meshes = {m1, m2}
    Routes = {r1, r2, r3}
    Tasks = {t1, t2, t3}
    Posts = {p1, p2, p3}
    Cancels = {}
    Workers = {w1}
    Trips <- MCTrips
    Box <- MCBox
    Day <- SameDay
    Dist <- Manhattan
    Tolerance = 2
    Bodies <- NearBodies
    Stored <- OnlyM1
    PlanErrors = {"error"}
    Events = {}
SYMMETRY Symmetry
PROPERTIES
    ReusedRouteHasNotFailed
