SPECIFICATION FairSpec
CONSTANTS
    None = None
    a = a
    b = b
    Files = {"f", "g"}
    VesselFiles = {"f", "g"}
    Contents = {a, b}
    FileDigest <- MCFileDigest
    TextDigest <- MCTextDigest
    Publications <- MCPublications
    Uploads <- MCUploads
    Incomplete <- MCIncomplete
    Ids = {1, 2, 3}
    Workers = {w1}
    Commands = {}
    Casts <- Workforce
    Schedule <- ProductionSchedule
    MaxAge = 0
    LastDay = 1
    MaxInserted = 1
    Overlap = FALSE
PROPERTIES
    CleanupRuns
