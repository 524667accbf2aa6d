SPECIFICATION Spec
CONSTANTS
    None = None
    a = a
    b = b
    Files = {"f", "g"}
    VesselFiles = {"f", "g"}
    Contents = {a, b}
    FileDigest <- MCFileDigest
    TextDigest <- MCTextDigest
    Publications <- MCPublications
    Uploads <- MCUploads
    Incomplete <- MCIncomplete
    Ids = {1, 2, 3}
    Workers = {w1}
    Commands = {c1}
    Casts <- Operator
    Schedule <- Imports
    MaxAge = 0
    LastDay = 0
    MaxInserted = 1
    Overlap = FALSE
PROPERTIES
    InsertsOnlyNewMeshes
