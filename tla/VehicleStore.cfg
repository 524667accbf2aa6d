SPECIFICATION Spec
CONSTANTS
    Null = Null
    Types = {sda}
    Fields = {"max_speed", "beam"}
    Required = {"max_speed"}
    Values = {1, 2}
    Posts = {p1, p2, p3}
    Deletes = {d1, d2}
SYMMETRY Symmetry
INVARIANTS
    TypeOK
    EachCreationCounts
PROPERTIES
    OnlyForcedFieldsChange
