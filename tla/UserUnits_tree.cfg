SPECIFICATION Spec
CONSTANTS
    x1 = x1
    c1 = c1
    c2 = c2
    MaxUnits = 3
    Users = {x1}
    Calls = {c1, c2}
    Clerks = {c2}
    Editors = {c1}
    Movers = {c1}
INVARIANTS TypeOK ReferencesExist Acyclic InactiveCovers SearchIsWhole
