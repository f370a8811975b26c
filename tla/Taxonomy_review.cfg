SPECIFICATION Spec
CONSTANTS
    t1 = t1
    o1 = o1
    k1 = k1
    k2 = k2
    x1 = x1
    c1 = c1
    c2 = c2
    a = a
    TypeIds = {t1}
    OrganizationIds = {o1}
    CompetencyIds = {k1, k2}
    Names <- OneName
    Creds = {x1}
    Calls = {c1, c2}
SYMMETRY Symmetry
INVARIANTS  LinksAreApproved
PROPERTIES ReviewIsFinal
