CONSTANTS
    Users = {x1, x2}
    Emails = {e1, e2, e3}
    Calls = {c1, c2}
    MaxTokens = 3
    None = None
SPECIFICATION Spec
SYMMETRY Symmetry
INVARIANTS OneSession SignOutHolds SessionsMatchEmail
