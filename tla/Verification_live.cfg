CONSTANTS
    c1 = c1
    c2 = c2
    f1 = f1
    f2 = f2
    Creds = {c1, c2}
    Files = {f1, f2}
    FileOf <- SameFile
    Seeded = {c1}
    Calls = {v1}
    AiVerdicts = {"authentic", "not_similar"}
    None = None
SPECIFICATION Spec
INVARIANTS AuthenticWasValid RegisteredIsExact WarningHasCause
