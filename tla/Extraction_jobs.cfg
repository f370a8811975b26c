CONSTANTS
    Creds = {c1}
    Requests = {r1, r2}
    Jobs = {j1, j2, j3}
    MaxAttempts = 2
    MaxBatch = 1
    Faults = {"enqueue", "commit"}
SPECIFICATION FairSpec
INVARIANTS PendingIsBacked
PROPERTIES ExtractionEnds
