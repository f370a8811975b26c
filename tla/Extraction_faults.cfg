CONSTANTS
    Creds = {c1, c2}
    Requests = {r1}
    Jobs = {j1, j2, j3}
    MaxAttempts = 2
    MaxBatch = 2
    Faults = {"enqueue", "commit", "stamp", "crash", "slow"}
SPECIFICATION Spec
SYMMETRY Symmetry
INVARIANTS SucceededHasDocument
