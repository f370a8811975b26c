CONSTANTS
    Root = root
    Users = {root, u1}
    Requests = {r1, r2}
    MaxBatch = 2
    Operations = {"store", "updateRole", "delete", "restore"}
    Exclusive = {}
    PostSendFaults = TRUE
SPECIFICATION FairSpec
INVARIANTS SendsWhatItWrites
PROPERTIES RowsFollowChain RequestsEnd
