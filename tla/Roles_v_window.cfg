CONSTANTS
    Root = root
    Users = {root, u1}
    Requests = {r1, r2}
    MaxBatch = 1
    Operations = {"store", "updateRole", "delete"}
    Exclusive = {}
    PostSendFaults = FALSE
SPECIFICATION Spec
PROPERTIES TrashKeepsRole
