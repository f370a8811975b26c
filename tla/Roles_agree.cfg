CONSTANTS
    Root = root
    Users = {root, u1, u2}
    Requests = {r1, r2}
    MaxBatch = 1
    Operations = {"store", "update", "updateRole", "delete", "restore", "transfer"}
    Exclusive = {"delete", "restore", "transfer"}
    PostSendFaults = FALSE
SPECIFICATION Spec
SYMMETRY Symmetry
INVARIANTS RolesAgree OfficeIsLive
PROPERTIES ImplementsDirectory
CHECK_DEADLOCK FALSE
