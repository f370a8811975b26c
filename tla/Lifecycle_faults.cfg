CONSTANTS
    c1 = c1
    c2 = c2
    h1 = h1
    h2 = h2
    Creds = {c1, c2}
    Hashes = {h1, h2}
    HashOf <- OneFile
    Contents = {v1, v2}
    Officers = {o1}
    Requests = {r1, r2, r3}
    Operations = {"issue", "approve", "reject", "revoke", "update"}
    PostSendFaults = TRUE
    NoToken = NoToken
SPECIFICATION Spec
SYMMETRY Symmetry
INVARIANTS TypeOK ActiveFilesDistinct TokensExist InboxTellsHistory  MailFollowsCommit
PROPERTIES ActivationIsBacked RevocationIsOnChain ImplementsWorkflow
