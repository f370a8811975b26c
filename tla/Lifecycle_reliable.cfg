CONSTANTS
    c1 = c1
    c2 = c2
    h1 = h1
    h2 = h2
    Creds = {c1, c2}
    Hashes = {h1, h2}
    HashOf <- TwoFiles
    Contents = {v1, v2}
    Officers = {o1}
    Requests = {r1, r2}
    Operations = {"issue", "approve", "reject", "revoke"}
    PostSendFaults = FALSE
    NoToken = NoToken
SPECIFICATION FairSpec
INVARIANTS LiveTokensClaimed ChainMirrorsRow
PROPERTIES RequestsEnd
