CONSTANTS
    N = 3
    CreatedAt <- Times
    KeyOf <- Keys
    Limit = 1
    Emails = {e1, e2}
    MaxAttempts = 2
    MaxJobs = 1
SPECIFICATION FairSpec
INVARIANTS TypeOK WalkIsComplete CompletedWasSent SentToHolder
PROPERTIES JobsEnd
