CONSTANTS
    Requests = {r1, r2}
    NoRequest = NoRequest
    MAX_PENDING_REQUESTS = 1
    MAX_SEND_SEQ = 3
    MaxWalletSeq = 2
SPECIFICATION Spec
CHECK_DEADLOCK FALSE
INVARIANTS
    WaitingHeld
PROPERTY
    ImplementsPromises
