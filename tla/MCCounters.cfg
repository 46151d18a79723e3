SPECIFICATION Spec
CONSTANTS
    MaxSendSeq = 3
    RecvSeqs = {0, 1}
    MaxInFlight = 3
    FifoSaves = TRUE
    None = None
INVARIANTS NoNonceReuse NoReplay
PROPERTY SealedInOrder
CHECK_DEADLOCK FALSE
