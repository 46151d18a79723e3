SPECIFICATION FairSpec
CONSTANTS
    Sockets = {s1, s2, s3}
    MaxAttempts = 2
    MaxReconnects = 1
    None = None
INVARIANTS NeverStranded GuardedByTimers Attached
PROPERTIES Recovers NoticesLoss
