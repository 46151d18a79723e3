SPECIFICATION Spec
CONSTANTS
    Requests = {r1}
    MaxSessions = 2
INVARIANTS RecoveryArmed UiFollows
CHECK_DEADLOCK FALSE
PROPERTIES  SnapshotRecovered
