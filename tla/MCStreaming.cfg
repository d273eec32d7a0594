SPECIFICATION FairSpec
CONSTANTS
    Worker = {w1, w2}
    Nobody = nobody
    MaxReconnectAttempts = 2
    MaxTimers = 1
INVARIANT NoDeadEnd
INVARIANT OneRequest
PROPERTY Recovers
PROPERTY DisconnectKept
CHECK_DEADLOCK FALSE
