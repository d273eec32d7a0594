SPECIFICATION FairSpec
CONSTANTS
    Event = {e1, e2}
    Sender = {loop, closer, app}
    Loop = loop
    Closer = closer
    MaxSize = 1
    BufferSize = 2
    IOFaults = FALSE
    Long = {e2}
    MaxLives = 2
PROPERTY LedgerSpec
PROPERTY QueuedIsPosted
CHECK_DEADLOCK FALSE
