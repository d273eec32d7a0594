SPECIFICATION Spec
CONSTANTS
    Event = {e1, e2}
    Sender = {loop, closer, app}
    Loop = loop
    Closer = closer
    MaxSize = 2
    BufferSize = 2
    IOFaults = FALSE
    Long = {}
    MaxLives = 2
INVARIANT PayloadKept
CHECK_DEADLOCK FALSE
