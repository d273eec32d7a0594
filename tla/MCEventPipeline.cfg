SPECIFICATION Spec
CONSTANTS
    Event = {e1, e2}
    Sender = {loop, closer, app}
    Loop = loop
    Closer = closer
    MaxSize = 1
    BufferSize = 2
    IOFaults = TRUE
    Long = {e2}
    MaxLives = 2
INVARIANT SingleOwner
INVARIANT SentWasReceived
INVARIANT NothingLost
INVARIANT UnfinishedIsHeld
INVARIANT QueueBounded
PROPERTY TerminalIsFinal
CHECK_DEADLOCK FALSE
