SPECIFICATION Spec
CONSTANTS
    Flag = {f1}
    EmptyKey = empty
    MaxSize = 2
    Bootstrap = {}
    Caller = {poller, boot, app}
    Initializer = {boot}
    Poller = poller
    Window = 3
    MaxTime = 3
INVARIANT ConcurrentIsCurrent
CHECK_DEADLOCK FALSE
