SPECIFICATION FairSpec
CONSTANTS
    Flag = {f1, f2}
    EmptyKey = empty
    MaxSize = 1
    Bootstrap = {f1}
    Caller = {poller, boot, app}
    Initializer = {boot}
    Poller = poller
    Window = 1
    MaxTime = 2
INVARIANT CacheBounded
INVARIANT NothingSkipped
INVARIANT SerialIsCurrent
PROPERTY SerialNeverGoesBack
PROPERTY ChangesArrive
CHECK_DEADLOCK FALSE
