SPECIFICATION FairSpec
CONSTANTS
    Worker = {w1, w2, w3}
    Interval = 3
    MaxInterval = 5
    BackoffMultiplier = 2
INVARIANT RunningIsPolled
INVARIANT OneLoop
INVARIANT IntervalBounded
PROPERTY StopEnds
