SPECIFICATION Spec
CONSTANTS
    Goroutine = {g1, g2, g3}
    Manager = {m1, m2}
    NoManager = nil
    Interval = 1
    MaxInterval = 2
    BackoffMultiplier = 2
INVARIANT CloseCleansUp
CHECK_DEADLOCK FALSE
