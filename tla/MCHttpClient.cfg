SPECIFICATION FairSpec
CONSTANTS
    Request = {p1, p2}
    Poster = {p1, p2}
    Cancellable = {p1}
    MaxAttempts = 2
    HasSecondary = TRUE
    Signing = TRUE
    FailureThreshold = 2
    SuccessThreshold = 2
    HalfOpenMaxAllowed = 1
INVARIANT SlotHeldWhileOwed
INVARIANT AttemptBudget
INVARIANT SignatureNotOlder
INVARIANT AuthErrorLeavesSecondary
PROPERTY BreakerSpec
PROPERTY EveryCallReturns
PROPERTY HalfOpenNotWedged
