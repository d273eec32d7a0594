SPECIFICATION Spec
CONSTANTS
    Call = {c1, c2, c3, c4, c5}
    Abandoner = {c1, c2, c3, c4, c5}
    FailureThreshold = 3
    SuccessThreshold = 3
    HalfOpenMaxAllowed = 2
SYMMETRY CallSymmetry
INVARIANT CountersBelowThreshold
INVARIANT ProbeAccounting
INVARIANT ProbeBound
PROPERTY LeaksOnlyByAbandon
