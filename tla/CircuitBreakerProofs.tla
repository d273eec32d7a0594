------------------------- MODULE CircuitBreakerProofs -------------------------
(***************************************************************************)
(* Proofs about CircuitBreaker, for every set of calls and every           *)
(* configuration, the degenerate ones (a threshold of zero) included.      *)
(*                                                                         *)
(* ProbeBound is not inductive.  The argument goes through the code's own  *)
(* counters: halfOpenInProgress <= HalfOpenMaxAllowed by Allow's test,     *)
(* successes < SuccessThreshold by transitionTo, and ProbeAccounting,      *)
(* which says that the number of probes out never exceeds the sum of the   *)
(* two: a straggler's success takes one off the first and adds one to the  *)
(* second, a probe's own success also takes one off the probes.            *)
(***************************************************************************)
EXTENDS CircuitBreaker, FiniteSetTheorems, TLAPS

\* The inductive invariant.
IInv == TypeOK /\ CountersBelowThreshold /\ ProbeAccounting

\* The probes are finitely many, so their number is a natural.
LEMMA ProbesFinite == IsFiniteSet(Probes) /\ Cardinality(Probes) \in Nat
<1>1. Probes \in SUBSET Call
  BY DEF Probes
<1>2. IsFiniteSet(Probes)
  BY <1>1, CallAssumption, FS_Subset
<1> QED
  BY <1>2, FS_CardinalityType

\* A call that returns leaves the other probes as they are.
LEMMA ProbesAfterReturn ==
  ASSUME TypeOK, NEW c \in Call, call' = [call EXCEPT ![c] = "none"]
  PROVE  /\ Probes' = Probes \ {c}
         /\ Cardinality(Probes') \in Nat
         /\ Cardinality(Probes') <= Cardinality(Probes)
         /\ call[c] = "probe" => Cardinality(Probes') = Cardinality(Probes) - 1
         /\ call' \in [Call -> Admission]
<1>1. Probes' = Probes \ {c}
  BY DEF Probes, TypeOK
<1>2. call[c] = "probe" <=> c \in Probes
  BY DEF Probes
<1>3. Cardinality(Probes') = IF c \in Probes THEN Cardinality(Probes) - 1
                                             ELSE Cardinality(Probes)
  BY <1>1, ProbesFinite, FS_RemoveElement
<1>4. IsFiniteSet(Probes')
  BY <1>1, ProbesFinite, FS_RemoveElement
<1>5. Cardinality(Probes') \in Nat
  BY <1>4, FS_CardinalityType
<1>6. call' \in [Call -> Admission]
  BY DEF TypeOK, Admission
<1> QED
  BY <1>1, <1>2, <1>3, <1>5, <1>6, ProbesFinite

\* A call that is admitted as a probe adds one probe.
LEMMA ProbesAfterAdmission ==
  ASSUME TypeOK, NEW c \in Call, call[c] = "none",
         call' = [call EXCEPT ![c] = "probe"]
  PROVE  /\ Cardinality(Probes') = Cardinality(Probes) + 1
         /\ call' \in [Call -> Admission]
<1>1. Probes' = Probes \cup {c}
  BY DEF Probes, TypeOK
<1>2. c \notin Probes
  BY DEF Probes
<1>3. Cardinality(Probes') = Cardinality(Probes) + 1
  BY <1>1, <1>2, ProbesFinite, FS_AddElement
<1>4. call' \in [Call -> Admission]
  BY DEF TypeOK, Admission
<1> QED
  BY <1>3, <1>4

\* Once a half-open period is over no call counts as a probe.
LEMMA ProbesAfterRetirement ==
  ASSUME TypeOK, NEW c \in Call,
         \/ call' = Retired
         \/ call' = [Retired EXCEPT ![c] = "none"]
  PROVE  Probes' = {} /\ call' \in [Call -> Admission]
<1>1. \A d \in Call : call'[d] \in {"none", "ordinary"}
  BY DEF Retired
<1>2. call' \in [Call -> Admission]
  BY DEF Retired, Admission, TypeOK
<1> QED
  BY <1>1, <1>2 DEF Probes

\* Initially nothing is counted and nothing is out.
LEMMA InitEstablishes == Init => IInv
<1> SUFFICES ASSUME Init PROVE IInv
  OBVIOUS
<1>1. Probes = {}
  BY DEF Init, Probes
<1>2. TypeOK
  BY DEF Init, TypeOK, CircuitState, Admission
<1> QED
  BY <1>1, <1>2 DEF Init, IInv, CountersBelowThreshold, ProbeAccounting

\* Each kind of admission preserves the invariant.
LEMMA AllowPreserves ==
  ASSUME IInv, NEW c \in Call, Allow(c)
  PROVE  IInv'
<1> USE DEF IInv
<1>1. CASE AllowClosed(c)
  <2>1. Probes' = Probes
    BY <1>1 DEF AllowClosed, GrantClosed, Probes, TypeOK
  <2>2. call' \in [Call -> Admission]
    BY <1>1 DEF AllowClosed, GrantClosed, TypeOK, Admission
  <2> QED
    BY <1>1, <2>1, <2>2
    DEF AllowClosed, GrantClosed, breaker, TypeOK, CountersBelowThreshold, ProbeAccounting
<1>2. CASE AllowFirstProbe(c)
  <2>1. Probes = {}
    BY <1>2 DEF AllowFirstProbe, GrantFirstProbe, ResetTimeoutElapsed, ProbeAccounting
  <2>2. call[c] = "none" /\ call' = [call EXCEPT ![c] = "probe"]
    BY <1>2 DEF AllowFirstProbe, GrantFirstProbe
  <2>3. /\ Cardinality(Probes') = Cardinality(Probes) + 1
        /\ call' \in [Call -> Admission]
    BY <2>2, ProbesAfterAdmission
  <2>4. Cardinality(Probes') = 1
    BY <2>1, <2>3, FS_EmptySet
  <2> QED
    BY <1>2, <2>3, <2>4, ConfigAssumption
    DEF AllowFirstProbe, GrantFirstProbe, EnterHalfOpen, transitionTo, TypeOK, CircuitState,
        CountersBelowThreshold, ProbeAccounting
<1>3. CASE AllowProbe(c)
  <2>1. /\ Cardinality(Probes') = Cardinality(Probes) + 1
        /\ call' \in [Call -> Admission]
    BY <1>3, ProbesAfterAdmission DEF AllowProbe, GrantProbe
  <2>2. TypeOK' /\ CountersBelowThreshold'
    BY <1>3, <2>1 DEF AllowProbe, GrantProbe, TypeOK, CountersBelowThreshold
  <2>3. ProbeAccounting'
    BY <1>3, <2>1, ProbesFinite DEF AllowProbe, GrantProbe, TypeOK, ProbeAccounting
  <2> QED
    BY <2>2, <2>3
<1> QED
  BY <1>1, <1>2, <1>3 DEF Allow

\* A success preserves it, a straggler's as well as a probe's.
LEMMA SuccessPreserves ==
  ASSUME IInv, NEW c \in Call, RecordSuccess(c)
  PROVE  IInv'
<1> USE DEF IInv
<1>1. CASE state = "half_open" /\ SuccessThresholdMet
  <2>1. Probes' = {} /\ call' \in [Call -> Admission]
    BY <1>1, ProbesAfterRetirement DEF RecordSuccess, CountSuccess
  <2> QED
    BY <1>1, <2>1
    DEF RecordSuccess, CountSuccess, ReleaseSlot, transitionTo, TypeOK, CircuitState,
        CountersBelowThreshold, ProbeAccounting
<1>2. CASE state = "half_open" /\ ~SuccessThresholdMet
  <2>1. /\ successes' = successes + 1
        /\ halfOpenInProgress' = halfOpenInProgress - 1
        /\ call' = [call EXCEPT ![c] = "none"]
        /\ UNCHANGED <<state, failures, halfOpenAllowed, cooled>>
    BY <1>2 DEF RecordSuccess, CountSuccess, ReleaseSlot
  <2>2. /\ Cardinality(Probes') \in Nat
        /\ Cardinality(Probes') <= Cardinality(Probes)
        /\ call' \in [Call -> Admission]
    BY <2>1, ProbesAfterReturn
  <2>3. successes + 1 < SuccessThreshold
    BY <1>2, ConfigAssumption DEF SuccessThresholdMet, TypeOK
  <2>4. TypeOK' /\ CountersBelowThreshold'
    BY <1>2, <2>1, <2>2, <2>3 DEF TypeOK, CountersBelowThreshold
  <2>5. ProbeAccounting'
    BY <1>2, <2>1, <2>2, ProbesFinite, ConfigAssumption DEF TypeOK, ProbeAccounting
  <2> QED
    BY <2>4, <2>5
<1>3. CASE state # "half_open"
  <2>1. call' = [call EXCEPT ![c] = "none"] /\ UNCHANGED state
    BY <1>3 DEF RecordSuccess, CountSuccess
  <2>2. Probes' = {} /\ call' \in [Call -> Admission]
    BY <1>3, <2>1, ProbesAfterReturn DEF ProbeAccounting
  <2> QED
    BY <1>3, <2>1, <2>2
    DEF RecordSuccess, CountSuccess, TypeOK, CountersBelowThreshold, ProbeAccounting
<1> QED
  BY <1>1, <1>2, <1>3

\* A failure ends a half-open period, or counts, or trips the circuit.
LEMMA FailurePreserves ==
  ASSUME IInv, NEW c \in Call, RecordFailure(c)
  PROVE  IInv'
<1> USE DEF IInv
<1>1. Probes' = {} /\ call' \in [Call -> Admission]
  BY ProbesAfterRetirement DEF RecordFailure, CountFailure
<1>2. state' # "half_open"
  BY DEF RecordFailure, CountFailure, transitionTo
<1>3. /\ state' \in CircuitState
      /\ failures' \in Nat
      /\ successes' \in Nat
      /\ halfOpenAllowed' \in Nat
      /\ halfOpenInProgress' \in Int
  BY DEF RecordFailure, CountFailure, ReleaseSlot, transitionTo, TypeOK, CircuitState
<1>4. cooled' \in BOOLEAN
  BY DEF RecordFailure, CountFailure
<1>5. CountersBelowThreshold'
  BY <1>2, ConfigAssumption
  DEF RecordFailure, CountFailure, FailureThresholdMet, transitionTo, TypeOK,
      CountersBelowThreshold
<1> QED
  BY <1>1, <1>2, <1>3, <1>4, <1>5 DEF TypeOK, ProbeAccounting

\* A call that leaves without a report frees no slot, so it can only widen
\* the gap between the count and the probes that are out.
LEMMA AbandonPreserves ==
  ASSUME IInv, NEW c \in Call, Abandon(c)
  PROVE  IInv'
<1> USE DEF IInv
<1>1. call' = [call EXCEPT ![c] = "none"] /\ UNCHANGED breaker
  BY DEF Abandon, Leave
<1>2. /\ Probes' = Probes \ {c}
      /\ Cardinality(Probes') \in Nat
      /\ Cardinality(Probes') <= Cardinality(Probes)
      /\ call' \in [Call -> Admission]
  BY <1>1, ProbesAfterReturn
<1>3. TypeOK' /\ CountersBelowThreshold'
  BY <1>1, <1>2 DEF breaker, TypeOK, CountersBelowThreshold
<1>4. ProbeAccounting'
  BY <1>1, <1>2, ProbesFinite DEF breaker, TypeOK, ProbeAccounting
<1> QED
  BY <1>3, <1>4

\* Every step preserves the invariant.
LEMMA NextPreserves == IInv /\ [Next]_vars => IInv'
<1> SUFFICES ASSUME IInv, [Next]_vars PROVE IInv'
  OBVIOUS
<1>1. ASSUME NEW c \in Call, Allow(c) PROVE IInv'
  BY <1>1, AllowPreserves
<1>2. CASE Reject
  <2>1. Probes' = Probes
    BY <1>2 DEF Reject, Probes
  <2>2. CASE ResetTimeoutElapsed
    <3>1. Probes = {}
      BY <2>2 DEF IInv, ProbeAccounting, ResetTimeoutElapsed
    <3> QED
      BY <1>2, <2>1, <2>2, <3>1, FS_EmptySet, ConfigAssumption
      DEF Reject, EnterHalfOpen, transitionTo, IInv, TypeOK, CircuitState,
          CountersBelowThreshold, ProbeAccounting
  <2>3. CASE ~ResetTimeoutElapsed
    BY <1>2, <2>1, <2>3
    DEF Reject, breaker, IInv, TypeOK, CountersBelowThreshold, ProbeAccounting
  <2> QED
    BY <2>2, <2>3
<1>3. ASSUME NEW c \in Call, RecordSuccess(c) PROVE IInv'
  BY <1>3, SuccessPreserves
<1>4. ASSUME NEW c \in Call, RecordFailure(c) PROVE IInv'
  BY <1>4, FailurePreserves
<1>5. ASSUME NEW c \in Call, Abandon(c) PROVE IInv'
  BY <1>5, AbandonPreserves
<1>6. CASE Reset
  <2>1. call' \in [Call -> Admission] /\ Probes' = {}
    BY <1>6 DEF Reset, Retired, Admission, Probes
  <2> QED
    BY <1>6, <2>1
    DEF Reset, IInv, TypeOK, CircuitState, CountersBelowThreshold, ProbeAccounting
<1>7. CASE Elapse
  <2>1. Probes' = Probes
    BY <1>7 DEF Elapse, Probes
  <2> QED
    BY <1>7, <2>1
    DEF Elapse, IInv, TypeOK, CountersBelowThreshold, ProbeAccounting
<1>8. CASE UNCHANGED vars
  <2>1. Probes' = Probes
    BY <1>8 DEF vars, Probes
  <2> QED
    BY <1>8, <2>1
    DEF vars, breaker, IInv, TypeOK, CountersBelowThreshold, ProbeAccounting
<1> QED
  BY <1>1, <1>2, <1>3, <1>4, <1>5, <1>6, <1>7, <1>8 DEF Next, Allow

\* The inductive invariant holds throughout.
LEMMA Inductive == Spec => []IInv
<1> QED
  BY InitEstablishes, NextPreserves, PTL DEF Spec

\* Every variable keeps its type (circuit_breaker.go, all methods).
THEOREM TypeCorrect == Spec => []TypeOK
<1>1. IInv => TypeOK
  BY DEF IInv
<1> QED
  BY <1>1, Inductive, PTL

\* The circuit never rests at or past a threshold, and no count outlives the
\* state it belongs to (RecordSuccess, RecordFailure, transitionTo).
THEOREM CountersCorrect == Spec => []CountersBelowThreshold
<1>1. IInv => CountersBelowThreshold
  BY DEF IInv
<1> QED
  BY <1>1, Inductive, PTL

\* halfOpenInProgress understates the probes that are out by no more than the
\* successes counted (Allow, RecordSuccess).
THEOREM AccountingCorrect == Spec => []ProbeAccounting
<1>1. IInv => ProbeAccounting
  BY DEF IInv
<1> QED
  BY <1>1, Inductive, PTL

\* Fewer than HalfOpenMaxAllowed + SuccessThreshold probes of one half-open
\* period are ever out together, whatever stragglers report (Allow).
THEOREM ProbesBounded == Spec => []ProbeBound
<1>1. IInv => ProbeBound
  <2> SUFFICES ASSUME IInv PROVE ProbeBound
    OBVIOUS
  <2>1. CASE state = "half_open"
    <3>1. /\ Cardinality(Probes) <= halfOpenInProgress + successes
          /\ halfOpenInProgress <= HalfOpenMaxAllowed
      BY <2>1 DEF IInv, ProbeAccounting
    <3>2. successes = 0 \/ successes < SuccessThreshold
      BY <2>1 DEF IInv, CountersBelowThreshold
    <3> QED
      BY <3>1, <3>2, ProbesFinite, ConfigAssumption DEF IInv, TypeOK, ProbeBound
  <2>2. CASE state # "half_open"
    <3>1. Cardinality(Probes) = 0
      BY <2>2, FS_EmptySet DEF IInv, ProbeAccounting
    <3> QED
      BY <3>1, ConfigAssumption DEF ProbeBound
  <2> QED
    BY <2>1, <2>2
<1> QED
  BY <1>1, Inductive, PTL

\* A half-open period loses a slot for good only by a probe that returns
\* without a report: whatever order Allow, RecordSuccess, RecordFailure and
\* Reset come in, the count does not run ahead of the probes that are out.
THEOREM SlotsLeakOnlyByAbandon == Spec => LeaksOnlyByAbandon
<1>1. ASSUME IInv, [Next]_vars, Leak' > Leak, Leak' > 0
      PROVE  \E c \in Abandoner :
               call[c] = "probe" /\ call'[c] = "none" /\ UNCHANGED breaker
  <2> USE <1>1 DEF IInv
  <2>1. state' = "half_open" /\ Leak' = halfOpenInProgress' - Cardinality(Probes')
    BY <1>1 DEF Leak
  <2>2. state = "half_open" => Leak = halfOpenInProgress - Cardinality(Probes)
    BY DEF Leak
  <2>3. state # "half_open" => Probes = {} /\ Leak = 0
    BY DEF ProbeAccounting, Leak
  <2>4. ASSUME NEW c \in Call, AllowClosed(c) PROVE FALSE
    BY <2>1, <2>4 DEF AllowClosed, GrantClosed, breaker
  <2>5. ASSUME NEW c \in Call, AllowFirstProbe(c) PROVE FALSE
    <3>1. Cardinality(Probes') = Cardinality(Probes) + 1 /\ Probes = {}
      BY <2>3, <2>5, ProbesAfterAdmission DEF AllowFirstProbe, GrantFirstProbe, ResetTimeoutElapsed
    <3> QED
      BY <2>1, <2>5, <3>1, FS_EmptySet DEF AllowFirstProbe, GrantFirstProbe, EnterHalfOpen
  <2>6. ASSUME NEW c \in Call, AllowProbe(c) PROVE FALSE
    <3>1. Cardinality(Probes') = Cardinality(Probes) + 1
      BY <2>6, ProbesAfterAdmission DEF AllowProbe, GrantProbe
    <3> QED
      BY <2>1, <2>2, <2>6, <3>1, ProbesFinite DEF AllowProbe, GrantProbe, TypeOK
  <2>7. CASE Reject
    <3>1. Probes' = Probes
      BY <2>7 DEF Reject, Probes
    <3>2. CASE ResetTimeoutElapsed
      BY <2>1, <2>3, <2>7, <3>1, <3>2, FS_EmptySet
      DEF Reject, EnterHalfOpen, ResetTimeoutElapsed
    <3>3. CASE ~ResetTimeoutElapsed
      BY <2>1, <2>2, <2>7, <3>1, <3>3, ProbesFinite DEF Reject, breaker, TypeOK
    <3> QED
      BY <3>2, <3>3
  <2>8. ASSUME NEW c \in Call, RecordSuccess(c) PROVE FALSE
    <3>1. /\ state = "half_open"
          /\ halfOpenInProgress' = halfOpenInProgress - 1
          /\ call' = [call EXCEPT ![c] = "none"]
      BY <2>1, <2>8 DEF RecordSuccess, CountSuccess, transitionTo, ReleaseSlot
    <3>2. Cardinality(Probes') \in {Cardinality(Probes), Cardinality(Probes) - 1}
      <4>1. Probes' = Probes \ {c}
        BY <3>1, ProbesAfterReturn
      <4> QED
        BY <4>1, ProbesFinite, FS_RemoveElement
    <3> QED
      BY <2>1, <2>2, <3>1, <3>2, ProbesFinite DEF TypeOK
  <2>9. ASSUME NEW c \in Call, RecordFailure(c) PROVE FALSE
    BY <2>1, <2>9 DEF RecordFailure, CountFailure, transitionTo
  <2>10. ASSUME NEW c \in Call, Abandon(c)
         PROVE  call[c] = "probe" /\ call'[c] = "none" /\ UNCHANGED breaker
    <3>1. call' = [call EXCEPT ![c] = "none"] /\ UNCHANGED breaker
      BY <2>10 DEF Abandon, Leave
    <3>2. CASE call[c] # "probe"
      <4>1. Probes' = Probes
        BY <3>1, <3>2, ProbesAfterReturn DEF Probes
      <4> QED
        BY <2>1, <2>2, <3>1, <4>1, ProbesFinite DEF breaker, TypeOK
    <3> QED
      BY <3>1, <3>2 DEF TypeOK
  <2>11. CASE Reset
    BY <2>1, <2>11 DEF Reset
  <2>12. CASE Elapse \/ UNCHANGED vars
    <3>1. Probes' = Probes /\ UNCHANGED <<state, halfOpenInProgress>>
      BY <2>12 DEF Elapse, vars, breaker, Probes
    <3> QED
      BY <2>1, <2>2, <3>1, ProbesFinite DEF TypeOK
  <2> QED
    BY <2>4, <2>5, <2>6, <2>7, <2>8, <2>9, <2>10, <2>11, <2>12 DEF Next, Abandon
<1>2. IInv /\ [Next]_vars =>
        [Leak' > Leak /\ Leak' > 0 =>
           \E c \in Abandoner :
             call[c] = "probe" /\ call'[c] = "none" /\ UNCHANGED breaker]_vars
  BY <1>1
<1> QED
  BY <1>2, Inductive, PTL DEF Spec, LeaksOnlyByAbandon
===============================================================================
