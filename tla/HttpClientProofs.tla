--------------------------- MODULE HttpClientProofs ---------------------------
(***************************************************************************)
(* Proofs about HttpClient, for any number of goroutines, every retry      *)
(* budget and every breaker configuration.                                 *)
(*                                                                         *)
(* First the invariants, from one inductive invariant that says what a     *)
(* goroutine's place in the code tells about its admission, the keys it    *)
(* has read and the attempts it has made.  From it, that the client        *)
(* implements the breaker's specification: the code's calls of Allow,      *)
(* RecordSuccess and RecordFailure check nothing, and it is the invariant  *)
(* that makes each of them a step of the breaker's protocol.               *)
(***************************************************************************)
EXTENDS HttpClient, TLAPS

-------------------------------------------------------------------------------

\* What a call of the breaker does to the admissions, whoever makes it.
Held(r) == call[r] # "none"

LEMMA GrantHolds ==
  ASSUME CB!TypeOK, NEW r \in Request, CB!Grant(r)
  PROVE  /\ Held(r)'
         /\ \A q \in Request : q # r => call'[q] = call[q]
BY DEF CB!TypeOK, CB!Grant, CB!GrantClosed, CB!GrantFirstProbe, CB!GrantProbe, Held

LEMMA ReportReleases ==
  ASSUME CB!TypeOK, NEW r \in Request,
         CB!CountSuccess(r) \/ CB!CountFailure(r) \/ CB!Leave(r)
  PROVE  /\ ~Held(r)'
         /\ \A q \in Request : q # r => (Held(q)' <=> Held(q))
<1>1. \/ call' = [call EXCEPT ![r] = "none"]
      \/ call' = [CB!Retired EXCEPT ![r] = "none"]
  BY DEF CB!CountSuccess, CB!CountFailure, CB!Leave
<1> QED
  BY <1>1 DEF CB!TypeOK, CB!Retired, Held

\* What a step of the client may do to the circuit.
CircuitStep ==
    \/ \E r \in Request :
         CB!Grant(r) \/ CB!CountSuccess(r) \/ CB!CountFailure(r) \/ CB!Leave(r)
    \/ CB!Reject
    \/ CB!Elapse
    \/ UNCHANGED circuit

LEMMA StepsOfCircuit == [Next]_vars => CircuitStep
<1> SUFFICES ASSUME [Next]_vars PROVE CircuitStep
  OBVIOUS
<1> USE DEF CircuitStep
<1>1. ASSUME NEW r \in Request, Admit(r) \/ Refuse(r) PROVE CircuitStep
  BY <1>1 DEF Admit, Refuse
<1>2. ASSUME NEW r \in Request,
             Succeed(r) \/ FailAuth(r) \/ FailOther(r) \/ Exhaust(r) \/ Cancel(r)
      PROVE  CircuitStep
  BY <1>2 DEF Succeed, FailAuth, FailOther, Exhaust, Cancel
<1>3. CASE Elapse
  BY <1>3 DEF Elapse
<1>4. ASSUME NEW r \in Request,
             \/ Begin(r) \/ ReadHeaderKey(r) \/ ReadSigningKey(r) \/ FailRetryable(r)
             \/ RetryAfterBackoff(r) \/ RotateKey(r) \/ RotationRefused(r) \/ Return(r)
      PROVE  UNCHANGED circuit
  BY <1>4 DEF Begin, ReadHeaderKey, ReadSigningKey, FailRetryable, RetryAfterBackoff,
              RotateKey, RotationRefused, Return
<1>5. CASE UNCHANGED vars
  BY <1>5 DEF vars
<1> QED
  BY <1>1, <1>2, <1>3, <1>4, <1>5 DEF Next, Proceed, Respond

\* The breaker's own type invariant, which any calls of it keep.
LEMMA BreakerTyped ==
  ASSUME CB!TypeOK, CircuitStep
  PROVE  CB!TypeOK'
<1> USE DEF CB!TypeOK, CircuitStep, CB!breaker, circuit, CB!Grant, CB!GrantClosed,
            CB!GrantFirstProbe, CB!GrantProbe, CB!Reject, CB!CountSuccess,
            CB!CountFailure, CB!Leave, CB!Elapse
<1>1. call' \in [Request -> CB!Admission]
  BY DEF CB!Admission, CB!Retired
<1>2. cooled' \in BOOLEAN
  BY DEF CB!EnterHalfOpen
<1>3. /\ state' \in CB!CircuitState
      /\ failures' \in Nat
      /\ successes' \in Nat
      /\ halfOpenAllowed' \in Nat
      /\ halfOpenInProgress' \in Int
  BY HttpAssumption DEF CB!CircuitState, CB!EnterHalfOpen, CB!transitionTo, CB!ReleaseSlot
<1> QED
  BY <1>1, <1>2, <1>3

\* What the steps of the client do to its own variables, typed.
LEMMA ClientTyped == TypeOK /\ [Next]_vars => TypeOK'
<1> SUFFICES ASSUME TypeOK, [Next]_vars PROVE TypeOK'
  OBVIOUS
<1> USE DEF TypeOK
<1>1. CB!TypeOK'
  BY StepsOfCircuit, BreakerTyped
<1> USE DEF Key, Step, Result, Next, Proceed, Respond, vars, client,
            Begin, Admit, Refuse, ReadHeaderKey, ReadSigningKey, Succeed, FailAuth,
            FailOther, FailRetryable, RetryAfterBackoff, Cancel, Exhaust, RotateKey,
            RotationRefused, Return, Elapse, Finish, Goto, PutOnWire
<1>2. currentKey' \in Key
  OBVIOUS
<1>3. pc' \in [Request -> Step]
  OBVIOUS
<1>4. attempt' \in [Request -> Nat]
  OBVIOUS
<1>5. headerKey' \in [Request -> Key \cup {"none"}]
  OBVIOUS
<1>6. signKey' \in [Request -> Key \cup {"none"}]
  OBVIOUS
<1>7. rotated' \in [Request -> BOOLEAN]
  OBVIOUS
<1>8. sends' \in [Request -> Nat]
  OBVIOUS
<1>9. result' \in [Request -> Result]
  OBVIOUS
<1> QED
  BY <1>1, <1>2, <1>3, <1>4, <1>5, <1>6, <1>7, <1>8, <1>9

-------------------------------------------------------------------------------

\* What a goroutine has learnt of the key: once it has carried the secondary
\* key, or has rotated, the client is on that key for good.
KeyKnowledge ==
    \A r \in Request :
        (headerKey[r] = "secondary" \/ rotated[r]) => currentKey = "secondary"

\* The sends a rotation lets an operation have made before it starts over.
Spent(r) == IF rotated[r] THEN MaxAttempts ELSE 0

\* The attempts made so far, by the place in the retry loop.
Budget(r) ==
    /\ pc[r] = "idle" => ~rotated[r]
    /\ pc[r] \in {"idle", "request"} => sends[r] <= Spent(r)
    /\ pc[r] \in {"header", "sign"} =>
         attempt[r] <= MaxAttempts /\ sends[r] < Spent(r) + attempt[r]
    /\ pc[r] \in {"wire", "backoff"} =>
         attempt[r] <= MaxAttempts /\ sends[r] <= Spent(r) + attempt[r]
    /\ pc[r] = "backoff" => attempt[r] < MaxAttempts
    /\ pc[r] = "rotate" => ~rotated[r]
    /\ pc[r] \in {"exhausted", "rotate", "done"} => sends[r] <= Spent(r) + MaxAttempts

\* The inductive invariant.
IInv ==
    /\ TypeOK
    /\ SlotHeldWhileOwed
    /\ KeyKnowledge
    /\ SignatureNotOlder
    /\ AuthErrorLeavesSecondary
    /\ \A r \in Request : Budget(r)

LEMMA InitEstablishes == Init => IInv
<1> SUFFICES ASSUME Init PROVE IInv
  OBVIOUS
<1>1. CB!TypeOK
  BY DEF Init, CB!Init, CB!TypeOK, CB!CircuitState, CB!Admission
<1>2. TypeOK
  BY <1>1 DEF Init, TypeOK, Key, Step, Result
<1>3. SlotHeldWhileOwed
  BY DEF Init, CB!Init, SlotHeldWhileOwed, OwesReport
<1> QED
  BY <1>2, <1>3, HttpAssumption
  DEF Init, IInv, KeyKnowledge, SignatureNotOlder, AuthErrorLeavesSecondary, Budget, Spent

\* Admissions follow the program counter: a goroutine gains one as it enters
\* the retry loop and loses it as it leaves, and no other goroutine's changes.
LEMMA SlotPreserved ==
  ASSUME TypeOK, SlotHeldWhileOwed, [Next]_vars
  PROVE  SlotHeldWhileOwed'
<1> USE DEF SlotHeldWhileOwed, OwesReport, Held, TypeOK
<1>1. ASSUME NEW r \in Request, Admit(r) PROVE SlotHeldWhileOwed'
  <2>1. /\ Held(r)'
        /\ \A q \in Request : q # r => call'[q] = call[q]
    BY <1>1, GrantHolds DEF Admit
  <2> QED
    BY <1>1, <2>1 DEF Admit, Goto, At
<1>2. ASSUME NEW r \in Request,
             Succeed(r) \/ FailAuth(r) \/ FailOther(r) \/ Cancel(r) \/ Exhaust(r)
      PROVE  SlotHeldWhileOwed'
  <2>1. CB!CountSuccess(r) \/ CB!CountFailure(r) \/ CB!Leave(r)
    BY <1>2 DEF Succeed, FailAuth, FailOther, Cancel, Exhaust
  <2>2. /\ ~Held(r)'
        /\ \A q \in Request : q # r => (Held(q)' <=> Held(q))
    BY <2>1, ReportReleases
  <2>3. \E s \in {"done", "rotate"} : Goto(r, s)
    BY <1>2 DEF Succeed, FailAuth, FailOther, Cancel, Exhaust, Finish
  <2> QED
    BY <2>2, <2>3 DEF Goto
<1>3. ASSUME NEW r \in Request, Refuse(r) PROVE SlotHeldWhileOwed'
  BY <1>3 DEF Refuse, CB!Reject, Finish, Goto, At
<1>4. ASSUME NEW r \in Request,
             \/ Begin(r) \/ ReadHeaderKey(r) \/ ReadSigningKey(r) \/ FailRetryable(r)
             \/ RetryAfterBackoff(r) \/ RotateKey(r) \/ RotationRefused(r) \/ Return(r)
      PROVE  SlotHeldWhileOwed'
  BY <1>4 DEF Begin, ReadHeaderKey, ReadSigningKey, FailRetryable, RetryAfterBackoff,
              RotateKey, RotationRefused, Return, Finish, PutOnWire, Goto, At, circuit
<1>5. CASE Elapse
  BY <1>5 DEF Elapse, CB!Elapse, client
<1>6. CASE UNCHANGED vars
  BY <1>6 DEF vars, circuit, client
<1> QED
  BY <1>1, <1>2, <1>3, <1>4, <1>5, <1>6 DEF Next, Proceed, Respond

\* The current key only ever moves to the secondary one, and the two reads of
\* it in an attempt come in the order header, signature.
LEMMA KeysPreserved ==
  ASSUME TypeOK, KeyKnowledge, SignatureNotOlder, AuthErrorLeavesSecondary, [Next]_vars
  PROVE  KeyKnowledge' /\ SignatureNotOlder' /\ AuthErrorLeavesSecondary'
<1> USE HttpAssumption
    DEF TypeOK, Next, Proceed, Respond, vars, client,
        Begin, Admit, Refuse, ReadHeaderKey, ReadSigningKey, Succeed, FailAuth,
        FailOther, FailRetryable, RetryAfterBackoff, Cancel, Exhaust, RotateKey,
        RotationRefused, Return, Elapse, Finish, Goto, At, PutOnWire
<1>1. currentKey = "secondary" => currentKey' = "secondary"
  OBVIOUS
<1>2. KeyKnowledge'
  BY <1>1 DEF KeyKnowledge
<1>3. SignatureNotOlder'
  BY DEF KeyKnowledge, SignatureNotOlder, Signs
<1>4. AuthErrorLeavesSecondary'
  BY <1>1 DEF KeyKnowledge, AuthErrorLeavesSecondary, MayRotate
<1> QED
  BY <1>2, <1>3, <1>4

\* Every send is one of the attempts that the retry loop counts.
LEMMA BudgetPreserved ==
  ASSUME TypeOK, NEW r \in Request, Budget(r), [Next]_vars
  PROVE  Budget(r)'
<1> USE HttpAssumption DEF TypeOK, Budget, Spent, Goto, At, Finish, PutOnWire
<1>1. ASSUME NEW q \in Request, Begin(q) \/ Admit(q) \/ Refuse(q) PROVE Budget(r)'
  BY <1>1 DEF Begin, Admit, Refuse
<1>2. ASSUME NEW q \in Request, ReadHeaderKey(q) \/ ReadSigningKey(q) PROVE Budget(r)'
  BY <1>2 DEF ReadHeaderKey, ReadSigningKey
<1>3. ASSUME NEW q \in Request, Succeed(q) \/ FailAuth(q) \/ FailOther(q) PROVE Budget(r)'
  BY <1>3 DEF Succeed, FailAuth, FailOther, MayRotate
<1>4. ASSUME NEW q \in Request, FailRetryable(q) \/ RetryAfterBackoff(q) PROVE Budget(r)'
  BY <1>4 DEF FailRetryable, RetryAfterBackoff, AttemptsLeft
<1>5. ASSUME NEW q \in Request, Cancel(q) \/ Exhaust(q) PROVE Budget(r)'
  BY <1>5 DEF Cancel, Exhaust
<1>6. ASSUME NEW q \in Request, RotateKey(q) \/ RotationRefused(q) PROVE Budget(r)'
  BY <1>6 DEF RotateKey, RotationRefused
<1>7. ASSUME NEW q \in Request, Return(q) PROVE Budget(r)'
  BY <1>7 DEF Return
<1>8. CASE Elapse \/ UNCHANGED vars
  BY <1>8 DEF Elapse, vars, client
<1> QED
  BY <1>1, <1>2, <1>3, <1>4, <1>5, <1>6, <1>7, <1>8 DEF Next, Proceed, Respond

\* The inductive invariant holds throughout.
LEMMA Inductive == Spec => []IInv
<1>1. IInv /\ [Next]_vars => IInv'
  <2> SUFFICES ASSUME IInv, [Next]_vars PROVE IInv'
    OBVIOUS
  <2>1. \A r \in Request : Budget(r)'
    BY BudgetPreserved DEF IInv
  <2> QED
    BY <2>1, ClientTyped, SlotPreserved, KeysPreserved DEF IInv
<1> QED
  BY <1>1, InitEstablishes, PTL DEF Spec

-------------------------------------------------------------------------------

\* Every variable has its type, the breaker's in the client included.
THEOREM TypeCorrect == Spec => []TypeOK
<1>1. IInv => TypeOK
  BY DEF IInv
<1> QED
  BY <1>1, Inductive, PTL

\* An operation holds an admission of the breaker exactly while it owes it a
\* report (request, postWithKeyRotation).
THEOREM SlotsAccountedFor == Spec => []SlotHeldWhileOwed
<1>1. IInv => SlotHeldWhileOwed
  BY DEF IInv
<1> QED
  BY <1>1, Inductive, PTL

\* An operation is sent at most MaxAttempts times, twice that if it rotated
\* the key (WithRetry's loop as request unrolls it, postWithKeyRotation).
THEOREM AttemptsBounded == Spec => []AttemptBudget
<1>1. IInv => AttemptBudget
  <2> SUFFICES ASSUME IInv, NEW r \in Request
               PROVE  sends[r] <= MaxAttempts * (IF rotated[r] THEN 2 ELSE 1)
    BY DEF AttemptBudget
  <2>1. sends[r] <= Spent(r) + MaxAttempts
    <3>1. pc[r] \in Step /\ sends[r] \in Nat /\ attempt[r] \in Nat
      BY DEF IInv, TypeOK
    <3> QED
      BY <3>1, HttpAssumption DEF IInv, Budget, Spent, Step
  <2> QED
    BY <2>1, HttpAssumption DEF Spent
<1> QED
  BY <1>1, Inductive, PTL

\* A request that carries the secondary key is never signed with the primary,
\* though the two are read under separate locks (doRequest).
THEOREM SignaturesNotOlder == Spec => []SignatureNotOlder
<1>1. IInv => SignatureNotOlder
  BY DEF IInv
<1> QED
  BY <1>1, Inductive, PTL

\* A Post that gives up with an authentication error leaves the client on its
\* secondary key (postWithKeyRotation, rotateToSecondaryKey).
THEOREM AuthErrorsRotate == Spec => []AuthErrorLeavesSecondary
<1>1. IInv => AuthErrorLeavesSecondary
  BY DEF IInv
<1> QED
  BY <1>1, Inductive, PTL

-------------------------------------------------------------------------------

\* Under the invariant every step of the client is a step of the breaker's
\* protocol, or a stutter of it: a goroutine that calls Allow owes no report
\* and so holds no admission, one that reports owes one and so holds it.
LEMMA StepSimulation ==
  ASSUME SlotHeldWhileOwed, [Next]_vars
  PROVE  CB!Next \/ UNCHANGED CB!vars
<1> USE DEF CB!vars, CB!breaker, circuit, SlotHeldWhileOwed, OwesReport, At
<1>1. ASSUME NEW r \in Request, Admit(r) PROVE CB!Next
  <2>1. call[r] = "none"
    BY <1>1 DEF Admit
  <2>2. CB!Allow(r)
    BY <1>1, <2>1 DEF Admit, CB!Grant, CB!Allow, CB!AllowClosed, CB!AllowFirstProbe, CB!AllowProbe
  <2> QED
    BY <2>2 DEF CB!Allow, CB!Next
<1>2. ASSUME NEW r \in Request, Refuse(r) PROVE CB!Next
  BY <1>2 DEF Refuse, CB!Next
<1>3. ASSUME NEW r \in Request, Succeed(r) PROVE CB!Next
  <2>1. call[r] # "none"
    BY <1>3 DEF Succeed
  <2>2. CB!RecordSuccess(r)
    BY <1>3, <2>1 DEF Succeed, CB!RecordSuccess
  <2> QED
    BY <2>2 DEF CB!Next
<1>4. ASSUME NEW r \in Request, FailAuth(r) \/ FailOther(r) \/ Exhaust(r) PROVE CB!Next
  <2>1. call[r] # "none"
    BY <1>4 DEF FailAuth, FailOther, Exhaust
  <2>2. CB!RecordFailure(r)
    BY <1>4, <2>1 DEF FailAuth, FailOther, Exhaust, CB!RecordFailure
  <2> QED
    BY <2>2 DEF CB!Next
<1>5. ASSUME NEW r \in Request, Cancel(r) PROVE CB!Next
  <2>1. call[r] # "none"
    BY <1>5 DEF Cancel
  <2>2. CB!Abandon(r)
    BY <1>5, <2>1 DEF Cancel, CB!Abandon
  <2> QED
    BY <2>2 DEF CB!Next
<1>6. CASE Elapse
  BY <1>6 DEF Elapse, CB!Next
<1>7. ASSUME NEW r \in Request,
             \/ Begin(r) \/ ReadHeaderKey(r) \/ ReadSigningKey(r) \/ FailRetryable(r)
             \/ RetryAfterBackoff(r) \/ RotateKey(r) \/ RotationRefused(r) \/ Return(r)
      PROVE  UNCHANGED CB!vars
  BY <1>7 DEF Begin, ReadHeaderKey, ReadSigningKey, FailRetryable, RetryAfterBackoff,
              RotateKey, RotationRefused, Return
<1>8. CASE UNCHANGED vars
  BY <1>8 DEF vars
<1> QED
  BY <1>1, <1>2, <1>3, <1>4, <1>5, <1>6, <1>7, <1>8 DEF Next, Proceed, Respond

\* The HTTP client keeps the breaker's protocol, whatever its goroutines do:
\* request() and postWithKeyRotation() never ask for an admission while they
\* hold one, never report without one and never twice for one
\* (internal/http/client.go).
THEOREM HttpImplementsBreaker == Spec => BreakerSpec
<1>1. Init => CB!Init
  BY DEF Init
<1>2. IInv /\ [Next]_vars => [CB!Next]_(CB!vars)
  BY StepSimulation DEF IInv
<1> QED
  BY <1>1, <1>2, Inductive, PTL DEF Spec, BreakerSpec, CB!Spec

-------------------------------------------------------------------------------

\* What is proved of the breaker holds of it inside the client.
CBP == INSTANCE CircuitBreakerProofs WITH Call <- Request, Abandoner <- Cancellable

LEMMA BreakerAssumptions == CBP!ConfigAssumption /\ CBP!CallAssumption
<1>1. CBP!ConfigAssumption
  BY HttpAssumption DEF CBP!ConfigAssumption
<1>2. CBP!CallAssumption
  BY HttpAssumption DEF CBP!CallAssumption, IsFiniteSet, CBP!IsFiniteSet
<1> QED
  BY <1>1, <1>2

\* CircuitBreaker reached through its proofs is the same specification.
LEMMA SameBreaker ==
  /\ CB!Init => CBP!Init
  /\ [CB!Next]_(CB!vars) => [CBP!Next]_(CBP!vars)
<1>1. CB!Init => CBP!Init
  BY DEF CB!Init, CBP!Init
<1>2. [CB!Next]_(CB!vars) => [CBP!Next]_(CBP!vars)
  BY DEF
    CB!Next, CB!vars, CB!breaker, CB!EnterHalfOpen, CB!transitionTo, CB!AllowClosed,
    CB!GrantClosed, CB!AllowFirstProbe, CB!GrantFirstProbe, CB!AllowProbe,
    CB!GrantProbe, CB!Reject, CB!RecordSuccess, CB!CountSuccess, CB!RecordFailure,
    CB!CountFailure, CB!Abandon, CB!Leave, CB!Reset, CB!Elapse, CB!Retired, CB!SlotFree,
    CB!ResetTimeoutElapsed, CB!SuccessThresholdMet, CB!FailureThresholdMet,
    CB!ReleaseSlot, CBP!Next, CBP!vars, CBP!breaker, CBP!EnterHalfOpen,
    CBP!transitionTo, CBP!AllowClosed, CBP!GrantClosed, CBP!AllowFirstProbe,
    CBP!GrantFirstProbe, CBP!AllowProbe, CBP!GrantProbe, CBP!Reject, CBP!RecordSuccess,
    CBP!CountSuccess, CBP!RecordFailure, CBP!CountFailure, CBP!Abandon, CBP!Leave,
    CBP!Reset, CBP!Elapse, CBP!Retired, CBP!SlotFree, CBP!ResetTimeoutElapsed,
    CBP!SuccessThresholdMet, CBP!FailureThresholdMet, CBP!ReleaseSlot
<1> QED
  BY <1>1, <1>2

\* Under any load of concurrent operations, fewer than HalfOpenMaxAllowed +
\* SuccessThreshold requests of one half-open period are out together (Allow,
\* as called by request).
THEOREM ClientProbesBounded == Spec => []CBP!ProbeBound
<1>1. CBP!Spec => []CBP!ProbeBound
  BY BreakerAssumptions, CBP!ProbesBounded, PTL
<1> QED
  BY <1>1, SameBreaker, HttpImplementsBreaker, PTL DEF BreakerSpec, CB!Spec, CBP!Spec

\* Under any load of concurrent operations, no count of the circuit rests at or
\* past its threshold or outlives its state (RecordSuccess and RecordFailure, as
\* called by request).
THEOREM ClientCountersCorrect == Spec => []CBP!CountersBelowThreshold
<1>1. CBP!Spec => []CBP!CountersBelowThreshold
  BY BreakerAssumptions, CBP!CountersCorrect, PTL
<1> QED
  BY <1>1, SameBreaker, HttpImplementsBreaker, PTL DEF BreakerSpec, CB!Spec, CBP!Spec

\* In the client one thing only makes a half-open circuit run out of slots for
\* good: a context that is cancelled during the back-off of a probe (request,
\* the select on ctx.Done).
THEOREM OnlyCancelsLeak ==
  Spec => [][CBP!Leak' > CBP!Leak /\ CBP!Leak' > 0 =>
               \E r \in Cancellable : call[r] = "probe" /\ Cancel(r)]_vars
<1> DEFINE Leaks == CBP!Leak' > CBP!Leak /\ CBP!Leak' > 0
           Left(r) == call[r] = "probe" /\ call'[r] = "none" /\ UNCHANGED CBP!breaker
<1>1. CBP!Spec => CBP!LeaksOnlyByAbandon
  BY BreakerAssumptions, CBP!SlotsLeakOnlyByAbandon, PTL
<1>2. ASSUME IInv, [Next]_vars, Leaks, NEW r \in Cancellable, Left(r)
      PROVE  Cancel(r)
  <2> USE <1>2 DEF IInv, TypeOK
  <2>1. r \in Request /\ call'[r] # call[r]
    BY HttpAssumption
  <2>2. state = "half_open" /\ halfOpenInProgress' = halfOpenInProgress /\ state' = state
    BY DEF CBP!Leak, CBP!breaker
  <2>3. halfOpenInProgress \in Int
    BY DEF CB!TypeOK
  <2>4. ASSUME NEW q \in Request, CB!CountSuccess(q) \/ CB!CountFailure(q) PROVE FALSE
    BY <2>2, <2>3, <2>4
    DEF CB!CountSuccess, CB!CountFailure, CB!ReleaseSlot, CB!transitionTo
  <2>5. ASSUME NEW q \in Request, Admit(q) PROVE FALSE
    BY <2>1, <2>5, GrantHolds DEF Admit, Held
  <2>6. ASSUME NEW q \in Request, Refuse(q) \/ Elapse PROVE FALSE
    BY <2>1, <2>6 DEF Refuse, CB!Reject, Elapse, CB!Elapse
  <2>7. ASSUME NEW q \in Request,
               Succeed(q) \/ FailAuth(q) \/ FailOther(q) \/ Exhaust(q)
        PROVE  FALSE
    BY <2>4, <2>7 DEF Succeed, FailAuth, FailOther, Exhaust
  <2>8. ASSUME NEW q \in Request,
               \/ Begin(q) \/ ReadHeaderKey(q) \/ ReadSigningKey(q) \/ FailRetryable(q)
               \/ RetryAfterBackoff(q) \/ RotateKey(q) \/ RotationRefused(q) \/ Return(q)
               \/ UNCHANGED vars
        PROVE  FALSE
    BY <2>1, <2>8 DEF Begin, ReadHeaderKey, ReadSigningKey, FailRetryable,
                      RetryAfterBackoff, RotateKey, RotationRefused, Return, circuit, vars
  <2>9. ASSUME NEW q \in Request, Cancel(q) PROVE q = r
    BY <2>1, <2>9 DEF Cancel, CB!Leave, CB!TypeOK
  <2> QED
    BY <2>1, <2>5, <2>6, <2>7, <2>8, <2>9 DEF Next, Proceed, Respond
<1>3. ASSUME IInv, UNCHANGED CBP!vars PROVE ~Leaks
  <2>1. CBP!Leak' = CBP!Leak
    BY <1>3 DEF CBP!vars, CBP!breaker, CBP!Leak, CBP!Probes
  <2>2. CBP!Leak \in Int
    <3>1. CBP!Cardinality(CBP!Probes) \in Nat
      BY BreakerAssumptions, CBP!ProbesFinite
    <3> QED
      BY <1>3, <3>1 DEF CBP!Leak, IInv, TypeOK, CB!TypeOK
  <2> QED
    BY <2>1, <2>2
<1>4. IInv /\ [Next]_vars /\
      [CBP!Leak' > CBP!Leak /\ CBP!Leak' > 0 =>
         \E c \in Cancellable :
           call[c] = "probe" /\ call'[c] = "none" /\ UNCHANGED CBP!breaker]_(CBP!vars)
      => [CBP!Leak' > CBP!Leak /\ CBP!Leak' > 0 =>
            \E r \in Cancellable : call[r] = "probe" /\ Cancel(r)]_vars
  BY <1>2, <1>3
<1> QED
  BY <1>1, <1>4, Inductive, SameBreaker, HttpImplementsBreaker, PTL
  DEF Spec, BreakerSpec, CB!Spec, CBP!Spec, CBP!LeaksOnlyByAbandon
===============================================================================
