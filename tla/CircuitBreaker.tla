---------------------------- MODULE CircuitBreaker ----------------------------
(***************************************************************************)
(* The circuit breaker of internal/http/circuit_breaker.go, seen by the    *)
(* calls that HTTPClient.request wraps in it: a call asks Allow, and when  *)
(* it is admitted it later reports RecordSuccess or RecordFailure, or      *)
(* returns without reporting (a context cancelled during back-off).  Every *)
(* method holds cb.mu throughout, so each is one step; between a call's    *)
(* Allow and its report any steps of other calls may come.                 *)
(*                                                                         *)
(* The breaker does not know who calls it: Grant, CountSuccess and         *)
(* CountFailure do what the code does whoever asks, `call' recording it.   *)
(* The actions add the protocol it relies on: one report per admission.    *)
(*                                                                         *)
(* Time is abstracted to one bit: whether ResetTimeout has passed since    *)
(* lastFailureTime, which is all that Allow asks of the clock.             *)
(***************************************************************************)
EXTENDS Integers, FiniteSets

CONSTANTS
    Call,               \* the calls that may be in progress at a time
    Abandoner,          \* the calls that may return without reporting
    FailureThreshold,
    SuccessThreshold,
    HalfOpenMaxAllowed

\* CircuitBreakerConfig is not validated anywhere: zero is allowed for each.
ASSUME ConfigAssumption ==
    /\ FailureThreshold \in Nat
    /\ SuccessThreshold \in Nat
    /\ HalfOpenMaxAllowed \in Nat

ASSUME CallAssumption == IsFiniteSet(Call) /\ Abandoner \subseteq Call

VARIABLES
    state,              \* "closed", "open" or "half_open"
    failures,
    successes,
    halfOpenAllowed,
    halfOpenInProgress,
    cooled,             \* time.Since(lastFailureTime) >= ResetTimeout
    call                \* what each call holds: "none", "ordinary" or "probe"

breaker == <<state, failures, successes, halfOpenAllowed, halfOpenInProgress, cooled>>
vars == <<breaker, call>>

CircuitState == {"closed", "open", "half_open"}
Admission == {"none", "ordinary", "probe"}

\* The calls admitted during the present half-open period and still out.
Probes == {c \in Call : call[c] = "probe"}

-------------------------------------------------------------------------------

\* A zero lastFailureTime lies far in the past, so the bit starts TRUE.
Init ==
    /\ state = "closed"
    /\ failures = 0
    /\ successes = 0
    /\ halfOpenAllowed = 0
    /\ halfOpenInProgress = 0
    /\ cooled = TRUE
    /\ call = [c \in Call |-> "none"]

transitionTo(newState) ==
    /\ state' = newState
    /\ failures' = 0
    /\ successes' = 0

\* What the calls hold once a half-open period is over: its probes still out
\* are stragglers from then on, like any other call of an earlier period.
Retired == [c \in Call |-> IF call[c] = "none" THEN "none" ELSE "ordinary"]

\* The test of Allow that lets an open circuit be probed.
ResetTimeoutElapsed == state = "open" /\ cooled

SlotFree ==
    \/ state = "closed"
    \/ ResetTimeoutElapsed /\ HalfOpenMaxAllowed > 0
    \/ state = "half_open" /\ halfOpenInProgress < halfOpenAllowed

\* Mutant: entering half-open keeps the in-progress count of the last period.
EnterHalfOpen_StaleCount(n) ==
    /\ transitionTo("half_open")
    /\ halfOpenAllowed' = HalfOpenMaxAllowed
    /\ halfOpenInProgress' = halfOpenInProgress + n
    /\ UNCHANGED cooled

\* Entering half-open, with n probes already counted in.
EnterHalfOpen(n) ==
    /\ transitionTo("half_open")
    /\ halfOpenAllowed' = HalfOpenMaxAllowed
    /\ halfOpenInProgress' = n
    /\ UNCHANGED cooled

GrantClosed(c) ==
    /\ state = "closed"
    /\ call' = [call EXCEPT ![c] = "ordinary"]
    /\ UNCHANGED breaker

GrantFirstProbe(c) ==
    /\ ResetTimeoutElapsed
    /\ HalfOpenMaxAllowed > 0
    /\ EnterHalfOpen(1)
    /\ call' = [call EXCEPT ![c] = "probe"]

\* Mutant: the slot check lets one probe too many through.
GrantProbe_ExtraSlot(c) ==
    /\ state = "half_open"
    /\ halfOpenInProgress <= halfOpenAllowed
    /\ halfOpenInProgress' = halfOpenInProgress + 1
    /\ call' = [call EXCEPT ![c] = "probe"]
    /\ UNCHANGED <<state, failures, successes, halfOpenAllowed, cooled>>

GrantProbe(c) ==
    /\ state = "half_open"
    /\ halfOpenInProgress < halfOpenAllowed
    /\ halfOpenInProgress' = halfOpenInProgress + 1
    /\ call' = [call EXCEPT ![c] = "probe"]
    /\ UNCHANGED <<state, failures, successes, halfOpenAllowed, cooled>>

\* Allow returning true, to a call that holds no admission yet.
Grant(c) == GrantClosed(c) \/ GrantFirstProbe(c) \/ GrantProbe(c)

AllowClosed(c) == call[c] = "none" /\ GrantClosed(c)
AllowFirstProbe(c) == call[c] = "none" /\ GrantFirstProbe(c)
AllowProbe(c) == call[c] = "none" /\ GrantProbe(c)
Allow(c) == AllowClosed(c) \/ AllowFirstProbe(c) \/ AllowProbe(c)

\* Allow returning false.  With no probe allowed at all it still moves an open
\* circuit to half-open before it says no.
Reject ==
    /\ ~SlotFree
    /\ IF ResetTimeoutElapsed THEN EnterHalfOpen(0) ELSE UNCHANGED breaker
    /\ UNCHANGED call

\* Mutant: the count has to exceed the threshold.
SuccessThresholdMet_Exceeded == successes + 1 > SuccessThreshold

SuccessThresholdMet == successes + 1 >= SuccessThreshold
FailureThresholdMet == failures + 1 >= FailureThreshold

\* Mutant: the slot of a report in half-open is not given back.
ReleaseSlot_Never == UNCHANGED halfOpenInProgress

ReleaseSlot == halfOpenInProgress' = halfOpenInProgress - 1

\* In half-open any report counts as a probe's, whoever makes it.
CountSuccess(c) ==
    /\ \/ /\ state = "half_open"
          /\ SuccessThresholdMet
          /\ transitionTo("closed")
          /\ ReleaseSlot
          /\ call' = [Retired EXCEPT ![c] = "none"]
       \/ /\ state = "half_open"
          /\ ~SuccessThresholdMet
          /\ successes' = successes + 1
          /\ ReleaseSlot
          /\ call' = [call EXCEPT ![c] = "none"]
          /\ UNCHANGED <<state, failures>>
       \/ /\ state = "closed"
          /\ failures' = 0
          /\ call' = [call EXCEPT ![c] = "none"]
          /\ UNCHANGED <<state, successes, halfOpenInProgress>>
       \/ /\ state = "open"
          /\ call' = [call EXCEPT ![c] = "none"]
          /\ UNCHANGED <<state, failures, successes, halfOpenInProgress>>
    /\ UNCHANGED <<halfOpenAllowed, cooled>>

RecordSuccess(c) == call[c] # "none" /\ CountSuccess(c)

\* lastFailureTime moves in every state, so a straggler's failure also puts
\* off the next probe of an open circuit.
CountFailure(c) ==
    /\ cooled' = FALSE
    /\ \/ /\ state = "half_open"
          /\ transitionTo("open")
          /\ ReleaseSlot
       \/ /\ state = "closed"
          /\ FailureThresholdMet
          /\ transitionTo("open")
          /\ UNCHANGED halfOpenInProgress
       \/ /\ state = "closed"
          /\ ~FailureThresholdMet
          /\ failures' = failures + 1
          /\ UNCHANGED <<state, successes, halfOpenInProgress>>
       \/ /\ state = "open"
          /\ UNCHANGED <<state, failures, successes, halfOpenInProgress>>
    /\ call' = [Retired EXCEPT ![c] = "none"]
    /\ UNCHANGED halfOpenAllowed

RecordFailure(c) == call[c] # "none" /\ CountFailure(c)

\* A call whose context is cancelled during back-off returns without a report
\* (internal/http/client.go, request).
Leave(c) ==
    /\ call' = [call EXCEPT ![c] = "none"]
    /\ UNCHANGED breaker

Abandon(c) == c \in Abandoner /\ call[c] # "none" /\ Leave(c)

Reset ==
    /\ state' = "closed"
    /\ failures' = 0
    /\ successes' = 0
    /\ halfOpenAllowed' = 0
    /\ halfOpenInProgress' = 0
    /\ call' = Retired
    /\ UNCHANGED cooled

\* ResetTimeout passes without a failure being recorded.
Elapse ==
    /\ ~cooled
    /\ cooled' = TRUE
    /\ UNCHANGED <<state, failures, successes, halfOpenAllowed, halfOpenInProgress, call>>

Next ==
    \/ \E c \in Call : AllowClosed(c)
    \/ \E c \in Call : AllowFirstProbe(c)
    \/ \E c \in Call : AllowProbe(c)
    \/ Reject
    \/ \E c \in Call : RecordSuccess(c)
    \/ \E c \in Call : RecordFailure(c)
    \/ \E c \in Call : Abandon(c)
    \/ Reset
    \/ Elapse

Spec == Init /\ [][Next]_vars

-------------------------------------------------------------------------------

\* Every variable has its type; the in-progress count may go below zero.
TypeOK ==
    /\ state \in CircuitState
    /\ failures \in Nat
    /\ successes \in Nat
    /\ halfOpenAllowed \in Nat
    /\ halfOpenInProgress \in Int
    /\ cooled \in BOOLEAN
    /\ call \in [Call -> Admission]

\* A circuit never rests on a count that should already have moved it: the
\* failures of a closed circuit stay below FailureThreshold, the successes of
\* a half-open one below SuccessThreshold, and each count is zero in the
\* states it does not belong to, so a past period's count never carries over.
CountersBelowThreshold ==
    /\ state = "closed" =>
         successes = 0 /\ (failures = 0 \/ failures < FailureThreshold)
    /\ state = "half_open" =>
         failures = 0 /\ (successes = 0 \/ successes < SuccessThreshold)
    /\ state = "open" => failures = 0 /\ successes = 0

\* The in-progress count is decremented by every report made in half-open, by
\* stragglers of earlier periods too, so it understates the probes that are
\* out; it never understates them by more than the successes counted so far.
ProbeAccounting ==
    /\ state = "half_open" =>
         /\ halfOpenAllowed = HalfOpenMaxAllowed
         /\ halfOpenInProgress <= halfOpenAllowed
         /\ Cardinality(Probes) <= halfOpenInProgress + successes
    /\ state # "half_open" => Probes = {}

\* How far the half-open limit can be exceeded: with stragglers reporting
\* success at the worst moments, fewer than HalfOpenMaxAllowed +
\* SuccessThreshold probes of one half-open period are ever out together
\* (and at most HalfOpenMaxAllowed when one success closes the circuit).
ProbeBound ==
    \/ Cardinality(Probes) <= HalfOpenMaxAllowed
    \/ Cardinality(Probes) < HalfOpenMaxAllowed + SuccessThreshold

\* The slots counted as taken that no probe in progress will give back.
Leak == IF state = "half_open" THEN halfOpenInProgress - Cardinality(Probes) ELSE 0

\* The code keeps no record of who holds a slot, and still loses one in one
\* way only: a probe returns without a report.  No order of reports, of
\* stragglers and of new half-open periods uses slots up.
LeaksOnlyByAbandon ==
    [][Leak' > Leak /\ Leak' > 0 =>
         \E c \in Abandoner :
           call[c] = "probe" /\ call'[c] = "none" /\ UNCHANGED breaker]_vars
===============================================================================
