----------------------------- MODULE PollingProofs -----------------------------
(***************************************************************************)
(* Proofs about Polling for any number of goroutines and any configuration. *)
(***************************************************************************)
EXTENDS Polling, FiniteSetTheorems, TLAPS

\* A goroutine waits on a closed channel only if it is a loop that waits, and
\* one that waits while the manager is stopped does.
Threads ==
    /\ \A w \in told : w \in loops /\ pc[w] = "wait"
    /\ \A w \in loops : pc[w] # "idle"
    /\ \A w \in Worker : pc[w] \in {"ready", "wait"} => w \in loops
    /\ \A w \in Worker : pc[w] = "wait" /\ ~running => w \in told

Single == ~restarted => \A v, w \in loops : v = w

\* Single, not OneLoop, is inductive: it speaks of the loops, not of how many.
Inv ==
    /\ TypeOK
    /\ Threads
    /\ Single
    /\ RunningIsPolled
    /\ IntervalBounded

LEMMA BackoffBounded ==
    ASSUME NEW i \in Nat
    PROVE  Backoff(i) \in Nat /\ Backoff(i) <= MaxInterval
<1>1. i * BackoffMultiplier \in Nat
  BY PollingAssumption
<1> QED
  BY <1>1, PollingAssumption DEF Backoff

LEMMA InitInv == Init => Inv
<1> SUFFICES ASSUME Init PROVE Inv
  OBVIOUS
<1> USE DEF Init
<1>1. TypeOK
  BY PollingAssumption DEF TypeOK, Step
<1>2. Threads /\ Single /\ RunningIsPolled
  BY DEF Threads, Single, RunningIsPolled
<1>3. IntervalBounded
  BY PollingAssumption DEF IntervalBounded
<1> QED
  BY <1>1, <1>2, <1>3 DEF Inv

LEMMA StartStep ==
    ASSUME Inv, NEW w \in Worker, Start(w)
    PROVE  Inv'
<1> USE DEF Inv, Start, Goto
<1>1. TypeOK'
  BY DEF TypeOK, Step
<1>2. w \notin told /\ w \notin loops
  BY DEF Threads
<1>3. Threads'
  BY <1>2 DEF Threads, TypeOK
<1>4. RunningIsPolled'
  BY <1>2 DEF RunningIsPolled, Going
<1>5. Single'
  BY DEF Single, TypeOK
<1>6. IntervalBounded'
  BY DEF IntervalBounded
<1> QED
  BY <1>1, <1>3, <1>4, <1>5, <1>6

LEMMA StopStep ==
    ASSUME Inv, Stop
    PROVE  Inv'
<1> USE DEF Inv, Stop
<1>1. TypeOK'
  BY DEF TypeOK
<1>2. Threads'
  BY DEF Threads, TypeOK
<1> QED
  BY <1>1, <1>2 DEF Single, RunningIsPolled, IntervalBounded

\* A step that changes nothing but the interval.
LEMMA IntervalStep ==
    ASSUME Inv, UNCHANGED <<running, pc, loops, told, restarted>>,
           currentInterval' = Interval \/ currentInterval' = Backoff(currentInterval)
    PROVE  Inv'
<1>1. /\ currentInterval' \in Nat
      /\ currentInterval' <= IF Interval > MaxInterval THEN Interval ELSE MaxInterval
  <2>1. CASE currentInterval' = Interval
    BY <2>1, PollingAssumption
  <2>2. CASE currentInterval' = Backoff(currentInterval)
    <3>1. Backoff(currentInterval) \in Nat /\ Backoff(currentInterval) <= MaxInterval
      BY BackoffBounded DEF Inv, TypeOK
    <3> QED
      BY <2>2, <3>1, PollingAssumption
  <2> QED
    BY <2>1, <2>2
<1> QED
  BY <1>1 DEF Inv, TypeOK, Threads, Single, RunningIsPolled, IntervalBounded, Going

\* The steps of a goroutine that do not change who loops and who has been told.
LEMMA BusyStep ==
    ASSUME Inv, NEW w \in Worker, NEW s \in {"ready", "check", "poll", "idle"},
           Goto(w, s), pc[w] \notin {"ready", "wait"},
           s = "ready" => w \in loops,
           s = "idle" => w \notin loops,
           UNCHANGED <<running, currentInterval, loops, told, restarted>>
    PROVE  Inv'
<1> USE DEF Inv, Goto
<1>1. TypeOK'
  BY DEF TypeOK, Step
<1>2. Threads'
  BY DEF Threads, TypeOK
<1> QED
  BY <1>1, <1>2 DEF Single, RunningIsPolled, IntervalBounded, Going

LEMMA WaitingStep ==
    ASSUME Inv, NEW w \in Worker, Wait(w) \/ Leave(w) \/ TimerFires(w)
    PROVE  Inv'
<1> USE DEF Inv, Goto
<1>1. CASE Wait(w)
  <2> USE <1>1 DEF Wait
  <2>1. TypeOK'
    BY DEF TypeOK, Step
  <2>2. Threads'
    BY DEF Threads, TypeOK
  <2> QED
    BY <2>1, <2>2 DEF Single, RunningIsPolled, IntervalBounded, Going, TypeOK
<1>2. CASE Leave(w)
  <2> USE <1>2 DEF Leave
  <2>1. TypeOK'
    BY DEF TypeOK, Step
  <2>2. Threads'
    BY DEF Threads, TypeOK
  <2> QED
    BY <2>1, <2>2 DEF Single, RunningIsPolled, IntervalBounded, Going
<1>3. CASE TimerFires(w)
  <2> USE <1>3 DEF TimerFires
  <2>1. TypeOK'
    BY DEF TypeOK, Step
  <2>2. Threads'
    BY DEF Threads, TypeOK
  <2> QED
    BY <2>1, <2>2 DEF Single, RunningIsPolled, IntervalBounded, Going
<1> QED
  BY <1>1, <1>2, <1>3

LEMMA NextInv == Inv /\ [Next]_vars => Inv'
<1> SUFFICES ASSUME Inv, [Next]_vars PROVE Inv'
  OBVIOUS
<1>1. ASSUME NEW w \in Worker, Start(w) PROVE Inv'
  BY <1>1, StartStep
<1>2. ASSUME NEW w \in Worker, PollNow(w) PROVE Inv'
  BY <1>2, BusyStep DEF PollNow
<1>3. CASE Stop
  BY <1>3, StopStep
<1>4. CASE OnSuccess \/ OnError
  BY <1>4, IntervalStep DEF OnSuccess, OnError
<1>5. ASSUME NEW w \in Worker, Wait(w) \/ Leave(w) \/ TimerFires(w) PROVE Inv'
  BY <1>5, WaitingStep
<1>6. ASSUME NEW w \in Worker, Check(w) PROVE Inv'
  <2>1. CASE running
    BY <1>6, <2>1, BusyStep DEF Check
  <2>2. CASE ~running /\ w \in loops
    BY <1>6, <2>2, BusyStep DEF Check, AfterPoll
  <2>3. CASE ~running /\ w \notin loops
    BY <1>6, <2>3, BusyStep DEF Check, AfterPoll
  <2> QED
    BY <2>1, <2>2, <2>3
<1>7. ASSUME NEW w \in Worker, Polled(w) PROVE Inv'
  <2>1. CASE w \in loops
    BY <1>7, <2>1, BusyStep DEF Polled, AfterPoll
  <2>2. CASE w \notin loops
    BY <1>7, <2>2, BusyStep DEF Polled, AfterPoll
  <2> QED
    BY <2>1, <2>2
<1>8. ASSUME NEW w \in Worker, Panicked(w) PROVE Inv'
  <2> USE <1>8 DEF Panicked, Goto, AfterPoll, Inv
  <2>1. Backoff(currentInterval) \in Nat /\ Backoff(currentInterval) <= MaxInterval
    BY BackoffBounded DEF TypeOK
  <2>2. TypeOK'
    BY <2>1 DEF TypeOK, Step
  <2>3. Threads'
    BY DEF Threads, TypeOK
  <2>4. IntervalBounded'
    BY <2>1, PollingAssumption DEF IntervalBounded
  <2> QED
    BY <2>2, <2>3, <2>4 DEF Single, RunningIsPolled, Going
<1>9. CASE UNCHANGED vars
  BY <1>9 DEF Inv, TypeOK, Threads, Single, RunningIsPolled, IntervalBounded, Going, vars
<1> QED
  BY <1>1, <1>2, <1>3, <1>4, <1>5, <1>6, <1>7, <1>8, <1>9 DEF Next, Call, Run

LEMMA Invariance == Spec => []Inv
BY InitInv, NextInv, PTL DEF Spec

\* Every variable keeps its type.
THEOREM TypeCorrect == Spec => []TypeOK
<1>1. Inv => TypeOK
  BY DEF Inv
<1> QED
  BY Invariance, <1>1, PTL

\* A manager that says it is active has a loop that will go on polling, however
\* often and by whomever it was stopped and started before.
THEOREM ActiveIsPolled == Spec => []RunningIsPolled
<1>1. Inv => RunningIsPolled
  BY DEF Inv
<1> QED
  BY Invariance, <1>1, PTL

\* There is one loop at most, unless some Start came before the last loop ended.
THEOREM NoSecondLoop == Spec => []OneLoop
<1>1. ASSUME Inv PROVE OneLoop
  <2>1. SUFFICES ASSUME ~restarted PROVE Cardinality(loops) <= 1
    BY DEF OneLoop
  <2>2. \A v, w \in loops : v = w
    BY <1>1, <2>1 DEF Inv, Single
  <2>3. CASE loops = {}
    BY <2>3, FS_EmptySet
  <2>4. CASE loops # {}
    <3>1. PICK w : loops = {w}
      BY <2>2, <2>4
    <3> QED
      BY <3>1, FS_Singleton
  <2> QED
    BY <2>3, <2>4
<1> QED
  BY Invariance, <1>1, PTL

\* Errors do not make the interval longer than both the configured one and the
\* maximum, whatever the backoff multiplier.
THEOREM IntervalStaysBounded == Spec => []IntervalBounded
<1>1. Inv => IntervalBounded
  BY DEF Inv
<1> QED
  BY Invariance, <1>1, PTL
===============================================================================
