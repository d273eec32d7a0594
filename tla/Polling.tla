-------------------------------- MODULE Polling --------------------------------
(***************************************************************************)
(* PollingManager, internal/core/polling.go.  Start begins a goroutine that *)
(* polls until it finds its channel closed, Stop closes the channel.  The  *)
(* goroutine reads stopCh anew, without the mutex, each time round: a Stop *)
(* and a Start while it is busy give it the channel of its successor, and  *)
(* both go on.  PollNow polls in the goroutine of its caller.              *)
(*                                                                         *)
(* Every channel but the last has been closed, and the last has been unless *)
(* the manager runs, so a channel is what it says when it is read.         *)
(*                                                                         *)
(* Time is left out: a timer may fire whenever a goroutine waits for it.   *)
(* The jitter of a delay and consecutiveErrors, which is only logged, are  *)
(* left out; currentInterval counts in units of the configuration.         *)
(***************************************************************************)
EXTENDS Integers, FiniteSets

CONSTANTS
    Worker,             \* bound: goroutines that exist at a time
    Interval, MaxInterval, BackoffMultiplier    \* PollingConfig

\* NewPollingManager validates nothing.  These hold of the client's managers.
ASSUME PollingAssumption ==
    /\ Interval \in Nat
    /\ MaxInterval \in Nat
    /\ BackoffMultiplier \in Nat

VARIABLES
    running,
    currentInterval,
    pc,                 \* what each goroutine does
    loops,              \* those that run(), the others poll once
    told,               \* those that wait on a channel that is closed
    \* History, which no step depends on:
    restarted           \* a Start found a loop that had not ended

vars == <<running, currentInterval, pc, loops, told, restarted>>

\* About to wait, waiting for the timer, calling poll(), in the callback.
Step == {"idle", "ready", "wait", "check", "poll"}

\* The loops that will not stop by themselves.
Going == loops \ told

-------------------------------------------------------------------------------

Init ==
    /\ running = FALSE
    /\ currentInterval = Interval
    /\ pc = [w \in Worker |-> "idle"]
    /\ loops = {}
    /\ told = {}
    /\ restarted = FALSE

Goto(w, s) == pc' = [pc EXCEPT ![w] = s]

\* Mutant: Start does not begin a loop while there is one still.
Start_Reuses(w) ==
    /\ ~running
    /\ pc[w] = "idle"
    /\ running' = TRUE
    /\ IF loops = {} THEN Goto(w, "ready") /\ loops' = {w} ELSE UNCHANGED <<pc, loops>>
    /\ UNCHANGED <<currentInterval, told, restarted>>

\* Mutant: Start does not look whether the manager runs.
Start_Again(w) ==
    /\ pc[w] = "idle"
    /\ running' = TRUE
    /\ Goto(w, "ready")
    /\ loops' = loops \cup {w}
    /\ restarted' = (restarted \/ (~running /\ loops # {}))
    /\ UNCHANGED <<currentInterval, told>>

\* w is the goroutine that Start begins, unless the manager runs.
Start(w) ==
    /\ ~running
    /\ pc[w] = "idle"
    /\ running' = TRUE
    /\ Goto(w, "ready")
    /\ loops' = loops \cup {w}
    /\ restarted' = (restarted \/ loops # {})
    /\ UNCHANGED <<currentInterval, told>>

\* Mutant: the channel is not closed.
Stop_KeepsChannel ==
    /\ running
    /\ running' = FALSE
    /\ UNCHANGED <<currentInterval, pc, loops, told, restarted>>

Stop ==
    /\ running
    /\ running' = FALSE
    /\ told' = told \cup {w \in Worker : pc[w] = "wait"}
    /\ UNCHANGED <<currentInterval, pc, loops, restarted>>

\* Mutant: the backoff is not capped.
Backoff_Uncapped(i) == i * BackoffMultiplier

Backoff(i) ==
    LET longer == i * BackoffMultiplier
    IN  IF longer > MaxInterval THEN MaxInterval ELSE longer

\* Also Reset.
OnSuccess ==
    /\ currentInterval' = Interval
    /\ UNCHANGED <<running, pc, loops, told, restarted>>

OnError ==
    /\ currentInterval' = Backoff(currentInterval)
    /\ UNCHANGED <<running, pc, loops, told, restarted>>

PollNow(w) ==
    /\ pc[w] = "idle"
    /\ Goto(w, "check")
    /\ UNCHANGED <<running, currentInterval, loops, told, restarted>>

-------------------------------------------------------------------------------
\* The goroutines.

\* getNextDelay, then stopCh is read.
Wait(w) ==
    /\ pc[w] = "ready"
    /\ Goto(w, "wait")
    /\ told' = IF running THEN told ELSE told \cup {w}
    /\ UNCHANGED <<running, currentInterval, loops, restarted>>

Leave(w) ==
    /\ pc[w] = "wait"
    /\ w \in told
    /\ Goto(w, "idle")
    /\ loops' = loops \ {w}
    /\ told' = told \ {w}
    /\ UNCHANGED <<running, currentInterval, restarted>>

\* The timer fires; if the channel is closed too, select may choose either.
TimerFires(w) ==
    /\ pc[w] = "wait"
    /\ Goto(w, "check")
    /\ told' = told \ {w}
    /\ UNCHANGED <<running, currentInterval, loops, restarted>>

\* poll() returns, at once or from the callback.
AfterPoll(w) == IF w \in loops THEN "ready" ELSE "idle"

Check(w) ==
    /\ pc[w] = "check"
    /\ Goto(w, IF running THEN "poll" ELSE AfterPoll(w))
    /\ UNCHANGED <<running, currentInterval, loops, told, restarted>>

\* The callback returns.  Whatever it calls of the manager are steps of others.
Polled(w) ==
    /\ pc[w] = "poll"
    /\ Goto(w, AfterPoll(w))
    /\ UNCHANGED <<running, currentInterval, loops, told, restarted>>

\* The callback panics, and poll() recovers.
Panicked(w) ==
    /\ pc[w] = "poll"
    /\ Goto(w, AfterPoll(w))
    /\ currentInterval' = Backoff(currentInterval)
    /\ UNCHANGED <<running, loops, told, restarted>>

-------------------------------------------------------------------------------

Call == Stop \/ OnSuccess \/ OnError \/ \E w \in Worker : Start(w) \/ PollNow(w)

\* What a goroutine does by itself.
Run(w) == Wait(w) \/ Leave(w) \/ Check(w) \/ Polled(w)

Next == Call \/ \E w \in Worker : Run(w) \/ TimerFires(w) \/ Panicked(w)

Spec == Init /\ [][Next]_vars

\* Goroutines run, callbacks return, and the select that may choose between its
\* channel and its timer again and again does not always choose the timer.
Fairness == \A w \in Worker : WF_vars(Run(w)) /\ SF_vars(Leave(w))

FairSpec == Spec /\ Fairness

-------------------------------------------------------------------------------

\* Every variable has its type.
TypeOK ==
    /\ running \in BOOLEAN
    /\ currentInterval \in Nat
    /\ pc \in [Worker -> Step]
    /\ loops \subseteq Worker
    /\ told \subseteq Worker
    /\ restarted \in BOOLEAN

\* As long as the manager says it is active some goroutine polls, and has not
\* been told to stop, whatever Stop and Start did to the loops before it.
RunningIsPolled == running => Going # {}

\* One goroutine polls at a time, "Should not start a second goroutine"
\* (tests/polling_test.go:50), unless a Start came before the last one had ended:
\* the two share the channel from then on.
OneLoop == ~restarted => Cardinality(loops) <= 1

\* Errors never make the interval longer than both the interval of the
\* configuration and the maximum.
IntervalBounded ==
    currentInterval <= IF Interval > MaxInterval THEN Interval ELSE MaxInterval

\* Once the manager is stopped all its loops end, those it had twice too,
\* unless it is started again.
StopEnds == ~running ~> running \/ loops = {}
===============================================================================
