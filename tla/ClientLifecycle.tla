---------------------------- MODULE ClientLifecycle ----------------------------
(***************************************************************************)
(* The life of one Client of client/client.go, with polling enabled and not *)
(* offline: Initialize, WaitForReady, Refresh and Close called from any    *)
(* number of goroutines, over the polling managers and the event queue they *)
(* start and stop.  The client's mutex covers closed and ready only;       *)
(* pollingManager is checked, assigned and used without it, and read anew  *)
(* at each use.                                                            *)
(*                                                                         *)
(* Each manager is a Polling of its own (Managed), whose callback is the   *)
(* client's refresh.  What Initialize and refresh do to the cache is       *)
(* FlagSync, what the queue does EventPipeline.                            *)
(***************************************************************************)
EXTENDS Integers, FiniteSets

CONSTANTS
    Goroutine,          \* bound: callers and loops that exist at a time
    Manager,            \* bound: managers that are created
    NoManager,          \* the nil pointer
    Interval, MaxInterval, BackoffMultiplier

ASSUME LifecycleAssumption ==
    /\ NoManager \notin Manager
    /\ Interval \in Nat /\ MaxInterval \in Nat /\ BackoffMultiplier \in Nat

VARIABLES
    closed, ready, pollingManager,      \* of the Client
    queueRunning,                       \* EventQueue.running
    running, currentInterval,           \* of each manager
    created,                            \* managers that exist
    pc,                                 \* what each goroutine does
    of,                                 \* the manager a loop belongs to
    told,                               \* loops that wait on a closed channel
    \* History, which no step depends on:
    restarted,                          \* of each manager
    overlapped                          \* an Initialize met another or a Close

client == <<closed, ready, pollingManager, queueRunning>>
manager == <<running, currentInterval, created, restarted>>
vars == <<client, manager, pc, of, told, overlapped>>

\* Steps of a loop beside the callback; of the callback, or of Refresh; of
\* Initialize; of Close.
Looping == {"ready", "wait", "check"}
Refreshing == {"poll", "updated", "failed", "return"}
Initializing == {"init", "poll?", "create", "start", "queue", "set_ready"}
Closing == {"stop", "drain"}
Step == {"idle"} \cup Looping \cup Refreshing \cup Initializing \cup Closing

Loops(m) == {g \in Goroutine : of[g] = m}

Managed(m) == INSTANCE Polling WITH
    Worker <- Goroutine,
    running <- running[m],
    currentInterval <- currentInterval[m],
    pc <- [g \in Goroutine |-> IF of[g] # m THEN "idle"
                               ELSE IF pc[g] \in Refreshing THEN "poll" ELSE pc[g]],
    loops <- Loops(m),
    told <- told \cap Loops(m),
    restarted <- restarted[m]

Busy(steps) == \E g \in Goroutine : pc[g] \in steps

-------------------------------------------------------------------------------

Init ==
    /\ closed = FALSE /\ ready = FALSE /\ pollingManager = NoManager
    /\ queueRunning = FALSE
    /\ running = [m \in Manager |-> FALSE]
    /\ currentInterval = [m \in Manager |-> Interval]
    /\ created = {}
    /\ pc = [g \in Goroutine |-> "idle"]
    /\ of = [g \in Goroutine |-> NoManager]
    /\ told = {}
    /\ restarted = [m \in Manager |-> FALSE]
    /\ overlapped = FALSE

Goto(g, s) == pc' = [pc EXCEPT ![g] = s]

\* A step of g that touches nothing but g.
Local(g, from, to) ==
    /\ pc[g] = from
    /\ Goto(g, to)
    /\ UNCHANGED <<client, manager, of, told, overlapped>>

\* Mutant: no look at closed.
Initialize_Closed(g) ==
    /\ pc[g] = "idle"
    /\ Goto(g, "init")
    /\ overlapped' = (overlapped \/ Busy(Initializing))
    /\ UNCHANGED <<client, manager, of, told>>

\* Initialize up to its request, refused when the client is closed.  WaitForReady
\* is a look at ready, which may have changed by the time it calls Initialize.
Initialize(g) ==
    /\ ~closed
    /\ pc[g] = "idle"
    /\ Goto(g, "init")
    /\ overlapped' = (overlapped \/ Busy(Initializing))
    /\ UNCHANGED <<client, manager, of, told>>

InitAnswered(g) == Local(g, "init", "poll?")

\* No answer, or one that cannot be parsed: ready all the same.
InitFails(g) == Local(g, "init", "set_ready")

startPolling(g) == Local(g, "poll?", IF pollingManager = NoManager THEN "create" ELSE "queue")

NewPollingManager(g) ==
    /\ pc[g] = "create"
    /\ \E m \in Manager \ created :
         /\ pollingManager' = m
         /\ created' = created \cup {m}
    /\ Goto(g, "start")
    /\ UNCHANGED <<closed, ready, queueRunning, running, currentInterval, restarted,
                   of, told, overlapped>>

\* Mutant: Start does not look whether the manager runs.
StartPolling_Again(g, w) ==
    /\ pc[g] = "start"
    /\ pc[w] = "idle"
    /\ running' = [running EXCEPT ![pollingManager] = TRUE]
    /\ pc' = [pc EXCEPT ![g] = "queue", ![w] = "ready"]
    /\ of' = [of EXCEPT ![w] = pollingManager]
    /\ UNCHANGED <<client, currentInterval, created, restarted, told, overlapped>>

\* c.pollingManager.Start(): w is the goroutine it begins.
StartPolling(g, w) ==
    /\ pc[g] = "start"
    /\ ~running[pollingManager]
    /\ pc[w] = "idle"
    /\ running' = [running EXCEPT ![pollingManager] = TRUE]
    /\ pc' = [pc EXCEPT ![g] = "queue", ![w] = "ready"]
    /\ of' = [of EXCEPT ![w] = pollingManager]
    /\ restarted' = [restarted EXCEPT ![pollingManager] = @ \/ Loops(pollingManager) # {}]
    /\ UNCHANGED <<client, currentInterval, created, told, overlapped>>

StartInVain(g) == pc[g] = "start" /\ running[pollingManager] /\ Local(g, "start", "queue")

StartQueue(g) ==
    /\ pc[g] = "queue"
    /\ queueRunning' = TRUE
    /\ Goto(g, "set_ready")
    /\ UNCHANGED <<closed, ready, pollingManager, manager, of, told, overlapped>>

\* Mutant: ready only after a success.
setReady_Lost(g) == Local(g, "set_ready", "idle")

setReady(g) ==
    /\ pc[g] = "set_ready"
    /\ ready' = TRUE
    /\ Goto(g, "idle")
    /\ UNCHANGED <<closed, pollingManager, queueRunning, manager, of, told, overlapped>>

\* Close up to the end of its critical region.
Close(g) ==
    /\ pc[g] = "idle"
    /\ ~closed
    /\ closed' = TRUE
    /\ Goto(g, "stop")
    /\ overlapped' = (overlapped \/ Busy(Initializing))
    /\ UNCHANGED <<ready, pollingManager, queueRunning, manager, of, told>>

\* Mutant: polling is not stopped.
StopPolling_Forgotten(g) == Local(g, "stop", "drain")

StopPolling(g) ==
    LET m == pollingManager
    IN  /\ pc[g] = "stop"
        /\ Goto(g, "drain")
        /\ IF m # NoManager /\ running[m]
             THEN /\ running' = [running EXCEPT ![m] = FALSE]
                  /\ told' = told \cup {w \in Loops(m) : pc[w] = "wait"}
             ELSE UNCHANGED <<running, told>>
        /\ UNCHANGED <<client, currentInterval, created, restarted, of, overlapped>>

\* Stop of the queue, whose final flush is in EventPipeline, then of the log and
\* of the HTTP client.
StopQueue(g) ==
    /\ pc[g] = "drain"
    /\ queueRunning' = FALSE
    /\ Goto(g, "idle")
    /\ UNCHANGED <<closed, ready, pollingManager, manager, of, told, overlapped>>

\* Refresh reads closed without the mutex.
Refresh(g) == ~closed /\ Local(g, "idle", "poll")

-------------------------------------------------------------------------------
\* refresh, in a loop or in a caller of Refresh.

UpdatesAnswered(g) == Local(g, "poll", "updated")
UpdatesFail(g) == Local(g, "poll", "failed")
UpdatesUnparsable(g) == Local(g, "poll", "return")

Backoff(i) ==
    LET longer == i * BackoffMultiplier
    IN  IF longer > MaxInterval THEN MaxInterval ELSE longer

\* OnSuccess and OnError go to the manager the client has by now.
Report(g, from, interval) ==
    /\ pc[g] = from
    /\ Goto(g, "return")
    /\ currentInterval' =
         [m \in Manager |-> IF m = pollingManager THEN interval ELSE currentInterval[m]]
    /\ UNCHANGED <<client, running, created, restarted, of, told, overlapped>>

ReportSuccess(g) == Report(g, "updated", Interval)

ReportFailure(g) ==
    Report(g, "failed", IF pollingManager = NoManager THEN Interval
                        ELSE Backoff(currentInterval[pollingManager]))

\* The panic of OnUpdate in a loop, which poll() recovers.
Panicked(g) ==
    /\ pc[g] = "updated"
    /\ of[g] # NoManager
    /\ Goto(g, "ready")
    /\ currentInterval' = [currentInterval EXCEPT ![of[g]] = Backoff(@)]
    /\ UNCHANGED <<client, running, created, restarted, of, told, overlapped>>

Returned(g) == Local(g, "return", IF of[g] = NoManager THEN "idle" ELSE "ready")

-------------------------------------------------------------------------------
\* The loops: Polling.

Wait(g) ==
    /\ pc[g] = "ready"
    /\ Goto(g, "wait")
    /\ told' = IF running[of[g]] THEN told ELSE told \cup {g}
    /\ UNCHANGED <<client, manager, of, overlapped>>

Leave(g) ==
    /\ pc[g] = "wait"
    /\ g \in told
    /\ Goto(g, "idle")
    /\ of' = [of EXCEPT ![g] = NoManager]
    /\ told' = told \ {g}
    /\ UNCHANGED <<client, manager, overlapped>>

TimerFires(g) ==
    /\ pc[g] = "wait"
    /\ Goto(g, "check")
    /\ told' = told \ {g}
    /\ UNCHANGED <<client, manager, of, overlapped>>

Check(g) == pc[g] = "check" /\ Local(g, "check", IF running[of[g]] THEN "poll" ELSE "ready")

-------------------------------------------------------------------------------

Call(g) == Initialize(g) \/ Refresh(g) \/ Close(g)

\* Answers come, or do not, and the goroutines go on.
Run(g) ==
    \/ InitAnswered(g) \/ InitFails(g)
    \/ startPolling(g) \/ NewPollingManager(g) \/ StartInVain(g)
    \/ (\E w \in Goroutine : StartPolling(g, w))
    \/ StartQueue(g) \/ setReady(g)
    \/ StopPolling(g) \/ StopQueue(g)
    \/ UpdatesAnswered(g) \/ UpdatesFail(g) \/ UpdatesUnparsable(g)
    \/ ReportSuccess(g) \/ ReportFailure(g) \/ Returned(g)
    \/ Wait(g) \/ Leave(g) \/ Check(g)

Next == \E g \in Goroutine : Call(g) \/ Run(g) \/ TimerFires(g) \/ Panicked(g)

Spec == Init /\ [][Next]_vars

\* Requests end, by an answer or by the timeout of the HTTP client; goroutines
\* run; a select does not choose its timer again and again.
Fairness == \A g \in Goroutine : WF_vars(Run(g)) /\ SF_vars(Leave(g))

FairSpec == Spec /\ Fairness

-------------------------------------------------------------------------------

\* Every variable has its type, a goroutine is a loop or a caller by what it
\* does, and nobody calls a manager that is not there.
TypeOK ==
    /\ closed \in BOOLEAN /\ ready \in BOOLEAN /\ queueRunning \in BOOLEAN
    /\ pollingManager \in created \cup {NoManager}
    /\ created \subseteq Manager
    /\ running \in [Manager -> BOOLEAN]
    /\ currentInterval \in [Manager -> Nat]
    /\ pc \in [Goroutine -> Step]
    /\ of \in [Goroutine -> Manager \cup {NoManager}]
    /\ told \subseteq {g \in Goroutine : pc[g] = "wait"}
    /\ \A g \in Goroutine :
         /\ pc[g] \in Looping => of[g] # NoManager
         /\ pc[g] \notin Looping \cup Refreshing => of[g] = NoManager
         /\ pc[g] = "start" => pollingManager # NoManager
    /\ restarted \in [Manager -> BOOLEAN]
    /\ overlapped \in BOOLEAN

\* As long as no Initialize met another one or a Close, the client can reach
\* whatever runs on its behalf: one goroutine at most polls for it, for the
\* manager it points to, and once Close has done with polling and with the queue
\* they stay down.
InReach ==
    ~overlapped =>
        /\ \A m \in Manager : Loops(m) # {} => m = pollingManager
        /\ \A g, h \in Loops(pollingManager) \ Loops(NoManager) : g = h
        /\ closed /\ ~Busy({"stop"}) => \A m \in Manager : ~running[m]
        /\ closed /\ ~Busy(Closing) => ~queueRunning

\* Each manager is a polling manager, whichever goroutine the client calls it
\* from and whosever poll it is told about.
ManagersPoll ==
    /\ \A m \in Manager : Managed(m)!Init
    /\ [][\A m \in Manager : Managed(m)!Next \/ UNCHANGED Managed(m)!vars]_vars

\* A manager whose Stop has come and which nothing starts again runs no loop in
\* the end: after Close no polling goroutine is left.
PollingEnds == closed ~> overlapped \/ \A g \in Goroutine : of[g] = NoManager

\* Whatever becomes of the request, a client that began to initialise gets ready
\* (unless the bounds are reached).
Exhausted == created = Manager \/ ~Busy({"idle"})

GetsReady == Busy(Initializing) ~> ready \/ Exhausted

\* client.go:495: "Close closes the client and cleans up resources": when no
\* call is under way any more, a closed client does not poll.
CloseCleansUp ==
    closed /\ ~Busy(Initializing \cup Closing) => \A m \in Manager : ~running[m]
===============================================================================
