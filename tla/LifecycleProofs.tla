---------------------------- MODULE LifecycleProofs ----------------------------
(***************************************************************************)
(* Proofs about ClientLifecycle for any number of goroutines and managers: *)
(* what Close stops stays down unless an Initialize met another one or a   *)
(* Close, and every manager the client creates is a Polling, whichever     *)
(* goroutines call it, so that what holds of every Polling holds of it.    *)
(***************************************************************************)
EXTENDS ClientLifecycle, TLAPS

\* A new client has its types.
LEMMA InitTyped == Init => TypeOK
BY LifecycleAssumption DEF Init, TypeOK, Step, Looping, Refreshing

-------------------------------------------------------------------------------
\* Type correctness, action by action.

\* A step of g by itself.
LEMMA LocalTyped ==
    ASSUME TypeOK, NEW g \in Goroutine, NEW r \in Step, NEW s \in Step, Local(g, r, s),
           r # "wait",
           s \in Looping => of[g] # NoManager,
           s \notin Looping \cup Refreshing => of[g] = NoManager,
           s = "start" => pollingManager # NoManager
    PROVE  TypeOK'
<1>1. pc' = [pc EXCEPT ![g] = s] /\ pc \in [Goroutine -> Step] /\ pc[g] # "wait"
  BY DEF Local, Goto, TypeOK
<1>2. /\ pc' \in [Goroutine -> Step]
      /\ pc'[g] = s /\ \A h \in Goroutine \ {g} : pc'[h] = pc[h]
  BY <1>1
<1>3. UNCHANGED <<client, manager, of, told, overlapped>>
  BY DEF Local
<1>4. told' \subseteq {h \in Goroutine : pc'[h] = "wait"}
  BY <1>1, <1>2, <1>3 DEF TypeOK
<1>5. \A h \in Goroutine :
        /\ pc'[h] \in Looping => of'[h] # NoManager
        /\ pc'[h] \notin Looping \cup Refreshing => of'[h] = NoManager
        /\ pc'[h] = "start" => pollingManager' # NoManager
  BY <1>2, <1>3 DEF TypeOK, client
<1> QED
  BY <1>2, <1>3, <1>4, <1>5 DEF TypeOK, client, manager

\* TypeOK is inductive by itself.
LEMMA StepTyped == TypeOK /\ [Next]_vars => TypeOK'
<1> SUFFICES ASSUME TypeOK, [Next]_vars PROVE TypeOK'
  OBVIOUS
<1> USE LifecycleAssumption DEF Looping, Refreshing, Initializing, Closing, Step
<1>1. ASSUME NEW g \in Goroutine,
             \/ InitAnswered(g) \/ InitFails(g) \/ startPolling(g) \/ StartInVain(g)
             \/ Refresh(g) \/ UpdatesAnswered(g) \/ UpdatesFail(g) \/ UpdatesUnparsable(g)
             \/ Returned(g) \/ Check(g)
      PROVE  TypeOK'
  BY <1>1, LocalTyped DEF TypeOK, InitAnswered, InitFails, startPolling, StartInVain, Refresh,
         UpdatesAnswered, UpdatesFail, UpdatesUnparsable, Returned, Check, Local
<1>2. ASSUME NEW g \in Goroutine, Initialize(g) \/ Close(g) PROVE TypeOK'
  BY <1>2 DEF TypeOK, Initialize, Close, Goto, client, manager, Busy
<1>3. ASSUME NEW g \in Goroutine, NewPollingManager(g) PROVE TypeOK'
  BY <1>3 DEF TypeOK, NewPollingManager, Goto
<1>4. ASSUME NEW g \in Goroutine, NEW w \in Goroutine, StartPolling(g, w) PROVE TypeOK'
  BY <1>4 DEF TypeOK, StartPolling, client
<1>5. ASSUME NEW g \in Goroutine, StartQueue(g) \/ setReady(g) \/ StopQueue(g) PROVE TypeOK'
  BY <1>5 DEF TypeOK, StartQueue, setReady, StopQueue, Goto, manager
<1>6. ASSUME NEW g \in Goroutine, StopPolling(g) PROVE TypeOK'
  BY <1>6 DEF TypeOK, StopPolling, Goto, client, Loops
<1>7. ASSUME NEW i \in Nat PROVE Backoff(i) \in Nat
  BY <1>7 DEF Backoff
<1>8. ASSUME NEW g \in Goroutine, ReportSuccess(g) \/ ReportFailure(g) PROVE TypeOK'
  BY <1>7, <1>8 DEF TypeOK, ReportSuccess, ReportFailure, Report, Goto, client
<1>9. ASSUME NEW g \in Goroutine, Panicked(g) PROVE TypeOK'
  BY <1>7, <1>9 DEF TypeOK, Panicked, Goto, client
<1>10. ASSUME NEW g \in Goroutine, Wait(g) PROVE TypeOK'
  BY <1>10 DEF TypeOK, Wait, Goto, client, manager
<1>11. ASSUME NEW g \in Goroutine, Leave(g) PROVE TypeOK'
  BY <1>11 DEF TypeOK, Leave, Goto, client, manager
<1>12. ASSUME NEW g \in Goroutine, TimerFires(g) PROVE TypeOK'
  BY <1>12 DEF TypeOK, TimerFires, Goto, client, manager
<1>13. CASE UNCHANGED vars
  BY <1>13 DEF TypeOK, vars, client, manager
<1> QED
  BY <1>1, <1>2, <1>3, <1>4, <1>5, <1>6, <1>8, <1>9, <1>10, <1>11, <1>12, <1>13
     DEF Next, Call, Run

-------------------------------------------------------------------------------

\* What runs is one of the managers there are.
Owned ==
    /\ \A g \in Goroutine : of[g] \in created \cup {NoManager}
    /\ \A m \in Manager : running[m] => m \in created

\* Close is entered once.
ClosesOnce ==
    /\ \A g \in Goroutine : pc[g] \in Closing => closed
    /\ \A g, h \in Goroutine : pc[g] \in Closing /\ pc[h] \in Closing => g = h

\* As long as no Initialize met another or a Close there is one at a time, none
\* once the client is closed, and one manager at most, the client's.
Serial ==
    ~overlapped =>
        /\ \A g, h \in Goroutine : pc[g] \in Initializing /\ pc[h] \in Initializing => g = h
        /\ closed => \A g \in Goroutine : pc[g] \notin Initializing
        /\ created \subseteq {pollingManager}
        /\ \A g \in Goroutine : pc[g] = "create" => pollingManager = NoManager

\* Then there is one loop at most, and none before a manager is first started.
OneLoop ==
    ~overlapped =>
        /\ \A g, h \in Goroutine : of[g] # NoManager /\ of[h] # NoManager => g = h
        /\ Busy({"create", "start"}) => \A g \in Goroutine : of[g] = NoManager

\* What Close has been through stays down.
Down ==
    ~overlapped =>
        /\ closed /\ ~Busy({"stop"}) => \A m \in Manager : ~running[m]
        /\ closed /\ ~Busy(Closing) => ~queueRunning

\* The inductive invariant for InReach.
ReachInv == TypeOK /\ Owned /\ ClosesOnce /\ Serial /\ OneLoop /\ Down

\* A new client has nothing that runs.
LEMMA InitReach == Init => ReachInv
<1> SUFFICES ASSUME Init PROVE ReachInv
  OBVIOUS
<1> QED
  BY InitTyped DEF Init, ReachInv, Owned, ClosesOnce, Serial, OneLoop, Down, Closing, Initializing

\* A step of g that leaves it what it was: on its way through Initialize or Close
\* or not.  s is where it goes.
LEMMA MoveReaches ==
    ASSUME ReachInv, TypeOK', NEW g \in Goroutine, NEW s \in Step,
           pc' = [pc EXCEPT ![g] = s],
           UNCHANGED <<closed, pollingManager, queueRunning, running, created>>,
           \A h \in Goroutine : of'[h] \in {of[h], NoManager},
           overlapped' = overlapped,
           s \in Initializing => pc[g] \in Initializing,
           pc[g] \notin Closing, s \notin Closing,
           s # "start",
           s = "create" => pollingManager = NoManager
    PROVE  ReachInv'
<1> USE DEF ReachInv
<1>1. pc'[g] = s /\ \A h \in Goroutine \ {g} : pc'[h] = pc[h]
  BY DEF TypeOK
<1>2. Owned'
  BY DEF Owned, TypeOK
<1>3. ClosesOnce'
  BY <1>1 DEF ClosesOnce
<1>4. Serial'
  BY <1>1 DEF Serial
<1>5. (Busy({"stop"}) <=> Busy({"stop"})') /\ (Busy(Closing) <=> Busy(Closing)')
  BY <1>1 DEF Busy, Closing
<1>6. Down'
  BY <1>5 DEF Down
<1>7. ASSUME ~overlapped, Busy({"create", "start"})'
      PROVE  \A h \in Goroutine : of[h] = NoManager
  <2>1. CASE s = "create"
    BY <2>1, <1>7, LifecycleAssumption DEF Serial, Owned, TypeOK
  <2>2. CASE s # "create"
    BY <1>1, <1>7, <2>2 DEF OneLoop, Busy
  <2> QED
    BY <2>1, <2>2
<1>8. OneLoop'
  BY <1>7 DEF OneLoop
<1> QED
  BY <1>2, <1>3, <1>4, <1>6, <1>8

\* Every step keeps the invariant.
LEMMA StepReach == ReachInv /\ [Next]_vars => ReachInv'
<1> SUFFICES ASSUME ReachInv, [Next]_vars PROVE ReachInv'
  OBVIOUS
<1> USE DEF ReachInv
<1>0. TypeOK'
  BY StepTyped
<1>1. ASSUME NEW g \in Goroutine,
             \/ InitAnswered(g) \/ InitFails(g) \/ startPolling(g) \/ StartInVain(g)
             \/ Refresh(g) \/ UpdatesAnswered(g) \/ UpdatesFail(g) \/ UpdatesUnparsable(g)
             \/ Returned(g) \/ Check(g)
      PROVE  ReachInv'
  <2>1. PICK r \in Step, s \in Step :
          /\ Local(g, r, s)
          /\ s \in Initializing => r \in Initializing
          /\ r \notin Closing /\ s \notin Closing
          /\ s = "create" => pollingManager = NoManager
          /\ s # "start"
    BY <1>1 DEF InitAnswered, InitFails, startPolling, StartInVain, Refresh, UpdatesAnswered,
         UpdatesFail, UpdatesUnparsable, Returned, Check, Local,
         Step, Initializing, Closing, Looping, Refreshing
  <2> QED
    BY <1>0, <2>1, MoveReaches DEF Local, Goto, client, manager
<1>2. ASSUME NEW g \in Goroutine, Initialize(g) PROVE ReachInv'
  <2>1. pc'[g] = "init" /\ (\A h \in Goroutine \ {g} : pc'[h] = pc[h]) /\ pc[g] = "idle" /\ ~closed
        /\ overlapped' = (overlapped \/ Busy(Initializing))
        /\ UNCHANGED <<client, manager, of, told>>
    BY <1>2 DEF Initialize, Goto, TypeOK
  <2>2. Owned' /\ ClosesOnce' /\ Serial' /\ Down'
    BY <2>1 DEF Owned, ClosesOnce, Serial, Down, Closing, Initializing, client, manager, Busy
  <2>3. OneLoop'
    BY <2>1 DEF OneLoop, Busy, manager
  <2> QED
    BY <1>0, <2>2, <2>3
<1>3. ASSUME NEW g \in Goroutine, NewPollingManager(g) PROVE ReachInv'
  <2>1. PICK m \in Manager \ created : pollingManager' = m /\ created' = created \cup {m}
    BY <1>3 DEF NewPollingManager
  <2>2. pc'[g] = "start" /\ (\A h \in Goroutine \ {g} : pc'[h] = pc[h]) /\ pc[g] = "create"
        /\ UNCHANGED <<closed, queueRunning, running, of, overlapped>>
    BY <1>3 DEF NewPollingManager, Goto, TypeOK
  <2>3. Owned' /\ ClosesOnce'
    BY <2>1, <2>2 DEF Owned, ClosesOnce, Closing
  <2>4. ~overlapped => created = {}
    BY <2>2, LifecycleAssumption DEF Serial, TypeOK
  <2>5. Serial' /\ Down'
    BY <2>1, <2>2, <2>4 DEF Serial, Down, Closing, Initializing, Busy
  <2>6. OneLoop'
    BY <2>2 DEF OneLoop, Busy
  <2> QED
    BY <1>0, <2>3, <2>5, <2>6
<1>4. ASSUME NEW g \in Goroutine, NEW w \in Goroutine, StartPolling(g, w) PROVE ReachInv'
  <2>1. /\ pc[g] = "start" /\ pc[w] = "idle" /\ pollingManager \in Manager
        /\ pc'[g] = "queue" /\ pc'[w] = "ready"
        /\ \A h \in Goroutine \ {g, w} : pc'[h] = pc[h]
        /\ running' = [running EXCEPT ![pollingManager] = TRUE]
        /\ of' = [of EXCEPT ![w] = pollingManager]
        /\ UNCHANGED <<closed, pollingManager, queueRunning, created, overlapped>>
    BY <1>4 DEF StartPolling, TypeOK, client
  <2>2. pollingManager \in created
    BY <2>1, LifecycleAssumption DEF TypeOK
  <2>3. Owned'
    BY <2>1, <2>2 DEF Owned, TypeOK
  <2>4. ClosesOnce' /\ Serial'
    BY <2>1 DEF ClosesOnce, Serial, Closing, Initializing
  <2>5. Down'
    BY <2>1 DEF Down, Serial, Closing, Initializing, Busy
  <2>6. ~overlapped => ~Busy({"create", "start"})'
    BY <2>1 DEF Serial, Initializing, Busy
  <2>7. ~overlapped => \A h \in Goroutine \ {w} : of'[h] = NoManager
    BY <2>1 DEF OneLoop, Busy, TypeOK
  <2>8. OneLoop'
    BY <2>1, <2>6, <2>7 DEF OneLoop
  <2> QED
    BY <1>0, <2>3, <2>4, <2>5, <2>8
<1>5. ASSUME NEW g \in Goroutine, StartQueue(g) PROVE ReachInv'
  <2>1. /\ pc[g] = "queue" /\ pc'[g] = "set_ready"
        /\ \A h \in Goroutine \ {g} : pc'[h] = pc[h]
        /\ UNCHANGED <<closed, pollingManager, running, created, of, overlapped>>
    BY <1>5 DEF StartQueue, Goto, TypeOK, manager
  <2>2. Owned' /\ ClosesOnce' /\ Serial'
    BY <2>1 DEF Owned, ClosesOnce, Serial, Closing, Initializing
  <2>3. Down'
    BY <2>1 DEF Down, Serial, Closing, Initializing, Busy
  <2>4. OneLoop'
    BY <2>1 DEF OneLoop, Busy
  <2> QED
    BY <1>0, <2>2, <2>3, <2>4
<1>6. ASSUME NEW g \in Goroutine, Close(g) PROVE ReachInv'
  <2>1. /\ pc[g] = "idle" /\ pc'[g] = "stop" /\ ~closed
        /\ \A h \in Goroutine \ {g} : pc'[h] = pc[h]
        /\ overlapped' = (overlapped \/ Busy(Initializing))
        /\ UNCHANGED <<pollingManager, running, created, of>>
    BY <1>6 DEF Close, Goto, TypeOK, manager
  <2>2. Owned' /\ ClosesOnce'
    BY <1>6, <2>1 DEF Close, Owned, ClosesOnce, Closing
  <2>3. Serial' /\ Down'
    BY <2>1 DEF Serial, Down, Closing, Initializing, Busy
  <2>4. OneLoop'
    BY <2>1 DEF OneLoop, Busy
  <2> QED
    BY <1>0, <2>2, <2>3, <2>4
<1>7. ASSUME NEW g \in Goroutine, StopPolling(g) PROVE ReachInv'
  <2>1. /\ pc[g] = "stop" /\ pc'[g] = "drain"
        /\ \A h \in Goroutine \ {g} : pc'[h] = pc[h]
        /\ UNCHANGED <<closed, pollingManager, queueRunning, created, of, overlapped>>
    BY <1>7 DEF StopPolling, Goto, TypeOK, client
  <2>2. /\ \A m \in Manager : running'[m] => running[m]
        /\ pollingManager # NoManager => ~running'[pollingManager]
    BY <1>7 DEF StopPolling, TypeOK
  <2>3. Owned' /\ ClosesOnce' /\ Serial'
    BY <2>1, <2>2 DEF Owned, ClosesOnce, Serial, Closing, Initializing
  <2>4. ~overlapped => \A m \in Manager : ~running'[m]
    BY <2>2, LifecycleAssumption DEF Owned, Serial
  <2>5. Busy(Closing)'
    BY <2>1 DEF Busy, Closing
  <2>6. Down'
    BY <2>1, <2>4, <2>5 DEF Down
  <2>7. OneLoop'
    BY <2>1 DEF OneLoop, Busy
  <2> QED
    BY <1>0, <2>3, <2>6, <2>7
<1>8. ASSUME NEW g \in Goroutine, StopQueue(g) PROVE ReachInv'
  <2>1. /\ pc[g] = "drain" /\ pc'[g] = "idle" /\ queueRunning' = FALSE
        /\ \A h \in Goroutine \ {g} : pc'[h] = pc[h]
        /\ UNCHANGED <<closed, pollingManager, running, created, of, overlapped>>
    BY <1>8 DEF StopQueue, Goto, TypeOK, manager
  <2>2. Owned' /\ ClosesOnce' /\ Serial'
    BY <2>1 DEF Owned, ClosesOnce, Serial, Closing, Initializing
  <2>3. Busy({"stop"})' <=> Busy({"stop"})
    BY <2>1 DEF Busy
  <2>4. Down'
    BY <2>1, <2>3 DEF Down
  <2>5. OneLoop'
    BY <2>1 DEF OneLoop, Busy
  <2> QED
    BY <1>0, <2>2, <2>4, <2>5
<1>9. ASSUME NEW g \in Goroutine,
             \/ setReady(g) \/ ReportSuccess(g) \/ ReportFailure(g) \/ Panicked(g)
             \/ Wait(g) \/ Leave(g) \/ TimerFires(g)
      PROVE  ReachInv'
  <2>1. PICK s \in {"idle", "return", "ready", "wait", "check"} : pc' = [pc EXCEPT ![g] = s]
    BY <1>9 DEF setReady, ReportSuccess, ReportFailure, Report, Panicked, Wait, Leave,
                TimerFires, Goto
  <2>2. s \in Step /\ s \notin Initializing \cup Closing /\ s \notin {"create", "start"}
    BY <2>1 DEF Step, Looping, Refreshing, Initializing, Closing
  <2>3. pc[g] \notin Closing
    BY <1>9 DEF setReady, ReportSuccess, ReportFailure, Report, Panicked, Wait, Leave,
                TimerFires, Closing
  <2>4. UNCHANGED <<closed, pollingManager, queueRunning, running, created, overlapped>>
    BY <1>9 DEF setReady, ReportSuccess, ReportFailure, Report, Panicked, Wait, Leave,
                TimerFires, client, manager
  <2>5. of' = of \/ of' = [of EXCEPT ![g] = NoManager]
    BY <1>9 DEF setReady, ReportSuccess, ReportFailure, Report, Panicked, Wait, Leave, TimerFires
  <2>6. \A h \in Goroutine : of'[h] \in {of[h], NoManager}
    BY <2>5 DEF TypeOK
  <2> QED
    BY <1>0, <2>1, <2>2, <2>3, <2>4, <2>6, MoveReaches
<1>10. CASE UNCHANGED vars
  BY <1>0, <1>10 DEF vars, client, manager, Owned, ClosesOnce, Serial, OneLoop, Down, Busy
<1> QED
  BY <1>1, <1>2, <1>3, <1>4, <1>5, <1>6, <1>7, <1>8, <1>9, <1>10 DEF Next, Call, Run

\* Every variable has its type, and whoever calls a manager has one to call.
THEOREM TypeCorrect == Spec => []TypeOK
BY InitTyped, StepTyped, PTL DEF Spec

\* The client can reach whatever runs for it, one goroutine polls for it at most,
\* and what Close has stopped stays down, unless an Initialize met another one or a Close (Initialize, Close).
THEOREM NothingOutOfReach == Spec => []InReach
<1>1. ReachInv => InReach
  BY LifecycleAssumption DEF ReachInv, InReach, Owned, Serial, OneLoop, Down, Loops
<1> QED
  BY InitReach, StepReach, <1>1, PTL DEF Spec

-------------------------------------------------------------------------------
\* Each manager is a Polling: the refinement that Managed states.

\* Where goroutine g is, as manager m sees it.
Seen(m, g) ==
    IF of[g] # m THEN "idle" ELSE IF pc[g] \in Refreshing THEN "poll" ELSE pc[g]

View(m) == [g \in Goroutine |-> Seen(m, g)]

\* The rest of what a manager is made of.
Rest(m) == <<running[m], currentInterval[m], told \cap Loops(m), restarted[m]>>

\* To m the step is one of a Polling, or none.
SeesStep(m) == Managed(m)!Next \/ UNCHANGED Managed(m)!vars

\* A step that m sees nothing of.
LEMMA NothingSeen ==
    ASSUME NEW m \in Manager,
           \A g \in Goroutine : Seen(m, g)' = Seen(m, g) /\ (of'[g] = m <=> of[g] = m),
           UNCHANGED Rest(m)
    PROVE  SeesStep(m)
<1>1. View(m)' = View(m) /\ Loops(m)' = Loops(m)
  BY DEF View, Loops
<1>2. UNCHANGED Managed(m)!vars
  BY <1>1 DEF Managed!vars, View, Seen, Rest
<1> QED
  BY <1>2 DEF SeesStep

\* A step that m sees one goroutine make.
LEMMA OneSeen ==
    ASSUME NEW m \in Manager, NEW g \in Goroutine,
           \A h \in Goroutine \ {g} : Seen(m, h)' = Seen(m, h) /\ (of'[h] = m <=> of[h] = m)
    PROVE  /\ View(m)[g] = Seen(m, g)
           /\ View(m)' = [View(m) EXCEPT ![g] = Seen(m, g)']
           /\ Loops(m)' = IF of'[g] = m THEN Loops(m) \cup {g} ELSE Loops(m) \ {g}
BY DEF View, Loops

\* Polls begin and end in the goroutine of the loop, and so do its waits.
LEMMA LoopSeen ==
    ASSUME NEW m \in Manager, NEW g \in Goroutine, of[g] = m, TypeOK,
           \A h \in Goroutine \ {g} : pc'[h] = pc[h] /\ of'[h] = of[h],
           Wait(g) \/ Leave(g) \/ TimerFires(g) \/ Check(g) \/ Returned(g) \/ Panicked(g)
    PROVE  SeesStep(m)
<1> USE LifecycleAssumption
<1>1. \A h \in Goroutine \ {g} : Seen(m, h)' = Seen(m, h) /\ (of'[h] = m <=> of[h] = m)
  BY DEF Seen
<1>2. /\ View(m)[g] = Seen(m, g)
      /\ View(m)' = [View(m) EXCEPT ![g] = Seen(m, g)']
      /\ Loops(m)' = IF of'[g] = m THEN Loops(m) \cup {g} ELSE Loops(m) \ {g}
  BY <1>1, OneSeen
<1>3. g \in Loops(m)
  BY DEF Loops
<1>4. CASE Wait(g)
  <2>1. Seen(m, g) = "ready" /\ Seen(m, g)' = "wait" /\ Loops(m)' = Loops(m)
    BY <1>2, <1>3, <1>4 DEF Wait, Goto, Seen, Refreshing, TypeOK
  <2>2. (told \cap Loops(m))' = IF running[m] THEN told \cap Loops(m) ELSE (told \cap Loops(m)) \cup {g}
    BY <1>3, <1>4, <2>1 DEF Wait
  <2>3. Managed(m)!Wait(g)
    BY <1>2, <1>4, <2>1, <2>2 DEF Managed!Wait, Managed!Goto, View, Seen, Wait, manager
  <2> QED
    BY <2>3 DEF SeesStep, Managed!Next, Managed!Run
<1>5. CASE Leave(g)
  <2>1. Seen(m, g) = "wait" /\ of'[g] # m /\ Seen(m, g)' = "idle" /\ g \in told
    BY <1>5 DEF Leave, Seen, Refreshing, TypeOK
  <2>2. Loops(m)' = Loops(m) \ {g} /\ (told \cap Loops(m))' = (told \cap Loops(m)) \ {g}
    BY <1>2, <1>5, <2>1 DEF Leave
  <2>3. Managed(m)!Leave(g)
    BY <1>2, <1>3, <1>5, <2>1, <2>2 DEF Managed!Leave, Managed!Goto, View, Seen, Leave, manager
  <2> QED
    BY <2>3 DEF SeesStep, Managed!Next, Managed!Run
<1>6. CASE TimerFires(g)
  <2>1. Seen(m, g) = "wait" /\ Seen(m, g)' = "check" /\ Loops(m)' = Loops(m)
    BY <1>2, <1>3, <1>6 DEF TimerFires, Goto, Seen, Refreshing, TypeOK
  <2>2. (told \cap Loops(m))' = (told \cap Loops(m)) \ {g}
    BY <1>6, <2>1 DEF TimerFires
  <2>3. Managed(m)!TimerFires(g)
    BY <1>2, <1>6, <2>1, <2>2 DEF Managed!TimerFires, Managed!Goto, View, Seen, TimerFires, manager
  <2> QED
    BY <2>3 DEF SeesStep, Managed!Next
<1>7. CASE Check(g)
  <2>1. /\ Seen(m, g) = "check" /\ Seen(m, g)' = (IF running[m] THEN "poll" ELSE "ready")
        /\ Loops(m)' = Loops(m)
    BY <1>2, <1>3, <1>7 DEF Check, Local, Goto, Seen, Refreshing, TypeOK
  <2>2. Managed(m)!Check(g)
    BY <1>2, <1>3, <1>7, <2>1 DEF Managed!Check, Managed!AfterPoll, Managed!Goto, View, Seen, Check, Local, manager
  <2> QED
    BY <2>2 DEF SeesStep, Managed!Next, Managed!Run
<1>8. CASE Returned(g)
  <2>1. Seen(m, g) = "poll" /\ Seen(m, g)' = "ready" /\ Loops(m)' = Loops(m)
    BY <1>2, <1>3, <1>8 DEF Returned, Local, Goto, Seen, Refreshing, TypeOK
  <2>2. Managed(m)!Polled(g)
    BY <1>2, <1>3, <1>8, <2>1 DEF Managed!Polled, Managed!AfterPoll, Managed!Goto, View, Seen, Returned, Local, manager
  <2> QED
    BY <2>2 DEF SeesStep, Managed!Next, Managed!Run
<1>9. CASE Panicked(g)
  <2>1. Seen(m, g) = "poll" /\ Seen(m, g)' = "ready" /\ Loops(m)' = Loops(m)
    BY <1>2, <1>3, <1>9 DEF Panicked, Goto, Seen, Refreshing, TypeOK
  <2>2. currentInterval'[m] = Backoff(currentInterval[m])
    BY <1>9 DEF Panicked, TypeOK
  <2>3. Managed(m)!Panicked(g)
    BY <1>2, <1>3, <1>9, <2>1, <2>2
    DEF Managed!Panicked, Managed!AfterPoll, Managed!Goto, Managed!Backoff, Backoff, View, Seen, Panicked
  <2> QED
    BY <2>3 DEF SeesStep, Managed!Next
<1> QED
  BY <1>4, <1>5, <1>6, <1>7, <1>8, <1>9

\* Whatever the client does is a step of each of its managers, or none.
LEMMA StepSeen == ASSUME TypeOK, [Next]_vars, NEW m \in Manager PROVE SeesStep(m)
<1> USE LifecycleAssumption
<1>1. ASSUME NEW g \in Goroutine, NEW r \in Step, NEW s \in Step,
             pc[g] = r, Goto(g, s), UNCHANGED <<manager, of, told>>,
             of[g] = NoManager \/ (r \in Refreshing /\ s \in Refreshing)
      PROVE  SeesStep(m)
  <2>1. \A h \in Goroutine : Seen(m, h)' = Seen(m, h)
    BY <1>1 DEF Seen, Goto, TypeOK
  <2> QED
    BY <1>1, <2>1, NothingSeen DEF Rest, Loops, manager
<1>2. ASSUME NEW g \in Goroutine,
             \/ Initialize(g) \/ InitAnswered(g) \/ InitFails(g) \/ startPolling(g)
             \/ StartInVain(g) \/ StartQueue(g) \/ setReady(g) \/ Close(g) \/ StopQueue(g)
             \/ Refresh(g) \/ UpdatesAnswered(g) \/ UpdatesFail(g) \/ UpdatesUnparsable(g)
      PROVE  SeesStep(m)
  <2>1. PICK r \in Step, s \in Step :
          /\ pc[g] = r /\ Goto(g, s) /\ UNCHANGED <<manager, of, told>>
          /\ of[g] = NoManager \/ (r \in Refreshing /\ s \in Refreshing)
    BY <1>2 DEF Initialize, InitAnswered, InitFails, startPolling, StartInVain, StartQueue,
         setReady, Close, StopQueue, Refresh, UpdatesAnswered, UpdatesFail, UpdatesUnparsable,
         Local, TypeOK, Step, Looping, Refreshing, Initializing, Closing
  <2> QED
    BY <1>1, <2>1
<1>3. ASSUME NEW g \in Goroutine, NewPollingManager(g) PROVE SeesStep(m)
  <2>1. \A h \in Goroutine : Seen(m, h)' = Seen(m, h)
    BY <1>3 DEF NewPollingManager, Seen, Goto, TypeOK, Looping, Refreshing
  <2> QED
    BY <1>3, <2>1, NothingSeen DEF NewPollingManager, Rest, Loops
<1>4. ASSUME NEW g \in Goroutine, NEW w \in Goroutine, StartPolling(g, w) PROVE SeesStep(m)
  <2>1. /\ pc[g] = "start" /\ of[g] = NoManager /\ pc[w] = "idle" /\ of[w] = NoManager
        /\ g # w /\ w \notin told
        /\ pc'[w] = "ready" /\ pc'[g] = "queue" /\ \A h \in Goroutine \ {g, w} : pc'[h] = pc[h]
        /\ of'[w] = pollingManager /\ \A h \in Goroutine \ {w} : of'[h] = of[h]
    BY <1>4 DEF StartPolling, TypeOK, Looping, Refreshing
  <2>2. \A h \in Goroutine \ {w} : Seen(m, h)' = Seen(m, h) /\ (of'[h] = m <=> of[h] = m)
    BY <2>1 DEF Seen
  <2>3. CASE m # pollingManager
    <3>1. Seen(m, w)' = Seen(m, w) /\ ~(of'[w] = m) /\ ~(of[w] = m)
      BY <2>1, <2>3 DEF Seen
    <3>2. UNCHANGED Rest(m)
      BY <1>4, <2>2, <2>3, <3>1 DEF StartPolling, Rest, Loops, TypeOK
    <3> QED
      BY <2>2, <3>1, <3>2, NothingSeen
  <2>4. CASE m = pollingManager
    <3>1. /\ View(m)[w] = "idle" /\ View(m)' = [View(m) EXCEPT ![w] = "ready"]
          /\ Loops(m)' = Loops(m) \cup {w}
      BY <2>1, <2>2, <2>4, OneSeen DEF Seen, Refreshing
    <3>2. (told \cap Loops(m))' = told \cap Loops(m)
      BY <1>4, <2>1, <3>1 DEF StartPolling
    <3>3. /\ ~running[m] /\ running'[m] = TRUE
          /\ restarted'[m] = (restarted[m] \/ Loops(m) # {})
          /\ currentInterval'[m] = currentInterval[m]
      BY <1>4, <2>4 DEF StartPolling, TypeOK
    <3>4. Managed(m)!Start(w)
      BY <3>1, <3>2, <3>3 DEF Managed!Start, Managed!Goto, View, Seen
    <3> QED
      BY <3>4 DEF SeesStep, Managed!Next, Managed!Call
  <2> QED
    BY <2>3, <2>4
<1>5. ASSUME NEW g \in Goroutine, StopPolling(g) PROVE SeesStep(m)
  <2>1. of[g] = NoManager /\ UNCHANGED <<of, currentInterval, restarted>>
        /\ pc' = [pc EXCEPT ![g] = "drain"]
    BY <1>5 DEF StopPolling, Goto, TypeOK, Looping, Refreshing
  <2>2. \A h \in Goroutine : Seen(m, h)' = Seen(m, h) /\ (of'[h] = m <=> of[h] = m)
    BY <2>1 DEF Seen, TypeOK
  <2>3. CASE m = pollingManager /\ running[m]
    <3>1. View(m)' = View(m) /\ Loops(m)' = Loops(m)
      BY <2>2 DEF View, Loops
    <3>2. {h \in Loops(m) : pc[h] = "wait"} = {h \in Goroutine : View(m)[h] = "wait"}
      BY DEF View, Seen, Loops, Refreshing
    <3>3. /\ running'[m] = FALSE
          /\ told' = told \cup {h \in Loops(m) : pc[h] = "wait"}
      BY <1>5, <2>3 DEF StopPolling, TypeOK
    <3>4. (told \cap Loops(m))' = (told \cap Loops(m)) \cup {h \in Goroutine : View(m)[h] = "wait"}
      BY <3>1, <3>2, <3>3
    <3>5. Managed(m)!Stop
      BY <2>1, <2>3, <3>1, <3>3, <3>4 DEF Managed!Stop, View, Seen
    <3> QED
      BY <3>5 DEF SeesStep, Managed!Next, Managed!Call
  <2>4. CASE ~(m = pollingManager /\ running[m])
    <3>1. running'[m] = running[m]
      BY <1>5, <2>4 DEF StopPolling, TypeOK
    <3>2. told' \cap Loops(m) = told \cap Loops(m)
      BY <1>5, <2>4 DEF StopPolling, Loops
    <3>3. UNCHANGED Rest(m)
      BY <2>1, <3>1, <3>2 DEF Rest, Loops
    <3> QED
      BY <2>2, <3>3, NothingSeen
  <2> QED
    BY <2>3, <2>4
<1>6. ASSUME NEW g \in Goroutine, ReportSuccess(g) \/ ReportFailure(g) PROVE SeesStep(m)
  <2>1. pc[g] \in Refreshing /\ Goto(g, "return") /\ UNCHANGED <<running, restarted, of, told>>
    BY <1>6 DEF ReportSuccess, ReportFailure, Report, Refreshing
  <2>2. \A h \in Goroutine : Seen(m, h)' = Seen(m, h) /\ (of'[h] = m <=> of[h] = m)
    BY <2>1 DEF Seen, Goto, TypeOK, Refreshing
  <2>3. CASE m # pollingManager
    <3>1. currentInterval'[m] = currentInterval[m]
      BY <1>6, <2>3 DEF ReportSuccess, ReportFailure, Report
    <3>2. UNCHANGED Rest(m)
      BY <2>1, <3>1 DEF Rest, Loops
    <3> QED
      BY <2>2, <3>2, NothingSeen
  <2>4. CASE m = pollingManager
    <3>1. View(m)' = View(m) /\ Loops(m)' = Loops(m) /\ (told \cap Loops(m))' = told \cap Loops(m)
      BY <2>1, <2>2 DEF View, Loops
    <3>2. currentInterval'[m] = Interval \/ currentInterval'[m] = Backoff(currentInterval[m])
      BY <1>6, <2>4 DEF ReportSuccess, ReportFailure, Report
    <3>3. Managed(m)!OnSuccess \/ Managed(m)!OnError
      BY <2>1, <3>1, <3>2 DEF Managed!OnSuccess, Managed!OnError, Managed!Backoff, Backoff, View, Seen
    <3> QED
      BY <3>3 DEF SeesStep, Managed!Next, Managed!Call
  <2> QED
    BY <2>3, <2>4
<1>7. ASSUME NEW g \in Goroutine,
             Wait(g) \/ Leave(g) \/ TimerFires(g) \/ Check(g) \/ Returned(g) \/ Panicked(g)
      PROVE  SeesStep(m)
  <2>1. /\ \A h \in Goroutine \ {g} : pc'[h] = pc[h] /\ of'[h] = of[h]
        /\ of'[g] \in {of[g], NoManager}
        /\ UNCHANGED <<running, restarted>>
    BY <1>7 DEF Wait, Leave, TimerFires, Check, Returned, Panicked, Local, Goto, TypeOK, manager
  <2>2. CASE of[g] = m
    BY <1>7, <2>1, <2>2, LoopSeen
  <2>3. CASE of[g] # m
    <3>1. \A h \in Goroutine : Seen(m, h)' = Seen(m, h) /\ (of'[h] = m <=> of[h] = m)
      BY <2>1, <2>3 DEF Seen
    <3>2. currentInterval'[m] = currentInterval[m]
      BY <1>7, <2>3 DEF Wait, Leave, TimerFires, Check, Returned, Panicked, Local, TypeOK, manager
    <3>3. (told \cap Loops(m))' = told \cap Loops(m)
      BY <1>7, <2>3, <3>1 DEF Wait, Leave, TimerFires, Check, Returned, Panicked, Local, Loops
    <3>4. UNCHANGED Rest(m)
      BY <2>1, <3>2, <3>3 DEF Rest
    <3> QED
      BY <3>1, <3>4, NothingSeen
  <2> QED
    BY <2>2, <2>3
<1>8. CASE UNCHANGED vars
  BY <1>8, NothingSeen DEF vars, manager, Seen, Rest, Loops
<1> QED
  BY <1>2, <1>3, <1>4, <1>5, <1>6, <1>7, <1>8 DEF Next, Call, Run

\* Every manager of the client is a polling manager, whoever starts, stops and
\* reports to it (Initialize, Close, refresh).
THEOREM EachManagerPolls == Spec => ManagersPoll
<1>1. Init => \A m \in Manager : Managed(m)!Init
  BY LifecycleAssumption DEF Init, Managed!Init, Loops
<1>2. TypeOK /\ [Next]_vars => [\A m \in Manager : Managed(m)!Next \/ UNCHANGED Managed(m)!vars]_vars
  BY StepSeen DEF SeesStep
<1> QED
  BY <1>1, <1>2, InitTyped, StepTyped, PTL DEF Spec, ManagersPoll

-------------------------------------------------------------------------------
\* What PollingProofs proves of a Polling holds of each manager of the client.
\* theManager is any of them.

CONSTANT theManager

MP == INSTANCE PollingProofs WITH
    Worker <- Goroutine,
    running <- running[theManager],
    currentInterval <- currentInterval[theManager],
    pc <- View(theManager),
    loops <- Loops(theManager),
    told <- told \cap Loops(theManager),
    restarted <- restarted[theManager]

LEMMA ManagerAssumption == MP!PollingAssumption
BY LifecycleAssumption DEF MP!PollingAssumption

\* A manager that is as Polling starts it, or makes a step of Polling, does so as
\* PollingProofs sees it.
LEMMA SameManager ==
    ASSUME theManager \in Manager
    PROVE  /\ Managed(theManager)!Init => MP!Init
           /\ SeesStep(theManager) => [MP!Next]_(MP!vars)
<1>1. Managed(theManager)!Init => MP!Init
  BY DEF Managed!Init, MP!Init, View, Seen
<1>2. SeesStep(theManager) => [MP!Next]_(MP!vars)
  BY DEF SeesStep, View, Seen,
    Managed!Next, Managed!vars, Managed!Call, Managed!Run, Managed!Goto, Managed!Start, Managed!Stop,
    Managed!OnSuccess, Managed!OnError, Managed!PollNow, Managed!Wait, Managed!Leave,
    Managed!TimerFires, Managed!Check, Managed!Polled, Managed!Panicked, Managed!AfterPoll,
    Managed!Backoff,
    MP!Next, MP!vars, MP!Call, MP!Run, MP!Goto, MP!Start, MP!Stop,
    MP!OnSuccess, MP!OnError, MP!PollNow, MP!Wait, MP!Leave,
    MP!TimerFires, MP!Check, MP!Polled, MP!Panicked, MP!AfterPoll, MP!Backoff
<1> QED
  BY <1>1, <1>2

\* The inductive invariant: Polling's of the manager, over what has its type here.
LEMMA ManagerInvariant ==
    ASSUME theManager \in Manager
    PROVE  Spec => [](ReachInv /\ MP!Inv)
<1>1. Init => ReachInv /\ MP!Inv
  <2>1. Init => Managed(theManager)!Init
    BY LifecycleAssumption DEF Init, Managed!Init, Loops
  <2> QED
    BY <2>1, InitReach, SameManager, ManagerAssumption, MP!InitInv
<1>2. ReachInv /\ MP!Inv /\ [Next]_vars => ReachInv' /\ MP!Inv'
  <2> SUFFICES ASSUME ReachInv, MP!Inv, [Next]_vars PROVE ReachInv' /\ MP!Inv'
    OBVIOUS
  <2>1. SeesStep(theManager)
    BY StepSeen DEF ReachInv
  <2>2. MP!Inv'
    BY <2>1, SameManager, ManagerAssumption, MP!NextInv
  <2> QED
    BY <2>2, StepReach
<1> QED
  BY <1>1, <1>2, PTL DEF Spec

\* A manager of the client that says it is active has a loop that has not been told
\* to stop, whatever the calls of Initialize, Refresh and Close that met
\* (PollingManager.Start, run).
THEOREM ActiveManagerPolls ==
    ASSUME theManager \in Manager
    PROVE  Spec => [](running[theManager] => \E g \in Loops(theManager) : g \notin told)
<1>1. MP!Inv => (running[theManager] => \E g \in Loops(theManager) : g \notin told)
  BY DEF MP!Inv, MP!RunningIsPolled, MP!Going
<1> QED
  BY <1>1, ManagerInvariant, PTL

\* The errors that refresh reports, and the panics of the application's callback,
\* never make a manager poll less often than the configuration and the maximum
\* allow (refresh, calculateBackoff).
THEOREM ManagerIntervalBounded ==
    ASSUME theManager \in Manager
    PROVE  Spec => [](currentInterval[theManager] <=
                        IF Interval > MaxInterval THEN Interval ELSE MaxInterval)
<1>1. MP!Inv => currentInterval[theManager] <=
                  IF Interval > MaxInterval THEN Interval ELSE MaxInterval
  BY DEF MP!Inv, MP!IntervalBounded
<1> QED
  BY <1>1, ManagerInvariant, PTL

\* Once Close has stopped the polling, unless an Initialize met it or another one,
\* each loop that waits has been told to leave: none sleeps through the Close
\* (Close, PollingManager.Stop).
THEOREM CloseTellsEveryLoop ==
    ASSUME theManager \in Manager
    PROVE  Spec => [](~overlapped /\ closed /\ ~Busy({"stop"}) =>
                        \A g \in Loops(theManager) : pc[g] = "wait" => g \in told)
<1>1. ReachInv /\ MP!Inv =>
        (~overlapped /\ closed /\ ~Busy({"stop"}) =>
           \A g \in Loops(theManager) : pc[g] = "wait" => g \in told)
  BY DEF ReachInv, Down, MP!Inv, MP!Threads, View, Seen, Loops, Refreshing
<1> QED
  BY <1>1, ManagerInvariant, PTL
===============================================================================
