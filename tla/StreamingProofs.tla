---------------------------- MODULE StreamingProofs ----------------------------
(***************************************************************************)
(* Proofs about Streaming for any number of goroutines and timers, and any *)
(* limit on reconnects: the manager is never left in a state that nothing  *)
(* will end, and attempts that do not overlap leave one request at most.   *)
(***************************************************************************)
EXTENDS Streaming, TLAPS

\* Where a goroutine may be while it has to go back to its stream, and where one
\* is that has no request of its own.
Aside == {"unwatch", "watch", "connect", "fail", "give_up", "retreat", "plan_retry",
          "plan_reconnect"}
Bare == {"idle", "refresh", "check", "retry", "connect"} \cup Preparing

\* A goroutine without a request is not cancelled, and not what cancelFunc cancels.
Clean ==
    \A w \in Worker :
      /\ back[w] # "idle" => pc[w] \in Aside
      /\ back[w] = "idle" /\ pc[w] \in Bare => ~cancelled[w] /\ cancelFunc # w

\* Of two attempts one has been cancelled, unless one began amid others.
Alone ==
    ~overlapped =>
      \A v, w \in Attempts : v = w \/ cancelled[v] \/ cancelled[w]

\* Stronger than NoDeadEnd asks for: somebody whose request is not cancelled.
Pursued ==
    state = "connecting" =>
      \E w \in Worker : \/ pc[w] \in Preparing \cup {"open"} \cup Failing
                        \/ pc[w] = "dial" /\ ~cancelled[w]

Inv == TypeOK /\ Clean /\ Alone /\ OneRequest /\ NoDeadEnd /\ Pursued

LEMMA InitInv == Init => Inv
<1> SUFFICES ASSUME Init PROVE Inv
  OBVIOUS
<1> USE StreamingAssumption DEF Init
<1>1. TypeOK
  <2>1. failures \in 0 .. MaxReconnectAttempts /\ strays \in 0 .. MaxTimers
        /\ reconnects \in 0 .. MaxTimers
    OBVIOUS
  <2>2. pc \in [Worker -> Step] /\ back \in [Worker -> {"idle", "read"}]
    BY DEF Step
  <2>3. cancelled \in [Worker -> BOOLEAN]
    OBVIOUS
  <2> QED
    BY <2>1, <2>2, <2>3 DEF TypeOK, StreamingState
<1>2. Clean
  BY DEF Clean
<1>3. Alone /\ OneRequest
  BY DEF Alone, OneRequest, Attempts, Requests, Requesting, Preparing
<1>4. NoDeadEnd /\ Pursued
  BY DEF NoDeadEnd, Pursued
<1> QED
  BY <1>1, <1>2, <1>3, <1>4 DEF Inv

-------------------------------------------------------------------------------

LEMMA CleanupTypes ==
    ASSUME TypeOK, cleanup
    PROVE  /\ cancelled' \in [Worker -> BOOLEAN]
           /\ cancelFunc' \in Worker \cup {Nobody}
           /\ tokenTimer' \in BOOLEAN /\ heartbeatTimer' \in BOOLEAN
           /\ retryTimer' \in BOOLEAN
           /\ \A w \in Worker : cancelled[w] => cancelled'[w]
           /\ \A w \in Worker : cancelled'[w] => cancelled[w] \/ cancelFunc = w
           /\ \A w \in Worker : cancelFunc = w => cancelled'[w]
           /\ \A w \in Worker : cancelFunc' # w
<1>1. \A w \in Worker : (cancelled[w] \/ w = cancelFunc) \in BOOLEAN
  OBVIOUS
<1>2. cancelled' \in [Worker -> BOOLEAN]
  BY <1>1 DEF cleanup
<1> QED
  BY <1>2, StreamingAssumption DEF cleanup

LEMMA StepConnect ==
    ASSUME Inv, NEW g \in Worker, Connect(g)
    PROVE  Inv'
<1> USE StreamingAssumption DEF Inv, Connect, Connecting, Goto,
        shared, timers, pending, history
<1>1. TypeOK'
  BY DEF TypeOK, StreamingState, Step, Preparing, Requesting, Calling, Active
<1>2. Clean'
  BY DEF TypeOK, Clean, Aside, Bare, Preparing, Active
<1>3. Alone' /\ OneRequest'
  BY DEF TypeOK, Clean, Bare, Alone, OneRequest, Attempts, Requests, Aside, Preparing, Requesting, Calling, Active
<1>4. NoDeadEnd' /\ Pursued'
  BY DEF TypeOK, Clean, Bare, NoDeadEnd, Pursued, Somebody, Preparing, Failing, Active
<1> QED
  BY <1>1, <1>2, <1>3, <1>4

LEMMA StepDisconnect ==
    ASSUME Inv, Disconnect
    PROVE  Inv'
<1> USE StreamingAssumption DEF Inv, Disconnect, Disconnected, cleanup,
        shared, timers, pending, history
<1>1. TypeOK'
  <2>1. pc' \in [Worker -> Step] /\ back' \in [Worker -> {"idle", "read"}]
    BY DEF TypeOK, Step, Preparing, Requesting, Calling
  <2>2. failures' \in 0 .. MaxReconnectAttempts
    BY DEF TypeOK
  <2>3. cleanup
    OBVIOUS
  <2> QED
    BY <2>1, <2>2, <2>3, CleanupTypes DEF TypeOK, StreamingState
<1>2. Clean'
  BY DEF TypeOK, Clean, Aside, Bare, Preparing, Active
<1>3. Alone' /\ OneRequest'
  BY DEF TypeOK, Clean, Bare, Alone, OneRequest, Attempts, Requests, Aside, Preparing, Requesting, Calling, Active
<1>4. NoDeadEnd' /\ Pursued'
  BY DEF TypeOK, Clean, Bare, NoDeadEnd, Pursued, Somebody, Preparing, Failing, Active
<1> QED
  BY <1>1, <1>2, <1>3, <1>4

LEMMA StepRetryConnection ==
    ASSUME Inv, NEW g \in Worker, RetryConnection(g)
    PROVE  Inv'
<1> USE StreamingAssumption DEF Inv, RetryConnection, Goto,
        shared, timers, pending, history
<1>1. TypeOK'
  BY DEF TypeOK, StreamingState, Step, Preparing, Requesting, Calling, Active
<1>2. Clean'
  BY DEF TypeOK, Clean, Aside, Bare, Preparing, Active
<1>3. Alone' /\ OneRequest'
  BY DEF TypeOK, Clean, Bare, Alone, OneRequest, Attempts, Requests, Aside, Preparing, Requesting, Calling, Active
<1>4. NoDeadEnd' /\ Pursued'
  BY DEF TypeOK, Clean, Bare, NoDeadEnd, Pursued, Somebody, Preparing, Failing, Active
<1> QED
  BY <1>1, <1>2, <1>3, <1>4

LEMMA StepTokenFetched ==
    ASSUME Inv, NEW w \in Worker, TokenFetched(w)
    PROVE  Inv'
<1> USE StreamingAssumption DEF Inv, TokenFetched, Local, Goto,
        shared, timers, pending, history
<1>1. TypeOK'
  BY DEF TypeOK, StreamingState, Step, Preparing, Requesting, Calling, Active
<1>2. Clean'
  BY DEF TypeOK, Clean, Aside, Bare, Preparing, Active
<1>3. Alone' /\ OneRequest'
  BY DEF TypeOK, Clean, Bare, Alone, OneRequest, Attempts, Requests, Aside, Preparing, Requesting, Calling, Active
<1>4. NoDeadEnd' /\ Pursued'
  BY DEF TypeOK, Clean, Bare, NoDeadEnd, Pursued, Somebody, Preparing, Failing, Active
<1> QED
  BY <1>1, <1>2, <1>3, <1>4

LEMMA StepScheduleRefresh ==
    ASSUME Inv, NEW w \in Worker, ScheduleRefresh(w)
    PROVE  Inv'
<1> USE StreamingAssumption DEF Inv, ScheduleRefresh, Goto,
        shared, timers, pending, history
<1>1. TypeOK'
  BY DEF TypeOK, StreamingState, Step, Preparing, Requesting, Calling, Active
<1>2. Clean'
  BY DEF TypeOK, Clean, Aside, Bare, Preparing, Active
<1>3. Alone' /\ OneRequest'
  BY DEF TypeOK, Clean, Bare, Alone, OneRequest, Attempts, Requests, Aside, Preparing, Requesting, Calling, Active
<1>4. NoDeadEnd' /\ Pursued'
  BY DEF TypeOK, Clean, Bare, NoDeadEnd, Pursued, Somebody, Preparing, Failing, Active
<1> QED
  BY <1>1, <1>2, <1>3, <1>4

LEMMA StepCreateConnection ==
    ASSUME Inv, NEW w \in Worker, CreateConnection(w)
    PROVE  Inv'
<1> USE StreamingAssumption DEF Inv, CreateConnection, Goto,
        shared, timers, pending, history
<1>1. TypeOK'
  BY DEF TypeOK, StreamingState, Step, Preparing, Requesting, Calling, Active
<1>2. Clean'
  BY DEF TypeOK, Clean, Aside, Bare, Preparing, Active
<1>3. Alone' /\ OneRequest'
  BY DEF TypeOK, Clean, Bare, Alone, OneRequest, Attempts, Requests, Aside, Preparing, Requesting, Calling, Active
<1>4. NoDeadEnd' /\ Pursued'
  <2>1. NoDeadEnd'
    BY DEF TypeOK, NoDeadEnd, Somebody, Preparing, Failing
  <2>2. pc'[w] = "dial" /\ ~cancelled'[w]
    BY DEF TypeOK, Clean, Aside, Bare, Preparing
  <2>3. Pursued'
    BY <2>2 DEF Pursued
  <2> QED
    BY <2>1, <2>3
<1> QED
  BY <1>1, <1>2, <1>3, <1>4

LEMMA StepAccepted ==
    ASSUME Inv, NEW w \in Worker, Accepted(w)
    PROVE  Inv'
<1> USE StreamingAssumption DEF Inv, Accepted, Local, Goto,
        shared, timers, pending, history
<1>1. TypeOK'
  BY DEF TypeOK, StreamingState, Step, Preparing, Requesting, Calling, Active
<1>2. Clean'
  BY DEF TypeOK, Clean, Aside, Bare, Preparing, Active
<1>3. Alone' /\ OneRequest'
  BY DEF TypeOK, Clean, Bare, Alone, OneRequest, Attempts, Requests, Aside, Preparing, Requesting, Calling, Active
<1>4. NoDeadEnd' /\ Pursued'
  BY DEF TypeOK, Clean, Bare, NoDeadEnd, Pursued, Somebody, Preparing, Failing, Active
<1> QED
  BY <1>1, <1>2, <1>3, <1>4

LEMMA StepHandleOpen ==
    ASSUME Inv, NEW w \in Worker, handleOpen(w)
    PROVE  Inv'
<1> USE StreamingAssumption DEF Inv, handleOpen, Goto,
        shared, timers, pending, history
<1>1. TypeOK'
  BY DEF TypeOK, StreamingState, Step, Preparing, Requesting, Calling, Active
<1>2. Clean'
  BY DEF TypeOK, Clean, Aside, Bare, Preparing, Active
<1>3. Alone' /\ OneRequest'
  BY DEF TypeOK, Clean, Bare, Alone, OneRequest, Attempts, Requests, Aside, Preparing, Requesting, Calling, Active
<1>4. NoDeadEnd' /\ Pursued'
  BY DEF TypeOK, Clean, Bare, NoDeadEnd, Pursued, Somebody, Preparing, Failing, Active
<1> QED
  BY <1>1, <1>2, <1>3, <1>4

LEMMA StepAborted ==
    ASSUME Inv, NEW w \in Worker, Aborted(w)
    PROVE  Inv'
<1> USE StreamingAssumption DEF Inv, Aborted, End, Finished, Goto,
        shared, timers, pending, history
<1>1. TypeOK'
  BY DEF TypeOK, StreamingState, Step, Preparing, Requesting, Calling, Active
<1>2. Clean'
  BY DEF TypeOK, Clean, Aside, Bare, Preparing, Active
<1>3. Alone' /\ OneRequest'
  BY DEF TypeOK, Clean, Bare, Alone, OneRequest, Attempts, Requests, Aside, Preparing, Requesting, Calling, Active
<1>4. NoDeadEnd' /\ Pursued'
  BY DEF TypeOK, Clean, Bare, NoDeadEnd, Pursued, Somebody, Preparing, Failing, Active
<1> QED
  BY <1>1, <1>2, <1>3, <1>4

LEMMA StepStreamLost ==
    ASSUME Inv, NEW w \in Worker, StreamLost(w)
    PROVE  Inv'
<1> USE StreamingAssumption DEF Inv, StreamLost, Local, Goto,
        shared, timers, pending, history
<1>1. TypeOK'
  BY DEF TypeOK, StreamingState, Step, Preparing, Requesting, Calling, Active
<1>2. Clean'
  BY DEF TypeOK, Clean, Aside, Bare, Preparing, Active
<1>3. Alone' /\ OneRequest'
  BY DEF TypeOK, Clean, Bare, Alone, OneRequest, Attempts, Requests, Aside, Preparing, Requesting, Calling, Active
<1>4. NoDeadEnd' /\ Pursued'
  BY DEF TypeOK, Clean, Bare, NoDeadEnd, Pursued, Somebody, Preparing, Failing, Active
<1> QED
  BY <1>1, <1>2, <1>3, <1>4

LEMMA StepStreamLostSilently ==
    ASSUME Inv, NEW w \in Worker, StreamLostSilently(w)
    PROVE  Inv'
<1> USE StreamingAssumption DEF Inv, StreamLostSilently, End, Finished, Goto,
        shared, timers, pending, history
<1>1. TypeOK'
  BY DEF TypeOK, StreamingState, Step, Preparing, Requesting, Calling, Active
<1>2. Clean'
  BY DEF TypeOK, Clean, Aside, Bare, Preparing, Active
<1>3. Alone' /\ OneRequest'
  BY DEF TypeOK, Clean, Bare, Alone, OneRequest, Attempts, Requests, Aside, Preparing, Requesting, Calling, Active
<1>4. NoDeadEnd' /\ Pursued'
  BY DEF TypeOK, Clean, Bare, NoDeadEnd, Pursued, Somebody, Preparing, Failing, Active
<1> QED
  BY <1>1, <1>2, <1>3, <1>4

LEMMA StepReceive ==
    ASSUME Inv, NEW w \in Worker, Receive(w)
    PROVE  Inv'
<1> USE StreamingAssumption DEF Inv, Receive, Local, Goto,
        shared, timers, pending, history
<1>1. TypeOK'
  BY DEF TypeOK, StreamingState, Step, Preparing, Requesting, Calling, Active
<1>2. Clean'
  BY DEF TypeOK, Clean, Aside, Bare, Preparing, Active
<1>3. Alone' /\ OneRequest'
  BY DEF TypeOK, Clean, Bare, Alone, OneRequest, Attempts, Requests, Aside, Preparing, Requesting, Calling, Active
<1>4. NoDeadEnd' /\ Pursued'
  BY DEF TypeOK, Clean, Bare, NoDeadEnd, Pursued, Somebody, Preparing, Failing, Active
<1> QED
  BY <1>1, <1>2, <1>3, <1>4

LEMMA StepFlagEvent ==
    ASSUME Inv, NEW w \in Worker, FlagEvent(w)
    PROVE  Inv'
<1> USE StreamingAssumption DEF Inv, FlagEvent, Local, Goto,
        shared, timers, pending, history
<1>1. TypeOK'
  BY DEF TypeOK, StreamingState, Step, Preparing, Requesting, Calling, Active
<1>2. Clean'
  BY DEF TypeOK, Clean, Aside, Bare, Preparing, Active
<1>3. Alone' /\ OneRequest'
  BY DEF TypeOK, Clean, Bare, Alone, OneRequest, Attempts, Requests, Aside, Preparing, Requesting, Calling, Active
<1>4. NoDeadEnd' /\ Pursued'
  BY DEF TypeOK, Clean, Bare, NoDeadEnd, Pursued, Somebody, Preparing, Failing, Active
<1> QED
  BY <1>1, <1>2, <1>3, <1>4

LEMMA StepHeartbeat ==
    ASSUME Inv, NEW w \in Worker, Heartbeat(w)
    PROVE  Inv'
<1> USE StreamingAssumption DEF Inv, Heartbeat, Goto,
        shared, timers, pending, history
<1>1. TypeOK'
  BY DEF TypeOK, StreamingState, Step, Preparing, Requesting, Calling, Active
<1>2. Clean'
  BY DEF TypeOK, Clean, Aside, Bare, Preparing, Active
<1>3. Alone' /\ OneRequest'
  BY DEF TypeOK, Clean, Bare, Alone, OneRequest, Attempts, Requests, Aside, Preparing, Requesting, Calling, Active
<1>4. NoDeadEnd' /\ Pursued'
  BY DEF TypeOK, Clean, Bare, NoDeadEnd, Pursued, Somebody, Preparing, Failing, Active
<1> QED
  BY <1>1, <1>2, <1>3, <1>4

LEMMA StepTokenRefused ==
    ASSUME Inv, NEW w \in Worker, TokenRefused(w)
    PROVE  Inv'
<1> USE StreamingAssumption DEF Inv, TokenRefused, Disconnected, cleanup, Goto,
        shared, timers, pending, history
<1>1. TypeOK'
  <2>1. pc' \in [Worker -> Step] /\ back' \in [Worker -> {"idle", "read"}]
    BY DEF TypeOK, Step, Preparing, Requesting, Calling
  <2>2. failures' \in 0 .. MaxReconnectAttempts
    BY DEF TypeOK
  <2>3. cleanup
    OBVIOUS
  <2> QED
    BY <2>1, <2>2, <2>3, CleanupTypes DEF TypeOK, StreamingState
<1>2. Clean'
  BY DEF TypeOK, Clean, Aside, Bare, Preparing, Active
<1>3. Alone' /\ OneRequest'
  BY DEF TypeOK, Clean, Bare, Alone, OneRequest, Attempts, Requests, Aside, Preparing, Requesting, Calling, Active
<1>4. NoDeadEnd' /\ Pursued'
  BY DEF TypeOK, Clean, Bare, NoDeadEnd, Pursued, Somebody, Preparing, Failing, Active
<1> QED
  BY <1>1, <1>2, <1>3, <1>4

LEMMA StepDismissed ==
    ASSUME Inv, NEW w \in Worker, Dismissed(w)
    PROVE  Inv'
<1> USE StreamingAssumption DEF Inv, Dismissed, cleanup, Goto,
        shared, timers, pending, history
<1>1. TypeOK'
  BY DEF TypeOK, StreamingState, Step, Preparing, Requesting, Calling, Active
<1>2. Clean'
  BY DEF TypeOK, Clean, Aside, Bare, Preparing, Active
<1>3. Alone' /\ OneRequest'
  <2>1. cleanup
    OBVIOUS
  <2>2. /\ Attempts' \subseteq Attempts /\ Attempts \subseteq Worker
        /\ Requests' \subseteq Requests /\ Requests \subseteq Worker
    BY DEF TypeOK, Attempts, Requests, Preparing, Requesting
  <2>3. Alone'
    BY <2>1, <2>2, CleanupTypes DEF TypeOK, Alone
  <2>4. OneRequest'
    BY <2>1, <2>2, CleanupTypes DEF TypeOK, OneRequest
  <2> QED
    BY <2>3, <2>4
<1>4. NoDeadEnd' /\ Pursued'
  BY DEF TypeOK, Clean, Bare, NoDeadEnd, Pursued, Somebody, Preparing, Failing, Active
<1> QED
  BY <1>1, <1>2, <1>3, <1>4

LEMMA StepStreamError ==
    ASSUME Inv, NEW w \in Worker, StreamError(w)
    PROVE  Inv'
<1> USE StreamingAssumption DEF Inv, StreamError, Goto,
        shared, timers, pending, history
<1>1. TypeOK'
  BY DEF TypeOK, StreamingState, Step, Preparing, Requesting, Calling, Active
<1>2. Clean'
  BY DEF TypeOK, Clean, Aside, Bare, Preparing, Active
<1>3. Alone' /\ OneRequest'
  BY DEF TypeOK, Clean, Bare, Alone, OneRequest, Attempts, Requests, Aside, Preparing, Requesting, Calling, Active
<1>4. NoDeadEnd' /\ Pursued'
  BY DEF TypeOK, Clean, Bare, NoDeadEnd, Pursued, Somebody, Preparing, Failing, Active
<1> QED
  BY <1>1, <1>2, <1>3, <1>4

LEMMA StepAttemptFails ==
    ASSUME Inv, NEW w \in Worker, AttemptFails(w)
    PROVE  Inv'
<1> USE StreamingAssumption DEF Inv, AttemptFails, Local, Goto,
        shared, timers, pending, history
<1>1. TypeOK'
  BY DEF TypeOK, StreamingState, Step, Preparing, Requesting, Calling, Active
<1>2. Clean'
  BY DEF TypeOK, Clean, Aside, Bare, Preparing, Active
<1>3. Alone' /\ OneRequest'
  BY DEF TypeOK, Clean, Bare, Alone, OneRequest, Attempts, Requests, Aside, Preparing, Requesting, Calling, Active
<1>4. NoDeadEnd' /\ Pursued'
  BY DEF TypeOK, Clean, Bare, NoDeadEnd, Pursued, Somebody, Preparing, Failing, Active
<1> QED
  BY <1>1, <1>2, <1>3, <1>4

LEMMA StepFailed ==
    ASSUME Inv, NEW w \in Worker, Failed(w)
    PROVE  Inv'
<1> USE StreamingAssumption DEF Inv, Failed, cleanup, Goto,
        shared, timers, pending, history
<1>1. TypeOK'
  <2>1. pc' \in [Worker -> Step] /\ back' \in [Worker -> {"idle", "read"}]
    BY DEF TypeOK, Step, Preparing, Requesting, Calling
  <2>2. failures' \in 0 .. MaxReconnectAttempts
    BY DEF TypeOK
  <2>3. cleanup
    OBVIOUS
  <2> QED
    BY <2>1, <2>2, <2>3, CleanupTypes DEF TypeOK, StreamingState
<1>2. Clean'
  BY DEF TypeOK, Clean, Aside, Bare, Preparing, Active
<1>3. Alone' /\ OneRequest'
  <2>1. cleanup
    OBVIOUS
  <2>2. /\ Attempts' \subseteq Attempts /\ Attempts \subseteq Worker
        /\ Requests' \subseteq Requests /\ Requests \subseteq Worker
    BY DEF TypeOK, Attempts, Requests, Preparing, Requesting
  <2>3. Alone'
    BY <2>1, <2>2, CleanupTypes DEF TypeOK, Alone
  <2>4. OneRequest'
    BY <2>1, <2>2, CleanupTypes DEF TypeOK, OneRequest
  <2> QED
    BY <2>3, <2>4
<1>4. NoDeadEnd' /\ Pursued'
  BY DEF TypeOK, Clean, Bare, NoDeadEnd, Pursued, Somebody, Preparing, Failing, Active
<1> QED
  BY <1>1, <1>2, <1>3, <1>4

LEMMA StepGiveUp ==
    ASSUME Inv, NEW w \in Worker, GiveUp(w)
    PROVE  Inv'
<1> USE StreamingAssumption DEF Inv, GiveUp, Goto,
        shared, timers, pending, history
<1>1. TypeOK'
  BY DEF TypeOK, StreamingState, Step, Preparing, Requesting, Calling, Active
<1>2. Clean'
  BY DEF TypeOK, Clean, Aside, Bare, Preparing, Active
<1>3. Alone' /\ OneRequest'
  BY DEF TypeOK, Clean, Bare, Alone, OneRequest, Attempts, Requests, Aside, Preparing, Requesting, Calling, Active
<1>4. NoDeadEnd' /\ Pursued'
  BY DEF TypeOK, Clean, Bare, NoDeadEnd, Pursued, Somebody, Preparing, Failing, Active
<1> QED
  BY <1>1, <1>2, <1>3, <1>4

LEMMA StepScheduleStreamingRetry ==
    ASSUME Inv, NEW w \in Worker, scheduleStreamingRetry(w)
    PROVE  Inv'
<1> USE StreamingAssumption DEF Inv, scheduleStreamingRetry, Return, Finished, Goto,
        shared, timers, pending, history
<1>1. TypeOK'
  BY DEF TypeOK, StreamingState, Step, Preparing, Requesting, Calling, Active
<1>2. Clean'
  BY DEF TypeOK, Clean, Aside, Bare, Preparing, Active
<1>3. Alone' /\ OneRequest'
  BY DEF TypeOK, Clean, Bare, Alone, OneRequest, Attempts, Requests, Aside, Preparing, Requesting, Calling, Active
<1>4. NoDeadEnd' /\ Pursued'
  BY DEF TypeOK, Clean, Bare, NoDeadEnd, Pursued, Somebody, Preparing, Failing, Active
<1> QED
  BY <1>1, <1>2, <1>3, <1>4

LEMMA StepRetreat ==
    ASSUME Inv, NEW w \in Worker, Retreat(w)
    PROVE  Inv'
<1> USE StreamingAssumption DEF Inv, Retreat, Goto,
        shared, timers, pending, history
<1>1. TypeOK'
  BY DEF TypeOK, StreamingState, Step, Preparing, Requesting, Calling, Active
<1>2. Clean'
  BY DEF TypeOK, Clean, Aside, Bare, Preparing, Active
<1>3. Alone' /\ OneRequest'
  BY DEF TypeOK, Clean, Bare, Alone, OneRequest, Attempts, Requests, Aside, Preparing, Requesting, Calling, Active
<1>4. NoDeadEnd' /\ Pursued'
  BY DEF TypeOK, Clean, Bare, NoDeadEnd, Pursued, Somebody, Preparing, Failing, Active
<1> QED
  BY <1>1, <1>2, <1>3, <1>4

LEMMA StepScheduleReconnect ==
    ASSUME Inv, NEW w \in Worker, scheduleReconnect(w)
    PROVE  Inv'
<1> USE StreamingAssumption DEF Inv, scheduleReconnect, Return, Finished, Goto,
        shared, timers, pending, history
<1>1. TypeOK'
  <2>1. reconnects' \in 0 .. MaxTimers
    BY DEF TypeOK
  <2>2. pc' \in [Worker -> Step] /\ back' \in [Worker -> {"idle", "read"}]
    BY DEF TypeOK, Step, Preparing, Requesting, Calling
  <2>3. cancelled' \in [Worker -> BOOLEAN] /\ cancelFunc' \in Worker \cup {Nobody}
    BY DEF TypeOK
  <2> QED
    BY <2>1, <2>2, <2>3 DEF TypeOK, StreamingState
<1>2. Clean'
  BY DEF TypeOK, Clean, Aside, Bare, Preparing, Active
<1>3. Alone' /\ OneRequest'
  BY DEF TypeOK, Clean, Bare, Alone, OneRequest, Attempts, Requests, Aside, Preparing, Requesting, Calling, Active
<1>4. NoDeadEnd' /\ Pursued'
  BY DEF TypeOK, Clean, Bare, NoDeadEnd, Pursued, Somebody, Preparing, Failing, Active
<1> QED
  BY <1>1, <1>2, <1>3, <1>4

LEMMA StepThenConnect ==
    ASSUME Inv, NEW w \in Worker, NEW g \in Worker, ThenConnect(w, g)
    PROVE  Inv'
<1> USE StreamingAssumption DEF Inv, ThenConnect, Connecting, Goto,
        shared, timers, pending, history
<1>1. TypeOK'
  BY DEF TypeOK, StreamingState, Step, Preparing, Requesting, Calling, Active
<1>2. Clean'
  BY DEF TypeOK, Clean, Aside, Bare, Preparing, Active
<1>3. Alone' /\ OneRequest'
  <2>1. /\ Attempts' \subseteq Attempts \cup {g} /\ Attempts \subseteq Worker
        /\ Requests' \subseteq Requests /\ Requests \subseteq Attempts
    BY DEF TypeOK, Clean, Aside, Attempts, Requests, Preparing, Requesting
  <2>2. ~overlapped' => \A v \in Attempts : cancelled'[v]
    BY <2>1 DEF TypeOK
  <2> QED
    BY <2>1, <2>2 DEF Alone, OneRequest
<1>4. NoDeadEnd' /\ Pursued'
  BY DEF TypeOK, Clean, Bare, NoDeadEnd, Pursued, Somebody, Preparing, Failing, Active
<1> QED
  BY <1>1, <1>2, <1>3, <1>4

LEMMA StepThenConnectInVain ==
    ASSUME Inv, NEW w \in Worker, ThenConnectInVain(w)
    PROVE  Inv'
<1> USE StreamingAssumption DEF Inv, ThenConnectInVain, Return, Finished, Goto,
        shared, timers, pending, history
<1>1. TypeOK'
  BY DEF TypeOK, StreamingState, Step, Preparing, Requesting, Calling, Active
<1>2. Clean'
  BY DEF TypeOK, Clean, Aside, Bare, Preparing, Active
<1>3. Alone' /\ OneRequest'
  BY DEF TypeOK, Clean, Bare, Alone, OneRequest, Attempts, Requests, Aside, Preparing, Requesting, Calling, Active
<1>4. NoDeadEnd' /\ Pursued'
  BY DEF TypeOK, Clean, Bare, NoDeadEnd, Pursued, Somebody, Preparing, Failing, Active
<1> QED
  BY <1>1, <1>2, <1>3, <1>4

LEMMA StepReconnectFires ==
    ASSUME Inv, NEW g \in Worker, ReconnectFires(g)
    PROVE  Inv'
<1> USE StreamingAssumption DEF Inv, ReconnectFires, Connecting, Goto,
        shared, timers, pending, history
<1>1. TypeOK'
  <2>1. reconnects' \in 0 .. MaxTimers
    BY DEF TypeOK
  <2>2. pc' \in [Worker -> Step] /\ back' \in [Worker -> {"idle", "read"}]
    BY DEF TypeOK, Step, Preparing, Requesting, Calling
  <2>3. cancelled' \in [Worker -> BOOLEAN] /\ cancelFunc' \in Worker \cup {Nobody}
    BY DEF TypeOK
  <2> QED
    BY <2>1, <2>2, <2>3 DEF TypeOK, StreamingState
<1>2. Clean'
  BY DEF TypeOK, Clean, Aside, Bare, Preparing, Active
<1>3. Alone' /\ OneRequest'
  BY DEF TypeOK, Clean, Bare, Alone, OneRequest, Attempts, Requests, Aside, Preparing, Requesting, Calling, Active
<1>4. NoDeadEnd' /\ Pursued'
  BY DEF TypeOK, Clean, Bare, NoDeadEnd, Pursued, Somebody, Preparing, Failing, Active
<1> QED
  BY <1>1, <1>2, <1>3, <1>4

LEMMA StepReconnectInVain ==
    ASSUME Inv, ReconnectInVain
    PROVE  Inv'
<1> USE StreamingAssumption DEF Inv, ReconnectInVain,
        shared, timers, pending, history
<1>1. TypeOK'
  BY DEF TypeOK, StreamingState, Step, Preparing, Requesting, Calling, Active
<1>2. Clean'
  BY DEF TypeOK, Clean, Aside, Bare, Preparing, Active
<1>3. Alone' /\ OneRequest'
  BY DEF TypeOK, Clean, Bare, Alone, OneRequest, Attempts, Requests, Aside, Preparing, Requesting, Calling, Active
<1>4. NoDeadEnd' /\ Pursued'
  BY DEF TypeOK, Clean, Bare, NoDeadEnd, Pursued, Somebody, Preparing, Failing, Active
<1> QED
  BY <1>1, <1>2, <1>3, <1>4

LEMMA StepTokenTimerFires ==
    ASSUME Inv, NEW g \in Worker, TokenTimerFires(g)
    PROVE  Inv'
<1> USE StreamingAssumption DEF Inv, TokenTimerFires, Goto,
        shared, timers, pending, history
<1>1. TypeOK'
  BY DEF TypeOK, StreamingState, Step, Preparing, Requesting, Calling, Active
<1>2. Clean'
  BY DEF TypeOK, Clean, Aside, Bare, Preparing, Active
<1>3. Alone' /\ OneRequest'
  BY DEF TypeOK, Clean, Bare, Alone, OneRequest, Attempts, Requests, Aside, Preparing, Requesting, Calling, Active
<1>4. NoDeadEnd' /\ Pursued'
  BY DEF TypeOK, Clean, Bare, NoDeadEnd, Pursued, Somebody, Preparing, Failing, Active
<1> QED
  BY <1>1, <1>2, <1>3, <1>4

LEMMA StepRefreshed ==
    ASSUME Inv, NEW w \in Worker, Refreshed(w)
    PROVE  Inv'
<1> USE StreamingAssumption DEF Inv, Refreshed, Goto,
        shared, timers, pending, history
<1>1. TypeOK'
  BY DEF TypeOK, StreamingState, Step, Preparing, Requesting, Calling, Active
<1>2. Clean'
  BY DEF TypeOK, Clean, Aside, Bare, Preparing, Active
<1>3. Alone' /\ OneRequest'
  BY DEF TypeOK, Clean, Bare, Alone, OneRequest, Attempts, Requests, Aside, Preparing, Requesting, Calling, Active
<1>4. NoDeadEnd' /\ Pursued'
  BY DEF TypeOK, Clean, Bare, NoDeadEnd, Pursued, Somebody, Preparing, Failing, Active
<1> QED
  BY <1>1, <1>2, <1>3, <1>4

LEMMA StepRefreshFails ==
    ASSUME Inv, NEW w \in Worker, RefreshFails(w)
    PROVE  Inv'
<1> USE StreamingAssumption DEF Inv, RefreshFails, Disconnected, cleanup, Goto,
        shared, timers, pending, history
<1>1. TypeOK'
  <2>1. pc' \in [Worker -> Step] /\ back' \in [Worker -> {"idle", "read"}]
    BY DEF TypeOK, Step, Preparing, Requesting, Calling
  <2>2. failures' \in 0 .. MaxReconnectAttempts
    BY DEF TypeOK
  <2>3. cleanup
    OBVIOUS
  <2> QED
    BY <2>1, <2>2, <2>3, CleanupTypes DEF TypeOK, StreamingState
<1>2. Clean'
  BY DEF TypeOK, Clean, Aside, Bare, Preparing, Active
<1>3. Alone' /\ OneRequest'
  <2>1. cleanup
    OBVIOUS
  <2>2. /\ Attempts' \subseteq Attempts /\ Attempts \subseteq Worker
        /\ Requests' \subseteq Requests /\ Requests \subseteq Worker
    BY DEF TypeOK, Attempts, Requests, Preparing, Requesting
  <2>3. Alone'
    BY <2>1, <2>2, CleanupTypes DEF TypeOK, Alone
  <2>4. OneRequest'
    BY <2>1, <2>2, CleanupTypes DEF TypeOK, OneRequest
  <2> QED
    BY <2>3, <2>4
<1>4. NoDeadEnd' /\ Pursued'
  BY DEF TypeOK, Clean, Bare, NoDeadEnd, Pursued, Somebody, Preparing, Failing, Active
<1> QED
  BY <1>1, <1>2, <1>3, <1>4

LEMMA StepRetryTimerFires ==
    ASSUME Inv, NEW g \in Worker, RetryTimerFires(g)
    PROVE  Inv'
<1> USE StreamingAssumption DEF Inv, RetryTimerFires, Goto,
        shared, timers, pending, history
<1>1. TypeOK'
  BY DEF TypeOK, StreamingState, Step, Preparing, Requesting, Calling, Active
<1>2. Clean'
  BY DEF TypeOK, Clean, Aside, Bare, Preparing, Active
<1>3. Alone' /\ OneRequest'
  BY DEF TypeOK, Clean, Bare, Alone, OneRequest, Attempts, Requests, Aside, Preparing, Requesting, Calling, Active
<1>4. NoDeadEnd' /\ Pursued'
  BY DEF TypeOK, Clean, Bare, NoDeadEnd, Pursued, Somebody, Preparing, Failing, Active
<1> QED
  BY <1>1, <1>2, <1>3, <1>4

LEMMA StepRetry ==
    ASSUME Inv, NEW w \in Worker, Retry(w)
    PROVE  Inv'
<1> USE StreamingAssumption DEF Inv, Retry, Goto,
        shared, timers, pending, history
<1>1. TypeOK'
  BY DEF TypeOK, StreamingState, Step, Preparing, Requesting, Calling, Active
<1>2. Clean'
  BY DEF TypeOK, Clean, Aside, Bare, Preparing, Active
<1>3. Alone' /\ OneRequest'
  BY DEF TypeOK, Clean, Bare, Alone, OneRequest, Attempts, Requests, Aside, Preparing, Requesting, Calling, Active
<1>4. NoDeadEnd' /\ Pursued'
  BY DEF TypeOK, Clean, Bare, NoDeadEnd, Pursued, Somebody, Preparing, Failing, Active
<1> QED
  BY <1>1, <1>2, <1>3, <1>4

LEMMA StepHeartbeatTimerFires ==
    ASSUME Inv, NEW g \in Worker, HeartbeatTimerFires(g)
    PROVE  Inv'
<1> USE StreamingAssumption DEF Inv, HeartbeatTimerFires, Goto,
        shared, timers, pending, history
<1>1. TypeOK'
  <2>1. strays' \in 0 .. MaxTimers
    BY DEF TypeOK
  <2>2. pc' \in [Worker -> Step] /\ back' \in [Worker -> {"idle", "read"}]
    BY DEF TypeOK, Step, Preparing, Requesting, Calling
  <2>3. cancelled' \in [Worker -> BOOLEAN] /\ cancelFunc' \in Worker \cup {Nobody}
    BY DEF TypeOK
  <2> QED
    BY <2>1, <2>2, <2>3 DEF TypeOK, StreamingState
<1>2. Clean'
  BY DEF TypeOK, Clean, Aside, Bare, Preparing, Active
<1>3. Alone' /\ OneRequest'
  BY DEF TypeOK, Clean, Bare, Alone, OneRequest, Attempts, Requests, Aside, Preparing, Requesting, Calling, Active
<1>4. NoDeadEnd' /\ Pursued'
  BY DEF TypeOK, Clean, Bare, NoDeadEnd, Pursued, Somebody, Preparing, Failing, Active
<1> QED
  BY <1>1, <1>2, <1>3, <1>4

LEMMA StepCheckHeartbeat ==
    ASSUME Inv, NEW w \in Worker, CheckHeartbeat(w)
    PROVE  Inv'
<1> USE StreamingAssumption DEF Inv, CheckHeartbeat, Local, Goto,
        shared, timers, pending, history
<1>1. TypeOK'
  BY DEF TypeOK, StreamingState, Step, Preparing, Requesting, Calling, Active
<1>2. Clean'
  BY DEF TypeOK, Clean, Aside, Bare, Preparing, Active
<1>3. Alone' /\ OneRequest'
  BY DEF TypeOK, Clean, Bare, Alone, OneRequest, Attempts, Requests, Aside, Preparing, Requesting, Calling, Active
<1>4. NoDeadEnd' /\ Pursued'
  BY DEF TypeOK, Clean, Bare, NoDeadEnd, Pursued, Somebody, Preparing, Failing, Active
<1> QED
  BY <1>1, <1>2, <1>3, <1>4

LEMMA StepStopHeartbeatMonitor ==
    ASSUME Inv, NEW w \in Worker, stopHeartbeatMonitor(w)
    PROVE  Inv'
<1> USE StreamingAssumption DEF Inv, stopHeartbeatMonitor, Goto,
        shared, timers, pending, history
<1>1. TypeOK'
  BY DEF TypeOK, StreamingState, Step, Preparing, Requesting, Calling, Active
<1>2. Clean'
  BY DEF TypeOK, Clean, Aside, Bare, Preparing, Active
<1>3. Alone' /\ OneRequest'
  BY DEF TypeOK, Clean, Bare, Alone, OneRequest, Attempts, Requests, Aside, Preparing, Requesting, Calling, Active
<1>4. NoDeadEnd' /\ Pursued'
  BY DEF TypeOK, Clean, Bare, NoDeadEnd, Pursued, Somebody, Preparing, Failing, Active
<1> QED
  BY <1>1, <1>2, <1>3, <1>4

LEMMA StepStartHeartbeatMonitor ==
    ASSUME Inv, NEW w \in Worker, startHeartbeatMonitor(w)
    PROVE  Inv'
<1> USE StreamingAssumption DEF Inv, startHeartbeatMonitor, Return, Finished, Goto,
        shared, timers, pending, history
<1>1. TypeOK'
  <2>1. strays' \in 0 .. MaxTimers
    BY DEF TypeOK
  <2>2. pc' \in [Worker -> Step] /\ back' \in [Worker -> {"idle", "read"}]
    BY DEF TypeOK, Step, Preparing, Requesting, Calling
  <2>3. cancelled' \in [Worker -> BOOLEAN] /\ cancelFunc' \in Worker \cup {Nobody}
    BY DEF TypeOK
  <2> QED
    BY <2>1, <2>2, <2>3 DEF TypeOK, StreamingState
<1>2. Clean'
  BY DEF TypeOK, Clean, Aside, Bare, Preparing, Active
<1>3. Alone' /\ OneRequest'
  BY DEF TypeOK, Clean, Bare, Alone, OneRequest, Attempts, Requests, Aside, Preparing, Requesting, Calling, Active
<1>4. NoDeadEnd' /\ Pursued'
  BY DEF TypeOK, Clean, Bare, NoDeadEnd, Pursued, Somebody, Preparing, Failing, Active
<1> QED
  BY <1>1, <1>2, <1>3, <1>4

LEMMA StepSilence ==
    ASSUME Inv, Silence
    PROVE  Inv'
<1> USE StreamingAssumption DEF Inv, Silence,
        shared, timers, pending, history
<1>1. TypeOK'
  BY DEF TypeOK, StreamingState, Step, Preparing, Requesting, Calling, Active
<1>2. Clean'
  BY DEF TypeOK, Clean, Aside, Bare, Preparing, Active
<1>3. Alone' /\ OneRequest'
  BY DEF TypeOK, Clean, Bare, Alone, OneRequest, Attempts, Requests, Aside, Preparing, Requesting, Calling, Active
<1>4. NoDeadEnd' /\ Pursued'
  BY DEF TypeOK, Clean, Bare, NoDeadEnd, Pursued, Somebody, Preparing, Failing, Active
<1> QED
  BY <1>1, <1>2, <1>3, <1>4

-------------------------------------------------------------------------------

LEMMA NextInv == Inv /\ [Next]_vars => Inv'
<1> SUFFICES ASSUME Inv, [Next]_vars PROVE Inv'
  OBVIOUS
<1>1. CASE Application
  BY <1>1, StepConnect, StepDisconnect, StepRetryConnection DEF Application
<1>2. ASSUME NEW w \in Worker, Network(w) PROVE Inv'
  BY <1>2, StepTokenFetched, StepAccepted, StepAttemptFails, StepStreamLost,
     StepStreamLostSilently, StepReceive, StepRefreshed, StepRefreshFails
     DEF Network
<1>3. ASSUME NEW w \in Worker, Incoming(w) PROVE Inv'
  BY <1>3, StepFlagEvent, StepHeartbeat, StepTokenRefused, StepDismissed,
     StepStreamError
     DEF Incoming
<1>4. ASSUME NEW w \in Worker, Internal(w) PROVE Inv'
  BY <1>3, <1>4, StepScheduleRefresh, StepCreateConnection, StepHandleOpen, StepAborted,
     StepFailed, StepGiveUp, StepScheduleStreamingRetry, StepRetreat,
     StepScheduleReconnect, StepThenConnect, StepThenConnectInVain, StepRetry,
     StepCheckHeartbeat, StepStopHeartbeatMonitor, StepStartHeartbeatMonitor
     DEF Internal
<1>5. CASE Timer
  BY <1>5, StepSilence, StepReconnectInVain, StepReconnectFires,
     StepTokenTimerFires, StepRetryTimerFires, StepHeartbeatTimerFires
     DEF Timer, Reconnect
<1>6. CASE UNCHANGED vars
  <2> USE <1>6 DEF Inv, vars, shared, timers, pending, history
  <2>1. TypeOK' /\ Clean'
    BY DEF TypeOK, Clean
  <2>2. Alone' /\ OneRequest'
    BY DEF Alone, OneRequest, Attempts, Requests
  <2>3. NoDeadEnd' /\ Pursued'
    BY DEF NoDeadEnd, Pursued, Somebody
  <2> QED
    BY <2>1, <2>2, <2>3
<1> QED
  BY <1>1, <1>2, <1>4, <1>5, <1>6 DEF Next

LEMMA Invariance == Spec => []Inv
BY InitInv, NextInv, PTL DEF Spec

\* Every variable keeps its type.
THEOREM TypeCorrect == Spec => []TypeOK
<1>1. Inv => TypeOK
  BY DEF Inv
<1> QED
  BY Invariance, <1>1, PTL

\* Whatever order calls, callbacks of timers and failures come in, a manager that
\* is connecting, connected, reconnecting or has failed has something to take it
\* out of that state, unless the server has said that streaming is over.
THEOREM NeverStuck == Spec => []NoDeadEnd
<1>1. Inv => NoDeadEnd
  BY DEF Inv
<1> QED
  BY Invariance, <1>1, PTL

\* Attempts that do not overlap leave one request at most, which cancelFunc can
\* cancel.
THEOREM OneRequestAtMost == Spec => []OneRequest
<1>1. Inv => OneRequest
  BY DEF Inv
<1> QED
  BY Invariance, <1>1, PTL

-------------------------------------------------------------------------------

\* When Disconnect is honoured after all: where no attempt met another one and it finds
\* nothing but requests under way and timers that the manager keeps, it leaves the
\* manager quiet, and only a call of the application ends that (Disconnect, cleanup).
THEOREM DisconnectHonoured == Spec => DisconnectKept
<1>1. ASSUME Inv, Disconnect, Undisturbed PROVE Quiet'
  <2> USE <1>1 DEF Inv
  <2>1. /\ state' = "disconnected"
        /\ ~tokenTimer' /\ ~heartbeatTimer' /\ ~retryTimer'
        /\ strays' = 0 /\ reconnects' = 0 /\ pc' = pc
    BY DEF Disconnect, Disconnected, cleanup, Undisturbed, pending
  <2>2. ASSUME NEW w \in Worker, pc[w] \in {"dial", "read"} PROVE cancelled'[w]
    <3>1. cancelled[w] \/ cancelFunc = w
      BY <2>2 DEF Undisturbed, OneRequest, Requests, Requesting
    <3> QED
      BY <3>1, CleanupTypes DEF Disconnect, Disconnected
  <2> QED
    BY <2>1, <2>2 DEF Undisturbed, Quiet
<1>2. ASSUME Inv, Quiet, [Next]_vars
      PROVE  Quiet' \/ \E g \in Worker : Connect(g) \/ RetryConnection(g)
  <2> USE <1>2 DEF Inv
  <2>1. CASE Disconnect
    <3>1. \A w \in Worker : cancelled[w] => cancelled'[w]
      BY <2>1, CleanupTypes DEF Disconnect, Disconnected
    <3> QED
      BY <2>1, <3>1 DEF Disconnect, Disconnected, cleanup, Quiet, pending
  <2>2. CASE Timer
    BY <2>2 DEF Timer, Silence, Reconnect, ReconnectInVain, ReconnectFires, TokenTimerFires,
                RetryTimerFires, HeartbeatTimerFires, Quiet, timers, pending
  <2>3. ASSUME NEW w \in Worker, Aborted(w) PROVE Quiet'
    <3>1. /\ pc'[w] = "idle" /\ cancelled'[w] = FALSE
          /\ \A v \in Worker \ {w} : pc'[v] = pc[v] /\ cancelled'[v] = cancelled[v]
      BY <2>3 DEF Aborted, End, Finished, Goto, TypeOK
    <3> QED
      BY <2>3, <3>1 DEF Aborted, Quiet, timers, pending
  <2>4. ASSUME NEW w \in Worker, Network(w) PROVE FALSE
    BY <2>4 DEF Network, TokenFetched, Accepted, AttemptFails, StreamLost, StreamLostSilently,
                Receive, Refreshed, RefreshFails, Local, Quiet
  <2>5. ASSUME NEW w \in Worker, Internal(w), ~Aborted(w) PROVE FALSE
    BY <2>5 DEF Internal, ScheduleRefresh, CreateConnection, handleOpen, Incoming, FlagEvent,
                Heartbeat, TokenRefused, Dismissed, StreamError, Failed, GiveUp, Retreat,
                scheduleStreamingRetry, scheduleReconnect, ThenConnectInVain, ThenConnect, Retry,
                CheckHeartbeat, stopHeartbeatMonitor, startHeartbeatMonitor, Local, Quiet
  <2>6. CASE UNCHANGED vars
    BY <2>6 DEF vars, shared, timers, pending, Quiet
  <2> QED
    BY <2>1, <2>2, <2>3, <2>4, <2>5, <2>6 DEF Next, Application
<1>3. Inv /\ [Next]_vars =>
        [/\ Disconnect /\ Undisturbed => Quiet'
         /\ Quiet => Quiet' \/ \E g \in Worker : Connect(g) \/ RetryConnection(g)]_vars
  BY <1>1, <1>2
<1> QED
  BY Invariance, <1>3, PTL DEF Spec, DisconnectKept
===============================================================================
