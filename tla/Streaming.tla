------------------------------- MODULE Streaming -------------------------------
(***************************************************************************)
(* The SSE connection of internal/core/streaming.go.  A StreamingManager   *)
(* has one mutex, held for a few assignments at a time: each Connect starts *)
(* a goroutine that fetches a token, opens the stream and reads it, and    *)
(* four kinds of timer start others.  A step is one region under the mutex *)
(* or one outcome of the network.                                          *)
(*                                                                         *)
(* Only the latest cancelFunc is kept, and timers that wait to reconnect   *)
(* are not kept at all.  A Timer.Stop that comes too late leaves the       *)
(* callback running, so a callback is first fired and then runs.           *)
(*                                                                         *)
(* consecutiveFailures is only compared with MaxReconnectAttempts and sets *)
(* a delay: it is counted up to that limit.  The heartbeat clock is one    *)
(* bit: was there a heartbeat within twice HeartbeatInterval?  Nothing     *)
(* bounds how long the server takes, since the manager's http.Client has   *)
(* no timeout, not even for tokens.                                        *)
(***************************************************************************)
EXTENDS Integers, FiniteSets

CONSTANTS
    Worker,                 \* bound: goroutines that exist at a time
    Nobody,                 \* the nil cancelFunc
    MaxReconnectAttempts,
    MaxTimers               \* bound: reconnect and stray timers pending

\* StreamingConfig is not validated.
ASSUME StreamingAssumption ==
    /\ Nobody \notin Worker
    /\ MaxReconnectAttempts \in Nat
    /\ MaxTimers \in Nat \ {0}

VARIABLES
    state,                  \* StreamingManager.state
    failures,               \* consecutiveFailures
    cancelFunc,             \* whose request cancelFunc cancels
    tokenTimer, heartbeatTimer, retryTimer,     \* armed?
    strays,                 \* armed heartbeat timers that heartbeatTimer lost
    reconnects,             \* timers of scheduleReconnect pending
    heard,                  \* lastHeartbeat is recent
    pc,                     \* what each goroutine does
    back,                   \* where it goes on after a call of the manager
    cancelled,              \* its request has been cancelled
    \* History, which no step depends on:
    dismissed,              \* the server has said that streaming is over
    overlapped              \* of the attempts under way, one began amid others

timers == <<tokenTimer, heartbeatTimer, retryTimer>>
pending == <<strays, reconnects>>
history == <<dismissed, overlapped>>
shared == <<state, failures, cancelFunc, timers, pending, heard, history>>
vars == <<shared, pc, back, cancelled>>

StreamingState == {"disconnected", "connecting", "connected", "reconnecting", "failed"}

\* The steps of an attempt, from initiateConnection to readEvents ...
Preparing == {"token", "schedule", "create"}
Requesting == {"dial", "open", "read", "event"}

\* ... and of the methods it calls, which the callbacks of timers call too.
Calling == {"refresh", "check", "unwatch", "watch", "retry", "connect", "fail",
            "give_up", "retreat", "plan_retry", "plan_reconnect"}

Step == {"idle"} \cup Preparing \cup Requesting \cup Calling

\* The requests under way, which a cancelFunc should cancel.
Requests == {w \in Worker : pc[w] \in Requesting \/ back[w] = "read"}
Attempts == Requests \cup {w \in Worker : pc[w] \in Preparing}
Readers == {w \in Worker : pc[w] \in {"read", "event"} \/ back[w] = "read"}
Active == state \in {"connected", "connecting"}

-------------------------------------------------------------------------------

Init ==
    /\ state = "disconnected"
    /\ failures = 0
    /\ cancelFunc = Nobody
    /\ tokenTimer = FALSE /\ heartbeatTimer = FALSE /\ retryTimer = FALSE
    /\ strays = 0 /\ reconnects = 0
    /\ heard = FALSE
    /\ pc = [w \in Worker |-> "idle"]
    /\ back = [w \in Worker |-> "idle"]
    /\ cancelled = [w \in Worker |-> FALSE]
    /\ dismissed = FALSE /\ overlapped = FALSE

Goto(w, s) == pc' = [pc EXCEPT ![w] = s]

\* A step of w that touches nothing but w.
Local(w, from, to) ==
    /\ pc[w] = from
    /\ Goto(w, to)
    /\ UNCHANGED <<shared, back, cancelled>>

\* The goroutine w ends.  A cancelFunc that is left behind cancels nothing.
Finished(w) ==
    /\ cancelled' = [cancelled EXCEPT ![w] = FALSE]
    /\ cancelFunc' = IF cancelFunc = w THEN Nobody ELSE cancelFunc

End(w) == Goto(w, "idle") /\ Finished(w)

\* w returns from a call of the manager: it goes on reading, or it ends.
Return(w) ==
    /\ Goto(w, back[w])
    /\ back' = [back EXCEPT ![w] = "idle"]
    /\ IF back[w] = "read" THEN UNCHANGED <<cancelled, cancelFunc>> ELSE Finished(w)

\* Mutant: the request is not cancelled.
cleanup_NoCancel ==
    /\ cancelled' = cancelled
    /\ cancelFunc' = Nobody
    /\ tokenTimer' = FALSE /\ heartbeatTimer' = FALSE /\ retryTimer' = FALSE

\* Mutant: the timer that retries after a fallback is not stopped.
cleanup_KeepsTimer ==
    /\ cancelled' = [w \in Worker |-> cancelled[w] \/ w = cancelFunc]
    /\ cancelFunc' = Nobody
    /\ tokenTimer' = FALSE /\ heartbeatTimer' = FALSE
    /\ UNCHANGED retryTimer

cleanup ==
    /\ cancelled' = [w \in Worker |-> cancelled[w] \/ w = cancelFunc]
    /\ cancelFunc' = Nobody
    /\ tokenTimer' = FALSE /\ heartbeatTimer' = FALSE /\ retryTimer' = FALSE

\* Disconnect, whoever calls it.
Disconnected ==
    /\ cleanup
    /\ state' = "disconnected"
    /\ failures' = 0
    /\ UNCHANGED <<pending, heard>>

\* Connect starts g, and p is what becomes of the other goroutines.
Connecting(g, p) ==
    /\ ~Active
    /\ pc[g] = "idle" /\ p[g] = "idle"
    /\ state' = "connecting"
    /\ pc' = [p EXCEPT ![g] = "token"]
    /\ overlapped' = ((overlapped /\ Attempts # {}) \/ \E w \in Attempts : ~cancelled[w])
    /\ dismissed' = FALSE

-------------------------------------------------------------------------------
\* The application.

Connect(g) ==
    /\ Connecting(g, pc)
    /\ UNCHANGED <<failures, cancelFunc, timers, pending, heard, back, cancelled>>

Disconnect ==
    /\ Disconnected
    /\ UNCHANGED <<pc, back, history>>

\* RetryConnection up to its call of Connect.
RetryConnection(g) ==
    /\ pc[g] = "idle"
    /\ ~Active
    /\ failures' = 0
    /\ Goto(g, "connect")
    /\ UNCHANGED <<state, cancelFunc, timers, pending, heard, back, cancelled, history>>

-------------------------------------------------------------------------------
\* An attempt.

TokenFetched(w) == Local(w, "token", "schedule")

\* scheduleTokenRefresh, for an attempt or for the callback of the timer itself.
ScheduleRefresh(w) ==
    /\ pc[w] = "schedule"
    /\ tokenTimer' = TRUE
    /\ Goto(w, "create")
    /\ UNCHANGED <<state, failures, cancelFunc, heartbeatTimer, retryTimer, pending,
                   heard, back, cancelled, history>>

CreateConnection(w) ==
    /\ pc[w] = "create"
    /\ cancelFunc' = w
    /\ Goto(w, "dial")
    /\ UNCHANGED <<state, failures, timers, pending, heard, back, cancelled, history>>

Accepted(w) == ~cancelled[w] /\ Local(w, "dial", "open")

\* handleOpen does not look whether the request has been cancelled meanwhile.
handleOpen(w) ==
    /\ pc[w] = "open"
    /\ state' = "connected"
    /\ failures' = 0
    /\ heard' = TRUE
    /\ Goto(w, "unwatch")
    /\ back' = [back EXCEPT ![w] = "read"]
    /\ UNCHANGED <<cancelFunc, timers, pending, cancelled, history>>

\* A goroutine whose request has been cancelled notices, in Do or in its loop.
Aborted(w) ==
    /\ pc[w] \in {"dial", "read"}
    /\ cancelled[w]
    /\ End(w)
    /\ UNCHANGED <<state, failures, timers, pending, heard, back, history>>

\* The stream breaks.  Nobody is told unless the manager believes in it.
StreamLost(w) == ~cancelled[w] /\ state = "connected" /\ Local(w, "read", "fail")

StreamLostSilently(w) ==
    /\ pc[w] = "read"
    /\ ~cancelled[w]
    /\ state # "connected"
    /\ End(w)
    /\ UNCHANGED <<state, failures, timers, pending, heard, back, history>>

\* The last line of an event has come.
Receive(w) == ~cancelled[w] /\ Local(w, "read", "event")

\* processEvent: a change of flags, handed to the callbacks, or nothing legible.
FlagEvent(w) == Local(w, "event", "read")

Heartbeat(w) ==
    /\ pc[w] = "event"
    /\ heard' = TRUE
    /\ Goto(w, "read")
    /\ UNCHANGED <<state, failures, cancelFunc, timers, pending, back, cancelled, history>>

\* TOKEN_EXPIRED and TOKEN_INVALID, up to the call of Connect.
TokenRefused(w) ==
    /\ pc[w] = "event"
    /\ Disconnected
    /\ Goto(w, "connect")
    /\ back' = [back EXCEPT ![w] = "read"]
    /\ UNCHANGED history

\* SUBSCRIPTION_SUSPENDED and STREAMING_UNAVAILABLE: no retry is planned.
Dismissed(w) ==
    /\ pc[w] = "event"
    /\ cleanup
    /\ state' = "failed"
    /\ dismissed' = TRUE
    /\ Goto(w, "read")
    /\ UNCHANGED <<failures, pending, heard, back, overlapped>>

\* CONNECTION_LIMIT and unknown codes.
StreamError(w) ==
    /\ pc[w] = "event"
    /\ Goto(w, "fail")
    /\ back' = [back EXCEPT ![w] = "read"]
    /\ UNCHANGED <<shared, cancelled>>

\* No token, no connection, or a status other than 200.
AttemptFails(w) ==
    \/ Local(w, "token", "fail")
    \/ ~cancelled[w] /\ Local(w, "dial", "fail")

-------------------------------------------------------------------------------
\* handleConnectionFailure and what it calls, region by region.

Failed(w) ==
    /\ pc[w] = "fail"
    /\ cleanup
    /\ IF failures + 1 >= MaxReconnectAttempts
         THEN failures' = MaxReconnectAttempts /\ Goto(w, "give_up")
         ELSE failures' = failures + 1 /\ Goto(w, "retreat")
    /\ UNCHANGED <<state, pending, heard, back, history>>

GiveUp(w) ==
    /\ pc[w] = "give_up"
    /\ state' = "failed"
    /\ Goto(w, "plan_retry")
    /\ UNCHANGED <<failures, cancelFunc, timers, pending, heard, back, cancelled, history>>

\* onFallbackToPolling, and the timer of scheduleStreamingRetry.
scheduleStreamingRetry(w) ==
    /\ pc[w] = "plan_retry"
    /\ retryTimer' = TRUE
    /\ Return(w)
    /\ UNCHANGED <<state, failures, tokenTimer, heartbeatTimer, pending, heard, history>>

Retreat(w) ==
    /\ pc[w] = "retreat"
    /\ state' = "reconnecting"
    /\ Goto(w, "plan_reconnect")
    /\ UNCHANGED <<failures, cancelFunc, timers, pending, heard, back, cancelled, history>>

scheduleReconnect(w) ==
    /\ pc[w] = "plan_reconnect"
    /\ reconnects < MaxTimers
    /\ reconnects' = reconnects + 1
    /\ Return(w)
    /\ UNCHANGED <<state, failures, timers, strays, heard, history>>

\* The call of Connect that ends a callback or follows Disconnect in an event.
ThenConnect(w, g) ==
    /\ pc[w] = "connect"
    /\ back' = [back EXCEPT ![w] = "idle"]
    /\ Connecting(g, [pc EXCEPT ![w] = back[w]])
    /\ UNCHANGED <<failures, cancelFunc, timers, pending, heard, cancelled>>

ThenConnectInVain(w) ==
    /\ pc[w] = "connect"
    /\ Active
    /\ Return(w)
    /\ UNCHANGED <<state, failures, timers, pending, heard, history>>

-------------------------------------------------------------------------------
\* Timers.

ReconnectFires(g) ==
    /\ reconnects > 0
    /\ reconnects' = reconnects - 1
    /\ Connecting(g, pc)
    /\ UNCHANGED <<failures, cancelFunc, timers, strays, heard, back, cancelled>>

ReconnectInVain ==
    /\ reconnects > 0
    /\ Active
    /\ reconnects' = reconnects - 1
    /\ UNCHANGED <<state, failures, cancelFunc, timers, strays, heard, pc, back, cancelled,
                   history>>

TokenTimerFires(g) ==
    /\ tokenTimer
    /\ pc[g] = "idle"
    /\ tokenTimer' = FALSE
    /\ Goto(g, "refresh")
    /\ UNCHANGED <<state, failures, cancelFunc, heartbeatTimer, retryTimer, pending,
                   heard, back, cancelled, history>>

\* Whatever has become of the connection, the next refresh is scheduled ...
Refreshed(w) ==
    /\ pc[w] = "refresh"
    /\ tokenTimer' = TRUE
    /\ Goto(w, "idle")
    /\ UNCHANGED <<state, failures, cancelFunc, heartbeatTimer, retryTimer, pending,
                   heard, back, cancelled, history>>

\* ... or the connection made anew.
RefreshFails(w) ==
    /\ pc[w] = "refresh"
    /\ Disconnected
    /\ Goto(w, "connect")
    /\ UNCHANGED <<back, history>>

RetryTimerFires(g) ==
    /\ retryTimer
    /\ pc[g] = "idle"
    /\ retryTimer' = FALSE
    /\ Goto(g, "retry")
    /\ UNCHANGED <<state, failures, cancelFunc, tokenTimer, heartbeatTimer, pending,
                   heard, back, cancelled, history>>

\* RetryConnection in the callback.
Retry(w) ==
    /\ pc[w] = "retry"
    /\ failures' = IF Active THEN failures ELSE 0
    /\ Goto(w, IF Active THEN "idle" ELSE "connect")
    /\ UNCHANGED <<state, cancelFunc, timers, pending, heard, back, cancelled, history>>

HeartbeatTimerFires(g) ==
    /\ pc[g] = "idle"
    /\ \/ heartbeatTimer /\ heartbeatTimer' = FALSE /\ UNCHANGED strays
       \/ strays > 0 /\ strays' = strays - 1 /\ UNCHANGED heartbeatTimer
    /\ Goto(g, "check")
    /\ UNCHANGED <<state, failures, cancelFunc, tokenTimer, retryTimer, reconnects,
                   heard, back, cancelled, history>>

\* Mutant: an old heartbeat is overlooked.
CheckHeartbeat_Lenient(w) == Local(w, "check", "unwatch")

\* Mutant: the monitor is not started anew.
CheckHeartbeat_Once(w) == Local(w, "check", IF heard THEN "idle" ELSE "fail")

CheckHeartbeat(w) == Local(w, "check", IF heard THEN "unwatch" ELSE "fail")

\* startHeartbeatMonitor: stopHeartbeatMonitor, then a new timer.
stopHeartbeatMonitor(w) ==
    /\ pc[w] = "unwatch"
    /\ heartbeatTimer' = FALSE
    /\ Goto(w, "watch")
    /\ UNCHANGED <<state, failures, cancelFunc, tokenTimer, retryTimer, pending,
                   heard, back, cancelled, history>>

startHeartbeatMonitor(w) ==
    /\ pc[w] = "watch"
    /\ IF heartbeatTimer
         THEN strays < MaxTimers /\ strays' = strays + 1
         ELSE UNCHANGED strays
    /\ heartbeatTimer' = TRUE
    /\ Return(w)
    /\ UNCHANGED <<state, failures, tokenTimer, retryTimer, reconnects, heard, history>>

\* Twice HeartbeatInterval passes without a heartbeat.
Silence ==
    /\ heard
    /\ heard' = FALSE
    /\ UNCHANGED <<state, failures, cancelFunc, timers, pending, pc, back, cancelled, history>>

-------------------------------------------------------------------------------

Application ==
    \/ Disconnect
    \/ \E g \in Worker : Connect(g) \/ RetryConnection(g)

Network(w) ==
    \/ TokenFetched(w) \/ Accepted(w) \/ AttemptFails(w)
    \/ StreamLost(w) \/ StreamLostSilently(w) \/ Receive(w)
    \/ Refreshed(w) \/ RefreshFails(w)

Incoming(w) ==
    \/ FlagEvent(w) \/ Heartbeat(w) \/ TokenRefused(w)
    \/ Dismissed(w) \/ StreamError(w)

\* What a goroutine does next depends on nobody else.
Internal(w) ==
    \/ ScheduleRefresh(w) \/ CreateConnection(w) \/ handleOpen(w) \/ Aborted(w)
    \/ Incoming(w) \/ Failed(w) \/ GiveUp(w) \/ Retreat(w)
    \/ scheduleStreamingRetry(w) \/ scheduleReconnect(w)
    \/ ThenConnectInVain(w) \/ (\E g \in Worker : ThenConnect(w, g))
    \/ Retry(w) \/ CheckHeartbeat(w)
    \/ stopHeartbeatMonitor(w) \/ startHeartbeatMonitor(w)

Reconnect == ReconnectInVain \/ \E g \in Worker : ReconnectFires(g)

Timer ==
    \/ Silence
    \/ Reconnect
    \/ \E g \in Worker : TokenTimerFires(g) \/ RetryTimerFires(g) \/ HeartbeatTimerFires(g)

Next == Application \/ Timer \/ \E w \in Worker : Network(w) \/ Internal(w)

Spec == Init /\ [][Next]_vars

\* Goroutines run and timers fire.  Neither the application nor the server has
\* to do anything.
Fairness ==
    /\ \A w \in Worker : WF_vars(Internal(w))
    /\ WF_vars(Silence)
    /\ WF_vars(Reconnect)
    /\ WF_vars(\E g \in Worker : RetryTimerFires(g))
    /\ WF_vars(\E g \in Worker : HeartbeatTimerFires(g))

FairSpec == Spec /\ Fairness

-------------------------------------------------------------------------------

\* Every variable has its type.
TypeOK ==
    /\ state \in StreamingState
    /\ failures \in 0 .. MaxReconnectAttempts
    /\ cancelFunc \in Worker \cup {Nobody}
    /\ tokenTimer \in BOOLEAN /\ heartbeatTimer \in BOOLEAN /\ retryTimer \in BOOLEAN
    /\ strays \in 0 .. MaxTimers
    /\ reconnects \in 0 .. MaxTimers
    /\ heard \in BOOLEAN
    /\ pc \in [Worker -> Step]
    /\ back \in [Worker -> {"idle", "read"}]
    /\ cancelled \in [Worker -> BOOLEAN]
    /\ dismissed \in BOOLEAN /\ overlapped \in BOOLEAN

Somebody(steps) == \E w \in Worker : pc[w] \in steps

Failing == {"fail", "give_up", "retreat"}

\* The manager never rests in a state that nothing will end: whatever order
\* calls, callbacks and failures come in, a state that promises a connection
\* has a goroutine at work on it, a timer armed, or the heartbeat watched.
\* Only what the server has said is final.
NoDeadEnd ==
    /\ state = "connecting" => Somebody(Preparing \cup {"dial", "open"} \cup Failing)
    /\ state = "reconnecting" => reconnects > 0 \/ Somebody({"plan_reconnect"})
    /\ state = "connected" =>
         \/ heartbeatTimer
         \/ strays > 0
         \/ Somebody({"check", "unwatch", "watch"} \cup Failing)
    /\ state = "failed" =>
         dismissed \/ retryTimer \/ Somebody({"plan_retry", "retry", "connect"} \cup Failing)

\* As long as no attempt begins while another is under way, there is one
\* request at most that has not been cancelled, and cancelFunc cancels it.
OneRequest ==
    ~overlapped => \A w \in Requests : cancelled[w] \/ cancelFunc = w

\* A manager that reads no stream and waits to reconnect, has given up, or takes
\* itself for connected, comes out of it: the heartbeat timer finds the dead
\* stream, the other timers try again.  (Unless the bound on goroutines is
\* reached.  A stream that nothing can cancel any more may put the retry off for
\* ever: each error on it starts the five minutes anew.)
Stranded ==
    /\ Readers = {}
    /\ \/ state = "reconnecting"
       \/ state = "failed" /\ ~dismissed
       \/ state = "connected"

Recovers == Stranded ~> ~Stranded \/ ~Somebody({"idle"})

\* Nothing is armed, and nobody is at work but goroutines whose request has been
\* cancelled, which have yet to notice.
Quiet ==
    /\ state = "disconnected"
    /\ ~tokenTimer /\ ~heartbeatTimer /\ ~retryTimer
    /\ strays = 0 /\ reconnects = 0
    /\ \A w \in Worker : pc[w] # "idle" => pc[w] \in {"dial", "read"} /\ cancelled[w]

\* No attempt has met another one, and nothing is under way but requests and
\* timers that the manager keeps.
Undisturbed ==
    /\ ~overlapped
    /\ strays = 0 /\ reconnects = 0
    /\ \A w \in Worker : pc[w] \in {"idle", "dial", "read"}

\* "Disconnect stops the streaming connection" (streaming.go:158) where it finds
\* nobody in a token fetch, a callback or a failure, and no timer that cleanup
\* does not know: it leaves the manager quiet, and only a call of the application
\* ends that, whatever the server and the timers do.
DisconnectKept ==
    [][/\ Disconnect /\ Undisturbed => Quiet'
       /\ Quiet => Quiet' \/ \E g \in Worker : Connect(g) \/ RetryConnection(g)]_vars
===============================================================================
