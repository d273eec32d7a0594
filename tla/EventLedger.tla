----------------------------- MODULE EventLedger -----------------------------
(***************************************************************************)
(* What the event queue and its write-ahead log promise together, event by *)
(* event and whoever flushes: an accepted event waits, is sent, and is     *)
(* settled when its Post has returned.  In one process lifetime it goes    *)
(* that way once and never back.  Only a crash loses an event, and only    *)
(* one whose Post has not returned; only a restart brings events back, and *)
(* if it reads the log in full never one that is sent, failed or settled.  *)
(*                                                                         *)
(* How the log is written, buffered and read again is left to              *)
(* EventPipeline, which implements this specification.                     *)
(***************************************************************************)

CONSTANTS
    Event,              \* ids of the events that may be tracked
    MayMisread          \* may a restart overlook the end of the log?

VARIABLES
    up,                 \* is a process running?
    stage,              \* how far each event is
    received            \* events that the server has received

vars == <<up, stage, received>>

Stage ==
    {"new",             \* not accepted yet
     "waiting",         \* in the queue
     "sending",         \* taken by a flush whose Post has not returned
     "settled",         \* its Post has returned, the log may not say so yet
     "sent", "failed",  \* for good
     "stored",          \* unfinished in the log, and nobody at work on it
     "lost"}

Init ==
    /\ up = TRUE
    /\ stage = [e \in Event |-> "new"]
    /\ received = {}

In(s) == {e \in Event : stage[e] = s}

Move(S, s) == stage' = [e \in Event |-> IF e \in S THEN s ELSE stage[e]]

Accept(e) ==
    /\ up
    /\ e \in In("new")
    /\ Move({e}, "waiting")
    /\ UNCHANGED <<up, received>>

\* A flush takes all that waits.
Take ==
    /\ up
    /\ Move(In("waiting"), "sending")
    /\ UNCHANGED <<up, received>>

Receive(S) ==
    /\ up
    /\ S \subseteq In("sending")
    /\ received' = received \cup S
    /\ UNCHANGED <<up, stage>>

Settle(S) ==
    /\ up
    /\ S \subseteq In("sending")
    /\ Move(S, "settled")
    /\ UNCHANGED <<up, received>>

\* The log says of settled events how they ended, or how they had ended
\* before a restart that overlooked it.
Conclude(S, F) ==
    /\ up
    /\ S \cup F \subseteq In("settled")
    /\ S \cap F = {}
    /\ S \subseteq received
    /\ stage' = [e \in Event |-> IF e \in S THEN "sent"
                               ELSE IF e \in F THEN "failed" ELSE stage[e]]
    /\ UNCHANGED <<up, received>>

\* The ways in which an event whose Post has returned may end.
Ends(e) == {"settled", "failed"} \cup IF e \in received THEN {"sent"} ELSE {}

\* Where a crash may leave an event: a settled one is wherever the log has it,
\* and so is one that was at work again although it had ended.
AfterCrash(e) ==
    CASE stage[e] \in {"waiting", "sending"} ->
           {"stored", "lost"} \cup IF MayMisread THEN Ends(e) ELSE {}
      [] stage[e] = "settled" -> {"stored"} \cup Ends(e)
      [] OTHER -> {stage[e]}

Crash ==
    /\ up
    /\ up' = FALSE
    /\ stage' \in [Event -> Stage]
    /\ \A e \in Event : stage'[e] \in AfterCrash(e)
    /\ UNCHANGED received

\* A new process takes up stored events, as many as it has room for; if it
\* overlooks the end of the log also some that had ended.
Restart(R) ==
    /\ ~up
    /\ up' = TRUE
    /\ \A e \in R :
         \/ stage[e] = "stored"
         \/ MayMisread /\ stage[e] \in Ends(e)
    /\ Move(R, "waiting")
    /\ UNCHANGED received

Next ==
    \/ \E e \in Event : Accept(e)
    \/ Take
    \/ \E S \in SUBSET Event :
         \/ Receive(S)
         \/ Settle(S)
         \/ \E F \in SUBSET Event : Conclude(S, F)
         \/ Restart(S)
    \/ Crash

Spec == Init /\ [][Next]_vars
===============================================================================
