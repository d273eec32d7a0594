-------------------------- MODULE EventPipelineProofs --------------------------
(***************************************************************************)
(* Proofs about EventPipeline, for any number of events, senders and       *)
(* process lifetimes, any queue and buffer size, with and without I/O      *)
(* faults and lines that the scanner stops at.                             *)
(*                                                                         *)
(* None of the invariants is inductive alone: that a "sent" line means the *)
(* server has the event needs to know what a sender past its Post holds,   *)
(* that nothing is lost in a crash needs to know that a terminal line is   *)
(* written after Post has returned, and both need to know that an event in *)
(* memory has one owner, so that one sender's line is never overwritten by *)
(* another's.  Of the log they need that whatever a recovery takes for a   *)
(* status of an event is a line that was once written for it.              *)
(***************************************************************************)
EXTENDS EventPipeline, FiniteSetTheorems, TLAPS

Terminal == {"sent", "failed"}

\* Where the events are: everything the process knows of has been accepted,
\* an idle sender holds nothing, a dead process holds nothing.
Located ==
    /\ queue \subseteq accepted
    /\ buffer \subseteq accepted
    /\ \A s \in Sender : batch[s] \subseteq accepted
    /\ \A e \in Event : disk[e] # "none" => e \in accepted
    /\ \A s \in Sender : pc[s] = "idle" => batch[s] = {}
    /\ phase = "down" =>
         queue = {} /\ buffer = {} /\ \A s \in Sender : pc[s] = "idle"

\* What a recovery can come by has been written, and the last such line is one
\* of them.
LogSound ==
    \A e \in Event :
        /\ "none" \notin lines[e]
        /\ found[e] = "none" => lines[e] = {}
        /\ found[e] # "none" => found[e] \in lines[e] /\ disk[e] # "none"

\* How far the events of a sender are, by its place in sendEvents, and what a
\* terminal line tells of an event.
Progress ==
    /\ \A s \in Sender : pc[s] \in {"posted", "ack"} => batch[s] \subseteq received
    /\ \A s \in Sender : pc[s] \in {"ack", "nack"} => batch[s] \subseteq concluded
    /\ \A e \in Event, t \in Terminal : disk[e] = t \/ t \in lines[e] => e \in concluded

\* An event in memory has no terminal line yet, or a recovery overlooked it.
Unsettled == \A e \in InMemory : disk[e] \in Terminal => e \in revived

\* A buffered line is that of an event in memory or past its Post.
BufferHeld == buffer \subseteq InMemory \cup concluded

\* The inductive invariant.
IInv ==
    /\ TypeOK
    /\ SingleOwner
    /\ Located
    /\ LogSound
    /\ Progress
    /\ Unsettled
    /\ BufferHeld
    /\ SentWasReceived
    /\ NothingLost
    /\ UnfinishedIsHeld

-------------------------------------------------------------------------------

LEMMA InMemoryMember ==
  \A e : e \in InMemory <=> e \in queue \/ \E s \in Sender : e \in batch[s]
BY DEF InMemory

LEMMA InMemoryMemberNext ==
  \A e : e \in InMemory' <=> e \in queue' \/ \E s \in Sender : e \in batch'[s]
BY DEF InMemory

-------------------------------------------------------------------------------

\* What a step does to the log, event by event.
Unwritten(d) == disk'[d] = disk[d] /\ found'[d] = found[d] /\ lines'[d] = lines[d]

Written(d, status) ==
    /\ disk'[d] = status
    /\ \/ found'[d] = found[d] /\ lines'[d] = lines[d]
       \/ found'[d] = status /\ lines'[d] = lines[d] \cup {status}

\* At most a line with the given status for events of S.
Wrote(S, status) ==
    /\ disk' \in [Event -> Status]
    /\ found' \in [Event -> Status]
    /\ lines' \in [Event -> SUBSET Status]
    /\ stopped' \in BOOLEAN
    /\ \A d \in Event : Unwritten(d) \/ (d \in S /\ Written(d, status))

LEMMA AppendEffect ==
  ASSUME TypeOK, NEW W \in SUBSET Event, NEW status \in Status, Append(W, status)
  PROVE  Wrote(W, status) /\ \A d \in W : disk'[d] = status
<1>1. PICK V \in Reachable(W, status) :
        /\ found' = Logged(found, V, status)
        /\ lines' = [e \in Event |-> IF e \in V THEN lines[e] \cup {status} ELSE lines[e]]
  BY DEF Append
<1>2. V \subseteq W
  BY <1>1 DEF Reachable
<1>3. disk' = Logged(disk, W, status)
  BY DEF Append
<1>4. /\ disk' \in [Event -> Status]
      /\ found' \in [Event -> Status]
      /\ lines' \in [Event -> SUBSET Status]
  BY <1>1, <1>3 DEF Logged, TypeOK
<1>5. stopped' \in BOOLEAN
  BY DEF Append, TypeOK, TooLong
<1>6. \A d \in Event : Unwritten(d) \/ (d \in W /\ Written(d, status))
  BY <1>1, <1>2, <1>3 DEF Logged, Unwritten, Written
<1>7. \A d \in W : disk'[d] = status
  BY <1>3 DEF Logged
<1> QED
  BY <1>4, <1>5, <1>6, <1>7 DEF Wrote

\* No line at all.
LEMMA NothingWritten ==
  ASSUME TypeOK, UNCHANGED log, NEW S, NEW status
  PROVE  Wrote(S, status)
BY DEF TypeOK, log, Wrote, Unwritten

\* A flush of the buffer only writes "pending" lines, for events of it.
LEMMA FlushEffect ==
  ASSUME TypeOK, NEW b \in SUBSET Event, FlushBuffer(b)
  PROVE  /\ Wrote(b, "pending")
         /\ buffer' = {} \/ buffer' = b
         /\ \A e \in b \ buffer' : disk'[e] = "pending"
<1>1. "pending" \in Status
  BY DEF Status
<1>2. CASE Append(b, "pending") /\ buffer' = {}
  BY <1>1, <1>2, AppendEffect
<1>3. ASSUME NEW W \in SUBSET b, Append(W, "pending"), buffer' = b
      PROVE  Wrote(b, "pending")
  BY <1>1, <1>3, AppendEffect DEF Wrote
<1> QED
  BY <1>2, <1>3 DEF FlushBuffer

\* A status write only writes that status, for events of the batch.
LEMMA WriteEffect ==
  ASSUME TypeOK, NEW S \in SUBSET Event, NEW status \in Status, NEW W,
         WriteStatus(S, status, W)
  PROVE  Wrote(S, status)
<1>1. W \in SUBSET Event /\ W \subseteq S /\ Append(W, status)
  BY DEF WriteStatus
<1> QED
  BY <1>1, AppendEffect DEF Wrote

-------------------------------------------------------------------------------

\* What each kind of step does to the log, the one fact about it that the
\* invariants need: a line is written only for an event of the buffer, for the
\* event being tracked, or for an event of the batch of the sender that writes.
LEMMA TrackEffect ==
  ASSUME TypeOK, NEW e \in Event, Track(e)
  PROVE  /\ Wrote(buffer \cup {e}, "pending")
         /\ buffer' \subseteq buffer \cup {e}
         /\ \A d \in buffer \ buffer' : disk'[d] = "pending"
<1>1. buffer \cup {e} \in SUBSET Event
  BY DEF TypeOK
<1>2. CASE FlushBuffer(buffer \cup {e})
  BY <1>1, <1>2, FlushEffect
<1>3. CASE buffer' \in {buffer, buffer \cup {e}} /\ UNCHANGED log
  BY <1>3, NothingWritten
<1> QED
  BY <1>2, <1>3 DEF Track, Persist

LEMMA BufferFlushEffect ==
  ASSUME TypeOK, TickFlush \/ CloseLog
  PROVE  /\ Wrote(buffer, "pending")
         /\ buffer' \subseteq buffer
         /\ \A d \in buffer \ buffer' : disk'[d] = "pending"
<1>1. buffer \in SUBSET Event
  BY DEF TypeOK
<1>2. CASE FlushBuffer(buffer)
  BY <1>1, <1>2, FlushEffect
<1>3. CASE UNCHANGED <<buffer, log>>
  BY <1>3, NothingWritten
<1> QED
  BY <1>2, <1>3 DEF TickFlush, CloseLog

LEMMA CrashEffect ==
  ASSUME TypeOK, Crash
  PROVE  Wrote(buffer, "pending")
<1>1. PICK W \in SUBSET buffer : Append(W, "pending")
  BY DEF Crash
<1>2. W \in SUBSET Event /\ "pending" \in Status
  BY DEF TypeOK, Status
<1> QED
  BY <1>1, <1>2, AppendEffect DEF Wrote

LEMMA MarkEffect ==
  ASSUME TypeOK, NEW s \in Sender
  PROVE  /\ MarkSending(s) => Wrote(batch[s], "sending")
         /\ MarkSent(s) => Wrote(batch[s], "sent")
         /\ MarkFailed(s) => Wrote(batch[s], "failed")
<1>1. batch[s] \in SUBSET Event
  BY DEF TypeOK
<1>2. ASSUME MarkSending(s)
      PROVE  \E W : WriteStatus(batch[s], "sending", W)
  BY <1>2 DEF MarkSending
<1>3. ASSUME MarkSent(s)
      PROVE  \E W : WriteStatus(batch[s], "sent", W)
  BY <1>3 DEF MarkSent
<1>4. ASSUME MarkFailed(s)
      PROVE  \E W : WriteStatus(batch[s], "failed", W)
  BY <1>4 DEF MarkFailed
<1> QED
  BY <1>1, <1>2, <1>3, <1>4, WriteEffect DEF Status

\* Whatever the step, the lines that a recovery can come by stay written.
LEMMA LogStaysSound ==
  ASSUME LogSound, TypeOK, NEW S, NEW status \in Status \ {"none"}, Wrote(S, status)
  PROVE  LogSound'
<1> SUFFICES ASSUME NEW d \in Event
             PROVE  /\ "none" \notin lines'[d]
                    /\ found'[d] = "none" => lines'[d] = {}
                    /\ found'[d] # "none" => found'[d] \in lines'[d] /\ disk'[d] # "none"
  BY DEF LogSound
<1>1. CASE Unwritten(d)
  BY <1>1 DEF Unwritten, LogSound
<1>2. CASE Written(d, status)
  BY <1>2 DEF Written, LogSound
<1> QED
  BY <1>1, <1>2 DEF Wrote

\* What a recovery takes up and what it leaves, by what it has seen.
LEMMA RestartEffect ==
  ASSUME LogSound, Restart
  PROVE  \E seen \in [Event -> Status] :
           /\ queue' \subseteq Event
           /\ \A e \in queue' : seen[e] \in Unfinished /\ lines[e] # {} /\ disk[e] # "none"
           /\ leftOver' = (Recoverable(seen) \cup Misread(seen)) \ queue'
           /\ revived' = queue' \cap Misread(seen)
           /\ hollow' \subseteq queue'
           /\ \A e \in Event : disk[e] = "none" => seen[e] = "none"
<1>1. PICK seen \in [Event -> Status], R \in SUBSET Event : Reads(seen) /\ Recover(seen, R)
  BY DEF Restart
<1>2. queue' = R /\ R \subseteq Recoverable(seen)
  BY <1>1 DEF Recover, Fits
<1>3. ASSUME NEW e \in R
      PROVE  seen[e] \in Unfinished /\ lines[e] # {} /\ disk[e] # "none"
  <2>1. e \in Event /\ seen[e] \in Unfinished
    BY <1>2 DEF Recoverable
  <2>2. seen[e] = found[e] \/ seen[e] \in lines[e] \cup {"none"}
    BY <1>1, <2>1 DEF Reads
  <2>3. lines[e] # {}
    BY <2>1, <2>2 DEF LogSound, Unfinished
  <2> QED
    BY <2>1, <2>3 DEF LogSound
<1>4. ASSUME NEW e \in Event, disk[e] = "none"
      PROVE  seen[e] = "none"
  BY <1>1, <1>4 DEF Reads, LogSound
<1> QED
  BY <1>1, <1>2, <1>3, <1>4 DEF Recover

-------------------------------------------------------------------------------

LEMMA Typed == TypeOK /\ [Next]_vars => TypeOK'
<1> SUFFICES ASSUME TypeOK, [Next]_vars PROVE TypeOK'
  OBVIOUS
<1> DEFINE LogTyped == /\ disk' \in [Event -> Status]
                       /\ found' \in [Event -> Status]
                       /\ lines' \in [Event -> SUBSET Status]
                       /\ stopped' \in BOOLEAN
                       /\ buffer' \in SUBSET Event
<1>1. LogTyped
  <2>1. ASSUME NEW e \in Event, Track(e) PROVE LogTyped
    BY <2>1, TrackEffect DEF TypeOK, Wrote
  <2>2. ASSUME NEW s \in Sender, MarkSending(s) \/ MarkSent(s) \/ MarkFailed(s)
        PROVE  LogTyped
    BY <2>2, MarkEffect DEF TypeOK, MarkSending, MarkSent, MarkFailed, SendDone, Wrote
  <2>3. CASE TickFlush \/ CloseLog
    BY <2>3, BufferFlushEffect DEF TypeOK, Wrote
  <2>4. CASE Crash
    BY <2>4, CrashEffect DEF Crash, Wrote
  <2>5. CASE UNCHANGED <<buffer, log>>
    BY <2>5 DEF TypeOK, log
  <2>6. CASE Start \/ BeginClose \/ StopFindsQueueEmpty \/ LoopReturns
    BY <2>6, <2>5 DEF Start, BeginClose, StopFindsQueueEmpty, LoopReturns, memory
  <2>7. ASSUME NEW s \in Sender,
               TakeBatch(s) \/ Deliver(s) \/ PostSucceeds(s) \/ PostFails(s)
        PROVE  LogTyped
    BY <2>7, <2>5 DEF TakeBatch, Deliver, PostSucceeds, PostFails
  <2>8. CASE UNCHANGED vars
    BY <2>8, <2>5 DEF vars, memory
  <2>9. CASE Restart
    BY <2>9 DEF Restart, TypeOK
  <2> QED
    BY <2>1, <2>2, <2>3, <2>4, <2>6, <2>7, <2>8, <2>9 DEF Next, SendStep
<1> HIDE DEF LogTyped
<1> USE DEF TypeOK, Next, SendStep, vars, process, memory, history, Track, TakeBatch,
            Deliver, MarkSending, PostSucceeds, PostFails, MarkSent, MarkFailed, SendDone,
            TickFlush, Start, BeginClose, StopFindsQueueEmpty, CloseLog, LoopReturns,
            Restart, Recover, Fits, Recoverable, Step
<1>2. phase' \in {"up", "stopping", "final", "closed", "down"}
  BY DEF Crash
<1>3. running' \in BOOLEAN
  BY DEF Crash
<1>4. looping' \in BOOLEAN
  BY DEF Crash
<1>5. queue' \in SUBSET Event
  BY DEF Crash
<1>6. hollow' \in SUBSET Event
  BY DEF Crash
<1>7. pc' \in [Sender -> Step]
  BY DEF Crash
<1>8. batch' \in [Sender -> SUBSET Event]
  BY DEF Crash
<1>9. lives' \in Nat
  <2>1. UNCHANGED lives \/ lives' = lives + 1
    BY DEF Crash
  <2> QED
    BY <2>1
<1>10. accepted' \in SUBSET Event /\ received' \in SUBSET Event /\ concluded' \in SUBSET Event
  BY DEF Crash
<1>11. lost' \in SUBSET Event
  <2>1. InMemory \in SUBSET Event
    BY DEF InMemory
  <2>2. CASE Crash
    BY <2>1, <2>2 DEF Crash
  <2> QED
    BY <2>2
<1>12. leftOver' \in SUBSET Event /\ revived' \in SUBSET Event
  BY DEF Crash, Misread
<1>13. logging' \in BOOLEAN
  BY DEF Crash
<1> QED
  BY <1>1, <1>2, <1>3, <1>4, <1>5, <1>6, <1>7, <1>8, <1>9, <1>10, <1>11, <1>12, <1>13
  DEF LogTyped

-------------------------------------------------------------------------------

LEMMA InitEstablishes == Init => IInv
<1> SUFFICES ASSUME Init PROVE IInv
  OBVIOUS
<1>1. TypeOK
  BY DEF Init, TypeOK, Status, Step
<1>2. InMemory = {}
  BY DEF Init, InMemory
<1>3. /\ SingleOwner /\ Located /\ LogSound /\ Progress /\ SentWasReceived
      /\ UnfinishedIsHeld /\ Unsettled /\ BufferHeld /\ NothingLost
  BY <1>2 DEF Init, SingleOwner, Located, LogSound, Progress, SentWasReceived,
              UnfinishedIsHeld, Unsettled, BufferHeld, NothingLost, Terminal, Unfinished
<1> QED
  BY <1>1, <1>3 DEF IInv

\* Tracking adds one event that nobody has seen before.
LEMMA TrackPreserves ==
  ASSUME IInv, TypeOK', NEW e \in Event, Track(e)
  PROVE  IInv'
<1> USE InMemoryMember, InMemoryMemberNext DEF IInv
<1>1. /\ buffer' \subseteq buffer \cup {e}
      /\ Wrote(buffer \cup {e}, "pending")
  BY TrackEffect
<1>2. /\ e \notin accepted
      /\ queue' = queue \cup {e}
      /\ accepted' = accepted \cup {e}
      /\ UNCHANGED <<phase, pc, batch, received, concluded, lost, leftOver, revived>>
  BY DEF Track, process
<1>3. InMemory' = InMemory \cup {e}
  BY <1>2
<1>4. disk[e] = "none" /\ e \notin InMemory
  BY <1>2 DEF Located
<1>5. LogSound'
  BY <1>1, LogStaysSound DEF Status
<1> USE DEF Wrote, Unwritten, Written
<1>6. SingleOwner' /\ Located'
  BY <1>1, <1>2 DEF SingleOwner, Located, TypeOK, Track, Alive
<1>7. Progress' /\ SentWasReceived'
  BY <1>1, <1>2 DEF Progress, SentWasReceived, Terminal
<1>8. Unsettled' /\ BufferHeld'
  BY <1>1, <1>2, <1>3, <1>4 DEF Unsettled, BufferHeld, Terminal, TypeOK
<1>9. NothingLost'
  BY <1>1, <1>2, <1>3 DEF NothingLost, Unfinished, TypeOK
<1>10. UnfinishedIsHeld'
  BY <1>1, <1>2, <1>3 DEF UnfinishedIsHeld, BufferHeld, Alive, TypeOK
<1> QED
  BY <1>5, <1>6, <1>7, <1>8, <1>9, <1>10

\* Taking the queue moves events from it to an idle sender.
LEMMA TakePreserves ==
  ASSUME IInv, TypeOK', NEW s \in Sender, TakeBatch(s)
  PROVE  IInv'
<1> USE InMemoryMember, InMemoryMemberNext DEF IInv
<1>1. /\ batch' = [batch EXCEPT ![s] = queue]
      /\ queue' = {}
      /\ pc' = [pc EXCEPT ![s] = "mark"]
      /\ batch[s] = {}
      /\ UNCHANGED <<phase, buffer, log, history>>
  BY DEF TakeBatch, process, Located
<1>2. InMemory' = InMemory
  BY <1>1 DEF TypeOK
<1>3. SingleOwner' /\ Located' /\ Progress'
  BY <1>1 DEF SingleOwner, Located, Progress, TypeOK, TakeBatch, Alive, log, history
<1>4. /\ LogSound' /\ SentWasReceived' /\ Unsettled' /\ BufferHeld'
      /\ NothingLost' /\ UnfinishedIsHeld'
  BY <1>1, <1>2 DEF LogSound, SentWasReceived, Unsettled, BufferHeld, NothingLost,
                    UnfinishedIsHeld, Alive, log, history
<1> QED
  BY <1>3, <1>4

\* The steps of a sender before its last one leave memory as it is.
LEMMA SendPreserves ==
  ASSUME IInv, TypeOK', NEW s \in Sender,
         MarkSending(s) \/ Deliver(s) \/ PostSucceeds(s) \/ PostFails(s)
  PROVE  IInv'
<1> USE InMemoryMember, InMemoryMemberNext DEF IInv
<1>1. /\ UNCHANGED <<phase, queue, batch, buffer, accepted, lost, leftOver, revived>>
      /\ received \subseteq received'
      /\ concluded \subseteq concluded'
      /\ pc[s] # "idle"
  BY DEF MarkSending, Deliver, PostSucceeds, PostFails, process, history
<1>2. InMemory' = InMemory
  BY <1>1
<1>3. Wrote(batch[s], "sending")
  BY MarkEffect, NothingWritten DEF Deliver, PostSucceeds, PostFails
<1>4. \A t \in Sender : t # s => pc'[t] = pc[t]
  BY DEF MarkSending, Deliver, PostSucceeds, PostFails, TypeOK
<1>9. LogSound'
  BY <1>3, LogStaysSound DEF Status
<1> USE DEF Wrote, Unwritten, Written
<1>5. SingleOwner' /\ Unsettled' /\ BufferHeld'
  BY <1>1, <1>2, <1>3 DEF SingleOwner, Unsettled, BufferHeld, Terminal, TypeOK
<1>6. Located'
  <2>1. pc'[s] # "idle"
    BY DEF MarkSending, Deliver, PostSucceeds, PostFails, TypeOK
  <2>2. phase # "down"
    BY <1>1 DEF Located
  <2> QED
    BY <1>1, <1>3, <1>4, <2>1, <2>2 DEF Located, TypeOK
<1>7. Progress'
  <2>1. /\ pc'[s] \in {"posted", "ack"} => batch[s] \subseteq received'
        /\ pc'[s] \in {"ack", "nack"} => batch[s] \subseteq concluded'
    BY DEF Progress, MarkSending, Deliver, PostSucceeds, PostFails, TypeOK
  <2> QED
    BY <1>1, <1>3, <1>4, <2>1 DEF Progress, Terminal, TypeOK
<1>8. SentWasReceived' /\ NothingLost' /\ UnfinishedIsHeld'
  BY <1>1, <1>2, <1>3 DEF SentWasReceived, NothingLost, UnfinishedIsHeld, Unfinished, Alive, TypeOK
<1> QED
  BY <1>5, <1>6, <1>7, <1>8, <1>9

\* The last line of a sendEvents settles the batch and lets it go: its Post has
\* returned, and when the line is "sent" the server has received it.
LEMMA SettlePreserves ==
  ASSUME IInv, TypeOK', NEW s \in Sender, MarkSent(s) \/ MarkFailed(s)
  PROVE  IInv'
<1> USE InMemoryMember, InMemoryMemberNext DEF IInv
<1>1. /\ pc' = [pc EXCEPT ![s] = "idle"]
      /\ batch' = [batch EXCEPT ![s] = {}]
      /\ pc[s] \in {"ack", "nack"}
      /\ (phase' = "down") => (phase = "down")
      /\ UNCHANGED <<queue, buffer, history>>
  BY DEF MarkSent, MarkFailed, SendDone
<1>2. \/ Wrote(batch[s], "failed")
      \/ Wrote(batch[s], "sent") /\ batch[s] \subseteq received
  <2>1. MarkSent(s) => pc[s] = "ack"
    BY DEF MarkSent
  <2> QED
    BY <2>1, MarkEffect DEF Progress
<1>3. batch[s] \subseteq concluded
  BY <1>1 DEF Progress
<1>4. \A d : d \in InMemory' <=> d \in InMemory /\ d \notin batch[s]
  BY <1>1 DEF SingleOwner, TypeOK
<1>9. LogSound'
  BY <1>2, LogStaysSound DEF Status
<1> USE DEF Wrote, Unwritten, Written, history
<1>5. SingleOwner' /\ Located'
  BY <1>1, <1>2 DEF SingleOwner, Located, TypeOK
<1>6. Progress' /\ SentWasReceived'
  BY <1>1, <1>2, <1>3 DEF Progress, SentWasReceived, Terminal, TypeOK
<1>7. Unsettled' /\ BufferHeld' /\ NothingLost'
  BY <1>1, <1>2, <1>3, <1>4
  DEF Unsettled, BufferHeld, NothingLost, Terminal, Unfinished, TypeOK
<1>8. UnfinishedIsHeld'
  <2>1. phase # "down"
    BY <1>1 DEF Located
  <2> QED
    BY <1>1, <1>2, <1>3, <1>4, <2>1 DEF UnfinishedIsHeld, Unfinished, Alive, TypeOK
<1> QED
  BY <1>5, <1>6, <1>7, <1>8, <1>9

\* Flushing the buffer writes "pending" lines, never for a settled event that
\* is not buffered.
LEMMA FlushPreserves ==
  ASSUME IInv, TypeOK', TickFlush \/ CloseLog
  PROVE  IInv'
<1> USE InMemoryMember, InMemoryMemberNext DEF IInv
<1>1. buffer' \subseteq buffer /\ Wrote(buffer, "pending")
  BY BufferFlushEffect
<1>2. /\ UNCHANGED <<queue, pc, batch, history>>
      /\ phase # "down" /\ phase' # "down"
  BY DEF TickFlush, CloseLog, process
<1>3. InMemory' = InMemory
  BY <1>2
<1>6. LogSound'
  BY <1>1, LogStaysSound DEF Status
<1> USE DEF Wrote, Unwritten, Written, history
<1>4. SingleOwner' /\ Located' /\ Progress' /\ SentWasReceived'
  BY <1>1, <1>2 DEF SingleOwner, Located, Progress, SentWasReceived, Terminal, TypeOK
<1>5. Unsettled' /\ BufferHeld' /\ NothingLost' /\ UnfinishedIsHeld'
  BY <1>1, <1>2, <1>3
  DEF Unsettled, BufferHeld, NothingLost, UnfinishedIsHeld, Unfinished, Terminal, Alive, TypeOK
<1> QED
  BY <1>4, <1>5, <1>6

\* Starting, stopping and closing change nothing but the phase.
LEMMA LifecyclePreserves ==
  ASSUME IInv, TypeOK',
         \/ Start \/ BeginClose \/ StopFindsQueueEmpty \/ LoopReturns
         \/ UNCHANGED vars
  PROVE  IInv'
<1> USE InMemoryMember, InMemoryMemberNext DEF IInv
<1>1. /\ UNCHANGED <<memory, log, history>>
      /\ phase' = "down" <=> phase = "down"
  BY DEF Start, BeginClose, StopFindsQueueEmpty, LoopReturns, vars, process
<1>2. InMemory' = InMemory
  BY <1>1 DEF memory
<1> QED
  BY <1>1, <1>2
  DEF memory, log, history, SingleOwner, Located, LogSound, Progress, SentWasReceived,
      Unsettled, BufferHeld, NothingLost, UnfinishedIsHeld, Alive

\* A crash empties the memory; what it held and no reading of the log would find
\* is lost.
LEMMA CrashPreserves ==
  ASSUME IInv, TypeOK', Crash
  PROVE  IInv'
<1> USE InMemoryMember, InMemoryMemberNext DEF IInv
<1>1. Wrote(buffer, "pending")
  BY CrashEffect
<1>2. /\ phase' = "down"
      /\ queue' = {} /\ buffer' = {}
      /\ pc' = [s \in Sender |-> "idle"]
      /\ batch' = [s \in Sender |-> {}]
      /\ lost' = lost \cup {e \in InMemory : found'[e] = "none"}
      /\ UNCHANGED <<accepted, received, concluded>>
  BY DEF Crash
<1>3. InMemory' = {}
  BY <1>2
<1>7. LogSound'
  BY <1>1, LogStaysSound DEF Status
<1> USE DEF Wrote, Unwritten, Written
<1>4. SingleOwner' /\ Located' /\ Progress' /\ SentWasReceived'
  BY <1>1, <1>2 DEF SingleOwner, Located, Progress, SentWasReceived, Terminal, TypeOK
<1>5. Unsettled' /\ BufferHeld' /\ UnfinishedIsHeld'
  BY <1>2, <1>3 DEF Unsettled, BufferHeld, UnfinishedIsHeld, Alive
<1>6. NothingLost'
  <2> SUFFICES ASSUME NEW e \in accepted
               PROVE  e \in concluded \cup lost' \/ found'[e] \in Unfinished
    BY <1>2 DEF NothingLost
  <2>1. e \in Event /\ found'[e] \in Status
    BY <1>1 DEF TypeOK
  <2>2. CASE e \in InMemory
    <3>1. CASE found'[e] \in Terminal
      BY <1>2, <1>4, <1>7, <2>1, <3>1 DEF LogSound, Progress, Terminal
    <3> QED
      BY <1>2, <2>1, <2>2, <3>1 DEF Unfinished, Terminal, Status
  <2>3. CASE e \notin InMemory
    BY <1>1, <1>2, <2>1, <2>3 DEF NothingLost, Unfinished
  <2> QED
    BY <2>2, <2>3
<1> QED
  BY <1>4, <1>5, <1>6, <1>7

\* A restart brings back, into an empty memory, what it takes to be unfinished.
LEMMA RestartPreserves ==
  ASSUME IInv, TypeOK', Restart
  PROVE  IInv'
<1> USE InMemoryMember, InMemoryMemberNext DEF IInv
<1>1. /\ phase = "down" /\ phase' = "up"
      /\ UNCHANGED <<pc, batch, buffer, disk, found, lines,
                     accepted, received, concluded, lost>>
  BY DEF Restart
<1>2. PICK seen \in [Event -> Status] :
        /\ queue' \subseteq Event
        /\ \A e \in queue' : seen[e] \in Unfinished /\ lines[e] # {} /\ disk[e] # "none"
        /\ leftOver' = (Recoverable(seen) \cup Misread(seen)) \ queue'
        /\ revived' = queue' \cap Misread(seen)
  BY RestartEffect
<1>3. queue = {} /\ buffer = {} /\ \A s \in Sender : batch[s] = {}
  BY <1>1 DEF Located
<1>4. InMemory = {} /\ InMemory' = queue'
  BY <1>1, <1>3
<1>5. SingleOwner' /\ Located' /\ LogSound' /\ Progress' /\ SentWasReceived'
  BY <1>1, <1>2, <1>3 DEF SingleOwner, Located, LogSound, Progress, SentWasReceived, TypeOK
<1>6. Unsettled'
  BY <1>1, <1>2, <1>4 DEF Unsettled, Terminal, Unfinished, Misread
<1>7. BufferHeld' /\ NothingLost'
  BY <1>1, <1>3, <1>4 DEF BufferHeld, NothingLost
<1>8. UnfinishedIsHeld'
  BY <1>1, <1>2, <1>4 DEF UnfinishedIsHeld, Recoverable, Misread
<1> QED
  BY <1>5, <1>6, <1>7, <1>8

\* The inductive invariant holds throughout.
LEMMA Inductive == Spec => []IInv
<1>1. IInv /\ [Next]_vars => IInv'
  <2> SUFFICES ASSUME IInv, [Next]_vars PROVE IInv'
    OBVIOUS
  <2>1. TypeOK'
    BY Typed DEF IInv
  <2>2. ASSUME NEW e \in Event, Track(e) PROVE IInv'
    BY <2>1, <2>2, TrackPreserves
  <2>3. ASSUME NEW s \in Sender, TakeBatch(s) PROVE IInv'
    BY <2>1, <2>3, TakePreserves
  <2>4. ASSUME NEW s \in Sender,
               MarkSending(s) \/ Deliver(s) \/ PostSucceeds(s) \/ PostFails(s)
        PROVE  IInv'
    BY <2>1, <2>4, SendPreserves
  <2>5. ASSUME NEW s \in Sender, MarkSent(s) \/ MarkFailed(s) PROVE IInv'
    BY <2>1, <2>5, SettlePreserves
  <2>6. CASE TickFlush \/ CloseLog
    BY <2>1, <2>6, FlushPreserves
  <2>7. CASE \/ Start \/ BeginClose \/ StopFindsQueueEmpty \/ LoopReturns
             \/ UNCHANGED vars
    BY <2>1, <2>7, LifecyclePreserves
  <2>8. CASE Crash
    BY <2>1, <2>8, CrashPreserves
  <2>9. CASE Restart
    BY <2>1, <2>9, RestartPreserves
  <2> QED
    BY <2>2, <2>3, <2>4, <2>5, <2>6, <2>7, <2>8, <2>9 DEF Next, SendStep
<1> QED
  BY <1>1, InitEstablishes, PTL DEF Spec

-------------------------------------------------------------------------------

\* Every variable has its type.
THEOREM TypeCorrect == Spec => []TypeOK
<1>1. IInv => TypeOK
  BY DEF IInv
<1> QED
  BY <1>1, Inductive, PTL

\* No event is ever in two hands (EventQueue.Flush swaps the queue out under
\* its lock): concurrent flushes send disjoint batches.
THEOREM EventsHaveOneOwner == Spec => []SingleOwner
<1>1. IInv => SingleOwner
  BY DEF IInv
<1> QED
  BY <1>1, Inductive, PTL

\* The log never says "sent" of an event that the server has not received
\* (sendEvents, MarkSent), across crashes and write faults.
THEOREM SentOnlyIfReceived == Spec => []SentWasReceived
<1>1. IInv => SentWasReceived
  BY DEF IInv
<1> QED
  BY <1>1, Inductive, PTL

\* An accepted event is in memory, past its Post, unfinished in a line that a
\* recovery can come by, or was lost in a crash without such a line (Track,
\* Flush, sendEvents, RecoverEvents, readEventsFromFile).
THEOREM NoEventDisappears == Spec => []NothingLost
<1>1. IInv => NothingLost
  BY DEF IInv
<1> QED
  BY <1>1, Inductive, PTL

\* While the process lives, an unfinished line belongs to an event in memory,
\* unless its Post has returned or the recovery had no room for it or did not
\* get to that line (RecoverEvents, Recover, readEventsFromFile).
THEOREM UnfinishedEventsHeld == Spec => []UnfinishedIsHeld
<1>1. IInv => UnfinishedIsHeld
  BY DEF IInv
<1> QED
  BY <1>1, Inductive, PTL

\* A "sent" or "failed" line is the last one of its event, unless the event's
\* own "pending" line still sits in the buffer (flushLocked, MarkSent,
\* MarkFailed), or a recovery that did not get to the terminal line has put
\* the event into the queue again (Recover, readEventsFromFile).
THEOREM TerminalLinesFinal == Spec => TerminalIsFinal
<1>1. ASSUME IInv, [Next]_vars, NEW e \in Event, disk[e] \in Terminal,
             e \notin buffer \cup (revived \cap InMemory)
      PROVE  disk'[e] = disk[e]
  <2> USE <1>1 DEF IInv, Wrote, Unwritten
  <2>1. e \in accepted /\ e \notin InMemory
    BY DEF Located, Unsettled, Terminal
  <2>2. \A s \in Sender : e \notin batch[s]
    BY <2>1, InMemoryMember
  <2>3. ASSUME NEW d \in Event, Track(d) PROVE disk'[e] = disk[e]
    <3>1. d # e
      BY <2>1, <2>3 DEF Track
    <3> QED
      BY <2>3, <3>1, TrackEffect
  <2>4. ASSUME NEW s \in Sender, MarkSending(s) \/ MarkSent(s) \/ MarkFailed(s)
        PROVE  disk'[e] = disk[e]
    BY <2>2, <2>4, MarkEffect
  <2>5. ASSUME NEW s \in Sender,
               TakeBatch(s) \/ Deliver(s) \/ PostSucceeds(s) \/ PostFails(s)
        PROVE  disk'[e] = disk[e]
    BY <2>5 DEF TakeBatch, Deliver, PostSucceeds, PostFails, log
  <2>6. CASE TickFlush \/ CloseLog
    BY <2>6, BufferFlushEffect
  <2>7. CASE Crash
    BY <2>7, CrashEffect
  <2>8. CASE \/ Start \/ BeginClose \/ StopFindsQueueEmpty \/ LoopReturns \/ Restart
             \/ UNCHANGED vars
    BY <2>8 DEF Start, BeginClose, StopFindsQueueEmpty, LoopReturns, Restart, vars, log
  <2> QED
    BY <2>3, <2>4, <2>5, <2>6, <2>7, <2>8 DEF Next, SendStep
<1>2. IInv /\ [Next]_vars =>
        [\A e \in Event :
           /\ disk[e] \in {"sent", "failed"}
           /\ e \notin buffer \cup (revived \cap InMemory)
           => disk'[e] = disk[e]]_vars
  BY <1>1 DEF Terminal
<1> QED
  BY <1>2, Inductive, PTL DEF Spec, TerminalIsFinal

\* Neither Track nor RecoverEvents fills the queue beyond MaxSize, whatever
\* flushes, crashes and restarts come between.
THEOREM QueueStaysBounded == Spec => []QueueBounded
<1>1. Init => QueueBounded
  BY FS_EmptySet, PipelineAssumption DEF Init, QueueBounded
<1>2. IInv /\ QueueBounded /\ [Next]_vars => QueueBounded'
  <2> SUFFICES ASSUME IInv, QueueBounded, [Next]_vars PROVE QueueBounded'
    OBVIOUS
  <2>1. IsFiniteSet(queue)
    BY FS_Subset, PipelineAssumption DEF IInv, TypeOK
  <2>2. ASSUME NEW e \in Event, Track(e) PROVE QueueBounded'
    <3>1. queue' = queue \cup {e} /\ Cardinality(queue) < MaxSize
      BY <2>2 DEF Track
    <3>2. Cardinality(queue) \in Nat
      BY <2>1, FS_CardinalityType
    <3>3. Cardinality(queue') = Cardinality(queue) \/ Cardinality(queue') = Cardinality(queue) + 1
      BY <2>1, <3>1, FS_AddElement
    <3> QED
      BY <3>1, <3>2, <3>3, PipelineAssumption DEF QueueBounded
  <2>3. ASSUME NEW s \in Sender, TakeBatch(s) PROVE QueueBounded'
    BY <2>3, FS_EmptySet, PipelineAssumption DEF TakeBatch, QueueBounded
  <2>4. CASE Crash
    BY <2>4, FS_EmptySet, PipelineAssumption DEF Crash, QueueBounded
  <2>5. CASE Restart
    BY <2>5 DEF Restart, Recover, Fits, QueueBounded
  <2>6. CASE UNCHANGED queue
    BY <2>6 DEF QueueBounded
  <2>7. ASSUME NEW s \in Sender, Deliver(s) \/ SendStep(s) PROVE UNCHANGED queue
    BY <2>7 DEF Deliver, SendStep, MarkSending, PostSucceeds, PostFails, MarkSent,
                MarkFailed, SendDone
  <2>8. CASE \/ TickFlush \/ CloseLog \/ Start \/ BeginClose \/ StopFindsQueueEmpty
             \/ LoopReturns \/ UNCHANGED vars
    BY <2>6, <2>8 DEF TickFlush, CloseLog, Start, BeginClose, StopFindsQueueEmpty,
                      LoopReturns, memory, vars
  <2> QED
    BY <2>2, <2>3, <2>4, <2>5, <2>6, <2>7, <2>8 DEF Next
<1> QED
  BY <1>1, <1>2, Inductive, PTL DEF Spec

-------------------------------------------------------------------------------

\* No I/O faults, and no line that the scanner stops at.
CleanStorage == ~IOFaults /\ Long = {}

\* Then a reading finds every event's last line, and nothing is misread.
Clean == CleanStorage => found = disk /\ stopped = FALSE /\ revived = {}

LEMMA CleanAppend ==
  ASSUME CleanStorage, found = disk, stopped = FALSE, NEW W, NEW status, Append(W, status)
  PROVE  found' = disk' /\ stopped' = FALSE
<1>1. ~TooLong(W, status)
  BY DEF TooLong, CleanStorage
<1>2. Reachable(W, status) = {W}
  BY <1>1 DEF Reachable
<1> QED
  BY <1>1, <1>2 DEF Append

LEMMA CleanRestart ==
  ASSUME CleanStorage, found = disk, Restart
  PROVE  /\ revived' = {}
         /\ leftOver' = {e \in Event : disk[e] \in Unfinished} \ queue'
         /\ queue' \subseteq {e \in Event : disk[e] \in Unfinished}
         /\ leftOver' # {} => Cardinality(queue') = MaxSize
<1>1. PICK seen \in [Event -> Status], R \in SUBSET Event : Reads(seen) /\ Recover(seen, R)
  BY DEF Restart
<1>2. \A e \in Event : seen[e] = disk[e]
  BY <1>1 DEF Reads, CleanStorage
<1>3. Misread(seen) = {} /\ Recoverable(seen) = {e \in Event : disk[e] \in Unfinished}
  BY <1>2 DEF Misread, Recoverable
<1> QED
  BY <1>1, <1>3 DEF Recover, Fits

LEMMA CleanInvariant == Spec => []Clean
<1>1. Init => Clean
  BY DEF Init, Clean
<1>2. Clean /\ [Next]_vars => Clean'
  <2> SUFFICES ASSUME Clean, [Next]_vars, CleanStorage
               PROVE  found' = disk' /\ stopped' = FALSE /\ revived' = {}
    BY DEF Clean, CleanStorage
  <2>1. found = disk /\ stopped = FALSE /\ revived = {}
    BY DEF Clean
  <2>2. CASE Restart
    <3>1. UNCHANGED <<disk, found>> /\ stopped' = FALSE
      BY <2>2 DEF Restart
    <3> QED
      BY <2>1, <2>2, <3>1, CleanRestart
  <2>3. ASSUME NEW W, NEW status, Append(W, status), UNCHANGED revived
        PROVE  found' = disk' /\ stopped' = FALSE /\ revived' = {}
    BY <2>1, <2>3, CleanAppend
  <2>4. CASE UNCHANGED <<log, revived>>
    BY <2>1, <2>4 DEF log
  <2>5. ASSUME NEW b, FlushBuffer(b), UNCHANGED revived
        PROVE  found' = disk' /\ stopped' = FALSE /\ revived' = {}
    BY <2>3, <2>5 DEF FlushBuffer
  <2>6. ASSUME NEW e \in Event, Track(e)
        PROVE  found' = disk' /\ stopped' = FALSE /\ revived' = {}
    BY <2>4, <2>5, <2>6 DEF Track, Persist
  <2>7. ASSUME NEW s \in Sender, MarkSending(s) \/ MarkSent(s) \/ MarkFailed(s)
        PROVE  found' = disk' /\ stopped' = FALSE /\ revived' = {}
    BY <2>3, <2>7 DEF MarkSending, MarkSent, MarkFailed, SendDone, WriteStatus, history
  <2>8. ASSUME NEW s \in Sender,
               TakeBatch(s) \/ Deliver(s) \/ PostSucceeds(s) \/ PostFails(s)
        PROVE  UNCHANGED <<log, revived>>
    BY <2>8 DEF TakeBatch, Deliver, PostSucceeds, PostFails, history
  <2>9. CASE TickFlush \/ CloseLog
    BY <2>4, <2>5, <2>9 DEF TickFlush, CloseLog, history
  <2>10. CASE Crash
    BY <2>3, <2>10 DEF Crash
  <2>11. CASE \/ Start \/ BeginClose \/ StopFindsQueueEmpty \/ LoopReturns
              \/ UNCHANGED vars
    BY <2>4, <2>11 DEF Start, BeginClose, StopFindsQueueEmpty, LoopReturns, vars, history
  <2> QED
    BY <2>2, <2>4, <2>6, <2>7, <2>8, <2>9, <2>10, <2>11 DEF Next, SendStep
<1> QED
  BY <1>1, <1>2, PTL DEF Spec

\* With a storage that does not fail and no event over the scanner's limit a
\* restart brings back every event whose last line is "pending" or "sending",
\* or as many as MaxSize allows, and no other: the exceptions of TerminalIsFinal
\* and UnfinishedIsHeld for what was misread are there for faults and long lines
\* alone (RecoverEvents, Recover).
RecoversUnfinished ==
    [][phase = "down" /\ phase' = "up" =>
         /\ queue' \subseteq {e \in Event : disk[e] \in Unfinished}
         /\ \/ {e \in Event : disk[e] \in Unfinished} \subseteq queue'
            \/ Cardinality(queue') = MaxSize]_vars

THEOREM CleanLogRecovered ==
  ASSUME CleanStorage
  PROVE  Spec => RecoversUnfinished
<1> DEFINE unfinished == {e \in Event : disk[e] \in Unfinished}
           Recovers == phase = "down" /\ phase' = "up" =>
                         /\ queue' \subseteq unfinished
                         /\ unfinished \subseteq queue' \/ Cardinality(queue') = MaxSize
<1>1. Clean /\ [Next]_vars => [Recovers]_vars
  <2> SUFFICES ASSUME Clean, [Next]_vars, phase = "down", phase' = "up"
               PROVE  /\ queue' \subseteq unfinished
                      /\ unfinished \subseteq queue' \/ Cardinality(queue') = MaxSize
    OBVIOUS
  <2>1. ASSUME NEW s \in Sender, SendDone(s) PROVE phase' = "final" \/ phase' = phase
    BY <2>1 DEF SendDone
  <2>2. Restart
    BY <2>1 DEF Next, SendStep, Track, TakeBatch, Deliver, MarkSending, PostSucceeds,
                PostFails, MarkSent, MarkFailed, TickFlush, Start, BeginClose,
                StopFindsQueueEmpty, CloseLog, LoopReturns, Crash, Alive, process, vars
  <2> QED
    BY <2>2, CleanRestart DEF Clean
<1> QED
  BY <1>1, CleanInvariant, PTL DEF Spec, RecoversUnfinished

-------------------------------------------------------------------------------

\* What the specification of queue and log needs to know beside: an event that
\* is on its way again has a line that a recovery can come by, a lost one has
\* none and stays away, and what the last recovery left over is not touched.
Placed ==
    /\ concluded \subseteq accepted
    /\ \A e \in concluded : e \in queue \cup UnderWay => found[e] # "none"
    /\ \A e \in lost : e \in accepted \ (InMemory \cup buffer) /\ found[e] = "none"
    /\ leftOver \subseteq accepted
    /\ Alive => \A e \in leftOver : e \notin InMemory \cup buffer

LEMMA UnderWayMember ==
  /\ \A e : e \in UnderWay <=>
       \E s \in Sender : e \in batch[s] /\ pc[s] \in {"mark", "post", "posted"}
  /\ \A e : e \in UnderWay' <=>
       \E s \in Sender : e \in batch'[s] /\ pc'[s] \in {"mark", "post", "posted"}
BY DEF UnderWay

\* Each event is at one stage: the conditions of Stage exclude each other.
LEMMA StageIs ==
  ASSUME IInv, Placed, NEW e \in Event
  PROVE  /\ Stage(e) \in Ledger!Stage
         /\ Stage(e) = "new" <=> e \notin accepted
         /\ Stage(e) = "waiting" <=> e \in queue
         /\ Stage(e) = "sending" <=> e \in UnderWay
         /\ Stage(e) = "lost" <=> e \in lost \ concluded
         /\ Stage(e) = "stored" <=> Shelved(e)
         /\ \A s \in Terminal : Stage(e) = s <=> Ended(e) /\ disk[e] = s
<1> USE InMemoryMember, UnderWayMember DEF IInv, Placed
<1>1. e \in UnderWay => e \in InMemory
  OBVIOUS
<1>2. e \notin accepted => e \notin InMemory \cup lost /\ disk[e] = "none"
  BY DEF Located
<1>3. e \in queue => e \in InMemory /\ e \notin UnderWay
  BY DEF SingleOwner
<1>4. e \in InMemory => e \notin lost /\ ~Ended(e) /\ ~Shelved(e)
  BY DEF Ended, Shelved
<1>5. Ended(e) => e \in concluded /\ disk[e] \in Terminal /\ ~Shelved(e)
  BY DEF Ended, Shelved, Progress, Terminal
<1>6. Shelved(e) => found[e] # "none" /\ disk[e] # "none"
  BY DEF Shelved, LogSound, Unfinished
<1>7. e \in lost => found[e] = "none"
  OBVIOUS
<1> QED
  BY <1>1, <1>2, <1>3, <1>4, <1>5, <1>6, <1>7 DEF Stage, Ledger!Stage, Terminal

LEMMA StageIsNext ==
  ASSUME IInv', Placed', NEW e \in Event
  PROVE  /\ Stage(e)' \in Ledger!Stage
         /\ Stage(e)' = "new" <=> e \notin accepted'
         /\ Stage(e)' = "waiting" <=> e \in queue'
         /\ Stage(e)' = "sending" <=> e \in UnderWay'
         /\ Stage(e)' = "lost" <=> e \in lost' \ concluded'
         /\ Stage(e)' = "stored" <=> Shelved(e)'
         /\ \A s \in Terminal : Stage(e)' = s <=> Ended(e)' /\ disk'[e] = s
<1> USE InMemoryMemberNext, UnderWayMember DEF IInv, Placed
<1>1. e \in UnderWay' => e \in InMemory'
  OBVIOUS
<1>2. e \notin accepted' => e \notin InMemory' \cup lost' /\ disk'[e] = "none"
  BY DEF Located
<1>3. e \in queue' => e \in InMemory' /\ e \notin UnderWay'
  BY DEF SingleOwner
<1>4. e \in InMemory' => e \notin lost' /\ ~Ended(e)' /\ ~Shelved(e)'
  BY DEF Ended, Shelved
<1>5. Ended(e)' => e \in concluded' /\ disk'[e] \in Terminal /\ ~Shelved(e)'
  BY DEF Ended, Shelved, Progress, Terminal
<1>6. Shelved(e)' => found'[e] # "none" /\ disk'[e] # "none"
  BY DEF Shelved, LogSound, Unfinished
<1>7. e \in lost' => found'[e] = "none"
  OBVIOUS
<1> QED
  BY <1>1, <1>2, <1>3, <1>4, <1>5, <1>6, <1>7 DEF Stage, Ledger!Stage, Terminal

\* What a recovery once can come by it always can.
LEMMA LineStays ==
  ASSUME IInv, [Next]_vars, NEW d \in Event, found[d] # "none"
  PROVE  found'[d] # "none"
<1> USE DEF IInv, Wrote, Unwritten, Written
<1>1. ASSUME NEW e \in Event, Track(e) PROVE found'[d] # "none"
  BY <1>1, TrackEffect
<1>2. ASSUME NEW s \in Sender, MarkSending(s) \/ MarkSent(s) \/ MarkFailed(s)
      PROVE  found'[d] # "none"
  BY <1>2, MarkEffect
<1>3. ASSUME NEW s \in Sender,
             TakeBatch(s) \/ Deliver(s) \/ PostSucceeds(s) \/ PostFails(s)
      PROVE  found'[d] # "none"
  BY <1>3 DEF TakeBatch, Deliver, PostSucceeds, PostFails, log
<1>4. CASE TickFlush \/ CloseLog
  BY <1>4, BufferFlushEffect
<1>5. CASE Crash
  BY <1>5, CrashEffect
<1>6. CASE \/ Start \/ BeginClose \/ StopFindsQueueEmpty \/ LoopReturns \/ Restart
           \/ UNCHANGED vars
  BY <1>6 DEF Start, BeginClose, StopFindsQueueEmpty, LoopReturns, Restart, vars, log
<1> QED
  BY <1>1, <1>2, <1>3, <1>4, <1>5, <1>6 DEF Next, SendStep

LEMMA PlacedPreserved ==
  ASSUME IInv, IInv', Placed, [Next]_vars
  PROVE  Placed'
<1> USE InMemoryMember, InMemoryMemberNext, UnderWayMember, LineStays
    DEF IInv, Placed, Wrote, Unwritten, Written
<1>a. lost \subseteq Event /\ leftOver \subseteq Event /\ concluded \subseteq Event
  BY DEF TypeOK
<1>1. ASSUME NEW e \in Event, Track(e) PROVE Placed'
  <2>1. buffer' \subseteq buffer \cup {e} /\ Wrote(buffer \cup {e}, "pending")
    BY <1>1, TrackEffect
  <2>2. /\ e \notin accepted /\ disk[e] = "none"
        /\ queue' = queue \cup {e}
        /\ accepted' = accepted \cup {e}
        /\ UNCHANGED <<phase, pc, batch, received, concluded, lost, leftOver>>
    BY <1>1 DEF Track, process, Located
  <2>3. Alive
    BY <1>1 DEF Track
  <2> QED
    BY <1>a, <2>1, <2>2, <2>3 DEF Alive
<1>2. ASSUME NEW s \in Sender, TakeBatch(s) PROVE Placed'
  <2>1. /\ batch' = [batch EXCEPT ![s] = queue]
        /\ queue' = {}
        /\ pc' = [pc EXCEPT ![s] = "mark"]
        /\ UNCHANGED <<phase, buffer, disk, found, accepted, concluded, lost, leftOver>>
    BY <1>2 DEF TakeBatch, process, history, log
  <2>2. InMemory' \subseteq InMemory /\ UnderWay' \subseteq UnderWay \cup queue
    BY <2>1 DEF TypeOK
  <2> QED
    BY <2>1, <2>2 DEF Alive
<1>3. ASSUME NEW s \in Sender,
             MarkSending(s) \/ Deliver(s) \/ PostSucceeds(s) \/ PostFails(s)
      PROVE  Placed'
  <2>1. /\ UNCHANGED <<phase, queue, batch, buffer, accepted, lost, leftOver>>
        /\ concluded' \in {concluded, concluded \cup batch[s]}
    BY <1>3 DEF MarkSending, Deliver, PostSucceeds, PostFails, process, history
  <2>2. Wrote(batch[s], "sending")
    BY <1>3, MarkEffect, NothingWritten DEF Deliver, PostSucceeds, PostFails
  <2>3. UnderWay' \subseteq UnderWay
    BY <1>3, <2>1 DEF MarkSending, Deliver, PostSucceeds, PostFails, TypeOK
  <2>4. concluded' # concluded => \A e \in batch[s] : e \notin queue' \cup UnderWay'
    <3>1. concluded' # concluded => pc'[s] \in {"ack", "nack"}
      BY <1>3 DEF MarkSending, Deliver, PostSucceeds, PostFails, TypeOK, history
    <3> QED
      BY <2>1, <3>1 DEF SingleOwner
  <2>5. batch[s] \subseteq accepted
    BY DEF Located
  <2>6. concluded' \subseteq Event
    BY <2>1 DEF TypeOK
  <2>7. \A e \in concluded' : e \in queue' \cup UnderWay' => found'[e] # "none"
    BY <2>1, <2>3, <2>4, <2>6
  <2>8. \A e \in lost : found'[e] = found[e]
    BY <1>a, <2>2
  <2> QED
    BY <2>1, <2>5, <2>7, <2>8 DEF Alive
<1>4. ASSUME NEW s \in Sender, MarkSent(s) \/ MarkFailed(s) PROVE Placed'
  <2>1. /\ pc' = [pc EXCEPT ![s] = "idle"]
        /\ batch' = [batch EXCEPT ![s] = {}]
        /\ phase' = "down" => phase = "down"
        /\ UNCHANGED <<queue, buffer, accepted, concluded, lost, leftOver>>
    BY <1>4 DEF MarkSent, MarkFailed, SendDone, history
  <2>2. \A d \in Event \ batch[s] : found'[d] = found[d]
    BY <1>4, MarkEffect
  <2>3. InMemory' \subseteq InMemory /\ UnderWay' \subseteq UnderWay
    BY <2>1 DEF TypeOK
  <2>4. Alive
    BY <1>4, <2>1 DEF Alive, Located, MarkSent, MarkFailed
  <2> QED
    BY <1>a, <2>1, <2>2, <2>3, <2>4 DEF Alive
<1>5. CASE TickFlush \/ CloseLog
  <2>1. buffer' \subseteq buffer /\ Wrote(buffer, "pending")
    BY <1>5, BufferFlushEffect
  <2>2. UNCHANGED <<queue, pc, batch, accepted, concluded, lost, leftOver>> /\ Alive
    BY <1>5 DEF TickFlush, CloseLog, process, history, Alive
  <2> QED
    BY <1>a, <2>1, <2>2
<1>6. CASE Crash
  <2>1. Wrote(buffer, "pending")
    BY <1>6, CrashEffect
  <2>2. /\ phase' = "down" /\ queue' = {} /\ buffer' = {}
        /\ batch' = [s \in Sender |-> {}]
        /\ lost' = lost \cup {e \in InMemory : found'[e] = "none"}
        /\ UNCHANGED <<accepted, received, concluded, leftOver>>
    BY <1>6 DEF Crash
  <2>3. InMemory' = {} /\ UnderWay' = {}
    BY <2>2
  <2>4. InMemory \subseteq accepted
    BY DEF Located
  <2> QED
    BY <1>a, <2>1, <2>2, <2>3, <2>4 DEF Alive
<1>7. CASE Restart
  <2>1. /\ phase = "down"
        /\ UNCHANGED <<pc, batch, buffer, disk, found, accepted, concluded, lost>>
    BY <1>7 DEF Restart
  <2>2. /\ \A e \in queue' : e \in Event /\ lines[e] # {}
        /\ leftOver' \cap queue' = {}
        /\ \A e \in leftOver' : e \in Event /\ disk[e] # "none"
    BY <1>7, RestartEffect DEF Recoverable, Misread, Unfinished
  <2>3. buffer = {} /\ InMemory' = queue' /\ UnderWay' = {}
    BY <2>1 DEF Located
  <2>4. \A e \in queue' : found[e] # "none"
    BY <2>2 DEF LogSound
  <2>5. leftOver' \subseteq accepted
    BY <2>2 DEF Located
  <2> QED
    BY <2>1, <2>2, <2>3, <2>4, <2>5
<1>8. CASE Start \/ BeginClose \/ StopFindsQueueEmpty \/ LoopReturns \/ UNCHANGED vars
  <2>1. /\ UNCHANGED <<memory, log, history>>
        /\ phase' = "down" <=> phase = "down"
    BY <1>8 DEF Start, BeginClose, StopFindsQueueEmpty, LoopReturns, vars, process
  <2> QED
    BY <2>1 DEF memory, log, history, Alive, InMemory, UnderWay
<1> QED
  BY <1>1, <1>2, <1>3, <1>4, <1>5, <1>6, <1>7, <1>8 DEF Next, SendStep

-------------------------------------------------------------------------------

Good == IInv /\ Placed /\ Clean

LEMMA StageSame ==
  ASSUME Good, Good', NEW e \in Event,
         e \in accepted' <=> e \in accepted,
         e \in queue' <=> e \in queue,
         e \in UnderWay' <=> e \in UnderWay,
         e \in lost' \ concluded' <=> e \in lost \ concluded,
         Shelved(e)' <=> Shelved(e),
         Ended(e)' <=> Ended(e),
         Ended(e) => disk'[e] = disk[e]
  PROVE  Stage(e)' = Stage(e)
BY StageIs, StageIsNext DEF Good, Ledger!Stage, Terminal

\* An event that is in nobody's hands and whose log does not change stays.
LEMMA StageUntouched ==
  ASSUME Good, Good', NEW e \in Event, Alive' <=> Alive, Unwritten(e),
         e \in accepted' <=> e \in accepted,
         e \in queue' <=> e \in queue,
         e \in UnderWay' <=> e \in UnderWay,
         e \in InMemory' <=> e \in InMemory,
         e \in buffer' <=> e \in buffer,
         e \in concluded' <=> e \in concluded,
         UNCHANGED <<lost, leftOver>>
  PROVE  Stage(e)' = Stage(e)
<1>1. Ended(e)' <=> Ended(e)
  BY DEF Ended, Unwritten
<1>2. Shelved(e)' <=> Shelved(e)
  BY <1>1 DEF Shelved, Unwritten
<1> QED
  BY <1>1, <1>2, StageSame DEF Unwritten

\* While the process lives, writing "pending" lines out of the buffer moves no
\* event: those of the buffer are in memory or settled.
LEMMA FlushMovesNothing ==
  ASSUME Good, Good', NEW d \in Event, Alive, Alive',
         d \in accepted' <=> d \in accepted,
         d \in queue' <=> d \in queue,
         d \in buffer' => d \in buffer,
         Unwritten(d) \/ (d \in buffer /\ Written(d, "pending")),
         d \in buffer \ buffer' => disk'[d] = "pending",
         UNCHANGED <<pc, batch, concluded, lost, leftOver>>
  PROVE  Stage(d)' = Stage(d)
<1> USE InMemoryMember, InMemoryMemberNext, UnderWayMember
    DEF Good, IInv, Placed, Unwritten, Written
<1>1. d \in UnderWay' <=> d \in UnderWay
  OBVIOUS
<1>2. d \in InMemory' <=> d \in InMemory
  OBVIOUS
<1>3. Ended(d)' <=> Ended(d)
  BY <1>2 DEF Ended
<1>4. Ended(d) => disk'[d] = disk[d]
  BY DEF Ended
<1>5. d \in leftOver => found'[d] = found[d]
  OBVIOUS
<1>6. Shelved(d)' <=> Shelved(d)
  BY <1>2, <1>3, <1>5 DEF Shelved
<1> QED
  BY <1>1, <1>3, <1>4, <1>6, StageSame

\* A step that moves no event and tells the server nothing is a stutter.
LEMMA Stutters ==
  ASSUME Alive' <=> Alive, received' = received,
         \A e \in Event : Stage(e)' = Stage(e)
  PROVE  UNCHANGED Ledger!vars
BY DEF Ledger!vars, Alive

LEMMA InIs == \A s : Ledger!In(s) = {e \in Event : Stage(e) = s}
BY DEF Ledger!In

LEMMA MoveIs ==
  ASSUME NEW S, NEW s,
         \A e \in Event : Stage(e)' = IF e \in S THEN s ELSE Stage(e)
  PROVE  Ledger!Move(S, s)
BY DEF Ledger!Move

LEMMA TrackAccepts ==
  ASSUME Good, Good', NEW e \in Event, Track(e)
  PROVE  Ledger!Accept(e)
<1> USE DEF Good, IInv
<1>1. /\ buffer' \subseteq buffer \cup {e}
      /\ \A d \in Event : Unwritten(d) \/ (d \in buffer \cup {e} /\ Written(d, "pending"))
      /\ \A d \in buffer \ buffer' : disk'[d] = "pending"
  BY TrackEffect DEF Wrote
<1>2. /\ e \notin accepted
      /\ queue' = queue \cup {e}
      /\ accepted' = accepted \cup {e}
      /\ Alive /\ Alive'
      /\ UNCHANGED <<pc, batch, received, concluded, lost, leftOver>>
  BY DEF Track, process, Alive
<1>3. Stage(e) = "new" /\ Stage(e)' = "waiting"
  BY <1>2, StageIs, StageIsNext
<1>4. ASSUME NEW d \in Event, d # e
      PROVE  Stage(d)' = Stage(d)
  BY <1>1, <1>2, <1>4, FlushMovesNothing
<1>5. Ledger!Move({e}, "waiting")
  BY <1>3, <1>4, MoveIs
<1> QED
  BY <1>2, <1>3, <1>5, InIs DEF Ledger!Accept

LEMMA TakeBatchTakes ==
  ASSUME Good, Good', NEW s \in Sender, TakeBatch(s)
  PROVE  Ledger!Take
<1> USE InMemoryMember, InMemoryMemberNext, UnderWayMember DEF Good, IInv
<1>1. /\ batch' = [batch EXCEPT ![s] = queue]
      /\ queue' = {}
      /\ pc' = [pc EXCEPT ![s] = "mark"]
      /\ batch[s] = {} /\ pc[s] = "idle"
      /\ Alive /\ Alive'
      /\ UNCHANGED <<buffer, accepted, received, concluded, lost, leftOver>>
      /\ \A e \in Event : Unwritten(e)
  BY DEF TakeBatch, process, history, log, Located, Alive, Unwritten
<1>2. InMemory' = InMemory
  BY <1>1 DEF TypeOK
<1>3. \A e : e \in UnderWay' <=> e \in UnderWay \cup queue
  BY <1>1 DEF TypeOK
<1>4. ASSUME NEW e \in Event, e \in queue
      PROVE  Stage(e) = "waiting" /\ Stage(e)' = "sending"
  BY <1>3, <1>4, StageIs, StageIsNext
<1>5. ASSUME NEW e \in Event, e \notin queue
      PROVE  Stage(e) # "waiting" /\ Stage(e)' = Stage(e)
  BY <1>1, <1>2, <1>3, <1>5, StageUntouched, StageIs
<1>6. Ledger!Move(Ledger!In("waiting"), "sending")
  BY <1>4, <1>5, InIs, MoveIs
<1> QED
  BY <1>1, <1>6 DEF Ledger!Take

\* The steps before the answer to Post is written down.
LEMMA SendingStages ==
  ASSUME Good, Good', NEW s \in Sender,
         MarkSending(s) \/ Deliver(s) \/ PostSucceeds(s) \/ PostFails(s)
  PROVE  /\ Alive /\ Alive'
         /\ \A e \in Event \ batch[s] : Stage(e)' = Stage(e)
         /\ \A e \in batch[s] : Stage(e) = "sending"
         /\ \A e \in batch[s] : Stage(e)' =
              IF pc'[s] \in {"ack", "nack"} THEN "settled" ELSE "sending"
<1> USE InMemoryMember, InMemoryMemberNext, UnderWayMember DEF Good, IInv
<1>1. /\ UNCHANGED <<phase, queue, batch, buffer, accepted, lost, leftOver>>
      /\ concluded' \in {concluded, concluded \cup batch[s]}
      /\ pc[s] \in {"mark", "post", "posted"}
      /\ \A t \in Sender \ {s} : pc'[t] = pc[t]
      /\ pc'[s] \in {"post", "posted", "ack", "nack"}
  BY DEF MarkSending, Deliver, PostSucceeds, PostFails, process, history, TypeOK
<1>2. \A d \in Event \ batch[s] : Unwritten(d)
  BY MarkEffect, NothingWritten DEF Deliver, PostSucceeds, PostFails, Wrote
<1>3. Alive /\ Alive'
  BY <1>1 DEF Alive, Located
<1>4. InMemory' = InMemory
  BY <1>1
<1>5. ASSUME NEW e \in Event, e \notin batch[s]
      PROVE  Stage(e)' = Stage(e)
  <2>1. e \in UnderWay' <=> e \in UnderWay
    BY <1>1, <1>5
  <2> QED
    BY <1>1, <1>2, <1>3, <1>4, <1>5, <2>1, StageUntouched
<1>6. ASSUME NEW e \in batch[s]
      PROVE  /\ Stage(e) = "sending"
             /\ Stage(e)' = IF pc'[s] \in {"ack", "nack"} THEN "settled" ELSE "sending"
  <2>1. e \in Event /\ e \in accepted /\ e \in UnderWay /\ e \notin queue /\ e \in InMemory
    BY <1>1 DEF TypeOK, Located, SingleOwner
  <2>2. CASE pc'[s] \notin {"ack", "nack"}
    BY <1>1, <2>1, <2>2, StageIs, StageIsNext
  <2>3. CASE pc'[s] \in {"ack", "nack"}
    <3>1. e \notin UnderWay'
      BY <1>1, <2>3 DEF SingleOwner
    <3>2. e \notin lost' /\ ~ Shelved(e)' /\ ~ Ended(e)'
      BY <1>1, <1>4, <2>1 DEF Placed, Shelved, Ended
    <3> QED
      BY <1>1, <2>1, <2>3, <3>1, <3>2, StageIs, StageIsNext
      DEF Ledger!Stage, Terminal
  <2> QED
    BY <2>2, <2>3
<1> QED
  BY <1>3, <1>5, <1>6

LEMMA SendSettles ==
  ASSUME Good, Good', NEW s \in Sender,
         MarkSending(s) \/ Deliver(s) \/ PostSucceeds(s) \/ PostFails(s)
  PROVE  [Ledger!Next]_(Ledger!vars)
<1> DEFINE S == batch[s]
<1>1. S \in SUBSET Event /\ pc \in [Sender -> Step]
  BY DEF Good, IInv, TypeOK
<1>2. S \subseteq Ledger!In("sending")
  BY <1>1, SendingStages, InIs
<1>3. CASE MarkSending(s)
  <2>1. pc'[s] = "post" /\ received' = received
    BY <1>1, <1>3 DEF MarkSending, history
  <2> QED
    BY <2>1, <1>1, SendingStages, Stutters
<1>4. CASE Deliver(s)
  <2>1. pc'[s] = "posted" /\ received' = received \cup S
    BY <1>1, <1>4 DEF Deliver
  <2>2. \A e \in Event : Stage(e)' = Stage(e)
    BY <1>1, <2>1, SendingStages
  <2>3. Ledger!Receive(S)
    BY <1>2, <2>1, <2>2, SendingStages DEF Ledger!Receive, Alive
  <2> QED
    BY <1>1, <2>3 DEF Ledger!Next
<1>5. CASE PostSucceeds(s) \/ PostFails(s)
  <2>1. pc'[s] \in {"ack", "nack"} /\ received' = received
    BY <1>1, <1>5 DEF PostSucceeds, PostFails
  <2>2. Ledger!Move(S, "settled")
    BY <1>1, <2>1, SendingStages, MoveIs
  <2>3. Ledger!Settle(S)
    BY <1>2, <2>1, <2>2, SendingStages DEF Ledger!Settle, Alive
  <2> QED
    BY <1>1, <2>3 DEF Ledger!Next
<1> QED
  BY <1>3, <1>4, <1>5

\* With the last line of sendEvents the log says how an event of the batch has
\* ended, unless the line could not be written or the event's own line is still
\* in the buffer.
LEMMA MarkConcludes ==
  ASSUME Good, Good', NEW s \in Sender, MarkSent(s) \/ MarkFailed(s)
  PROVE  [Ledger!Next]_(Ledger!vars)
<1> USE InMemoryMember, InMemoryMemberNext, UnderWayMember DEF Good, IInv
<1> DEFINE S == {e \in batch[s] : Ended(e)' /\ disk'[e] = "sent"}
           F == {e \in batch[s] : Ended(e)' /\ disk'[e] = "failed"}
<1>1. /\ pc' = [pc EXCEPT ![s] = "idle"]
      /\ batch' = [batch EXCEPT ![s] = {}]
      /\ pc[s] \in {"ack", "nack"}
      /\ phase' = "down" => phase = "down"
      /\ UNCHANGED <<queue, buffer, accepted, received, concluded, lost, leftOver>>
  BY DEF MarkSent, MarkFailed, SendDone, history
<1>2. \A d \in Event \ batch[s] : Unwritten(d)
  BY MarkEffect DEF Wrote
<1>3. Alive /\ Alive'
  BY <1>1 DEF Alive, Located
<1>4. \A d : d \in InMemory' <=> d \in InMemory /\ d \notin batch[s]
  BY <1>1 DEF SingleOwner, TypeOK
<1>5. \A d : d \in UnderWay' <=> d \in UnderWay
  BY <1>1 DEF TypeOK
<1>6. ASSUME NEW e \in Event, e \notin batch[s]
      PROVE  Stage(e)' = Stage(e)
  BY <1>1, <1>2, <1>3, <1>4, <1>5, <1>6, StageUntouched
<1>7. ASSUME NEW e \in batch[s]
      PROVE  /\ Stage(e) = "settled"
             /\ Stage(e)' = IF e \in S THEN "sent" ELSE IF e \in F THEN "failed"
                                                        ELSE "settled"
  <2>1. e \in Event /\ e \in accepted /\ e \in InMemory /\ e \notin queue
    BY DEF TypeOK, Located, SingleOwner
  <2>2. e \notin UnderWay
    BY <1>1 DEF SingleOwner
  <2>3. e \notin lost /\ ~ Shelved(e) /\ ~ Ended(e) /\ ~ Shelved(e)'
    BY <1>1, <1>3, <2>1 DEF Placed, Shelved, Ended, Alive
  <2>4. Stage(e) = "settled"
    BY <2>1, <2>2, <2>3, StageIs DEF Ledger!Stage, Terminal
  <2>5. CASE Ended(e)'
    <3>1. disk'[e] \in Terminal
      BY <2>5 DEF Ended, Terminal
    <3>2. Stage(e)' = disk'[e]
      BY <2>1, <2>5, <3>1, StageIsNext
    <3> QED
      BY <2>4, <2>5, <3>1, <3>2 DEF Terminal
  <2>6. CASE ~ Ended(e)'
    <3>1. Stage(e)' = "settled"
      BY <1>1, <1>5, <2>1, <2>2, <2>3, <2>6, StageIsNext DEF Ledger!Stage, Terminal
    <3> QED
      BY <2>4, <2>6, <3>1
  <2> QED
    BY <2>5, <2>6
<1>8. S \in SUBSET Event /\ F \in SUBSET Event /\ batch[s] \in SUBSET Event
  BY DEF TypeOK
<1>9. \A e \in Event : Stage(e)' = IF e \in S THEN "sent"
                                  ELSE IF e \in F THEN "failed" ELSE Stage(e)
  BY <1>6, <1>7, <1>8
<1>10. S \cup F \subseteq Ledger!In("settled")
  BY <1>7, <1>8, InIs
<1>11. S \cap F = {}
  OBVIOUS
<1>12. S \subseteq received
  BY <1>1, <1>8 DEF SentWasReceived
<1>13. Ledger!Conclude(S, F)
  <2> HIDE DEF S, F
  <2> QED
    BY <1>1, <1>3, <1>9, <1>10, <1>11, <1>12 DEF Ledger!Conclude, Alive
<1> QED
  BY <1>8, <1>13 DEF Ledger!Next

LEMMA FlushStutters ==
  ASSUME Good, Good', TickFlush \/ CloseLog
  PROVE  UNCHANGED Ledger!vars
<1>1. /\ UNCHANGED <<queue, pc, batch, accepted, received, concluded, lost, leftOver>>
      /\ Alive /\ Alive'
  BY DEF TickFlush, CloseLog, process, history, Alive
<1>2. \A e \in Event : Stage(e)' = Stage(e)
  BY <1>1, BufferFlushEffect, FlushMovesNothing DEF Good, IInv, Wrote
<1> QED
  BY <1>1, <1>2, Stutters

LEMMA LifecycleStutters ==
  ASSUME Good, Good',
         \/ Start \/ BeginClose \/ StopFindsQueueEmpty \/ LoopReturns
         \/ UNCHANGED vars
  PROVE  UNCHANGED Ledger!vars
<1>1. /\ UNCHANGED <<memory, log, history>>
      /\ Alive' <=> Alive
  BY DEF Start, BeginClose, StopFindsQueueEmpty, LoopReturns, vars, process, Alive
<1>2. InMemory' = InMemory /\ UnderWay' = UnderWay
  BY <1>1 DEF memory, InMemory, UnderWay
<1>3. \A e \in Event : Stage(e)' = Stage(e)
  BY <1>1, <1>2, StageUntouched DEF memory, log, history, Unwritten
<1> QED
  BY <1>1, <1>3, Stutters DEF history

LEMMA CrashIsCrash ==
  ASSUME Good, Good', Crash
  PROVE  Ledger!Crash
<1> USE InMemoryMember, InMemoryMemberNext, UnderWayMember DEF Good, IInv
<1>1. \A d \in Event : Unwritten(d) \/ (d \in buffer /\ Written(d, "pending"))
  BY CrashEffect DEF Wrote
<1>2. /\ Alive /\ ~ Alive'
      /\ queue' = {} /\ buffer' = {}
      /\ batch' = [s \in Sender |-> {}]
      /\ lost' = lost \cup {e \in InMemory : found'[e] = "none"}
      /\ UNCHANGED <<accepted, received, concluded, leftOver, revived>>
  BY DEF Crash, Alive
<1>3. InMemory' = {} /\ UnderWay' = {}
  BY <1>2
<1>4. ASSUME NEW e \in Event
      PROVE  Stage(e)' \in Ledger!AfterCrash(e)
  <2>1. /\ Ended(e)' <=> disk'[e] \in Terminal
        /\ Shelved(e)' <=> disk'[e] \notin Terminal /\ found'[e] \in Unfinished
    BY <1>2, <1>3 DEF Ended, Shelved, Terminal, Alive
  <2>2. /\ \A t \in Terminal : Stage(e)' = t <=> disk'[e] = t
        /\ Stage(e)' = "sent" => e \in received
    BY <1>2, <2>1, StageIsNext DEF SentWasReceived, Terminal
  <2>3. CASE Stage(e) = "new"
    BY <1>2, <2>3, StageIs, StageIsNext DEF Ledger!AfterCrash
  <2>4. CASE Stage(e) \in {"waiting", "sending"}
    <3>1. e \in accepted /\ e \in InMemory /\ e \in queue \cup UnderWay
      BY <2>4, StageIs DEF Located
    <3>2. CASE found'[e] = "none"
      <4>1. e \notin concluded
        BY <1>1, <3>1, <3>2 DEF Placed, LogSound, Written, Unwritten
      <4> QED
        BY <1>2, <2>4, <3>1, <3>2, <4>1, StageIsNext DEF Ledger!AfterCrash
    <3>3. CASE disk'[e] \notin Terminal /\ found'[e] \in Unfinished
      BY <2>1, <2>4, <3>3, StageIsNext DEF Ledger!AfterCrash
    <3>4. CASE disk'[e] \in Terminal \/ found'[e] \in Terminal
      <4>1. e \in concluded
        BY <1>2, <3>4 DEF Progress, LogSound, Terminal
      <4>2. ~ CleanStorage
        <5>1. SUFFICES ASSUME CleanStorage PROVE FALSE
          OBVIOUS
        <5>2. disk'[e] \in Terminal /\ revived = {}
          BY <1>2, <3>4, <5>1 DEF Clean
        <5>3. disk[e] \in Terminal
          BY <1>1, <5>2 DEF Unwritten, Written, Terminal
        <5> QED
          BY <3>1, <5>2, <5>3 DEF Unsettled
      <4>3. Stage(e)' \in {"settled", "stored", "sent", "failed"}
        BY <1>2, <1>3, <3>1, <4>1, StageIsNext DEF Ledger!Stage
      <4> QED
        BY <2>2, <2>4, <4>2, <4>3 DEF Ledger!AfterCrash, Ledger!Ends, CleanStorage
    <3>5. found'[e] \in Status
      BY DEF TypeOK
    <3> QED
      BY <3>2, <3>3, <3>4, <3>5 DEF Status, Unfinished, Terminal
  <2>5. CASE Stage(e) = "lost"
    <3>1. e \in lost /\ e \notin concluded
      BY <2>5, StageIs
    <3> QED
      BY <1>2, <2>5, <3>1, StageIsNext DEF Ledger!AfterCrash
  <2>6. CASE Stage(e) = "stored"
    <3>1. Shelved(e) /\ e \notin buffer
      BY <1>2, <2>6, StageIs DEF Shelved, Placed
    <3>2. Shelved(e)'
      BY <1>1, <2>1, <3>1 DEF Shelved, Ended, Terminal, Unwritten
    <3> QED
      BY <2>6, <3>2, StageIsNext DEF Ledger!AfterCrash
  <2>7. CASE Stage(e) \in Terminal
    <3>1. Ended(e) /\ Stage(e) = disk[e]
      BY <2>7, StageIs
    <3>2. disk'[e] = disk[e]
      BY <1>1, <3>1 DEF Ended, Unwritten
    <3> QED
      BY <2>2, <2>7, <3>1, <3>2 DEF Ledger!AfterCrash, Terminal
  <2>8. CASE Stage(e) = "settled"
    <3>1. e \in accepted /\ e \notin lost \ concluded /\ e \notin queue \cup UnderWay
      BY <2>8, StageIs
    <3>2. e \in concluded
      <4>1. CASE e \in InMemory
        <5>1. PICK s \in Sender : e \in batch[s]
          BY <3>1, <4>1
        <5>2. pc[s] \in {"ack", "nack"}
          BY <3>1, <5>1 DEF Located, TypeOK, Step
        <5> QED
          BY <5>1, <5>2 DEF Progress
      <4>2. CASE e \notin InMemory
        <5>1. ~ Shelved(e)
          BY <2>8, StageIs
        <5>2. e \in concluded \/ found[e] \in Unfinished
          BY <3>1, <4>2 DEF NothingLost
        <5>3. found[e] \in Unfinished => disk[e] \in Unfinished \cup Terminal
          BY DEF LogSound, TypeOK, Status, Unfinished, Terminal
        <5>4. disk[e] \in Terminal => e \in concluded
          BY DEF Progress
        <5> QED
          BY <1>2, <4>2, <5>1, <5>2, <5>3, <5>4
          DEF UnfinishedIsHeld, Shelved, Ended, Unfinished
      <4> QED
        BY <4>1, <4>2
    <3>3. Stage(e)' \in {"settled", "stored", "sent", "failed"}
      BY <1>2, <1>3, <3>1, <3>2, StageIsNext DEF Ledger!Stage
    <3> QED
      BY <2>2, <2>8, <3>3 DEF Ledger!AfterCrash, Ledger!Ends
  <2> QED
    BY <2>3, <2>4, <2>5, <2>6, <2>7, <2>8, StageIs DEF Ledger!Stage, Terminal
<1>5. \A e \in Event : Stage(e)' \in Ledger!Stage
  BY StageIsNext
<1> QED
  BY <1>2, <1>4, <1>5 DEF Ledger!Crash, Alive

LEMMA RestartRestarts ==
  ASSUME Good, Good', Restart
  PROVE  Ledger!Restart(queue')
<1> USE InMemoryMember, InMemoryMemberNext, UnderWayMember DEF Good, IInv
<1>1. /\ ~ Alive /\ Alive'
      /\ UNCHANGED <<pc, batch, buffer, disk, found, lines,
                     accepted, received, concluded, lost>>
  BY DEF Restart, Alive
<1>2. PICK seen \in [Event -> Status] :
        /\ queue' \subseteq Event
        /\ \A e \in queue' : seen[e] \in Unfinished /\ lines[e] # {} /\ disk[e] # "none"
        /\ leftOver' = (Recoverable(seen) \cup Misread(seen)) \ queue'
  BY RestartEffect
<1>3. /\ queue = {} /\ InMemory = {} /\ InMemory' = queue'
      /\ buffer = {} /\ UnderWay = {} /\ UnderWay' = {}
  BY <1>1 DEF Located, Alive
<1>4. ASSUME NEW e \in queue'
      PROVE  /\ Stage(e)' = "waiting"
             /\ Stage(e) \in {"stored", "settled", "sent", "failed"}
             /\ Stage(e) = "sent" => e \in received
             /\ CleanStorage => Stage(e) = "stored"
  <2>1. e \in Event /\ lines[e] # {} /\ disk[e] # "none"
    BY <1>2
  <2>2. Stage(e)' = "waiting"
    BY <2>1, StageIsNext
  <2>3. e \in accepted /\ e \notin lost
    BY <2>1 DEF Located, LogSound, Placed
  <2>4. Stage(e) \in {"stored", "settled", "sent", "failed"}
    BY <1>3, <2>1, <2>3, StageIs DEF Ledger!Stage
  <2>5. Stage(e) = "sent" => e \in received
    BY <2>1, StageIs DEF SentWasReceived, Terminal
  <2>6. CleanStorage => Shelved(e)
    <3> SUFFICES ASSUME CleanStorage PROVE Shelved(e)
      OBVIOUS
    <3>1. disk[e] \in Unfinished /\ found[e] = disk[e]
      BY <2>1, CleanRestart DEF Clean
    <3> QED
      BY <1>1, <1>3, <3>1 DEF Shelved, Ended, Unfinished
  <2> QED
    BY <2>1, <2>2, <2>4, <2>5, <2>6, StageIs
<1>5. ASSUME NEW e \in Event, e \notin queue'
      PROVE  Stage(e)' = Stage(e)
  <2>1. Ended(e)' <=> Ended(e)
    BY <1>1, <1>3, <1>5 DEF Ended
  <2>2. Shelved(e) => e \in leftOver'
    <3> SUFFICES ASSUME Shelved(e) PROVE e \in leftOver'
      OBVIOUS
    <3>1. disk[e] \in Unfinished
      BY <1>3 DEF Shelved, Ended, LogSound, TypeOK, Status, Unfinished
    <3> QED
      BY <1>2, <1>5, <3>1 DEF Recoverable, Misread
  <2>3. Shelved(e)' <=> Shelved(e)
    BY <1>1, <1>3, <1>5, <2>1, <2>2 DEF Shelved
  <2> QED
    BY <1>1, <1>3, <1>5, <2>1, <2>3, StageSame
<1>6. Ledger!Move(queue', "waiting")
  BY <1>4, <1>5, MoveIs
<1>7. \A e \in queue' :
        \/ Stage(e) = "stored"
        \/ (IOFaults \/ Long # {}) /\ Stage(e) \in Ledger!Ends(e)
  BY <1>4 DEF Ledger!Ends, CleanStorage
<1> QED
  BY <1>1, <1>2, <1>6, <1>7 DEF Ledger!Restart, Alive

\* Queue and log together keep the promise of EventLedger (Track, Flush,
\* sendEvents, RecoverEvents, Recover and the log under them): within one
\* process lifetime no event is sent again, whatever flushes meet; a crash
\* loses only events whose Post has not returned; a restart brings back one
\* that is settled, sent or failed only with faults of the storage or a line
\* over the scanner's limit; a "sent" line that is final is true.
THEOREM PipelineImplementsLedger == Spec => LedgerSpec
<1>1. Init => Placed
  BY DEF Init, Placed
<1>2. Init => Ledger!Init
  <2> SUFFICES ASSUME Init PROVE Ledger!Init
    OBVIOUS
  <2>1. \A e \in Event : Stage(e) = "new"
    BY <1>1, InitEstablishes, StageIs DEF Init
  <2> QED
    BY <2>1 DEF Init, Ledger!Init, Alive
<1>3. ASSUME Good, Good', [Next]_vars
      PROVE  [Ledger!Next]_(Ledger!vars)
  <2>1. ASSUME NEW e \in Event, Track(e) PROVE Ledger!Next
    BY <1>3, <2>1, TrackAccepts DEF Ledger!Next
  <2>2. ASSUME NEW s \in Sender, TakeBatch(s) PROVE Ledger!Next
    BY <1>3, <2>2, TakeBatchTakes DEF Ledger!Next
  <2>3. ASSUME NEW s \in Sender, Deliver(s) \/ SendStep(s)
        PROVE  [Ledger!Next]_(Ledger!vars)
    BY <1>3, <2>3, SendSettles, MarkConcludes DEF SendStep
  <2>4. CASE Crash
    BY <1>3, <2>4, CrashIsCrash DEF Ledger!Next
  <2>5. CASE Restart
    <3>1. queue' \in SUBSET Event
      BY <1>3 DEF Good, IInv, TypeOK
    <3> QED
      BY <1>3, <2>5, <3>1, RestartRestarts DEF Ledger!Next
  <2>6. CASE TickFlush \/ CloseLog
    BY <1>3, <2>6, FlushStutters
  <2>7. CASE Start \/ BeginClose \/ StopFindsQueueEmpty \/ LoopReturns \/ UNCHANGED vars
    BY <1>3, <2>7, LifecycleStutters
  <2> QED
    BY <1>3, <2>1, <2>2, <2>3, <2>4, <2>5, <2>6, <2>7 DEF Next
<1>4. IInv /\ Placed /\ Clean => Good
  BY DEF Good
<1>5. IInv /\ IInv' /\ Placed /\ [Next]_vars => Placed'
  BY PlacedPreserved
<1>6. Good /\ Good' /\ [Next]_vars => [Ledger!Next]_(Ledger!vars)
  BY <1>3
<1> QED
  BY <1>1, <1>2, <1>4, <1>5, <1>6, Inductive, CleanInvariant, PTL
  DEF Spec, LedgerSpec, Ledger!Spec
===============================================================================
