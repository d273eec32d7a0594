---------------------------- MODULE EventPipeline ----------------------------
(***************************************************************************)
(* Analytics events from Track to the server: EventQueue of                *)
(* internal/core/events.go with the write-ahead log of                     *)
(* internal/persistence/event_persistence.go under it, through crashes and *)
(* restarts, for a client with PersistEvents set.                          *)
(*                                                                         *)
(* Several goroutines send at once: the queue's own loop, the one that     *)
(* runs Client.Close, and any that call Client.Flush.  Each holds eq.mu    *)
(* only while it takes the queue, and the log's ep.mu only while it writes *)
(* status lines, so each such region is a step of its own.                 *)
(*                                                                         *)
(* Abstractions.  An event is its id; the order of events in a batch and   *)
(* in the buffer plays no part.  Recover lets the last line of an id       *)
(* replace the ones before it (readEventsFromFile), so of the log the      *)
(* model keeps the last status written for each id, and besides what a     *)
(* recovery may find there instead: the scanner gives up a file at its     *)
(* first line over 64 KB, and any file at an I/O fault.  Which lines of    *)
(* different events are missed together is left open.  A "pending" line    *)
(* carries the payload, the other status lines do not.  The flush ticker   *)
(* and flushCh both just wake the loop.  The server is external.           *)
(***************************************************************************)
EXTENDS Integers, FiniteSets

CONSTANTS
    Event,              \* ids of the events that may be tracked
    Sender,             \* goroutines that may be inside EventQueue.Flush
    Loop,               \* the one of EventQueue.run
    Closer,             \* the one that runs Client.Close
    MaxSize,            \* EventQueueConfig.MaxSize
    BufferSize,         \* EventPersistence.bufferSize
    IOFaults,           \* may the storage fail, for writing or for reading?
    Long,               \* events whose own line is too long for bufio.Scanner
    MaxLives            \* bound: process lifetimes explored

ASSUME PipelineAssumption ==
    /\ IsFiniteSet(Event)
    /\ Loop \in Sender
    /\ Closer \in Sender
    /\ Loop # Closer
    /\ MaxSize \in Nat
    /\ BufferSize \in Nat
    /\ IOFaults \in BOOLEAN
    /\ Long \subseteq Event
    /\ MaxLives \in Nat

VARIABLES
    phase,              \* "up", "stopping", "final", "closed" or "down"
    running,            \* EventQueue.running
    looping,            \* has the goroutine of run not returned yet?
    queue,              \* EventQueue.events
    hollow,             \* the events held in memory without their payload
    pc,                 \* where each sender is in sendEvents
    batch,              \* what each sender has taken
    buffer,             \* EventPersistence.buffer
    lives,              \* process lifetimes so far
    logging,            \* does this process have an EventPersistence?
    disk,               \* the last status in the log, for each event
    found,              \* the last one that a reading without I/O faults finds
    lines,              \* all those that it comes by, for each event
    stopped,            \* does the scanner stop within the current file?
    \* History, which no step depends on:
    accepted,           \* events that Track has put into the queue
    received,           \* events that the server has received
    concluded,          \* events whose Post has returned, in any lifetime
    lost,               \* events a crash took with no line in the log
    leftOver,           \* events the last recovery had no room for or misread
    revived             \* events it took up although it misread them

memory == <<queue, hollow, pc, batch, buffer>>
process == <<phase, running, looping, lives, logging>>
log == <<disk, found, lines, stopped>>
history == <<accepted, received, concluded, lost, leftOver, revived>>
vars == <<process, memory, log, history>>

Status == {"none", "pending", "sending", "sent", "failed"}
Step == {"idle", "mark", "post", "posted", "ack", "nack"}

Unfinished == {"pending", "sending"}
InMemory == queue \cup UNION {batch[s] : s \in Sender}

-------------------------------------------------------------------------------

\* NewClient on an empty storage directory; Initialize has yet to come.
Init ==
    /\ phase = "up"
    /\ running = FALSE
    /\ looping = FALSE
    /\ queue = {}
    /\ hollow = {}
    /\ pc = [s \in Sender |-> "idle"]
    /\ batch = [s \in Sender |-> {}]
    /\ buffer = {}
    /\ disk = [e \in Event |-> "none"]
    /\ found = [e \in Event |-> "none"]
    /\ lines = [e \in Event |-> {}]
    /\ stopped = FALSE
    /\ lives = 1
    /\ logging \in BOOLEAN
    /\ logging \/ IOFaults
    /\ accepted = {}
    /\ received = {}
    /\ concluded = {}
    /\ lost = {}
    /\ leftOver = {}
    /\ revived = {}

Alive == phase # "down"

\* The statuses after one more line for each event of S.
Logged(f, S, status) == [e \in Event |-> IF e \in S THEN status ELSE f[e]]

\* Is there a line among those of W that the scanner stops at?  Only the
\* "pending" line holds what the event carries.
TooLong(W, status) == status = "pending" /\ W \cap Long # {}

\* Of the lines of W now appended, those that a recovery reads: all of them,
\* or those before the line it stops at, or none after one.
Reachable(W, status) ==
    CASE stopped -> {{}}
      [] TooLong(W, status) /\ ~stopped -> SUBSET (W \ Long)
      [] OTHER -> {W}

\* A line with the given status for each event of W, at the end of the file.
Append(W, status) ==
    /\ disk' = Logged(disk, W, status)
    /\ \E V \in Reachable(W, status) :
         /\ found' = Logged(found, V, status)
         /\ lines' = [e \in Event |-> IF e \in V THEN lines[e] \cup {status} ELSE lines[e]]
    /\ stopped' = (stopped \/ TooLong(W, status))

\* flushLocked, with the events of b to write.  A failed write or sync leaves
\* the buffer as it was, whatever lines did reach the file.
FlushBuffer(b) ==
    \/ /\ Append(b, "pending")
       /\ buffer' = {}
    \/ /\ IOFaults
       /\ \E W \in SUBSET b : Append(W, "pending")
       /\ buffer' = b

\* The lines of MarkSending, MarkSent and MarkFailed.  They go straight to the
\* file, past the buffer; a line that cannot be written is only logged.
WriteStatus(S, status, W) ==
    /\ W \subseteq S
    /\ IOFaults \/ W = S
    /\ ~logging => W = {}
    /\ Append(W, status)

\* A full buffer is flushed by the event that fills it.
Persist(e) ==
    IF Cardinality(buffer \cup {e}) >= BufferSize
      THEN FlushBuffer(buffer \cup {e})
      ELSE buffer' = buffer \cup {e} /\ UNCHANGED log

\* EventQueue.Track and TrackWithContext: Persist, if there is a log and
\* whatever its error, then append.
Track(e) ==
    /\ Alive
    /\ e \notin accepted
    /\ Cardinality(queue) < MaxSize
    /\ IF logging THEN Persist(e) ELSE UNCHANGED <<buffer, log>>
    /\ queue' = queue \cup {e}
    /\ accepted' = accepted \cup {e}
    /\ UNCHANGED <<process, hollow, pc, batch,
                   received, concluded, lost, leftOver, revived>>

\* EventPersistence.run: the ticker flushes the buffer until Close stops it.
TickFlush ==
    /\ phase \in {"up", "stopping", "final"}
    /\ buffer # {}
    /\ FlushBuffer(buffer)
    /\ UNCHANGED <<process, queue, hollow, pc, batch, history>>

\* Client.Initialize succeeds: EventQueue.Start.
Start ==
    /\ phase = "up"
    /\ ~running
    /\ running' = TRUE
    /\ looping' = TRUE
    /\ UNCHANGED <<phase, lives, logging, memory, log, history>>

\* Who may call Flush: the loop while its goroutine lives, the closer after it
\* has stopped the queue, anyone else at any time.
MayFlush(s) ==
    /\ s = Loop => looping
    /\ s = Closer => phase = "stopping"

\* Mutant: the queue is copied but not cleared.
TakeBatch_KeepsQueue(s) ==
    /\ Alive
    /\ pc[s] = "idle"
    /\ MayFlush(s)
    /\ queue # {}
    /\ batch' = [batch EXCEPT ![s] = queue]
    /\ pc' = [pc EXCEPT ![s] = "mark"]
    /\ UNCHANGED <<process, queue, hollow, buffer, log, history>>

\* Flush: copy the queue and clear it.
TakeBatch(s) ==
    /\ Alive
    /\ pc[s] = "idle"
    /\ MayFlush(s)
    /\ queue # {}
    /\ batch' = [batch EXCEPT ![s] = queue]
    /\ queue' = {}
    /\ pc' = [pc EXCEPT ![s] = "mark"]
    /\ UNCHANGED <<process, hollow, buffer, log, history>>

\* Mutant: the batch is marked as sent before the attempt.
MarkSending_AsSent(s) ==
    /\ pc[s] = "mark"
    /\ \E W \in SUBSET batch[s] : WriteStatus(batch[s], "sent", W)
    /\ pc' = [pc EXCEPT ![s] = "post"]
    /\ UNCHANGED <<process, queue, hollow, batch, buffer, history>>

\* sendEvents: mark the batch as sending before the attempt.
MarkSending(s) ==
    /\ pc[s] = "mark"
    /\ \E W \in SUBSET batch[s] : WriteStatus(batch[s], "sending", W)
    /\ pc' = [pc EXCEPT ![s] = "post"]
    /\ UNCHANGED <<process, queue, hollow, batch, buffer, history>>

\* The server receives the batch: one of the attempts of Post got through.
Deliver(s) ==
    /\ pc[s] = "post"
    /\ received' = received \cup batch[s]
    /\ pc' = [pc EXCEPT ![s] = "posted"]
    /\ UNCHANGED <<process, queue, hollow, batch, buffer, log,
                   accepted, concluded, lost, leftOver, revived>>

PostSucceeds(s) ==
    /\ pc[s] = "posted"
    /\ concluded' = concluded \cup batch[s]
    /\ pc' = [pc EXCEPT ![s] = "ack"]
    /\ UNCHANGED <<process, queue, hollow, batch, buffer, log,
                   accepted, received, lost, leftOver, revived>>

\* Mutant: the error of Post is not looked at.
PostFails_Ignored(s) ==
    /\ pc[s] \in {"post", "posted"}
    /\ concluded' = concluded \cup batch[s]
    /\ pc' = [pc EXCEPT ![s] = "ack"]
    /\ UNCHANGED <<process, queue, hollow, batch, buffer, log,
                   accepted, received, lost, leftOver, revived>>

\* Mutant: a batch that could not be sent goes back into the queue.
PostFails_Requeued(s) ==
    /\ pc[s] \in {"post", "posted"}
    /\ concluded' = concluded \cup batch[s]
    /\ queue' = queue \cup batch[s]
    /\ batch' = [batch EXCEPT ![s] = {}]
    /\ pc' = [pc EXCEPT ![s] = "idle"]
    /\ UNCHANGED <<process, hollow, buffer, log,
                   accepted, received, lost, leftOver, revived>>

\* Post returns an error: attempts exhausted, an answer lost on the way back,
\* or the circuit open and nothing attempted at all.
PostFails(s) ==
    /\ pc[s] \in {"post", "posted"}
    /\ concluded' = concluded \cup batch[s]
    /\ pc' = [pc EXCEPT ![s] = "nack"]
    /\ UNCHANGED <<process, queue, hollow, batch, buffer, log,
                   accepted, received, lost, leftOver, revived>>

\* sendEvents returns.  The closer goes on to close the log.
SendDone(s) ==
    /\ pc' = [pc EXCEPT ![s] = "idle"]
    /\ batch' = [batch EXCEPT ![s] = {}]
    /\ hollow' = hollow \ batch[s]
    /\ phase' = IF s = Closer THEN "final" ELSE phase
    /\ UNCHANGED <<running, looping, lives, logging, queue, buffer, history>>

MarkSent(s) ==
    /\ pc[s] = "ack"
    /\ \E W \in SUBSET batch[s] : WriteStatus(batch[s], "sent", W)
    /\ SendDone(s)

MarkFailed(s) ==
    /\ pc[s] = "nack"
    /\ \E W \in SUBSET batch[s] : WriteStatus(batch[s], "failed", W)
    /\ SendDone(s)

\* Mutant: Stop does not flush.
BeginClose_NoFlush ==
    /\ phase = "up"
    /\ phase' = "final"
    /\ running' = FALSE
    /\ UNCHANGED <<looping, lives, logging, memory, log, history>>

\* Client.Close, EventQueue.Stop: nothing to stop, or flush unless empty.
BeginClose ==
    /\ phase = "up"
    /\ phase' = IF running THEN "stopping" ELSE "final"
    /\ running' = FALSE
    /\ UNCHANGED <<looping, lives, logging, memory, log, history>>

StopFindsQueueEmpty ==
    /\ phase = "stopping"
    /\ pc[Closer] = "idle"
    /\ queue = {}
    /\ phase' = "final"
    /\ UNCHANGED <<running, looping, lives, logging, memory, log, history>>

\* EventPersistence.Close: the ticker stops and the buffer is flushed.
CloseLog ==
    /\ phase = "final"
    /\ phase' = "closed"
    /\ IF buffer = {} THEN UNCHANGED <<buffer, log>> ELSE FlushBuffer(buffer)
    /\ UNCHANGED <<running, looping, lives, logging, queue, hollow, pc, batch, history>>

\* The loop sees stopCh closed; it may have flushed once more before.
LoopReturns ==
    /\ looping
    /\ ~running
    /\ pc[Loop] = "idle"
    /\ looping' = FALSE
    /\ UNCHANGED <<phase, running, lives, logging, memory, log, history>>

\* The process ends: a crash, or an exit that does not wait for the senders.
\* A flush it was in the middle of leaves some of its lines.
Crash ==
    /\ Alive
    /\ phase' = "down"
    /\ \E W \in SUBSET buffer : Append(W, "pending")
    /\ lost' = lost \cup {e \in InMemory : found'[e] = "none"}
    /\ running' = FALSE
    /\ looping' = FALSE
    /\ queue' = {}
    /\ hollow' = {}
    /\ pc' = [s \in Sender |-> "idle"]
    /\ batch' = [s \in Sender |-> {}]
    /\ buffer' = {}
    /\ UNCHANGED <<lives, logging, accepted, received, concluded, leftOver, revived>>

\* What a recovery takes for the last status of each event.  At a fault it
\* misses the rest of a file, or all of one, or returns with nothing at all;
\* without a log it is not even tried.
Reads(seen) ==
    /\ seen \in [Event -> Status]
    /\ \A e \in Event :
         \/ seen[e] = found[e]
         \/ IOFaults /\ seen[e] \in lines[e] \cup {"none"}

\* The events whose last line it did not get to.
Misread(seen) == {e \in Event : seen[e] # disk[e]}

\* Mutant: an event that was being sent is not recovered.
Recoverable_PendingOnly(seen) == {e \in Event : seen[e] = "pending"}

\* Mutant: failed events are recovered for another try.
Recoverable_FailedToo(seen) == {e \in Event : seen[e] \in Unfinished \cup {"failed"}}

\* What Recover returns: the events whose last line is pending or sending.
Recoverable(seen) == {e \in Event : seen[e] \in Unfinished}

\* Mutant: everything is recovered, whether or not the queue has room.
Fits_Unbounded(R, seen) == R = Recoverable(seen)

\* The part of them that RecoverEvents has room for.  Recover ranges over a
\* map, so which ones it takes is anyone's guess.
Fits(R, seen) ==
    /\ R \subseteq Recoverable(seen)
    /\ Cardinality(R) <= MaxSize
    /\ R = Recoverable(seen) \/ Cardinality(R) = MaxSize

\* RecoverEvents, with R for the events it puts into the queue.
Recover(seen, R) ==
    /\ Fits(R, seen)
    /\ queue' = R
    /\ hollow' = {e \in R : seen[e] = "sending"}
    /\ leftOver' = (Recoverable(seen) \cup Misread(seen)) \ R
    /\ revived' = R \cap Misread(seen)

\* A new process: NewClient creates the log, which starts a file of its own,
\* and recovers what there is.  If either fails it goes on without.
Restart ==
    /\ phase = "down"
    /\ lives < MaxLives
    /\ lives' = lives + 1
    /\ phase' = "up"
    /\ logging' \in BOOLEAN
    /\ logging' \/ IOFaults
    /\ \E seen \in [Event -> Status], R \in SUBSET Event :
         /\ Reads(seen)
         /\ ~logging' => \A e \in Event : seen[e] = "none"
         /\ Recover(seen, R)
    /\ stopped' = FALSE
    /\ UNCHANGED <<running, looping, pc, batch, buffer, disk, found, lines,
                   accepted, received, concluded, lost>>

\* The steps of sendEvents, which nobody has to ask for.
SendStep(s) ==
    \/ MarkSending(s) \/ PostSucceeds(s) \/ PostFails(s) \/ MarkSent(s) \/ MarkFailed(s)

Next ==
    \/ \E e \in Event : Track(e)
    \/ \E s \in Sender : TakeBatch(s) \/ Deliver(s) \/ SendStep(s)
    \/ TickFlush
    \/ Start
    \/ BeginClose
    \/ StopFindsQueueEmpty
    \/ CloseLog
    \/ LoopReturns
    \/ Crash
    \/ Restart

Spec == Init /\ [][Next]_vars

\* Goroutines run, and Post returns (http.Client.Timeout bounds each attempt,
\* the retries are finite).  Nobody has to track, flush, close or restart.
Fairness ==
    /\ WF_vars(TakeBatch(Loop))
    /\ WF_vars(TakeBatch(Closer))
    /\ \A s \in Sender : WF_vars(SendStep(s))

FairSpec == Spec /\ Fairness

-------------------------------------------------------------------------------

\* Every variable has its type.
TypeOK ==
    /\ phase \in {"up", "stopping", "final", "closed", "down"}
    /\ running \in BOOLEAN
    /\ looping \in BOOLEAN
    /\ queue \in SUBSET Event
    /\ hollow \in SUBSET Event
    /\ pc \in [Sender -> Step]
    /\ batch \in [Sender -> SUBSET Event]
    /\ buffer \in SUBSET Event
    /\ lives \in Nat
    /\ logging \in BOOLEAN
    /\ disk \in [Event -> Status]
    /\ found \in [Event -> Status]
    /\ lines \in [Event -> SUBSET Status]
    /\ stopped \in BOOLEAN
    /\ accepted \in SUBSET Event
    /\ received \in SUBSET Event
    /\ concluded \in SUBSET Event
    /\ lost \in SUBSET Event
    /\ leftOver \in SUBSET Event
    /\ revived \in SUBSET Event

\* No event is in the hands of two goroutines, or waits in the queue while
\* one is sending it: concurrent flushes never send an event twice.
SingleOwner ==
    /\ \A s \in Sender : queue \cap batch[s] = {}
    /\ \A s, t \in Sender : s # t => batch[s] \cap batch[t] = {}

\* A "sent" line is never written for an event the server has not received,
\* however flushes, failures and restarts interleave.
SentWasReceived == \A e \in Event : disk[e] = "sent" => e \in received

\* An accepted event never disappears while there is still work to do on it:
\* it is held in memory, or its Post has returned, or the log has it as
\* unfinished where a recovery can read it; only a crash before its line could
\* be read takes it away.
NothingLost ==
    \A e \in accepted :
        e \in InMemory \cup concluded \cup lost \/ found[e] \in Unfinished

\* While a process runs, what the log shows as unfinished is being worked on,
\* unless its Post has returned or the recovery had no room for it or did not
\* get to its last line.
UnfinishedIsHeld ==
    Alive => \A e \in Event :
        disk[e] \in Unfinished => e \in InMemory \cup concluded \cup leftOver

\* Neither Track nor a recovery fills the queue beyond MaxSize.
QueueBounded == Cardinality(queue) <= MaxSize

\* There are two ways back from a "sent" or "failed" line: the event's own
\* "pending" line still sits in the buffer, or a recovery that did not get to
\* the terminal line has put the event into the queue again.  But for them a
\* terminal status is final.
TerminalIsFinal ==
    [][\A e \in Event :
        /\ disk[e] \in {"sent", "failed"}
        /\ e \notin buffer \cup (revived \cap InMemory)
        => disk'[e] = disk[e]]_vars

\* How far an event is on its way, for the specification of queue and log
\* together.
UnderWay == UNION {batch[s] : s \in {t \in Sender : pc[t] \in {"mark", "post", "posted"}}}

Ended(e) ==
    /\ disk[e] \in {"sent", "failed"}
    /\ e \notin buffer \cup InMemory

Shelved(e) ==
    /\ ~Ended(e)
    /\ e \notin InMemory
    /\ found[e] \in Unfinished
    /\ Alive => e \in leftOver

Stage(e) ==
    CASE e \notin accepted -> "new"
      [] e \in queue -> "waiting"
      [] e \in UnderWay -> "sending"
      [] e \in lost \ concluded -> "lost"
      [] Ended(e) -> disk[e]
      [] Shelved(e) -> "stored"
      [] OTHER -> "settled"

Ledger == INSTANCE EventLedger WITH
    MayMisread <- IOFaults \/ Long # {},
    up <- Alive,
    stage <- [e \in Event |-> Stage(e)]

\* Queue and log keep the promise of EventLedger: within a process lifetime an
\* event is sent once and never goes back, only a crash loses one, only a
\* recovery brings one back, and if it reads the log to the end only one that
\* is not settled; an event whose Post has returned is never lost.
LedgerSpec == Ledger!Spec

\* An event that waits in a started queue gets its Post, if the process lives:
\* the loop takes it, or the final flush of Close does.
QueuedIsPosted ==
    \A e \in Event : e \in queue /\ running ~> e \in concluded \/ phase = "down"

-------------------------------------------------------------------------------

\* What a comment says of the program, and the code does not keep.

\* event_persistence.go:470: "Update existing event status": a status line
\* changes the status of an event and leaves the event what it was.
PayloadKept == hollow = {}
===============================================================================
