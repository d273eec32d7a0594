# A verification project for the FlagKit Go SDK

TLA+ models of the SDK's concurrent and failure-prone parts, TLC configurations
that check them on small instances, and TLAPS proofs of what matters most for
every instance. Line numbers are those of the repository at the modelled commit.

    tlc -workers 2 -config MCHttpClient.cfg MCHttpClient.tla     # a run
    tlapm HttpClientProofs.tla                                   # a proof module

## 1. The system

A program creates a `Client` (or the package-level singleton), calls `Initialize`,
evaluates flags from the local cache and tracks events. In the background one
goroutine polls for changed flags and one sends events; the application calls the
same methods from any goroutine. One `HTTPClient` with one circuit breaker is under
everything that goes to the network.

    application --> Client --evaluate--> Cache <--SetMany-- Initialize / refresh <-- PollingManager
                      |                                          |
                      |--Track--> EventQueue --sendEvents--------+--> HTTPClient --> CircuitBreaker
                      |               |                          |        \--> server
                      |               +--Persist, MarkX--> EventPersistence --> log files
                      +--Close--> all of these                (StreamingManager: not wired in)

### Inventory

| Component (source) | State | Operations | What is hard | What makes it correct |
|---|---|---|---|---|
| Circuit breaker (`internal/http/circuit_breaker.go`) | state, two counts, half-open slots, time of last failure | Allow, RecordSuccess, RecordFailure, Reset | reports come in any order, also from calls of an earlier period | no count outlives its state; the half-open limit is exceeded by a bounded amount at most |
| HTTP client (`internal/http/client.go`, `retry.go`) | current key; per call: attempt, key read, path | Get, Post: retry, back-off, cancellation, rotation, signing, classification of errors | two requests rotate at once; the key is read twice; every path must report to the breaker once | one report per admission; bounded sends; every call returns; 401 leads to the secondary key |
| Event queue (`internal/core/events.go`) | queue, running, loop | Track, Flush, Start, Stop, RecoverEvents | loop, Close and application flush at once; queue at its limit | an event has one owner; a started queue gets its events posted |
| Event persistence (`internal/persistence/event_persistence.go`) | buffer, log, current file | Persist, Flush, MarkSending/Sent/Failed, Recover, Cleanup, Close | crash at any line; failed writes; status lines that overtake the event's own line; a recovery that fails, in part or wholly | sent is said only of received events; nothing accepted disappears while unfinished |
| Flag cache (`internal/core/cache.go`) | entries with fetch and expiry times | Get, GetStale, Set, SetMany, Delete, Clear, eviction | eviction at the limit; SetMany is not atomic | bounded; the newest version wins |
| Flag synchronisation (`client/client.go`) | lastUpdateTime, ready, pollingManager | Initialize, refresh, applyBootstrap | calls overlap without a lock; answers arrive out of order; failed first fetch | no change is skipped; every change arrives |
| Client life cycle (`client/client.go`, `flagkit.go`, `exports.go`) | closed, ready, singleton | NewClient, Initialize, WaitForReady, Close, Shutdown | Close during Initialize; two Initialize calls; Track after Close | after Close nothing runs; at most one polling loop |
| Evaluation (`client/client.go`) | reads cache, options | evaluate and the typed getters | expiry between lookups; fallbacks skip the type check | a value of the type asked for, or the default |
| Polling (`internal/core/polling.go`) | interval, errors, running, stopCh | Start, Stop, OnSuccess, OnError, Reset, PollNow, run | Stop and Start during a poll; back-off limits | one loop; interval between base and maximum |
| Streaming (`internal/core/streaming.go`) | connection state, failures, token timer, cancel function | Connect, Disconnect, RetryConnection, token fetch and refresh, events, reconnect, heartbeat | Disconnect races token fetch and untracked timers | nothing connects after Disconnect; one connection |
| Security (`security/security.go`) | none | PII check, request and bootstrap signatures | age boundary, canonical form | order of keys does not matter; old signatures fail |
| Encrypted storage (`internal/storage/encrypted_storage.go`) | a map of ciphertexts | Set, Get, Delete | nothing in the SDK calls it | what is set is what is got |
| Version, context, options, errors, types, loggers, lab | none to speak of | pure functions | boundaries of parsing and merging | reference definitions |

`PROJECT.json` lists the same components with their status, and under `hazards` every
place where this code is hard to test, with the properties that watch it.

## 2. Modules

| Module | Models | Uses |
|---|---|---|
| `CircuitBreaker` | the breaker and the calls wrapped in it | |
| `HttpClient` | Get and Post by several goroutines | `CB == INSTANCE CircuitBreaker`: calls its methods, keeps the protocol of its `Spec` |
| `EventLedger` | what queue and log promise together, as an abstract specification | |
| `EventPipeline` | queue, loop, flushers, Close, log, crash, restart | `Ledger == INSTANCE EventLedger`; implements its `Spec` |
| `FlagCache` | the cache | |
| `FlagSync` | Initialize, refresh and polling against a changing server | `FC == INSTANCE FlagCache`: calls its methods |
| `Polling` | a polling manager and its loops | |
| `ClientLifecycle` | Initialize, WaitForReady, Refresh and Close over managers and queue | `Managed(m) == INSTANCE Polling` for each manager; implements them all |
| `Streaming` | a streaming manager, its connections and timers | |
| `Evaluation` | the look-ups of evaluate, bootstrap, getters | `FC == INSTANCE FlagCache`: calls its methods; EXTENDS `Security` |
| `Security`, `SemVer`, `EvaluationContext` | signatures, version order, contexts: operators without state | |
| `MC*` | symmetry sets and instances for TLC | |
| `*Proofs` | theorems, each module EXTENDS its component's | `HttpClientProofs` uses `CircuitBreakerProofs`, and `LifecycleProofs` `PollingProofs`, through the refinements |

Operators whose name has an underscore (`SetFlag_OnlyNew`) are mutants: the definition
of the same first name with a plausible bug. No specification uses them; each shows
that some property notices the bug.

### CircuitBreaker

Each method holds `cb.mu`, so it is one step. The clock is one bit, `cooled`: has
`ResetTimeout` passed since `lastFailureTime`, which is all Allow asks. `call[c]` is
what a call holds: nothing, an `ordinary` admission or one as a `probe` of the present
half-open period; when the period ends its probes become ordinary (`Retired`). The
code keeps no such record, and that is the point: in half-open every report is counted
as a probe's, so stragglers of an earlier period take slots off `halfOpenInProgress`.
`Leak` is how many slots are taken that no probe will give back; `LeaksOnlyByAbandon`
says which step can add to them.

What the methods do (`Grant`, `CountSuccess`, `CountFailure`, and `Leave` for a caller
that says nothing) is apart from when a call may do it: the code's breaker does not
know its caller and counts a report from anybody. The actions of this module add what
the code leaves to the caller, that a call asks once and reports once.

### HttpClient

`pc[r]` follows a goroutine through `request`: admission, the read of the key for the
header, the second read for the signature, the wire, back-off, exhaustion, rotation.
Each lock region is a step. The server's answer is any of the classes the code tells
apart (success, 401/403, other permanent error, retryable). GETs are goroutines outside
`Poster`: they neither sign nor rotate. Cancellation is possible in back-off, where the
code selects on the context, and leaves the breaker without a report (`Abandon`). The
breaker's variables are the module's own. The client calls the breaker's methods
without a guard, so a path that reports twice, not at all, or without an admission is
possible in the module as it is in the code, and `BreakerSpec` says that there is none:
every behaviour of the client is one of the breaker's, whose actions have the guards.

### EventPipeline

The queue, the batches in the hands of senders (`Loop`, `Closer`, others), the
persistence buffer and the log. A step is one lock region: Track (with Persist and the
flush of a full buffer), the swap of Flush, MarkSending, the answer of Post, MarkSent
or MarkFailed. `Deliver` is the server receiving the batch, separate from the answer,
so an answer can be lost. `Crash` ends the process at any point and may leave part of a
flush in the file. `hollow` marks events recovered from a bare status line, without
payload.

Of the log the module keeps what a recovery can make of it, for each event: `disk`, the
last status in it; `found`, the last one before the place where the scanner stops; and
`lines`, every status on the way there. The scanner stops for good (`stopped`) at a line
over 64 KB, which the own line of the events in `Long` is, and goes on with the next
file, that is with the next process. With `IOFaults` any write may fail or be partial,
any reading may end early or skip a file, and the log may fail to open, after which the
process runs without one (`logging`). Which lines of different events are missed
together is left open.

`Restart` is NewClient with RecoverEvents, whose failures are only logged: it takes up
what it has `seen`, as much as fits the queue, or nothing. What it had no room for or
misread is `leftOver`, what it took up although it misread it `revived`. These two and
`accepted`, `received`, `concluded`, `lost` are history that no step reads.

Abstracted: the order of events in a batch; the two triggers of the loop (ticker and
`flushCh`) are one; log files are one log, read in order, which holds for one process
at a time since file names carry a timestamp; a line is there or not there, never torn.

`EventLedger` leaves out the log and who flushes: of each event it has how far it is
(`stage`: new, waiting, sending, settled, sent or failed for good, stored, lost) and
whether the server has it. In one process lifetime an event goes that way once and
never back; only a crash loses one, and only before its Post has returned; only a
restart brings one back, and only from the unfinished part of the log, or, if it may
overlook the end of the log (`MayMisread`), also one that had ended. `Stage` in
`EventPipeline` maps queue, batches, buffer and log to it. An event whose Post has
returned is `settled` until its line can no longer change, so a status line that
overtakes the event's own is within the promise, and a second Post of that event after
a crash is too.

### FlagCache and FlagSync

The version of a flag is the time of its last change, 0 for a bootstrap value; the
first moment is 1, and 0 (`Never`) is the empty `lastUpdateTime`. (`FlagCache` itself takes
any set of versions, and for `Evaluation` a version is the value.) A call of Initialize
or refresh reads the cursor, asks, gets its answer (the server's state at that moment),
sets the flags one by one, and moves the cursor; between any two of these other calls
and changes at the server come. `TornRead` is the data race on the string
`lastUpdateTime`. The server is external and assumed correct, the clocks equal; on a
refresh without a cursor the code asks for the last hour, which is `Window`.
History: `newest` (newest version ever set), `synced` (the cursor stems from an
Initialize through an unbroken chain of refreshes), `grounded` (a call goes by such a
cursor), `overlapped`.

### Polling

`loops` are the goroutines of `run()`. Each reads `stopCh` anew, without the mutex,
every time round, so what Stop closes need not be the channel a loop waits on next:
`told` are those that wait on a closed one. A Stop and a Start while a loop is in its
callback leave it to go on beside its successor; `restarted` remembers that this may
have happened. Time is left out: a timer may fire whenever a goroutine waits for it,
and a `select` whose channel is closed too may still choose the timer (`TimerFires`).
`PollNow` polls in its caller's goroutine; a callback that panics counts as an error.

### ClientLifecycle

`closed` and `ready` are behind the client's mutex; `pollingManager` is not, and is
read anew at every use, so the check for nil, the creation, the assignment and the
`Start` of startPolling are steps of their own. The loops of each manager are those of
`Polling`, with the client's refresh for a callback: `Managed(m)` hides the rest of
the client and `ManagersPoll` says that each manager is a `Polling` whatever the client
does. `overlapped` marks that an Initialize met another one or a Close.

### Streaming

The region under the mutex is the step again. `pc[w]` follows a goroutine through
initiateConnection, createConnection and readEvents, or through the callback of a
timer; `back[w]` is where it goes on after a method that a reader calls as well. Three
timers are kept by the manager and stopped by cleanup; those of scheduleReconnect
(`reconnects`) are kept by nobody, and a heartbeat timer that is overwritten while
armed becomes a stray. A timer that has fired is a callback that runs, whatever Stop
says then. `cancelFunc` is the goroutine whose request it cancels. Whether a heartbeat
was recent is one bit. The server is external: it may grant or refuse a token, accept,
refuse or drop a stream and send any of the error codes the code tells apart.

### Evaluation

`evaluate` looks for a fresh entry, for any entry and in the options; each look is a
step, and between two of them other goroutines set, evict and expire. A value is the Go
type it has, the type it is declared to have and the source it comes from, which is all
the getters and the fallbacks tell apart. `Init` is applyBootstrap: any set of signed
values, right or wrong key, in time or not, under any verification; `genuine` is what
the verification asked for means, stated apart from the code's branches. `stayed` says
that the key was in the cache all the time since the evaluation began.

### Security, SemVer, EvaluationContext

Operators without state. An HMAC is a record of what was signed with which key, a
version string is three numbers or `Unparsable`, a context is its fields, custom
attributes and private names. `Evaluation` uses the first; the assumptions of
`MCEvaluation` compare the others with reference definitions over small inputs: the
sign of Compare with the lexicographic order (`CompareIsLexicographic`), stripping with
the restriction to what is not private (`StripIsRestriction`), and the eviction by which
`FlagCache` describes a bootstrap with the fold of Set (`FilledIsFold`).

## 3. Runs

| Run | Bounds | Shows |
|---|---|---|
| `breaker` | 5 calls, thresholds 3 and 3, 2 slots | counters rest below their thresholds; how far stragglers inflate probes (`ProbeAccounting`, `ProbeBound`); a slot leaks only by a probe that returns without a report |
| `http` | 2 posters, 2 attempts, secondary key, signing | slot accounting, send budget, signature not older than the header's key, no report to the breaker missing or doubled (`BreakerSpec`); every call returns; only a cancelled probe can wedge half-open |
| `pipeline` | 2 events, one with a line too long to be read; loop, closer and one application goroutine; queue of 1, buffer of 2, faults of writing and reading, 2 lives | one owner per event, no loss, no false "sent", terminal lines final, what is unfinished is held or left over, queue bounded |
| `ledger` | same, no faults | refinement of `EventLedger`; a queued event is posted |
| `payload` (violation) | same, queue of 2, no line too long | an event is recovered without its payload |
| `flagsync` | poller, one Initialize caller, one Refresh caller; 2 flags, one of them bootstrapped; cache of 1; times 1 to 2 | cursor never passes an unseen change; serial calls leave the cache current and never take it or the cursor back; cache bounded; every change arrives |
| `concurrent` (violation) | 1 flag, times 1 to 3 | overlapping calls leave an old flag in the cache for good |
| `polling` | 3 goroutines, interval 3, maximum 5, multiplier 2 | an active manager is polled, by one loop unless a Start overtook the end of the last; interval bounded; a stopped manager's loops end |
| `lifecycle` | 3 goroutines, 2 managers, interval 1, maximum 2 | what runs is in the client's reach, one polling goroutine at most; every manager is a `Polling`; loops end after Close; the client gets ready |
| `close` (violation) | same | a Close that meets an Initialize leaves a manager running |
| `streaming` | 2 goroutines, 2 failures until fallback, 1 untracked timer of each sort | no dead end; one request, in reach of `cancelFunc`; a stranded manager recovers; when a Disconnect is honoured (`DisconnectKept`) |
| `evaluation` | 3 keys, one empty; cache of 2; 1 evaluating goroutine; 2 kinds of value from the server, an int32 in the options, signed values of every sort | cached flags are served, listed ones found, zeros made up only where types are unchecked, refused values never served |

Why the bounds suffice. Breaker: 5 calls exceed 2 slots, so stragglers, probes and
waiting calls exist together, and a threshold of 3 has a value below, at and above the
middle. HTTP: two posters are what every race on the key or on a slot needs; 2 attempts
have a retry and an exhaustion. Pipeline: 2 events overfill a queue of 1 and fill the
buffer, three senders flush at once, and two lives have a crash between any two steps
and a recovery from any log the first left, read in full, in part or not at all; a third life starts from a log of the same kind as the second. One long line of
two is what hides lines of its own event and of the other. The refinement is checked
without faults, since with them its state space is too large for a routine run; it is
proved with them. Sync: a flag with two versions and two calls is all that
an overtaking needs; the cache of 1 evicts at every second key. Polling: two loops and
a caller are what a Start that overtakes needs, and the interval has a value that the
cap cuts (3, 5). Lifecycle: two managers exist only by two Initialize calls in
startPolling, and a third goroutine runs a loop or closes. Streaming: an attempt meets a
reader, a callback or another attempt; three goroutines have too many states for a
routine run, and its safety properties are proved for any number. Evaluation: goroutines
that evaluate touch nothing of each other's, so one of them with an environment that
sets, evicts and expires is enough; the proofs are for any number. All safety results
but those that name a violation are proved, and need no bound.

Deadlock is not checked where the system may really stop: a finished process, a faulted
one, calls that nobody makes, goroutines that the bound does not provide.

## 4. Fairness

* `HttpClient`: a goroutine inside Get or Post runs on; `http.Client.Timeout` bounds the
  wait for an answer, back-off is a timer. Time passes (`Elapse`). Nobody has to start
  or to cancel a call.
* `EventPipeline`: the loop and the final flush of Close take a waiting queue, senders
  run on, Post returns (previous item). Nobody has to track, close or restart.
* `FlagSync`: the polling loop refreshes again and again, its goroutine runs on, and
  (strong fairness) a server that is asked for ever answers some time. Other callers
  may stall anywhere.
* `Polling` and `ClientLifecycle`: goroutines run, callbacks and requests end (previous
  items). Leaving a loop is strongly fair: while the channel is closed and the timer
  due, Go's `select` chooses between them at random and does not choose the timer for
  ever. Nobody has to start, stop or close, and no timer has to fire.
* `Streaming`: goroutines go on with what depends on nobody else, timers fire, and
  silence is noticed. Neither the application nor the server has to do anything; the
  manager's HTTP client has no timeout, so no request, not even for a token, has to end.

`Recovers` and `GetsReady` except states in which the bound on goroutines or managers
stops the model, which nothing in the program corresponds to.

## 5. Proofs

Every theorem holds for all finite sets of calls, goroutines, managers, events and flags
and for all limits allowed by the named assumptions. Each `*Proofs` module has
its component's `TypeCorrect`.

* `CircuitBreakerProofs`. `CountersCorrect`; for `AccountingCorrect` the invariant
  counts: probes out <= halfOpenInProgress + successes. Every probe admitted adds one to
  both sides, every report takes one off the slots and either adds a success (whoever
  reports) or ends the period, which empties the probes. `ProbesBounded` follows, since
  successes stay below their threshold while the circuit is half-open.
  `SlotsLeakOnlyByAbandon` goes through what each step does to slots and to probes: an
  admission adds one to both, a probe's report takes one off both, a straggler's off the
  slots alone, and whatever ends the period forgets both; what is left is `Abandon`.
* `HttpClientProofs`. The invariants come first, among them `SlotHeldWhileOwed`: a
  goroutine holds an admission exactly where it still owes a report. With it
  `HttpImplementsBreaker` is a step simulation: the breaker's own methods check nothing, so
  that a goroutine that asks has no admission (`GrantHolds`) and one that reports has
  one (`ReportReleases`) has to come from where it is in the code. `ClientProbesBounded` and
  `ClientCountersCorrect` carry the breaker's theorems over through the refinement, so
  they hold of the client without proofs of their own. `OnlyCancelsLeak` adds to the
  breaker's leak theorem which of the client's steps that one is: `Cancel` alone takes a
  goroutine's admission away and leaves the breaker as it is. `AttemptsBounded`
  strengthens the budget by the attempt number and by where a rotation can still happen. `SignaturesNotOlder` and `AuthErrorsRotate` rest on
  one fact, that the current key never goes back.
* `EventPipelineProofs`. One inductive invariant for `EventsHaveOneOwner`,
  `SentOnlyIfReceived`, `NoEventDisappears`, `UnfinishedEventsHeld`, `TerminalLinesFinal`:
  beside the properties it says where a sender's batch is on its way (`Progress`), what
  the statuses of unsettled events can be (`Unsettled`), and that the buffer holds only
  events that are in memory or past their Post (`BufferHeld`). What a recovery sees is no
  help for it beyond what `LogSound` says of the lines it can come by: what is in `found` is
  among `lines`, and what has a readable line has a last one. `QueueStaysBounded` is apart.
  `CleanLogRecovered` is the other half: with storage that does not fail and no line too
  long (`CleanStorage`) `found` is `disk`, so that a restart takes up exactly the unfinished
  events, or as many as fit, and none that is sent or failed. `PipelineImplementsLedger`
  needs of each history variable what it is for (`Placed`): an event that is at work again
  after its Post once returned has a line in the log, a lost one is nowhere, one left over is in the log only. Then what leaves the
  buffer is written (the lemmas on what each step does to the log), a terminal line that
  nothing in the buffer can overtake stays (`LineStays`), and step by step: Track accepts,
  the swap of Flush takes, Deliver receives, the answer settles, MarkSent and MarkFailed
  conclude or leave the event settled, and a flush of the buffer is a stutter.
* `FlagSyncProofs`. `ChangesNotSkipped`: a grounded call asks from a covered moment; what
  its answer lists is still the latest unless it changed after the answer
  (`ReplyLatest`); what it no longer has to set has been seen (`AppliedSeen`); so at the
  end the moment of the answer is covered. `SerialCallsCurrent` adds that without
  overlap one call at most is busy and its answer is never older than the cache.
  `SerialCallsGoForward`, an action property, adds that the cursor is never past the
  answer that is being applied (`CursorBehind`).
  `CacheKeepsToSize` rests on lemmas about the order of the entries: no key twice
  (`IsInjective`), so its length is the number of entries, and Set never lengthens one
  that is full, which is why `FlagCache` describes eviction without recursion.
* `PollingProofs`. `ActiveIsPolled` needs to know who can have been told (`Threads`): only
  loops that wait, and all of those once the manager is stopped; so Start, which finds it
  stopped, adds a loop that has not been. `NoSecondLoop` is inductive as a statement
  about loops (`Single`), and about their number only in the end.
* `StreamingProofs`. `NoDeadEnd` is inductive only with a stronger claim for connecting
  (`Pursued`: somebody whose request is not cancelled) and with `Clean`, that a goroutine
  without a request is neither cancelled nor what `cancelFunc` cancels: otherwise a
  cancellation meant for an old request could end a new attempt. `OneRequestAtMost`
  rests on `Alone`: of two attempts one has been cancelled, unless one began amid others.
  `DisconnectHonoured` proves when Disconnect is honoured (`DisconnectKept`), which it is
  not always (section 6): with `OneRequest`, a Disconnect that finds no token fetch, no callback or failure in
  progress and no timer of scheduleReconnect cancels all there is (`Quiet`), and from a
  quiet state nothing happens but by a call of the application.
* `LifecycleProofs`. For `NothingOutOfReach` the invariant says that Close is entered
  once (`ClosesOnce`), that without overlap there is one Initialize at a time, none in
  a closed client, and one manager at most (`Serial`), that there is no loop before that
  manager is first started and one at most after (`OneLoop`), and what stays down (`Down`).
  `EachManagerPolls` is the step simulation, once for each manager: a step that it
  sees nothing of (`NothingSeen`) is a stutter, the others are steps of a `Polling`.
  Through it the invariant of `PollingProofs` holds of each manager (`theManager` is any of
  them): an active one has a loop that has not been told to stop (`ActiveManagerPolls`),
  its interval is bounded whoever reports to it (`ManagerIntervalBounded`), and, with
  `Down`, no loop sleeps through a Close (`CloseTellsEveryLoop`), which is the safety part
  of `PollingEnds`.
* `EvaluationProofs`. One inductive invariant for `CachedFlagsServed`,
  `ListedFlagsFound`, `ZerosUnchecked` and `RefusedValuesNotServed`: what the goroutine
  looks for (`Looking`), that a listed flag is still there or the cache has filled up
  (`ListedHeld`), that a looked-at value has the type asked for (`Typed`), and that no
  refused value is in the cache (`EntriesGenuine`), which the initial states establish
  for every signature, key and time. Of the pure operators: when a request, a payload
  and a bootstrap verify (`RequestIsGenuine`, `PayloadRoundTrip`, `BootstrapIsGenuine`),
  that Compare is a strict order and its subtraction cannot overflow, so that an upgrade of
  the SDK never adds a warning about its version (`UpgradeIsNoReproach`), that merging is
  associative and makes nothing public (`MergeKeepsPrivate`, of what is sent after
  stripping), that anonymity sticks.

Only model-checked: liveness (`EveryCallReturns`, `HalfOpenNotWedged`, `QueuedIsPosted`,
`ChangesArrive`, `StopEnds`, `PollingEnds`, `GetsReady`, `Recovers`), which is out of
TLAPS's reach, and the comparisons of `MCEvaluation` with reference definitions.

## 6. Where the code and its documentation part

With a run that shows it:

* `concurrent`: README.md:208 calls all methods safe for concurrent use. Overlapping
  refreshes can leave the cache with an old version of a flag behind a cursor that has
  passed the newer one; it stays until the flag changes again.
* `close`: client.go:495 says that Close cleans up. Initialize looks at `closed` before
  its request only; a Close in between finds no polling manager, and Initialize starts
  one, which nothing can stop any more.
* `payload`: a status line replaces the event when the log is read, so an event that
  was being sent at a crash comes back without type, time and data
  (event_persistence.go:470 means to update the status only).

Seen while modelling, and part of what the modules do, without a run of their own; the
passing runs and the proofs say what remains true:

* streaming.go:158 says that Disconnect stops the connection. During the token fetch
  there is nothing to cancel, and the goroutine connects afterwards; a timer of
  scheduleReconnect, which cleanup does not know, does so too. `DisconnectKept` is what
  remains true.
* tests/event_persistence_test.go:221 expects that an event with a sent line is not
  recovered. The reading of a log file ends at its first line over 64 KB, with an error
  that is only logged (event_persistence.go:424-427); what the lines after it say, sent
  included, is missed. `TerminalIsFinal` and `UnfinishedIsHeld` except what a recovery
  misread, `CleanLogRecovered` is what holds of one that did not.
* options.go:66-68 promises failover on 401. A Post that gets its 401 after another
  goroutine has rotated returns the error without trying the secondary key
  (`AuthErrorLeavesSecondary` is what remains true).
* cache.go:107 means to enforce the size. `evictOldest` takes the empty key for none, so
  once a flag with that key is the oldest nothing is evicted any more (`CacheBounded`
  excepts it).
* polling.go:76 says that Stop stops the loop. The loop reads `stopCh` anew each time
  round; after a Stop and a Start in between it goes on beside the new loop (`OneLoop`
  excepts it, `RunningIsPolled` and `StopEnds` do not).
* README.md:208 again: two Initialize calls find no polling manager and both start one,
  of which the client keeps the second; the first polls on for ever (`InReach` excepts it,
  `ManagersPoll` does not).
* options.go:148-149 promises that events are on disk before they are queued. They are
  in a buffer (`NothingLost` excepts what a crash takes with it: `lost`).
* A status line overtakes the event's own buffered line; after a restart a sent event is
  sent again, with no line too long (`TerminalIsFinal` excepts this too).
* options.go:107 gives signed bootstrap values precedence over `Bootstrap`, but evaluate
  falls back on `Bootstrap` (client.go:579) also when signed ones were applied, or
  refused.

## 7. Not modelled

* Several log files, several processes on one directory, and `Cleanup`, which nothing in
  the SDK calls: names and ages of files would be the whole state of such a model.
* Torn lines of a log, which a recovery skips one by one (whole lines that are missed and
  readings that end early are modelled); an event that cannot be marshalled.
* Deletion of flags at the server: no answer could tell it from a flag that did not
  change, so that the client keeps such a flag follows from the shape of the protocol.
* Offline mode, in which nothing starts; time and jitter of delays, except for their
  order; usage metrics, logging, error texts, PII detection, JSON and SSE parsing, the
  canonical form of a bootstrap (taken as injective).
* Encrypted storage (nothing calls it), options (their validation is what the
  assumptions on constants say, and where it is missing they are as weak), the singleton
  facade (one mutex around everything), errors, types, loggers and the lab.

## 8. What is left

1. `EventLog`: several files and processes, Cleanup with a crash inside, refining the
   one log of `EventPipeline`.
2. The cache's bound over `Evaluation`, where expired entries are deleted as well; now it
   is proved over `FlagSync`. With Delete it holds only where no flag ever had the empty
   key: a cache that has outgrown its size around that key stays too large without it.
3. The composition of `ClientLifecycle` with `FlagSync` and the final flush of
   `EventPipeline`; each sees the others as steps that come at any time now.
4. `Streaming` with three goroutines, in a run that may take long, and its composition
   with the client once the client creates a manager.
