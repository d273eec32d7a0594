------------------------------- MODULE FlagSync --------------------------------
(***************************************************************************)
(* How client/client.go keeps its flag cache in step with the server:      *)
(* Initialize fetches every flag, refresh (called by the polling loop and  *)
(* by Client.Refresh) fetches those changed since lastUpdateTime, sets     *)
(* them in the cache one by one and moves lastUpdateTime.                  *)
(*                                                                         *)
(* No lock is held across these steps, and none at all for lastUpdateTime: *)
(* any number of calls may be anywhere in between.  The server is external *)
(* and assumed correct: an answer holds the latest version of each flag    *)
(* asked for, and CheckedAt (or ServerTime) is the moment it was made.  The *)
(* clocks of client and server agree.                                      *)
(***************************************************************************)
EXTENDS Integers, FiniteSets, Sequences

CONSTANTS
    Flag, EmptyKey, MaxSize,
    Bootstrap,          \* the keys of the bootstrap values
    Caller,             \* goroutines that may be inside Initialize or refresh
    Initializer,        \* those that call Initialize, the others refresh
    Poller,             \* the one of PollingManager.run
    Window,             \* how far back refresh asks without a lastUpdateTime
    MaxTime             \* bound: the last moment explored

Never == 0              \* the empty lastUpdateTime; the first moment is 1
Time == 0 .. MaxTime

ASSUME SyncAssumption ==
    /\ Bootstrap \subseteq Flag /\ IsFiniteSet(Bootstrap)
    /\ Initializer \subseteq Caller
    /\ Poller \in Caller \ Initializer
    /\ Window \in Nat
    /\ MaxTime \in Nat \ {0}
    /\ MaxSize \in Nat \ {0}

VARIABLES
    order, version,     \* the cache
    clock,              \* the time now
    modified,           \* at the server: the last change of each flag, 0 if none
    lastUpdateTime,     \* Client.lastUpdateTime
    ready,              \* Client.ready
    polling,            \* has the polling loop been started?
    faulted,            \* has a torn read ended the process?
    pc,                 \* where each caller is
    kind,               \* the request it makes: "init" or "updates"
    since,              \* the moment from which on it asks for changes
    reply,              \* the version of each flag in its answer
    checkedAt,          \* the moment of its answer
    todo,               \* the flags of the answer it has yet to set
    \* History, which no step depends on:
    newest,             \* the newest version ever set, for each flag
    grounded,           \* does the caller go by a complete cursor?
    synced,             \* does lastUpdateTime stem from an Initialize?
    overlapped          \* has a call ever begun while another was in progress?

FC == INSTANCE FlagCache WITH Version <- Time

cached == <<order, version>>
server == <<clock, modified>>
call == <<pc, kind, since, reply, checkedAt, todo>>
client == <<lastUpdateTime, ready, polling, faulted>>
history == <<newest, grounded, synced, overlapped>>
vars == <<cached, server, call, client, history>>

Step == {"idle", "asked", "apply", "stamp"}

-------------------------------------------------------------------------------

\* NewClient.  A bootstrap whose signature is wrong may not be applied.
Init ==
    /\ \E B \in {{}, Bootstrap} : FC!Filled(B)
    /\ version = [f \in Flag |-> 0]
    /\ clock = 1
    /\ modified \in [Flag -> {0, 1}]
    /\ lastUpdateTime = Never
    /\ ready = FALSE
    /\ polling = FALSE
    /\ faulted = FALSE
    /\ pc = [g \in Caller |-> "idle"]
    /\ kind = [g \in Caller |-> "updates"]
    /\ since = [g \in Caller |-> Never]
    /\ reply = [g \in Caller |-> [f \in Flag |-> 0]]
    /\ checkedAt = [g \in Caller |-> Never]
    /\ todo = [g \in Caller |-> {}]
    /\ newest = [f \in Flag |-> 0]
    /\ grounded = [g \in Caller |-> FALSE]
    /\ synced = FALSE
    /\ overlapped = FALSE

At(g, s) == ~faulted /\ pc[g] = s
Goto(g, s) == pc' = [pc EXCEPT ![g] = s]
Busy == {g \in Caller : pc[g] # "idle"}

\* A call returns, and its locals are gone.
Done(c) ==
    /\ Goto(c, "idle")
    /\ kind' = [kind EXCEPT ![c] = "updates"]
    /\ since' = [since EXCEPT ![c] = Never]
    /\ reply' = [reply EXCEPT ![c] = [f \in Flag |-> 0]]
    /\ checkedAt' = [checkedAt EXCEPT ![c] = Never]
    /\ todo' = [todo EXCEPT ![c] = {}]
    /\ grounded' = [grounded EXCEPT ![c] = FALSE]

\* At the server a flag changes, or is created.
Change(f) ==
    /\ clock < MaxTime
    /\ clock' = clock + 1
    /\ modified' = [modified EXCEPT ![f] = clock + 1]
    /\ UNCHANGED <<cached, call, client, history>>

Tick ==
    /\ clock < MaxTime
    /\ clock' = clock + 1
    /\ UNCHANGED <<modified, cached, call, client, history>>

\* A call begins: it asks for the changes after s, and g tells whether
\* everything up to s is known to have been set.
Ask(c, k, s, g) ==
    /\ Goto(c, "asked")
    /\ kind' = [kind EXCEPT ![c] = k]
    /\ since' = [since EXCEPT ![c] = s]
    /\ grounded' = [grounded EXCEPT ![c] = g]
    /\ overlapped' = (overlapped \/ Busy # {})
    /\ UNCHANGED <<cached, server, client, reply, checkedAt, todo, newest, synced>>

\* Client.Initialize, by WaitForReady too.
BeginInitialize(c) ==
    /\ At(c, "idle")
    /\ c \in Initializer
    /\ Ask(c, "init", Never, TRUE)

WindowStart == IF clock > Window THEN clock - Window ELSE Never

MayRefresh(c) ==
    /\ At(c, "idle")
    /\ c \notin Initializer
    /\ c = Poller => polling

\* Mutant: asks for what has changed since now.
BeginRefresh_FromNow(c) ==
    /\ MayRefresh(c)
    /\ Ask(c, "updates", clock, synced)

\* Client.Refresh, or the tick of the polling loop.
BeginRefresh(c) ==
    /\ MayRefresh(c)
    /\ IF lastUpdateTime = Never
         THEN Ask(c, "updates", WindowStart, FALSE)
         ELSE Ask(c, "updates", lastUpdateTime, synced)

\* lastUpdateTime is a string read without a lock: the read of the first value
\* while it is written can get its length with the nil pointer of the empty one.
TornRead(c) ==
    /\ MayRefresh(c)
    /\ lastUpdateTime = Never
    /\ \E d \in Caller \ {c} : pc[d] = "stamp"
    /\ faulted' = TRUE
    /\ UNCHANGED <<cached, server, call, lastUpdateTime, ready, polling, history>>

-------------------------------------------------------------------------------

Listed(c) ==
    {f \in Flag : modified[f] # 0 /\ (kind[c] = "init" \/ modified[f] > since[c])}

\* The server answers, and its list is applied.  Initialize goes on with
\* whatever it got.
Answer(c) ==
    /\ At(c, "asked")
    /\ Listed(c) # {} \/ kind[c] = "init"
    /\ reply' = [reply EXCEPT ![c] = [f \in Flag |-> IF f \in Listed(c) THEN modified[f] ELSE 0]]
    /\ checkedAt' = [checkedAt EXCEPT ![c] = clock]
    /\ todo' = [todo EXCEPT ![c] = Listed(c)]
    /\ Goto(c, IF Listed(c) # {} THEN "apply" ELSE "stamp")
    /\ UNCHANGED <<cached, server, client, kind, since, history>>

\* An empty list of updates ends a refresh, and lastUpdateTime stays.
NothingNew(c) ==
    /\ At(c, "asked")
    /\ Listed(c) = {} /\ kind[c] = "updates"
    /\ Done(c)
    /\ UNCHANGED <<cached, server, client, newest, synced, overlapped>>

\* No answer, or one that cannot be parsed.  The client is ready even so.
Fail(c) ==
    /\ At(c, "asked")
    /\ Done(c)
    /\ ready' = (ready \/ kind[c] = "init")
    /\ UNCHANGED <<cached, server, lastUpdateTime, polling, faulted,
                   newest, synced, overlapped>>

\* Mutant: a flag that is in the cache is left as it is.
SetFlag_OnlyNew(c, f) ==
    /\ At(c, "apply")
    /\ f \in todo[c]
    /\ IF f \in FC!Entries THEN UNCHANGED cached ELSE FC!Set(f, reply[c][f])
    /\ newest' = [newest EXCEPT ![f] = IF reply[c][f] > @ THEN reply[c][f] ELSE @]
    /\ todo' = [todo EXCEPT ![c] = @ \ {f}]
    /\ Goto(c, IF todo[c] = {f} THEN "stamp" ELSE "apply")
    /\ UNCHANGED <<server, client, kind, since, reply, checkedAt,
                   grounded, synced, overlapped>>

\* Cache.SetMany, one flag of the answer.
SetFlag(c, f) ==
    /\ At(c, "apply")
    /\ f \in todo[c]
    /\ FC!Set(f, reply[c][f])
    /\ newest' = [newest EXCEPT ![f] = IF reply[c][f] > @ THEN reply[c][f] ELSE @]
    /\ todo' = [todo EXCEPT ![c] = @ \ {f}]
    /\ Goto(c, IF todo[c] = {f} THEN "stamp" ELSE "apply")
    /\ UNCHANGED <<server, client, kind, since, reply, checkedAt,
                   grounded, synced, overlapped>>

\* Mutant: the cursor moves to the present, not to the moment of the answer.
Stamp_Now(c) ==
    /\ At(c, "stamp")
    /\ Done(c)
    /\ lastUpdateTime' = clock
    /\ synced' = grounded[c]
    /\ ready' = (ready \/ kind[c] = "init")
    /\ polling' = (polling \/ kind[c] = "init")
    /\ UNCHANGED <<cached, server, faulted, newest, overlapped>>

\* Mutant: the cursor moves to the moment asked for, not to that of the answer.
Stamp_Since(c) ==
    /\ At(c, "stamp")
    /\ Done(c)
    /\ lastUpdateTime' = since[c]
    /\ synced' = grounded[c]
    /\ ready' = (ready \/ kind[c] = "init")
    /\ polling' = (polling \/ kind[c] = "init")
    /\ UNCHANGED <<cached, server, faulted, newest, overlapped>>

\* lastUpdateTime moves; Initialize also starts the polling and is ready.
Stamp(c) ==
    /\ At(c, "stamp")
    /\ Done(c)
    /\ lastUpdateTime' = checkedAt[c]
    /\ synced' = grounded[c]
    /\ ready' = (ready \/ kind[c] = "init")
    /\ polling' = (polling \/ kind[c] = "init")
    /\ UNCHANGED <<cached, server, faulted, newest, overlapped>>

Next ==
    \/ \E f \in Flag : Change(f)
    \/ Tick
    \/ \E c \in Caller :
         \/ BeginInitialize(c) \/ BeginRefresh(c) \/ TornRead(c)
         \/ Answer(c) \/ NothingNew(c) \/ Fail(c) \/ Stamp(c)
         \/ \E f \in Flag : SetFlag(c, f)

Spec == Init /\ [][Next]_vars

\* The polling loop keeps refreshing, goroutines run, and a server that is
\* asked again and again answers some time.
Fairness ==
    /\ WF_vars(BeginRefresh(Poller))
    /\ SF_vars(Answer(Poller))
    /\ WF_vars(NothingNew(Poller) \/ Fail(Poller))
    /\ WF_vars(Stamp(Poller) \/ \E f \in Flag : SetFlag(Poller, f))

FairSpec == Spec /\ Fairness

-------------------------------------------------------------------------------

\* Every variable has its type.
TypeOK ==
    /\ FC!TypeOK
    /\ clock \in Time
    /\ modified \in [Flag -> Time]
    /\ lastUpdateTime \in Time
    /\ ready \in BOOLEAN
    /\ polling \in BOOLEAN
    /\ faulted \in BOOLEAN
    /\ pc \in [Caller -> Step]
    /\ kind \in [Caller -> {"init", "updates"}]
    /\ since \in [Caller -> Time]
    /\ reply \in [Caller -> [Flag -> Time]]
    /\ checkedAt \in [Caller -> Time]
    /\ todo \in [Caller -> SUBSET Flag]
    /\ newest \in [Flag -> Time]
    /\ grounded \in [Caller -> BOOLEAN]
    /\ synced \in BOOLEAN
    /\ overlapped \in BOOLEAN

\* The cache keeps to its size unless a flag has the empty key.
CacheBounded == FC!Bounded

\* Every change up to t has been in the cache at some time.
Covered(t) == \A f \in Flag : modified[f] <= t => newest[f] >= modified[f]

\* However calls overlap, the cursor never passes a change that the cache has
\* not seen, provided that it stems from an Initialize: no refresh skips a
\* change for good.
NothingSkipped == synced => Covered(lastUpdateTime)

\* While calls do not overlap, what the cache holds of a flag is its latest
\* change, as far as the cursor goes: the next refresh need not ask for it.
Current ==
    \A f \in Flag \cap FC!Entries : modified[f] <= lastUpdateTime => version[f] = modified[f]

SerialIsCurrent == synced /\ ~overlapped => Current

\* Only calls that overlap take the client back: while they come one after the
\* other, neither the cursor nor what the cache has of a flag ever gets older,
\* whichever requests fail, find nothing or come without a cursor.
SerialNeverGoesBack ==
    [][~overlapped' =>
         /\ lastUpdateTime' >= lastUpdateTime
         /\ \A f \in Flag : version'[f] >= version[f]]_vars

\* With the polling running, every change comes to the cache, whatever other
\* calls do in between.
ChangesArrive ==
    \A f \in Flag : \A t \in Time :
        polling /\ modified[f] = t ~> newest[f] >= t \/ ~synced \/ faulted

-------------------------------------------------------------------------------

\* README.md:208: "All SDK methods are safe for concurrent use from multiple
\* goroutines": once every call has returned, the cache is as current as it is
\* when the calls come one after the other.
ConcurrentIsCurrent == synced /\ Busy = {} => Current
===============================================================================
