---------------------------- MODULE FlagSyncProofs -----------------------------
(***************************************************************************)
(* Proofs about FlagSync for any number of flags, callers and moments: no  *)
(* refresh skips a change for good, however calls overlap, and calls that  *)
(* do not overlap leave the cache as current as the cursor says.  The cache *)
(* keeps to its size, whatever is set in which order.                      *)
(***************************************************************************)
EXTENDS FlagSync, SequenceTheorems, FiniteSetTheorems, TLAPS

\* The types the argument needs; the order of the entries is not among them.
Types ==
    /\ clock \in Time
    /\ modified \in [Flag -> Time]
    /\ lastUpdateTime \in Time
    /\ pc \in [Caller -> Step]
    /\ kind \in [Caller -> {"init", "updates"}]
    /\ since \in [Caller -> Time]
    /\ reply \in [Caller -> [Flag -> Time]]
    /\ checkedAt \in [Caller -> Time]
    /\ todo \in [Caller -> SUBSET Flag]
    /\ version \in [Flag -> Time]
    /\ newest \in [Flag -> Time]
    /\ grounded \in [Caller -> BOOLEAN]
    /\ synced \in BOOLEAN
    /\ overlapped \in BOOLEAN

\* Nothing the client holds is from the future.
NotAhead ==
    /\ lastUpdateTime <= clock
    /\ \A f \in Flag : modified[f] <= clock /\ newest[f] <= modified[f]
    /\ \A c \in Caller : checkedAt[c] <= clock /\ since[c] <= clock
    /\ \A c \in Caller, f \in Flag : reply[c][f] <= modified[f]

\* A grounded call asks from a moment up to which everything has been seen.
GroundedCovered == \A c \in Caller : grounded[c] => Covered(since[c])

Applying(c) == pc[c] \in {"apply", "stamp"}

\* What an answer lists is still the latest version, unless the flag has
\* changed after the answer was made.
ReplyLatest ==
    \A c \in Caller : Applying(c) =>
        \A f \in todo[c] : modified[f] <= checkedAt[c] => reply[c][f] = modified[f]

\* What a grounded answer does not list any more has been seen.
AppliedSeen ==
    \A c \in Caller : Applying(c) /\ grounded[c] =>
        \A f \in Flag \ todo[c] : modified[f] <= checkedAt[c] => newest[f] >= modified[f]

NothingLeft == \A c \in Caller : pc[c] = "stamp" => todo[c] = {}

CoverInv ==
    /\ Types
    /\ NotAhead
    /\ GroundedCovered
    /\ ReplyLatest
    /\ AppliedSeen
    /\ NothingLeft
    /\ NothingSkipped

-------------------------------------------------------------------------------

LEMMA InitCover == Init => CoverInv
<1> SUFFICES ASSUME Init PROVE CoverInv
  OBVIOUS
<1> USE SyncAssumption DEF Init, Never, Time
<1>1. version = [f \in Flag |-> 0]
  OBVIOUS
<1>2. Types
  <2>1. 0 \in Time /\ 1 \in Time
    OBVIOUS
  <2>2. clock \in Time /\ lastUpdateTime \in Time /\ modified \in [Flag -> Time]
    BY <2>1
  <2>3. pc \in [Caller -> Step] /\ kind \in [Caller -> {"init", "updates"}]
    BY DEF Step
  <2>4. since \in [Caller -> Time] /\ checkedAt \in [Caller -> Time]
    BY <2>1
  <2>5. reply \in [Caller -> [Flag -> Time]] /\ todo \in [Caller -> SUBSET Flag]
    BY <2>1
  <2>6. version \in [Flag -> Time] /\ newest \in [Flag -> Time]
    BY <1>1, <2>1
  <2>7. grounded \in [Caller -> BOOLEAN] /\ synced \in BOOLEAN /\ overlapped \in BOOLEAN
    OBVIOUS
  <2> QED
    BY <2>2, <2>3, <2>4, <2>5, <2>6, <2>7 DEF Types
<1>3. NotAhead
  BY DEF NotAhead
<1>4. GroundedCovered /\ ReplyLatest /\ AppliedSeen /\ NothingLeft /\ NothingSkipped
  BY DEF GroundedCovered, ReplyLatest, AppliedSeen, NothingLeft, NothingSkipped, Applying
<1> QED
  BY <1>2, <1>3, <1>4 DEF CoverInv

LEMMA StepCover == CoverInv /\ [Next]_vars => CoverInv'
<1> SUFFICES ASSUME CoverInv, [Next]_vars PROVE CoverInv'
  OBVIOUS
<1> USE SyncAssumption DEF CoverInv
<1>1. ASSUME NEW f \in Flag, Change(f) PROVE CoverInv'
  <2> USE <1>1 DEF Change, cached, call, client, history
  <2>1. Types'
    BY DEF Types, Time
  <2>2. NotAhead'
    BY DEF Types, Time, NotAhead
  <2>3. \A t \in Time : t <= clock /\ Covered(t) => Covered(t)'
    BY DEF Types, Time, Covered
  <2>4. GroundedCovered' /\ NothingSkipped'
    BY <2>3 DEF Types, NotAhead, GroundedCovered, NothingSkipped
  <2>5. ReplyLatest' /\ AppliedSeen' /\ NothingLeft'
    BY DEF Types, Time, NotAhead, ReplyLatest, AppliedSeen, NothingLeft, Applying
  <2> QED
    BY <2>1, <2>2, <2>4, <2>5
<1>2. CASE Tick
  <2> USE <1>2 DEF Tick, cached, call, client, history
  <2>1. Types' /\ NotAhead'
    BY DEF Types, Time, NotAhead
  <2>2. GroundedCovered' /\ NothingSkipped'
    BY DEF Types, GroundedCovered, NothingSkipped, Covered
  <2>3. ReplyLatest' /\ AppliedSeen' /\ NothingLeft'
    BY DEF Types, ReplyLatest, AppliedSeen, NothingLeft, Applying
  <2> QED
    BY <2>1, <2>2, <2>3
<1>3. ASSUME NEW c \in Caller, NEW k \in {"init", "updates"}, NEW s \in Time, NEW g \in BOOLEAN,
             Ask(c, k, s, g), s <= clock, g => Covered(s)
      PROVE  CoverInv'
  <2> USE <1>3 DEF Ask, Goto, cached, server, client
  <2>1. Types'
    BY DEF Types, Step
  <2>2. NotAhead'
    BY DEF Types, NotAhead
  <2>3. GroundedCovered' /\ NothingSkipped'
    BY DEF Types, GroundedCovered, NothingSkipped, Covered
  <2>4. ReplyLatest' /\ AppliedSeen' /\ NothingLeft'
    BY DEF Types, ReplyLatest, AppliedSeen, NothingLeft, Applying
  <2> QED
    BY <2>1, <2>2, <2>3, <2>4
<1>4. ASSUME NEW c \in Caller, BeginInitialize(c) PROVE CoverInv'
  <2>1. Covered(Never)
    BY DEF Covered, Never, Types, Time
  <2>2. Never \in Time /\ Never <= clock
    BY DEF Never, Types, Time
  <2>3. Ask(c, "init", Never, TRUE)
    BY <1>4 DEF BeginInitialize
  <2> QED
    BY <1>3, <2>1, <2>2, <2>3
<1>5. ASSUME NEW c \in Caller, BeginRefresh(c) PROVE CoverInv'
  <2>1. WindowStart \in Time /\ WindowStart <= clock
    BY DEF WindowStart, Never, Time, Types
  <2>2. CASE lastUpdateTime = Never
    BY <1>3, <1>5, <2>1, <2>2 DEF BeginRefresh
  <2>3. CASE lastUpdateTime # Never
    BY <1>3, <1>5, <2>3 DEF BeginRefresh, Types, NotAhead, NothingSkipped
  <2> QED
    BY <2>2, <2>3
<1>6. ASSUME NEW c \in Caller, TornRead(c) PROVE CoverInv'
  BY <1>6 DEF TornRead, cached, server, call, history, Types, NotAhead, GroundedCovered,
              NothingSkipped, Covered, ReplyLatest, AppliedSeen, NothingLeft, Applying
<1>7. ASSUME NEW c \in Caller, Answer(c) PROVE CoverInv'
  <2> USE <1>7 DEF Answer, At, Goto, cached, server, client, history
  <2>1. Types'
    BY DEF Types, Step, Time, Listed
  <2>2. NotAhead'
    BY DEF Types, NotAhead, Time
  <2>3. GroundedCovered' /\ NothingSkipped'
    BY DEF Types, GroundedCovered, NothingSkipped, Covered
  <2>4. ReplyLatest'
    <3>1. ASSUME NEW f \in todo'[c] PROVE f \in Flag /\ reply'[c][f] = modified[f]
      BY <3>1 DEF Types, Listed
    <3>2. ASSUME NEW d \in Caller \ {c}
          PROVE  pc'[d] = pc[d] /\ todo'[d] = todo[d] /\ reply'[d] = reply[d]
                 /\ checkedAt'[d] = checkedAt[d]
      BY <3>2 DEF Types
    <3> QED
      BY <3>1, <3>2 DEF ReplyLatest, Applying
  <2>5. AppliedSeen'
    <3>1. ASSUME NEW f \in Flag \ Listed(c), grounded[c] PROVE newest[f] >= modified[f]
      BY <3>1 DEF Listed, GroundedCovered, Covered, Types, Time
    <3> QED
      BY <3>1 DEF Types, AppliedSeen, Applying
  <2>6. NothingLeft'
    BY DEF Types, NothingLeft
  <2> QED
    BY <2>1, <2>2, <2>3, <2>4, <2>5, <2>6
<1>8. ASSUME NEW c \in Caller, Done(c), lastUpdateTime' = lastUpdateTime, synced' = synced,
             UNCHANGED <<cached, server, newest, overlapped>>
      PROVE  CoverInv'
  <2> USE <1>8 DEF Done, Goto, cached, server
  <2>1. Types'
    BY DEF Types, Step, Time, Never
  <2>2. NotAhead'
    BY DEF Types, NotAhead, Time, Never
  <2>3. GroundedCovered' /\ NothingSkipped'
    BY DEF Types, GroundedCovered, NothingSkipped, Covered
  <2>4. ReplyLatest' /\ AppliedSeen' /\ NothingLeft'
    BY DEF Types, ReplyLatest, AppliedSeen, NothingLeft, Applying
  <2> QED
    BY <2>1, <2>2, <2>3, <2>4
<1>9. ASSUME NEW c \in Caller, NothingNew(c) \/ Fail(c) PROVE CoverInv'
  BY <1>8, <1>9 DEF NothingNew, Fail, client
<1>10. ASSUME NEW c \in Caller, NEW f \in Flag, SetFlag(c, f) PROVE CoverInv'
  <2> USE <1>10 DEF SetFlag, FC!Set, At, Goto, server, client
  <2>1. Types'
    BY DEF Types, Step, Time
  <2>2. NotAhead'
    BY DEF Types, NotAhead, Time
  <2>3. \A e \in Flag : newest'[e] >= newest[e]
    BY DEF Types, Time
  <2>4. newest'[f] >= reply[c][f]
    BY DEF Types, Time
  <2>5. GroundedCovered' /\ NothingSkipped'
    BY <2>1, <2>3 DEF Types, Time, GroundedCovered, NothingSkipped, Covered
  <2>6. ReplyLatest' /\ NothingLeft'
    BY DEF Types, ReplyLatest, NothingLeft, Applying
  <2>7. AppliedSeen'
    <3>1. modified[f] <= checkedAt[c] => newest'[f] >= modified[f]
      BY <2>4 DEF ReplyLatest, Applying
    <3>2. ASSUME NEW d \in Caller, Applying(d)', grounded[d], NEW e \in Flag \ todo'[d],
                 modified[e] <= checkedAt[d]
          PROVE  newest'[e] >= modified[e]
      <4>1. Applying(d)
        BY <3>2 DEF Applying, Types
      <4>2. CASE d = c /\ e = f
        BY <3>1, <3>2, <4>2
      <4>3. CASE ~(d = c /\ e = f)
        <5>1. e \notin todo[d]
          BY <3>2, <4>3 DEF Types
        <5>2. newest[e] >= modified[e]
          BY <3>2, <4>1, <5>1 DEF AppliedSeen
        <5> QED
          BY <2>1, <2>3, <5>2 DEF Types, Time
      <4> QED
        BY <4>2, <4>3
    <3> QED
      BY <3>2 DEF AppliedSeen
  <2> QED
    BY <2>1, <2>2, <2>5, <2>6, <2>7
<1>11. ASSUME NEW c \in Caller, Stamp(c) PROVE CoverInv'
  <2> USE <1>11 DEF Stamp, At, Done, Goto, cached, server
  <2>1. Types'
    BY DEF Types, Step, Time, Never
  <2>2. NotAhead'
    BY DEF Types, NotAhead, Time, Never
  <2>3. GroundedCovered'
    BY DEF Types, GroundedCovered, Covered
  <2>4. NothingSkipped'
    BY DEF Types, NothingSkipped, Covered, AppliedSeen, NothingLeft, Applying
  <2>5. ReplyLatest' /\ AppliedSeen' /\ NothingLeft'
    BY DEF Types, ReplyLatest, AppliedSeen, NothingLeft, Applying
  <2> QED
    BY <2>1, <2>2, <2>3, <2>4, <2>5
<1>12. CASE UNCHANGED vars
  BY <1>12 DEF vars, cached, server, call, client, history, Types, NotAhead, GroundedCovered,
               NothingSkipped, Covered, ReplyLatest, AppliedSeen, NothingLeft, Applying
<1> QED
  BY <1>1, <1>2, <1>4, <1>5, <1>6, <1>7, <1>9, <1>10, <1>11, <1>12 DEF Next

\* However calls overlap, the cursor never passes a change that the cache has
\* not seen: no refresh skips a change for good (Client.refresh, Initialize).
THEOREM ChangesNotSkipped == Spec => []NothingSkipped
<1>1. CoverInv => NothingSkipped
  BY DEF CoverInv
<1> QED
  BY InitCover, StepCover, <1>1, PTL DEF Spec

-------------------------------------------------------------------------------

\* While calls have never overlapped, one of them at most is in progress.
OneBusy ==
    ~overlapped => \A c, d \in Caller : pc[c] # "idle" /\ pc[d] # "idle" => c = d

\* While calls have never overlapped, the cache holds the newest it has seen,
\* and an answer in hand is at least as new.
HoldsNewest == ~overlapped => \A f \in Flag : version[f] = newest[f]

AnswersNewer ==
    ~overlapped =>
        \A c \in Caller : pc[c] = "apply" => \A f \in todo[c] : reply[c][f] >= newest[f]

SerialInv == OneBusy /\ HoldsNewest /\ AnswersNewer

LEMMA InitSerial == Init => SerialInv
<1> SUFFICES ASSUME Init PROVE SerialInv
  OBVIOUS
<1>1. version = [f \in Flag |-> 0] /\ newest = [f \in Flag |-> 0]
  BY DEF Init
<1> QED
  BY <1>1 DEF Init, SerialInv, OneBusy, HoldsNewest, AnswersNewer

LEMMA StepSerial == CoverInv /\ SerialInv /\ [Next]_vars => SerialInv'
<1> SUFFICES ASSUME CoverInv, SerialInv, [Next]_vars PROVE SerialInv'
  OBVIOUS
<1> USE SyncAssumption DEF CoverInv, SerialInv
<1>1. ASSUME \/ \E f \in Flag : Change(f)
             \/ Tick
             \/ \E c \in Caller : TornRead(c)
             \/ UNCHANGED vars
      PROVE  SerialInv'
  BY <1>1 DEF Change, Tick, TornRead, vars, cached, call, client, history, server,
              OneBusy, HoldsNewest, AnswersNewer
<1>2. ASSUME NEW c \in Caller, NEW k, NEW s, NEW g, pc[c] = "idle", Ask(c, k, s, g)
      PROVE  SerialInv'
  <2> USE <1>2 DEF Ask, Goto, cached
  <2>1. OneBusy'
    BY DEF Types, OneBusy, Busy
  <2>2. HoldsNewest' /\ AnswersNewer'
    BY DEF Types, HoldsNewest, AnswersNewer
  <2> QED
    BY <2>1, <2>2
<1>3. ASSUME NEW c \in Caller, BeginInitialize(c) \/ BeginRefresh(c) PROVE SerialInv'
  BY <1>2, <1>3 DEF BeginInitialize, BeginRefresh, MayRefresh, At
<1>4. ASSUME NEW c \in Caller, Answer(c) PROVE SerialInv'
  <2> USE <1>4 DEF Answer, At, Goto, cached, history
  <2>1. OneBusy' /\ HoldsNewest'
    BY DEF Types, OneBusy, HoldsNewest
  <2>2. ASSUME NEW f \in todo'[c] PROVE reply'[c][f] >= newest[f]
    BY <2>2 DEF Types, NotAhead, Listed, Time
  <2>3. AnswersNewer'
    BY <2>2 DEF Types, AnswersNewer
  <2> QED
    BY <2>1, <2>3
<1>5. ASSUME NEW c \in Caller, Done(c), UNCHANGED <<cached, newest, overlapped>> PROVE SerialInv'
  BY <1>5 DEF Done, Goto, cached, Types, OneBusy, HoldsNewest, AnswersNewer
<1>6. ASSUME NEW c \in Caller, NothingNew(c) \/ Fail(c) \/ Stamp(c) PROVE SerialInv'
  BY <1>5, <1>6 DEF NothingNew, Fail, Stamp
<1>7. ASSUME NEW c \in Caller, NEW f \in Flag, SetFlag(c, f) PROVE SerialInv'
  <2> USE <1>7 DEF SetFlag, FC!Set, At, Goto
  <2>1. OneBusy'
    BY DEF Types, OneBusy
  <2>2. ASSUME ~overlapped PROVE newest'[f] = reply[c][f]
    <3>1. reply[c][f] >= newest[f]
      BY <2>2 DEF AnswersNewer
    <3>2. newest'[f] = IF reply[c][f] > newest[f] THEN reply[c][f] ELSE newest[f]
      BY DEF Types
    <3>3. reply[c][f] \in Int /\ newest[f] \in Int
      BY DEF Types, Time
    <3> QED
      BY <3>1, <3>2, <3>3
  <2>3. HoldsNewest'
    BY <2>2 DEF Types, HoldsNewest
  <2>4. ASSUME ~overlapped, NEW d \in Caller, pc'[d] = "apply", NEW e \in todo'[d]
        PROVE  reply'[d][e] >= newest'[e]
    <3>1. d = c
      BY <2>4 DEF Types, OneBusy
    <3>2. e # f /\ e \in todo[c] /\ e \in Flag
      BY <2>4, <3>1 DEF Types
    <3> QED
      BY <2>4, <3>1, <3>2 DEF Types, AnswersNewer
  <2>5. AnswersNewer'
    BY <2>4 DEF AnswersNewer
  <2> QED
    BY <2>1, <2>3, <2>5
<1> QED
  BY <1>1, <1>3, <1>4, <1>6, <1>7 DEF Next

\* Calls that do not overlap leave every cached flag at its latest change, as
\* far as the cursor goes (Client.refresh, Initialize).
THEOREM SerialCallsCurrent == Spec => []SerialIsCurrent
<1>1. CoverInv /\ SerialInv => SerialIsCurrent
  <2> SUFFICES ASSUME CoverInv, SerialInv, synced, ~overlapped,
                      NEW f \in Flag, modified[f] <= lastUpdateTime
               PROVE  version[f] = modified[f]
    BY DEF SerialIsCurrent, Current
  <2>1. newest[f] >= modified[f]
    BY DEF CoverInv, NothingSkipped, Covered
  <2>2. newest[f] <= modified[f] /\ version[f] = newest[f]
    BY DEF CoverInv, SerialInv, HoldsNewest, NotAhead
  <2>3. newest[f] \in Int /\ modified[f] \in Int
    BY DEF CoverInv, Types, Time
  <2> QED
    BY <2>1, <2>2, <2>3
<1> QED
  BY InitCover, StepCover, InitSerial, StepSerial, <1>1, PTL DEF Spec

\* While calls have never overlapped, an answer in hand is no older than the
\* cursor: nobody else has moved it since.
CursorBehind ==
    ~overlapped => \A c \in Caller : Applying(c) => lastUpdateTime <= checkedAt[c]

LEMMA StepBehind == CoverInv /\ SerialInv /\ CursorBehind /\ [Next]_vars => CursorBehind'
<1> SUFFICES ASSUME CoverInv, SerialInv, CursorBehind, [Next]_vars,
                    ~overlapped', NEW c \in Caller, Applying(c)'
             PROVE  lastUpdateTime' <= checkedAt'[c]
  BY DEF CursorBehind
<1> USE DEF CoverInv, Types
<1>1. ASSUME NEW d \in Caller, Stamp(d) PROVE FALSE
  <2>1. pc' = [pc EXCEPT ![d] = "idle"] /\ pc[d] = "stamp" /\ ~overlapped
    BY <1>1 DEF Stamp, Done, Goto, At
  <2>2. c # d /\ pc[c] # "idle"
    BY <2>1 DEF Applying
  <2> QED
    BY <2>1, <2>2 DEF SerialInv, OneBusy
<1>2. CASE Answer(c)
  BY <1>2 DEF Answer, client, NotAhead
<1>3. CASE ~Answer(c) /\ ~ \E d \in Caller : Stamp(d)
  <2>1. UNCHANGED <<lastUpdateTime, checkedAt[c]>> /\ Applying(c) /\ ~overlapped
    <3>1. ASSUME \/ UNCHANGED vars
                 \/ \E f \in Flag : Change(f)
                 \/ Tick
                 \/ \E d \in Caller : TornRead(d)
          PROVE  UNCHANGED <<lastUpdateTime, checkedAt, pc, overlapped>>
      BY <3>1 DEF vars, call, client, history, Change, Tick, TornRead
    <3>2. ASSUME NEW d \in Caller, BeginInitialize(d) \/ BeginRefresh(d)
          PROVE  /\ UNCHANGED <<lastUpdateTime, checkedAt>> /\ ~overlapped
                 /\ pc' = [pc EXCEPT ![d] = "asked"]
      BY <3>2 DEF BeginInitialize, BeginRefresh, Ask, Goto, client
    <3>3. ASSUME NEW d \in Caller \ {c}, Answer(d)
          PROVE  /\ UNCHANGED <<lastUpdateTime, checkedAt[c], overlapped>>
                 /\ pc'[c] = pc[c]
      BY <3>3 DEF Answer, Goto, client, history
    <3>4. ASSUME NEW d \in Caller, NothingNew(d) \/ Fail(d)
          PROVE  /\ UNCHANGED <<lastUpdateTime, overlapped>>
                 /\ pc' = [pc EXCEPT ![d] = "idle"]
                 /\ checkedAt' = [checkedAt EXCEPT ![d] = Never]
      BY <3>4 DEF NothingNew, Fail, Done, Goto, client
    <3>5. ASSUME NEW d \in Caller, NEW f \in Flag, SetFlag(d, f)
          PROVE  /\ UNCHANGED <<lastUpdateTime, checkedAt, overlapped>>
                 /\ \A e \in Caller : Applying(e)' => Applying(e)
      BY <3>5 DEF SetFlag, Goto, At, client, Applying
    <3> QED
      BY <1>3, <3>1, <3>2, <3>3, <3>4, <3>5 DEF Next, Applying
  <2> QED
    BY <2>1 DEF CursorBehind
<1> QED
  BY <1>1, <1>2, <1>3

\* While calls come one after the other neither lastUpdateTime nor the version
\* of a flag in the cache ever goes back (Client.refresh, Initialize, SetMany).
THEOREM SerialCallsGoForward == Spec => SerialNeverGoesBack
<1>1. Init => CursorBehind
  BY DEF Init, CursorBehind, Applying
<1>2. ASSUME CoverInv, SerialInv, CursorBehind, [Next]_vars, ~overlapped'
      PROVE  /\ lastUpdateTime' >= lastUpdateTime
             /\ \A f \in Flag : version'[f] >= version[f]
  <2> USE <1>2 DEF CoverInv, Types, Time
  <2>1. ASSUME NEW c \in Caller, Stamp(c)
        PROVE  lastUpdateTime' >= lastUpdateTime /\ UNCHANGED version
    <3>1. /\ lastUpdateTime' = checkedAt[c] /\ UNCHANGED version
          /\ pc[c] = "stamp" /\ ~overlapped
      BY <2>1 DEF Stamp, At, cached
    <3> QED
      BY <3>1 DEF CursorBehind, Applying
  <2>2. ASSUME NEW c \in Caller, NEW f \in Flag, SetFlag(c, f)
        PROVE  UNCHANGED lastUpdateTime /\ \A e \in Flag : version'[e] >= version[e]
    <3>1. /\ version' = [version EXCEPT ![f] = reply[c][f]]
          /\ f \in todo[c] /\ pc[c] = "apply" /\ ~overlapped
          /\ UNCHANGED lastUpdateTime
      BY <2>2 DEF SetFlag, FC!Set, At, client
    <3>2. reply[c][f] >= version[f]
      BY <3>1 DEF SerialInv, AnswersNewer, HoldsNewest
    <3> QED
      BY <3>1, <3>2
  <2>3. ASSUME ~ \E c \in Caller : Stamp(c) \/ \E f \in Flag : SetFlag(c, f)
        PROVE  UNCHANGED <<lastUpdateTime, version>>
    BY <2>3 DEF Next, Change, Tick, BeginInitialize, BeginRefresh, Ask, TornRead,
                Answer, NothingNew, Fail, vars, cached, client
  <2>4. lastUpdateTime \in Int /\ \A f \in Flag : version[f] \in Int
    BY SyncAssumption
  <2> QED
    BY <2>1, <2>2, <2>3, <2>4
<1>3. CoverInv /\ SerialInv /\ CursorBehind /\ [Next]_vars =>
        [~overlapped' =>
           /\ lastUpdateTime' >= lastUpdateTime
           /\ \A f \in Flag : version'[f] >= version[f]]_vars
  BY <1>2
<1> QED
  BY InitCover, StepCover, InitSerial, StepSerial, StepBehind, <1>1, <1>3, PTL
  DEF Spec, SerialNeverGoesBack

-------------------------------------------------------------------------------
LEMMA RemoveAtProperties ==
    ASSUME NEW o \in Seq(Flag), NEW i \in 1 .. Len(o)
    PROVE  LET r == FC!RemoveAt(o, i)
           IN  /\ r \in Seq(Flag)
               /\ Len(r) = Len(o) - 1
               /\ \A j \in 1 .. Len(r) : r[j] = IF j < i THEN o[j] ELSE o[j + 1]
<1> DEFINE a == SubSeq(o, 1, i - 1)
           b == SubSeq(o, i + 1, Len(o))
<1>0. Len(o) \in Nat /\ i \in Int
  BY LenProperties
<1>1. \A j \in 1 .. Len(o) : o[j] \in Flag
  BY ElementOfSeq
<1>2. /\ a \in Seq(Flag) /\ Len(a) = i - 1
      /\ \A j \in 1 .. i - 1 : a[j] = o[j]
  <2>1. \A j \in 1 .. i - 1 : o[j] \in Flag
    BY <1>0, <1>1
  <2>2. /\ a \in Seq(Flag)
        /\ Len(a) = IF 1 <= i - 1 THEN (i - 1) - 1 + 1 ELSE 0
        /\ \A j \in 1 .. (i - 1) - 1 + 1 : a[j] = o[1 + j - 1]
    BY <1>0, <2>1, SubSeqProperties
  <2> QED
    BY <1>0, <2>2
<1>3. /\ b \in Seq(Flag) /\ Len(b) = Len(o) - i
      /\ \A j \in 1 .. Len(o) - i : b[j] = o[i + j]
  <2>1. \A j \in i + 1 .. Len(o) : o[j] \in Flag
    BY <1>0, <1>1
  <2>2. /\ b \in Seq(Flag)
        /\ Len(b) = IF i + 1 <= Len(o) THEN Len(o) - (i + 1) + 1 ELSE 0
        /\ \A j \in 1 .. Len(o) - (i + 1) + 1 : b[j] = o[(i + 1) + j - 1]
    BY <1>0, <2>1, SubSeqProperties
  <2> QED
    BY <1>0, <2>2
<1>4. FC!RemoveAt(o, i) = a \o b
  BY DEF FC!RemoveAt
<1> HIDE DEF a, b
<1>5. /\ a \o b \in Seq(Flag)
      /\ Len(a \o b) = Len(a) + Len(b)
      /\ \A j \in 1 .. Len(a) + Len(b) : (a \o b)[j] = IF j <= Len(a) THEN a[j] ELSE b[j - Len(a)]
  BY <1>2, <1>3, ConcatProperties
<1>6. ASSUME NEW j \in 1 .. Len(o) - 1
      PROVE  (a \o b)[j] = IF j < i THEN o[j] ELSE o[j + 1]
  <2>1. CASE j < i
    BY <1>0, <1>2, <1>3, <1>5, <2>1
  <2>2. CASE ~(j < i)
    <3>1. (a \o b)[j] = b[j - (i - 1)] /\ j - (i - 1) \in 1 .. Len(o) - i
      BY <1>0, <1>2, <1>3, <1>5, <2>2
    <3>2. b[j - (i - 1)] = o[i + (j - (i - 1))]
      BY <1>3, <3>1
    <3> QED
      BY <1>0, <2>2, <3>1, <3>2
  <2> QED
    BY <2>1, <2>2
<1> QED
  BY <1>0, <1>2, <1>3, <1>4, <1>5, <1>6

\* What is left in the cache has been there before, no key twice, and there is
\* room for the one that is set unless the empty key is in the way.
LEMMA OthersProperties ==
    ASSUME NEW o \in Seq(Flag), FC!IsInjective(o), NEW f \in Flag
    PROVE  LET r == FC!Others(o, f)
           IN  /\ r \in Seq(Flag) /\ FC!IsInjective(r)
               /\ f \notin FC!ToSet(r)
               /\ (EmptyKey \notin FC!ToSet(o) => Len(o) <= MaxSize)
                  /\ EmptyKey \notin FC!ToSet(r) /\ EmptyKey # f
                    => Len(r) < MaxSize
<1> USE SyncAssumption
<1>0. Len(o) \in Nat /\ DOMAIN o = 1 .. Len(o)
  BY LenProperties
<1>1. CASE f \in FC!ToSet(o)
  <2> DEFINE i == CHOOSE i \in DOMAIN o : o[i] = f
             r == FC!RemoveAt(o, i)
  <2>1. i \in 1 .. Len(o) /\ o[i] = f
    BY <1>0, <1>1 DEF FC!ToSet, FC!IsInjective
  <2>2. FC!Others(o, f) = r
    BY <1>1 DEF FC!Others
  <2> HIDE DEF i, r
  <2>3. /\ r \in Seq(Flag) /\ Len(r) = Len(o) - 1
        /\ \A j \in 1 .. Len(r) : r[j] = IF j < i THEN o[j] ELSE o[j + 1]
    BY <2>1, RemoveAtProperties DEF r
  <2>4. DOMAIN r = 1 .. Len(r) /\ Len(r) \in Nat
    BY <2>3, LenProperties
  <2>5. ASSUME NEW j \in DOMAIN r, NEW k \in DOMAIN r, r[j] = r[k] PROVE j = k
    BY <1>0, <2>1, <2>3, <2>4, <2>5 DEF FC!ToSet, FC!IsInjective
  <2>6. ASSUME NEW j \in DOMAIN r PROVE r[j] # f
    BY <1>0, <2>1, <2>3, <2>4, <2>6 DEF FC!ToSet, FC!IsInjective
  <2>7. ASSUME EmptyKey # f, NEW j \in DOMAIN o, o[j] = EmptyKey
        PROVE  EmptyKey \in FC!ToSet(r)
    <3>1. j # i
      BY <2>1, <2>7 DEF FC!ToSet, FC!IsInjective
    <3>2. CASE j < i
      BY <1>0, <2>1, <2>3, <2>4, <2>7, <3>2 DEF FC!ToSet, FC!IsInjective
    <3>3. CASE j > i
      <4>1. j - 1 \in DOMAIN r /\ r[j - 1] = o[(j - 1) + 1]
        BY <1>0, <2>1, <2>3, <2>4, <3>3 DEF FC!ToSet, FC!IsInjective
      <4> QED
        BY <1>0, <2>7, <4>1 DEF FC!ToSet, FC!IsInjective
    <3> QED
      BY <1>0, <2>1, <3>1, <3>2, <3>3 DEF FC!ToSet, FC!IsInjective
  <2> QED
    BY <1>0, <2>2, <2>3, <2>5, <2>6, <2>7 DEF FC!ToSet, FC!IsInjective
<1>2. CASE f \notin FC!ToSet(o) /\ (Len(o) < MaxSize \/ o = <<>> \/ Head(o) = EmptyKey)
  <2>1. FC!Others(o, f) = o
    <3>1. CASE Len(o) < MaxSize
      BY <1>0, <1>2, <3>1 DEF FC!Others
    <3>2. CASE o = <<>> \/ Head(o) = EmptyKey
      BY <1>2, <3>2 DEF FC!Others, FC!Evicted
    <3> QED
      BY <1>2, <3>1, <3>2
  <2>2. o = <<>> => Len(o) = 0
    OBVIOUS
  <2>3. o # <<>> /\ Head(o) = EmptyKey => EmptyKey \in FC!ToSet(o)
    BY <1>0 DEF FC!ToSet, FC!IsInjective
  <2> QED
    BY <1>0, <1>2, <2>1, <2>2, <2>3 DEF FC!ToSet, FC!IsInjective
<1>3. CASE f \notin FC!ToSet(o) /\ Len(o) >= MaxSize /\ o # <<>> /\ Head(o) # EmptyKey
  <2> DEFINE r == Tail(o)
  <2>1. FC!Others(o, f) = r
    BY <1>3 DEF FC!Others, FC!Evicted
  <2>2. /\ r \in Seq(Flag) /\ Len(r) = Len(o) - 1
        /\ \A j \in 1 .. Len(r) : r[j] = o[j + 1]
    BY <1>3, HeadTailProperties
  <2>3. DOMAIN r = 1 .. Len(r) /\ Len(r) \in Nat
    BY <2>2, LenProperties
  <2> HIDE DEF r
  <2>4. ASSUME NEW j \in DOMAIN r PROVE j + 1 \in DOMAIN o /\ r[j] = o[j + 1]
    BY <1>0, <2>2, <2>3 DEF FC!ToSet, FC!IsInjective
  <2>5. ASSUME NEW j \in DOMAIN r, NEW k \in DOMAIN r, r[j] = r[k] PROVE j = k
    BY <2>3, <2>4, <2>5 DEF FC!ToSet, FC!IsInjective
  <2>6. f \notin FC!ToSet(r)
    BY <1>3, <2>4 DEF FC!ToSet, FC!IsInjective
  <2>7. ASSUME NEW j \in DOMAIN o, o[j] = EmptyKey PROVE EmptyKey \in FC!ToSet(r)
    <3>1. Head(o) = o[1]
      BY <1>3 DEF FC!ToSet, FC!IsInjective
    <3>2. j # 1
      BY <1>3, <2>7, <3>1 DEF FC!ToSet, FC!IsInjective
    <3>3. j - 1 \in DOMAIN r /\ r[j - 1] = o[(j - 1) + 1]
      BY <1>0, <2>2, <2>3, <3>2 DEF FC!ToSet, FC!IsInjective
    <3> QED
      BY <1>0, <2>7, <3>3 DEF FC!ToSet, FC!IsInjective
  <2> QED
    BY <1>0, <2>1, <2>2, <2>5, <2>6, <2>7 DEF FC!ToSet, FC!IsInjective
<1> QED
  BY <1>0, <1>1, <1>2, <1>3 DEF FC!ToSet, FC!IsInjective

\* The order of the entries is one of different flags, and as long as none is the
\* empty key there are no more than the cache is for.
Ordered(o) ==
    /\ o \in Seq(Flag)
    /\ FC!IsInjective(o)
    /\ EmptyKey \notin FC!ToSet(o) => Len(o) <= MaxSize

LEMMA AfterSetOrdered ==
    ASSUME NEW o, Ordered(o), NEW f \in Flag
    PROVE  Ordered(FC!AfterSet(o, f))
<1> DEFINE r == FC!Others(o, f)
           s == Append(r, f)
<1>1. o \in Seq(Flag) /\ FC!IsInjective(o) /\ (EmptyKey \notin FC!ToSet(o) => Len(o) <= MaxSize)
  BY DEF Ordered
<1>2. /\ r \in Seq(Flag) /\ FC!IsInjective(r) /\ f \notin FC!ToSet(r)
      /\ EmptyKey \notin FC!ToSet(r) /\ EmptyKey # f => Len(r) < MaxSize
  BY <1>1, OthersProperties
<1>3. FC!AfterSet(o, f) = s
  BY DEF FC!AfterSet
<1> HIDE DEF r
<1>4. /\ s \in Seq(Flag) /\ Len(s) = Len(r) + 1
      /\ \A j \in 1 .. Len(r) : s[j] = r[j]
      /\ s[Len(r) + 1] = f
  BY <1>2, AppendProperties
<1>5. DOMAIN r = 1 .. Len(r) /\ Len(r) \in Nat /\ DOMAIN s = 1 .. Len(r) + 1
  BY <1>2, <1>4, LenProperties
<1> HIDE DEF s
<1>6. FC!IsInjective(s)
  BY <1>2, <1>4, <1>5 DEF FC!IsInjective, FC!ToSet
<1>7. ASSUME EmptyKey \notin FC!ToSet(s) PROVE Len(s) <= MaxSize
  <2>1. EmptyKey # f /\ EmptyKey \notin FC!ToSet(r)
    BY <1>4, <1>5, <1>7 DEF FC!ToSet
  <2> QED
    BY <1>2, <1>4, <1>5, <2>1, SyncAssumption
<1> QED
  BY <1>3, <1>4, <1>6, <1>7 DEF Ordered

\* FlagCache counts the way this module does.
LEMMA SameCardinality == \A S : FC!Cardinality(S) = Cardinality(S)
BY DEF FC!Cardinality, Cardinality

LEMMA FilledOrdered ==
    ASSUME NEW B \in SUBSET Flag, IsFiniteSet(B), FC!Filled(B)
    PROVE  Ordered(order)
<1>1. PICK s \in FC!SetToSeqs(B), n \in 0 .. Cardinality(B) :
        FC!Pushed(s, n) /\ order = SubSeq(s, n + 1, Cardinality(B))
  BY SameCardinality DEF FC!Filled
<1> DEFINE N == Cardinality(B)
<1>2. N \in Nat
  BY FS_CardinalityType
<1>3. s \in [1 .. N -> B] /\ \A i, j \in 1 .. N : i # j => s[i] # s[j]
  BY SameCardinality DEF FC!SetToSeqs
<1> HIDE DEF N
<1>4. Len(s) = N
  BY <1>2, <1>3
<1>5. n \in Int /\ n <= N /\ n >= 0 /\ order = SubSeq(s, n + 1, N)
  BY <1>1, <1>2 DEF N
<1>6. /\ order \in Seq(Flag)
      /\ Len(order) = N - n
      /\ \A i \in 1 .. N - n : order[i] = s[n + i]
  <2>1. \A i \in n + 1 .. N : s[i] \in Flag
    BY <1>2, <1>3, <1>5
  <2>2. /\ order \in Seq(Flag)
        /\ Len(order) = IF n + 1 <= N THEN N - (n + 1) + 1 ELSE 0
        /\ \A i \in 1 .. N - (n + 1) + 1 : order[i] = s[(n + 1) + i - 1]
    BY <1>2, <1>5, <2>1, SubSeqProperties
  <2> QED
    BY <1>2, <1>5, <2>2
<1>7. DOMAIN order = 1 .. N - n
  BY <1>6, LenProperties
<1>8. FC!IsInjective(order)
  BY <1>2, <1>3, <1>5, <1>6, <1>7 DEF FC!IsInjective
<1>9. Len(order) > MaxSize => EmptyKey \in FC!ToSet(order)
  <2> SUFFICES ASSUME N - n > MaxSize PROVE EmptyKey \in FC!ToSet(order)
    BY <1>6
  <2>1. s[n + 1] = EmptyKey
    BY <1>1, <1>4 DEF FC!Pushed
  <2>2. 1 \in DOMAIN order /\ order[1] = s[n + 1]
    BY <1>2, <1>5, <1>6, <1>7, SyncAssumption
  <2> QED
    BY <2>1, <2>2 DEF FC!ToSet
<1> QED
  BY <1>2, <1>5, <1>6, <1>8, <1>9, SyncAssumption DEF Ordered

LEMMA OrderedBounded == Ordered(order) => CacheBounded
<1> SUFFICES ASSUME Ordered(order), EmptyKey \notin FC!ToSet(order)
             PROVE  Cardinality(FC!ToSet(order)) <= MaxSize
  BY SameCardinality DEF CacheBounded, FC!Bounded, FC!Entries
<1>1. Len(order) \in Nat /\ DOMAIN order = 1 .. Len(order) /\ Len(order) <= MaxSize
  BY LenProperties DEF Ordered
<1>2. IsFiniteSet(DOMAIN order) /\ Cardinality(DOMAIN order) = Len(order)
  <2> DEFINE n == Len(order)
  <2>1. 1 \in Int /\ n \in Int /\ n >= 0
    BY <1>1
  <2> HIDE DEF n
  <2>2. /\ IsFiniteSet(1 .. n)
        /\ Cardinality(1 .. n) = IF 1 > n THEN 0 ELSE n - 1 + 1
    BY <2>1, FS_Interval
  <2>3. Cardinality(1 .. n) = n
    BY <2>1, <2>2
  <2> QED
    BY <1>1, <2>2, <2>3 DEF n
<1>3. order \in Surjection(DOMAIN order, FC!ToSet(order))
  BY DEF Surjection, FC!ToSet, Ordered
<1>4. Cardinality(FC!ToSet(order)) <= Cardinality(DOMAIN order)
        /\ IsFiniteSet(FC!ToSet(order))
  BY <1>2, <1>3, FS_Surjection
<1>5. Cardinality(FC!ToSet(order)) \in Nat
  BY <1>4, FS_CardinalityType
<1> QED
  BY <1>1, <1>2, <1>4, <1>5, SyncAssumption

-------------------------------------------------------------------------------

OrderInv ==
    /\ Ordered(order)
    /\ ready \in BOOLEAN /\ polling \in BOOLEAN /\ faulted \in BOOLEAN

LEMMA InitOrder == Init => OrderInv
<1> SUFFICES ASSUME Init PROVE OrderInv
  OBVIOUS
<1>1. PICK B \in {{}, Bootstrap} : FC!Filled(B)
  BY DEF Init
<1>2. B \in SUBSET Flag /\ IsFiniteSet(B)
  BY <1>1, SyncAssumption, FS_EmptySet
<1>3. Ordered(order)
  BY <1>1, <1>2, FilledOrdered
<1> QED
  BY <1>3 DEF Init, OrderInv

LEMMA StepOrder == OrderInv /\ [Next]_vars => OrderInv'
<1> SUFFICES ASSUME OrderInv, [Next]_vars PROVE OrderInv'
  OBVIOUS
<1> USE DEF OrderInv
<1>1. ASSUME NEW c \in Caller, NEW f \in Flag, SetFlag(c, f) PROVE OrderInv'
  <2>1. order' = FC!AfterSet(order, f) /\ UNCHANGED client
    BY <1>1 DEF SetFlag, FC!Set
  <2>2. Ordered(order)'
    BY <2>1, AfterSetOrdered DEF Ordered
  <2> QED
    BY <2>1, <2>2 DEF client
<1>2. ASSUME UNCHANGED order PROVE Ordered(order)'
  BY <1>2 DEF Ordered
<1>3. ASSUME \/ UNCHANGED vars
             \/ \E f \in Flag : Change(f)
             \/ Tick
             \/ \E c \in Caller :
                  \/ BeginInitialize(c) \/ BeginRefresh(c) \/ TornRead(c)
                  \/ Answer(c) \/ NothingNew(c) \/ Fail(c) \/ Stamp(c)
      PROVE  OrderInv'
  <2>1. UNCHANGED order
    BY <1>3 DEF vars, cached, Change, Tick, BeginInitialize, BeginRefresh, Ask, TornRead,
                Answer, NothingNew, Fail, Stamp
  <2>2. ready' \in BOOLEAN /\ polling' \in BOOLEAN /\ faulted' \in BOOLEAN
    BY <1>3 DEF vars, client, Change, Tick, BeginInitialize, BeginRefresh, Ask, TornRead,
                Answer, NothingNew, Fail, Stamp
  <2> QED
    BY <1>2, <2>1, <2>2
<1> QED
  BY <1>1, <1>3 DEF Next

\* Every variable has its type, and no key has two entries in the cache.
THEOREM TypeCorrect == Spec => []TypeOK
<1>1. CoverInv /\ OrderInv => TypeOK
  BY DEF CoverInv, OrderInv, Types, Ordered, TypeOK, FC!TypeOK
<1> QED
  BY InitCover, StepCover, InitOrder, StepOrder, <1>1, PTL DEF Spec

\* The cache keeps to its size from the bootstrap on, whatever is set by whom
\* (Cache.Set, evictOldest), unless a flag has the empty key.
THEOREM CacheKeepsToSize == Spec => []CacheBounded
<1>1. OrderInv => CacheBounded
  BY OrderedBounded DEF OrderInv
<1> QED
  BY InitOrder, StepOrder, <1>1, PTL DEF Spec
===============================================================================
