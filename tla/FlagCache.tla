------------------------------- MODULE FlagCache -------------------------------
(***************************************************************************)
(* The cache of flag states, internal/core/cache.go.  Every method holds   *)
(* the cache's lock throughout, so each is one step; SetMany is not one    *)
(* but a Set for each flag, and readers come in between.                   *)
(*                                                                         *)
(* The time of FetchedAt is kept as the order in which the entries were    *)
(* last set (the clock is monotonic).  A version stands for a flag's state: *)
(* in FlagSync it is the time of the change that the state comes from, and *)
(* 0 for a bootstrap value; in Evaluation it is the value.  ExpiresAt is   *)
(* left out: an expired entry stays where it is and is still served, by    *)
(* GetStale instead of Get.                                                *)
(***************************************************************************)
EXTENDS Integers, FiniteSets, SequencesExt

CONSTANTS
    Flag,               \* the keys of flags
    EmptyKey,           \* the key "", which evictOldest takes for none
    Version,            \* versions a flag may have
    MaxSize             \* CacheConfig.MaxSize, 1000 for NewClient

VARIABLES
    order,              \* the keys of Cache.entries, the oldest FetchedAt first
    version             \* the version stored last under each key

cache == <<order, version>>

Entries == ToSet(order)

\* evictOldest, given the order of the entries.
Evicted(o) == IF o = <<>> \/ Head(o) = EmptyKey THEN o ELSE Tail(o)

\* The other entries when f is set: those there were but for the old one of f,
\* or, if f is new to a full cache, for the oldest.
Others(o, f) ==
    IF f \in ToSet(o) THEN RemoveAt(o, CHOOSE i \in DOMAIN o : o[i] = f)
    ELSE IF Len(o) >= MaxSize THEN Evicted(o)
    ELSE o

\* Mutant: evicts only when the limit has been exceeded already.
AfterSet_Late(o, f) ==
    Append(IF f \notin ToSet(o) /\ Len(o) = MaxSize THEN o ELSE Others(o, f), f)

\* The order of the entries after Set, which makes f the newest.
AfterSet(o, f) == Append(Others(o, f), f)

\* The first n of s, set one after another in an empty cache, are evicted again:
\* as many as there are too many, but none from the empty key on.
Pushed(s, n) ==
    /\ \A i \in 1 .. n : Len(s) - i >= MaxSize /\ s[i] # EmptyKey
    /\ Len(s) - n > MaxSize => s[n + 1] = EmptyKey

\* The entries that NewClient leaves behind, with the flags of B set in the order
\* in which Go's map iteration happens to yield them.
Filled(B) ==
    \E s \in SetToSeqs(B) : \E n \in 0 .. Cardinality(B) :
        Pushed(s, n) /\ order = SubSeq(s, n + 1, Cardinality(B))

\* NewCache.  The version of a key that has no entry is no matter.
Init ==
    /\ order = <<>>
    /\ version \in [Flag -> Version]

Set(f, v) ==
    /\ order' = AfterSet(order, f)
    /\ version' = [version EXCEPT ![f] = v]

Delete(f) ==
    /\ order' = IF f \in Entries THEN Others(order, f) ELSE order
    /\ UNCHANGED version

Clear ==
    /\ order' = <<>>
    /\ UNCHANGED version

Next ==
    \/ \E f \in Flag, v \in Version : Set(f, v)
    \/ \E f \in Flag : Delete(f)
    \/ Clear

Spec == Init /\ [][Next]_cache

-------------------------------------------------------------------------------

TypeOK ==
    /\ order \in Seq(Flag)
    /\ IsInjective(order)
    /\ version \in [Flag -> Version]

\* The cache keeps to its size as long as no flag has the empty key: once that
\* is the oldest entry, evictOldest removes nothing any more.
Bounded == EmptyKey \notin Entries => Cardinality(Entries) <= MaxSize
===============================================================================
