--------------------------- MODULE EvaluationProofs ----------------------------
(***************************************************************************)
(* Proofs about Evaluation for any flags, cache size and goroutines: what  *)
(* evaluate finds while the cache changes under it, and that refused       *)
(* bootstrap values are never served.  Before them, what the pure parts of *)
(* the SDK compute for every input: signatures (Security), version         *)
(* comparison (SemVer) and evaluation contexts.                            *)
(***************************************************************************)
EXTENDS Evaluation, SemVer, EvaluationContext, SequenceTheorems, FiniteSetTheorems, TLAPS

-------------------------------------------------------------------------------
\* Signatures.

\* A request that passes VerifyRequestSignature was signed with the same key, over
\* the same body, at a moment within the age limit: neither the body nor the
\* timestamp can be exchanged.
THEOREM RequestIsGenuine ==
    ASSUME NEW body, NEW signature, NEW k, NEW timestamp \in Int, NEW maxAge \in Nat,
           NEW now \in Int,
           VerifyRequestSignature(body, signature, timestamp, k, maxAge, now)
    PROVE  \E t \in Int :
             /\ CreateRequestSignature(body, k, t)
                  = [signature |-> signature, timestamp |-> timestamp]
             /\ t <= now
             /\ now <= t + (IF maxAge = 0 THEN FiveMinutes ELSE maxAge)
<1>1. signature = Signature(timestamp, body, k)
  BY DEF VerifyRequestSignature
<1>2. InTime(timestamp, maxAge, now)
  BY DEF VerifyRequestSignature
<1>3. timestamp <= now /\ now <= timestamp + (IF maxAge = 0 THEN FiveMinutes ELSE maxAge)
  BY <1>2, SecurityAssumption DEF InTime
<1>4. CreateRequestSignature(body, k, timestamp)
        = [signature |-> signature, timestamp |-> timestamp]
  BY <1>1 DEF CreateRequestSignature
<1> QED
  BY <1>3, <1>4

\* A payload that SignPayload made passes VerifySignedPayload with the same key up
\* to the age limit, but for a verifier whose clock is behind at no time: unlike a
\* bootstrap it is granted no skew.
THEOREM PayloadRoundTrip ==
    ASSUME NEW data, NEW k, NEW keyId, NEW t \in Int \ {0}, NEW now \in Int,
           NEW later \in Int, NEW maxAge \in Nat \ {0}
    PROVE  VerifySignedPayload(SignPayload(data, k, t, now, keyId), k, maxAge, later, keyId)
             <=> t <= later /\ later <= t + maxAge
<1> DEFINE p == SignPayload(data, k, t, now, keyId)
<1>1. /\ p.data = data /\ p.timestamp = t /\ p.keyId = keyId[k]
      /\ p.signature = Signature(t, data, k)
  BY DEF SignPayload
<1>2. VerifySignedPayload(p, k, maxAge, later, keyId) <=> InTime(t, maxAge, later)
  BY <1>1 DEF VerifySignedPayload
<1>3. InTime(t, maxAge, later) <=> t <= later /\ later <= t + maxAge
  BY DEF InTime
<1> QED
  BY <1>2, <1>3

\* With the verification enabled and failures taken for errors, signed bootstrap
\* values that applyBootstrap uses carry no signature at all, or one made of them
\* with the client's key at their timestamp, which is no older than MaxAge (if
\* both are set) and at most five minutes ahead.
THEOREM BootstrapIsGenuine ==
    ASSUME NEW bootstrap, NEW k, NEW config, NEW now \in Int,
           bootstrap.timestamp \in Int, config.maxAge \in Int,
           config.enabled, config.onFailure = "error",
           bootstrap.signature # Unsigned,
           Accepted(bootstrap, k, config, now)
    PROVE  /\ bootstrap.signature
                = CreateBootstrapSignature(bootstrap.flags, k, bootstrap.timestamp).signature
           /\ config.maxAge > 0 /\ bootstrap.timestamp > 0
                => /\ now - bootstrap.timestamp <= config.maxAge
                   /\ bootstrap.timestamp <= now + FiveMinutes
<1>1. /\ BootstrapInTime(bootstrap.timestamp, config.maxAge, now)
      /\ bootstrap.signature = Signature(bootstrap.timestamp, bootstrap.flags, k)
  BY DEF Accepted, VerifyBootstrapSignature
<1>2. bootstrap.signature
        = CreateBootstrapSignature(bootstrap.flags, k, bootstrap.timestamp).signature
  BY <1>1 DEF CreateBootstrapSignature
<1>3. SUFFICES ASSUME config.maxAge > 0, bootstrap.timestamp > 0
               PROVE  /\ now - bootstrap.timestamp <= config.maxAge
                      /\ bootstrap.timestamp <= now + FiveMinutes
  BY <1>2
<1> QED
  BY <1>1, <1>3, SecurityAssumption DEF BootstrapInTime

-------------------------------------------------------------------------------
\* Versions.

\* A comparison never overflows an int of 32 bits, as long as the limit on the
\* components does not: that is what the limit is for (version.go:24).
THEOREM CompareBounded ==
    ASSUME NEW a \in String, NEW b \in String
    PROVE  Compare(a, b) \in (-MaxComponent) .. MaxComponent
BY VersionAssumption DEF Compare, Valid, String, Components

\* Compare orders the valid versions: it is antisymmetric and transitive, and 0
\* only between equal ones.  (Through a version that is not valid it is not
\* transitive, since that one is "equal" to all.)
THEOREM CompareOrders ==
    ASSUME NEW a \in String, NEW b \in String, NEW c \in String
    PROVE  /\ Compare(a, b) = -Compare(b, a)
           /\ Valid(a) /\ Valid(b) /\ Compare(a, b) = 0 => a = b
           /\ Valid(b) /\ IsLessThan(a, b) /\ IsLessThan(b, c) => IsLessThan(a, c)
<1>1. Compare(a, b) = -Compare(b, a)
  BY VersionAssumption DEF Compare, Valid, String, Components
<1>2. ASSUME Valid(a), Valid(b), Compare(a, b) = 0
      PROVE  a = b
  <2>1. a \in Components /\ b \in Components
    BY <1>2 DEF Valid, String
  <2>2. a.major = b.major /\ a.minor = b.minor /\ a.patch = b.patch
    BY <1>2, <2>1 DEF Compare, Components
  <2> QED
    BY <2>1, <2>2 DEF Components
<1>3. ASSUME Valid(b), IsLessThan(a, b), IsLessThan(b, c)
      PROVE  IsLessThan(a, c)
  <2>1. Valid(a) /\ Valid(c)
    BY <1>3 DEF IsLessThan, Compare
  <2>2. a \in Components /\ b \in Components /\ c \in Components
    BY <1>3, <2>1 DEF Valid, String
  <2> QED
    BY <1>3, <2>1, <2>2 DEF IsLessThan, Compare, Components
<1> QED
  BY <1>1, <1>2, <1>3

\* Upgrading never earns an SDK a reproach: one that is told to upgrade would also
\* have been told so at any version before, and one of which Initialize logs nothing
\* is not made out of date by a newer version of itself.
THEOREM UpgradeIsNoReproach ==
    ASSUME NEW old \in String, NEW sdk \in String, IsLessThan(old, sdk),
           NEW metadata \in [min : String, recommended : String, latest : String]
    PROVE  LET before == checkVersionMetadata(old, metadata)
               after == checkVersionMetadata(sdk, metadata)
           IN  /\ after \subseteq before \cup {"newer available"}
               /\ before = {} => after = {}
<1>1. Valid(sdk)
  BY DEF IsLessThan, Compare
<1>2. ASSUME NEW v \in String, IsLessThan(sdk, v) PROVE IsLessThan(old, v)
  BY <1>1, <1>2, CompareOrders
<1>3. /\ IsLessThan(sdk, metadata.min) => IsLessThan(old, metadata.min)
      /\ IsLessThan(sdk, metadata.recommended) => IsLessThan(old, metadata.recommended)
      /\ IsLessThan(sdk, metadata.latest) => IsLessThan(old, metadata.latest)
  BY <1>2
<1> QED
  BY <1>3 DEF checkVersionMetadata

-------------------------------------------------------------------------------
\* Contexts.

\* An attribute that was private before a user is identified stays private: what
\* is stripped from the merged context is hidden of both, whoever set it.
THEOREM MergeKeepsPrivate ==
    ASSUME NEW c \in EvaluationContexts, NEW other \in EvaluationContexts
    PROVE  LET s == StripPrivateAttributes(Merge(c, other))
           IN  /\ DOMAIN s.custom \cap (c.private \cup other.private) = {}
               /\ \A f \in Field \cap (c.private \cup other.private) :
                    f # UserId => s.fields[f] = Empty
BY DEF StripPrivateAttributes, Merge

\* Merge is associative in all but the anonymous flag's reset, which it never
\* does: the order in which contexts are merged is what counts, not how the
\* merges are grouped.
THEOREM MergeAssociative ==
    ASSUME NEW a \in EvaluationContexts, NEW b \in EvaluationContexts,
           NEW c \in EvaluationContexts
    PROVE  Merge(Merge(a, b), c) = Merge(a, Merge(b, c))
<1> DEFINE l == Merge(Merge(a, b), c)
           r == Merge(a, Merge(b, c))
<1>1. l.fields = r.fields
  BY DEF Merge
<1>2. l.anonymous = r.anonymous
  BY DEF Merge, EvaluationContexts
<1>3. DOMAIN l.custom = DOMAIN r.custom /\ \A n \in DOMAIN l.custom : l.custom[n] = r.custom[n]
  BY DEF Merge, Overridden
<1>4. l.custom = r.custom
  <2>1. l.custom = [n \in DOMAIN l.custom |-> l.custom[n]]
    BY DEF Merge, Overridden
  <2>2. r.custom = [n \in DOMAIN r.custom |-> r.custom[n]]
    BY DEF Merge, Overridden
  <2> QED
    BY <1>3, <2>1, <2>2
<1>5. l.private = r.private
  BY DEF Merge
<1> QED
  BY <1>1, <1>2, <1>4, <1>5 DEF Merge

\* After Reset the client's context is anonymous for good: Identify merges, and
\* merging sets the flag but never clears it.
THEOREM AnonymousSticks ==
    ASSUME NEW id \in AttributeValue,
           NEW c \in EvaluationContexts, c.anonymous
    PROVE  /\ Identify(c, NewContext(id)).anonymous
           /\ Identify(c, NewContext(id)).fields[UserId] = id
<1>1. c # NoContext
  BY ContextAssumption
<1>2. id # Empty
  BY ContextAssumption
<1> QED
  BY <1>1, <1>2, ContextAssumption DEF Identify, Merge, NewContext

-------------------------------------------------------------------------------
\* The cache.

\* A sequence without its i-th element.
LEMMA RemoveAtProperties ==
    ASSUME NEW o \in Seq(Flag), NEW i \in 1 .. Len(o)
    PROVE  LET r == FC!RemoveAt(o, i)
           IN  /\ r \in Seq(Flag)
               /\ Len(r) = Len(o) - 1
               /\ \A j \in 1 .. Len(r) : r[j] = IF j < i THEN o[j] ELSE o[j + 1]
<1> DEFINE a == SubSeq(o, 1, i - 1)
           b == SubSeq(o, i + 1, Len(o))
<1>0. Len(o) \in Nat /\ i \in Int
  BY LenProperties
<1>1. \A j \in 1 .. Len(o) : o[j] \in Flag
  BY ElementOfSeq
<1>2. /\ a \in Seq(Flag) /\ Len(a) = i - 1
      /\ \A j \in 1 .. i - 1 : a[j] = o[j]
  <2>1. \A j \in 1 .. i - 1 : o[j] \in Flag
    BY <1>0, <1>1
  <2>2. /\ a \in Seq(Flag)
        /\ Len(a) = IF 1 <= i - 1 THEN (i - 1) - 1 + 1 ELSE 0
        /\ \A j \in 1 .. (i - 1) - 1 + 1 : a[j] = o[1 + j - 1]
    BY <1>0, <2>1, SubSeqProperties
  <2> QED
    BY <1>0, <2>2
<1>3. /\ b \in Seq(Flag) /\ Len(b) = Len(o) - i
      /\ \A j \in 1 .. Len(o) - i : b[j] = o[i + j]
  <2>1. \A j \in i + 1 .. Len(o) : o[j] \in Flag
    BY <1>0, <1>1
  <2>2. /\ b \in Seq(Flag)
        /\ Len(b) = IF i + 1 <= Len(o) THEN Len(o) - (i + 1) + 1 ELSE 0
        /\ \A j \in 1 .. Len(o) - (i + 1) + 1 : b[j] = o[(i + 1) + j - 1]
    BY <1>0, <2>1, SubSeqProperties
  <2> QED
    BY <1>0, <2>2
<1>4. FC!RemoveAt(o, i) = a \o b
  BY DEF FC!RemoveAt
<1> HIDE DEF a, b
<1>5. /\ a \o b \in Seq(Flag)
      /\ Len(a \o b) = Len(a) + Len(b)
      /\ \A j \in 1 .. Len(a) + Len(b) : (a \o b)[j] = IF j <= Len(a) THEN a[j] ELSE b[j - Len(a)]
  BY <1>2, <1>3, ConcatProperties
<1>6. ASSUME NEW j \in 1 .. Len(o) - 1
      PROVE  (a \o b)[j] = IF j < i THEN o[j] ELSE o[j + 1]
  <2>1. CASE j < i
    BY <1>0, <1>2, <1>3, <1>5, <2>1
  <2>2. CASE ~(j < i)
    <3>1. (a \o b)[j] = b[j - (i - 1)] /\ j - (i - 1) \in 1 .. Len(o) - i
      BY <1>0, <1>2, <1>3, <1>5, <2>2
    <3>2. b[j - (i - 1)] = o[i + (j - (i - 1))]
      BY <1>3, <3>1
    <3> QED
      BY <1>0, <2>2, <3>1, <3>2
  <2> QED
    BY <2>1, <2>2
<1> QED
  BY <1>0, <1>2, <1>3, <1>4, <1>5, <1>6


\* What is set once stays in the cache or the cache is full, and it stays full.
LEMMA AfterSetKeeps ==
    ASSUME NEW o \in Seq(Flag), NEW f \in Flag
    PROVE  LET s == FC!AfterSet(o, f)
           IN  /\ s \in Seq(Flag)
               /\ Len(o) >= MaxSize => Len(s) >= MaxSize
               /\ \A x \in FC!ToSet(o) : x \in FC!ToSet(s) \/ Len(s) >= MaxSize
<1> DEFINE r == FC!Others(o, f)
           s == Append(r, f)
<1> USE EvaluationAssumption
<1>0. Len(o) \in Nat /\ DOMAIN o = 1 .. Len(o)
  BY LenProperties
<1>1. SUFFICES /\ r \in Seq(Flag)
               /\ Len(o) >= MaxSize => Len(r) + 1 >= MaxSize
               /\ \A x \in FC!ToSet(o) : x = f \/ x \in FC!ToSet(r) \/ Len(r) + 1 >= MaxSize
  <2> HIDE DEF r
  <2> SUFFICES ASSUME r \in Seq(Flag),
                      Len(o) >= MaxSize => Len(r) + 1 >= MaxSize,
                      \A x \in FC!ToSet(o) : x = f \/ x \in FC!ToSet(r) \/ Len(r) + 1 >= MaxSize
               PROVE  /\ s \in Seq(Flag)
                      /\ Len(o) >= MaxSize => Len(s) >= MaxSize
                      /\ \A x \in FC!ToSet(o) : x \in FC!ToSet(s) \/ Len(s) >= MaxSize
    BY DEF FC!AfterSet, r
  <2>1. /\ s \in Seq(Flag) /\ Len(s) = Len(r) + 1
        /\ \A j \in 1 .. Len(r) : s[j] = r[j]
        /\ s[Len(r) + 1] = f
    BY AppendProperties
  <2>2. DOMAIN r = 1 .. Len(r) /\ Len(r) \in Nat /\ DOMAIN s = 1 .. Len(r) + 1
    BY <2>1, LenProperties
  <2> HIDE DEF s
  <2>3. f \in FC!ToSet(s) /\ \A x \in FC!ToSet(r) : x \in FC!ToSet(s)
    <3>1. Len(r) + 1 \in DOMAIN s /\ \A j \in DOMAIN r : j \in DOMAIN s /\ s[j] = r[j]
      BY <2>1, <2>2
    <3> QED
      BY <2>1, <3>1 DEF FC!ToSet
  <2> QED
    BY <2>1, <2>3
<1>2. CASE f \in FC!ToSet(o)
  <2> DEFINE i == CHOOSE i \in DOMAIN o : o[i] = f
             q == FC!RemoveAt(o, i)
  <2>1. i \in 1 .. Len(o) /\ o[i] = f
    BY <1>0, <1>2 DEF FC!ToSet
  <2>2. r = q
    BY <1>2 DEF FC!Others
  <2> HIDE DEF i, q, r
  <2>3. /\ q \in Seq(Flag) /\ Len(q) = Len(o) - 1
        /\ \A j \in 1 .. Len(q) : q[j] = IF j < i THEN o[j] ELSE o[j + 1]
    BY <2>1, RemoveAtProperties DEF q
  <2>4. DOMAIN q = 1 .. Len(q) /\ Len(q) \in Nat
    BY <2>3, LenProperties
  <2>5. ASSUME NEW j \in DOMAIN o, o[j] # f PROVE o[j] \in FC!ToSet(q)
    <3>1. CASE j < i
      BY <1>0, <2>1, <2>3, <2>4, <3>1 DEF FC!ToSet
    <3>2. CASE j > i
      <4>1. j - 1 \in DOMAIN q /\ q[j - 1] = o[(j - 1) + 1]
        BY <1>0, <2>1, <2>3, <2>4, <3>2
      <4> QED
        BY <1>0, <4>1 DEF FC!ToSet
    <3> QED
      BY <1>0, <2>1, <2>5, <3>1, <3>2
  <2>6. \A x \in FC!ToSet(o) : x = f \/ x \in FC!ToSet(q)
    BY <2>5 DEF FC!ToSet
  <2> QED
    BY <1>0, <2>2, <2>3, <2>6
<1>3. CASE f \notin FC!ToSet(o) /\ (Len(o) < MaxSize \/ o = <<>> \/ Head(o) = EmptyKey)
  <2>1. r = o
    <3>1. CASE Len(o) < MaxSize
      BY <1>0, <1>3, <3>1 DEF FC!Others
    <3>2. CASE o = <<>> \/ Head(o) = EmptyKey
      BY <1>3, <3>2 DEF FC!Others, FC!Evicted
    <3> QED
      BY <1>3, <3>1, <3>2
  <2> QED
    BY <1>0, <2>1
<1>4. CASE f \notin FC!ToSet(o) /\ Len(o) >= MaxSize /\ o # <<>> /\ Head(o) # EmptyKey
  <2>1. r = Tail(o)
    BY <1>4 DEF FC!Others, FC!Evicted
  <2>2. r \in Seq(Flag) /\ Len(r) = Len(o) - 1
    BY <1>4, <2>1, HeadTailProperties
  <2> QED
    BY <1>0, <1>4, <2>2
<1> QED
  BY <1>0, <1>2, <1>3, <1>4

\* FlagCache counts the way this module does.
LEMMA SameCardinality == \A S : FC!Cardinality(S) = Cardinality(S)
BY DEF FC!Cardinality, Cardinality

\* What NewClient leaves in the cache is a list of flags.
LEMMA FilledTyped ==
    ASSUME NEW B \in SUBSET Flag, IsFiniteSet(B), FC!Filled(B)
    PROVE  order \in Seq(Flag)
<1>1. PICK s \in FC!SetToSeqs(B), n \in 0 .. Cardinality(B) :
        order = SubSeq(s, n + 1, Cardinality(B))
  BY SameCardinality DEF FC!Filled
<1> DEFINE N == Cardinality(B)
<1>2. N \in Nat
  BY FS_CardinalityType
<1>3. s \in [1 .. N -> B]
  BY SameCardinality DEF FC!SetToSeqs
<1> HIDE DEF N
<1>4. n \in Int /\ n >= 0 /\ order = SubSeq(s, n + 1, N)
  BY <1>1, <1>2 DEF N
<1>5. \A i \in n + 1 .. N : s[i] \in Flag
  BY <1>2, <1>3, <1>4
<1> QED
  BY <1>2, <1>4, <1>5, SubSeqProperties

-------------------------------------------------------------------------------

\* The types the argument needs; which entries have expired is not among them.
Types ==
    /\ order \in Seq(Flag)
    /\ entry \in [Flag -> Values]
    /\ pc \in [Goroutine -> {"idle", "each", "get", "stale", "done"}]
    /\ key \in [Goroutine -> Flag \cup {NoFlag}]
    /\ type \in [Goroutine -> FlagType \cup {AnyType}]
    /\ todo \in [Goroutine -> SUBSET Flag]
    /\ result \in [Goroutine -> [reason : Reason, value : Values]]
    /\ genuine \in BOOLEAN /\ stayed \in [Goroutine -> BOOLEAN]

\* A goroutine that looks for a flag has one, of its list if it has a list.
Looking ==
    \A g \in Goroutine :
        /\ pc[g] \in {"get", "stale"} => key[g] \in Flag \ {EmptyKey}
        /\ pc[g] \in {"get", "stale", "done"} /\ todo[g] # {} => key[g] \in todo[g]
        /\ pc[g] = "idle" => todo[g] = {}

Full == Len(order) >= MaxSize

\* A flag of a list is still where it was found, or the cache has filled up.
ListedHeld ==
    \A g \in Goroutine : \A f \in todo[g] : f \in Entries \/ f \in DOMAIN Legacy \/ Full

\* The history variable tells what it is for.
StayedHeld == \A g \in Goroutine : stayed[g] => key[g] \in Entries

\* No value that was refused is in the cache, whatever else is.
EntriesGenuine == ~genuine => \A f \in Flag : entry[f].source # "signed"

\* A value that was looked at has the type that was asked for.
Typed ==
    \A g \in Goroutine :
      Done(g) => \/ result[g].value = NoValue
                 \/ result[g].reason \in {"STALE_CACHE", "BOOTSTRAP"}
                 \/ type[g] \in {AnyType, result[g].value.type}

\* The inductive invariant: what is said of an answer, and what leads up to it.
IInv ==
    /\ Types
    /\ Looking
    /\ ListedHeld
    /\ StayedHeld
    /\ EntriesGenuine
    /\ Typed
    /\ ServedIfCached
    /\ FoundIfListed
    /\ RefusedNotServed

-------------------------------------------------------------------------------

\* The values that evaluate hands on are values.
LEMMA ValuesTyped ==
    /\ NoValue \in Values
    /\ \A k \in GoType, s \in {"server", "legacy", "signed", "default"} :
         /\ Value(k, s) \in Values
         /\ Value(k, s).source = s /\ Value(k, s).kind = k
<1>1. NoValue = Value("nil", "default")
  BY DEF NoValue, Value, InferFlagType
<1> QED
  BY <1>1 DEF Values, Value, GoType

\* What applyBootstrap leaves in the cache, and that it is genuine unless the
\* verification that was asked for did not say otherwise.
LEMMA InitIInv == Init => IInv
<1> SUFFICES ASSUME Init PROVE IInv
  OBVIOUS
<1> USE EvaluationAssumption
<1>1. PICK signed \in Signed \cup {NoSigned}, config \in Verification :
        LET flags == Applied(signed, config)
        IN  /\ FC!Filled(DOMAIN flags)
            /\ entry = [f \in Flag |-> IF f \in DOMAIN flags THEN flags[f] ELSE NoValue]
            /\ genuine = \/ signed = NoSigned
                         \/ signed.signature = Unsigned
                         \/ ~config.enabled
                         \/ config.onFailure # "error"
                         \/ /\ signed = CreateBootstrapSignature(signed.flags, APIKey, signed.timestamp)
                            /\ config.maxAge > 0 /\ signed.timestamp > 0
                                 => Now - signed.timestamp <= config.maxAge
  BY DEF Init
<1> DEFINE flags == Applied(signed, config)
<1>2. /\ DOMAIN flags \in SUBSET Flag /\ IsFiniteSet(DOMAIN flags)
      /\ \A f \in DOMAIN flags : flags[f] \in Values
  <2>1. CASE signed = NoSigned
    <3>1. flags = [f \in DOMAIN Legacy |-> Value(Legacy[f], "legacy")]
      BY <2>1 DEF Applied
    <3> QED
      BY <3>1, ValuesTyped
  <2>2. CASE signed # NoSigned /\ Accepted(signed, APIKey, config, Now)
    <3>1. flags = [f \in DOMAIN signed.flags |-> Value(signed.flags[f], "signed")]
      BY <2>2 DEF Applied
    <3>2. PICK S \in SUBSET Flag : IsFiniteSet(S) /\ signed.flags \in [S -> GoType]
      BY <2>2
    <3> QED
      BY <3>1, <3>2, ValuesTyped
  <2>3. CASE signed # NoSigned /\ ~Accepted(signed, APIKey, config, Now)
    <3>1. flags = <<>>
      BY <2>3 DEF Applied
    <3>2. DOMAIN flags = {}
      BY <3>1
    <3> QED
      BY <3>2, FS_EmptySet
  <2> QED
    BY <2>1, <2>2, <2>3
<1>3. order \in Seq(Flag)
  BY <1>1, <1>2, FilledTyped
<1>4. entry \in [Flag -> Values]
  BY <1>1, <1>2, ValuesTyped
<1>5. EntriesGenuine
  <2> SUFFICES ASSUME ~genuine PROVE \A f \in Flag : entry[f].source # "signed"
    BY DEF EntriesGenuine
  <2>1. /\ signed # NoSigned /\ signed \in Signed
        /\ signed.signature # Unsigned /\ config.enabled /\ config.onFailure = "error"
        /\ ~(/\ signed = CreateBootstrapSignature(signed.flags, APIKey, signed.timestamp)
             /\ config.maxAge > 0 /\ signed.timestamp > 0
                  => Now - signed.timestamp <= config.maxAge)
    BY <1>1
  <2>2. ~Accepted(signed, APIKey, config, Now)
    <3> SUFFICES ASSUME Accepted(signed, APIKey, config, Now) PROVE FALSE
      OBVIOUS
    <3>1. /\ BootstrapInTime(signed.timestamp, config.maxAge, Now)
          /\ signed.signature = Signature(signed.timestamp, signed.flags, APIKey)
      BY <2>1 DEF Accepted, VerifyBootstrapSignature
    <3>2. signed = CreateBootstrapSignature(signed.flags, APIKey, signed.timestamp)
      BY <2>1, <3>1 DEF CreateBootstrapSignature
    <3>3. config.maxAge > 0 /\ signed.timestamp > 0 => Now - signed.timestamp <= config.maxAge
      BY <2>1, <3>1, SecurityAssumption DEF BootstrapInTime
    <3> QED
      BY <2>1, <3>2, <3>3
  <2>3. flags = <<>>
    BY <2>1, <2>2 DEF Applied
  <2>4. DOMAIN flags = {}
    BY <2>3
  <2>5. entry = [f \in Flag |-> NoValue]
    BY <1>1, <2>4
  <2> QED
    BY <2>5 DEF NoValue
<1>6. Types
  <2>1. genuine \in BOOLEAN
    BY <1>1
  <2>2. NoResult \in [reason : Reason, value : Values]
    BY ValuesTyped DEF NoResult, Reason
  <2> QED
    BY <1>3, <1>4, <2>1, <2>2 DEF Init, Types
<1>7. Looking /\ ListedHeld /\ StayedHeld /\ Typed
  BY DEF Init, Looking, ListedHeld, StayedHeld, Typed, Done
<1>8. ServedIfCached /\ FoundIfListed /\ RefusedNotServed
  BY DEF Init, ServedIfCached, FoundIfListed, RefusedNotServed, Done, NoResult, NoValue
<1> QED
  BY <1>5, <1>6, <1>7, <1>8 DEF IInv

-------------------------------------------------------------------------------

\* Initialize or refresh sets a flag, and may evict another.
LEMMA SetKeeps ==
    ASSUME IInv, NEW f \in Flag, NEW k \in Kind, Set(f, k)
    PROVE  IInv'
<1> USE EvaluationAssumption DEF IInv
<1>1. /\ order' = FC!AfterSet(order, f)
      /\ entry' = [entry EXCEPT ![f] = Value(k, "server")]
      /\ stayed' = [g \in Goroutine |-> stayed[g] /\ key[g] \in Entries']
      /\ UNCHANGED <<pc, key, type, todo, result, genuine>>
  BY DEF Set, FC!Set, Remains, Entries, FC!Entries, local
<1>2. /\ order' \in Seq(Flag)
      /\ Full => Full'
      /\ \A x \in Entries : x \in Entries' \/ Full'
  BY <1>1, AfterSetKeeps DEF Types, Full, Entries, FC!Entries
<1>3. Types'
  BY <1>1, <1>2, ValuesTyped DEF Types
<1>4. Looking' /\ StayedHeld' /\ Typed'
  BY <1>1 DEF Looking, StayedHeld, Typed, Done
<1>5. ListedHeld'
  BY <1>1, <1>2 DEF ListedHeld
<1>6. EntriesGenuine'
  BY <1>1, ValuesTyped DEF EntriesGenuine, Types
<1>7. ServedIfCached'
  BY <1>1 DEF ServedIfCached, Done
<1>8. FoundIfListed'
  BY <1>1, <1>2 DEF FoundIfListed, Done, Full
<1>9. RefusedNotServed'
  BY <1>1 DEF RefusedNotServed
<1> QED
  BY <1>3, <1>4, <1>5, <1>6, <1>7, <1>8, <1>9

\* A look that answers does so with the type that was asked for or with a value
\* that is not checked, from the cache if the flag has been there all the time,
\* and with FLAG_NOT_FOUND only when what was listed may have been evicted.
LEMMA AnswerKeeps ==
    ASSUME IInv, NEW g \in Goroutine, NEW r \in Reason, NEW v \in Values,
           Answer(g, r, v),
           UNCHANGED <<order, entry, todo, genuine>>,
           \A h \in Goroutine \ {g} :
             key'[h] = key[h] /\ type'[h] = type[h] /\ stayed'[h] = stayed[h],
           key' \in [Goroutine -> Flag \cup {NoFlag}],
           type' \in [Goroutine -> FlagType \cup {AnyType}],
           stayed' \in [Goroutine -> BOOLEAN],
           todo[g] # {} => key'[g] \in todo[g],
           stayed'[g] => key'[g] \in Entries,
           v = NoValue \/ r \in {"STALE_CACHE", "BOOTSTRAP"} \/ type'[g] \in {AnyType, v.type},
           stayed'[g] /\ key'[g] # EmptyKey => r \in {"CACHED", "STALE_CACHE", "ERROR"},
           r = "FLAG_NOT_FOUND" /\ todo[g] # {} => Full,
           ~genuine => v.source # "signed"
    PROVE  IInv'
<1> USE DEF IInv, Answer, Goto
<1>1. /\ pc' = [pc EXCEPT ![g] = "done"]
      /\ result' = [result EXCEPT ![g] = [reason |-> r, value |-> v]]
      /\ Entries' = Entries /\ (Full' <=> Full)
  BY DEF Entries, FC!Entries, Full
<1>2. Types'
  <2>1. [reason |-> r, value |-> v] \in [reason : Reason, value : Values]
    OBVIOUS
  <2>2. result' \in [Goroutine -> [reason : Reason, value : Values]]
    BY <1>1, <2>1 DEF Types
  <2>3. pc' \in [Goroutine -> {"idle", "each", "get", "stale", "done"}]
    BY <1>1 DEF Types
  <2> QED
    BY <2>2, <2>3 DEF Types
<1>3. /\ pc'[g] = "done" /\ result'[g].reason = r /\ result'[g].value = v
      /\ \A h \in Goroutine \ {g} : pc'[h] = pc[h] /\ result'[h] = result[h]
  BY <1>1 DEF Types
<1> HIDE DEF Answer, Goto
<1>4. Looking'
  BY <1>3 DEF Looking
<1>5. ListedHeld' /\ StayedHeld' /\ EntriesGenuine'
  BY <1>1 DEF ListedHeld, StayedHeld, EntriesGenuine
<1>6. Typed'
  BY <1>3 DEF Typed, Done
<1>7. ServedIfCached'
  BY <1>3 DEF ServedIfCached, Done
<1>8. FoundIfListed'
  BY <1>3 DEF FoundIfListed, Done, Full
<1>9. RefusedNotServed'
  BY <1>3 DEF RefusedNotServed
<1> QED
  BY <1>2, <1>4, <1>5, <1>6, <1>7, <1>8, <1>9

\* An evaluation begins, with an answer at once for the empty key.
LEMMA BeginKeeps ==
    ASSUME IInv, NEW g \in Goroutine, NEW f \in Flag, NEW t \in FlagType \cup {AnyType},
           Begin(g, f, t), todo[g] # {} => f \in todo[g]
    PROVE  IInv'
<1> USE DEF IInv
<1>1. /\ key' = [key EXCEPT ![g] = f]
      /\ type' = [type EXCEPT ![g] = t]
      /\ stayed' = [stayed EXCEPT ![g] = f \in Entries]
      /\ UNCHANGED <<order, entry, todo, genuine>>
  BY DEF Begin, cache
<1>2. /\ key' \in [Goroutine -> Flag \cup {NoFlag}]
      /\ type' \in [Goroutine -> FlagType \cup {AnyType}]
      /\ stayed' \in [Goroutine -> BOOLEAN]
      /\ key'[g] = f /\ type'[g] = t /\ (stayed'[g] <=> f \in Entries)
      /\ \A h \in Goroutine \ {g} :
           key'[h] = key[h] /\ type'[h] = type[h] /\ stayed'[h] = stayed[h]
  <2>1. (f \in Entries) \in BOOLEAN
    OBVIOUS
  <2> QED
    BY <1>1, <2>1 DEF Types
<1>3. CASE f = EmptyKey
  <2>1. Answer(g, "DEFAULT", NoValue)
    BY <1>3 DEF Begin
  <2>2. "DEFAULT" \in Reason /\ NoValue \in Values /\ NoValue.source = "default"
    BY ValuesTyped DEF Reason, NoValue
  <2> QED
    BY <1>1, <1>2, <1>3, <2>1, <2>2, AnswerKeeps
<1>4. CASE f # EmptyKey
  <2>1. pc' = [pc EXCEPT ![g] = "get"] /\ result' = result
    BY <1>4 DEF Begin, Goto
  <2>2. Types'
    BY <1>1, <1>2, <2>1 DEF Types
  <2>3. pc'[g] = "get" /\ \A h \in Goroutine \ {g} : pc'[h] = pc[h]
    BY <2>1 DEF Types
  <2>4. Entries' = Entries /\ (Full' <=> Full)
    BY <1>1 DEF Entries, FC!Entries, Full
  <2>5. Looking'
    BY <1>1, <1>2, <1>4, <2>3 DEF Looking
  <2>6. ListedHeld' /\ StayedHeld' /\ EntriesGenuine'
    BY <1>1, <1>2, <2>4 DEF ListedHeld, StayedHeld, EntriesGenuine
  <2>7. Typed' /\ ServedIfCached' /\ RefusedNotServed'
    BY <1>1, <1>2, <2>1, <2>3 DEF Typed, ServedIfCached, RefusedNotServed, Done
  <2>8. FoundIfListed'
    BY <1>1, <1>2, <2>1, <2>3 DEF FoundIfListed, Done
  <2> QED
    BY <2>2, <2>5, <2>6, <2>7, <2>8
<1> QED
  BY <1>3, <1>4

\* The first look answers with the type asked for or goes on to the second.
LEMMA GetKeeps == ASSUME IInv, NEW g \in Goroutine, Get(g) PROVE IInv'
<1> USE DEF IInv
<1> DEFINE v == entry[key[g]]
<1>1. pc[g] = "get" /\ key[g] \in Flag \ {EmptyKey} /\ v \in Values
      /\ UNCHANGED <<order, entry, todo, genuine, key, type, stayed>>
      /\ (todo[g] # {} => key[g] \in todo[g])
      /\ (stayed[g] => key[g] \in Entries)
      /\ (~genuine => v.source # "signed")
  BY DEF Get, Looking, Types, cache, StayedHeld, EntriesGenuine
<1>2. CASE key[g] \notin Entries \ expired
  <2>1. pc' = [pc EXCEPT ![g] = "stale"] /\ result' = result
    BY <1>2 DEF Get, Goto
  <2>2. Types'
    BY <1>1, <2>1 DEF Types
  <2>3. pc'[g] = "stale" /\ \A h \in Goroutine \ {g} : pc'[h] = pc[h]
    BY <2>1 DEF Types
  <2>4. Entries' = Entries /\ (Full' <=> Full)
    BY <1>1 DEF Entries, FC!Entries, Full
  <2>5. Looking'
    BY <1>1, <2>3 DEF Looking
  <2>6. ListedHeld' /\ StayedHeld' /\ EntriesGenuine'
    BY <1>1, <2>4 DEF ListedHeld, StayedHeld, EntriesGenuine
  <2>7. Typed' /\ ServedIfCached' /\ RefusedNotServed'
    BY <1>1, <2>1, <2>3 DEF Typed, ServedIfCached, RefusedNotServed, Done
  <2>8. FoundIfListed'
    BY <1>1, <2>1, <2>3 DEF FoundIfListed, Done
  <2> QED
    BY <2>2, <2>5, <2>6, <2>7, <2>8
<1>3. CASE key[g] \in Entries \ expired /\ type[g] \in {AnyType, v.type}
  <2>1. Answer(g, "CACHED", v)
    BY <1>3 DEF Get
  <2>2. "CACHED" \in Reason
    BY DEF Reason
  <2> HIDE DEF v
  <2> QED
    BY <1>1, <1>3, <2>1, <2>2, AnswerKeeps DEF Types
<1>4. CASE key[g] \in Entries \ expired /\ type[g] \notin {AnyType, v.type}
  <2>1. Answer(g, "ERROR", NoValue)
    BY <1>4 DEF Get
  <2>2. "ERROR" \in Reason /\ NoValue \in Values /\ NoValue.source = "default"
    BY ValuesTyped DEF Reason, NoValue
  <2> HIDE DEF v
  <2> QED
    BY <1>1, <1>4, <2>1, <2>2, AnswerKeeps DEF Types
<1> QED
  BY <1>2, <1>3, <1>4

\* The second look, which does not check types, and the fallback.
LEMMA GetStaleKeeps == ASSUME IInv, NEW g \in Goroutine, GetStale(g) PROVE IInv'
<1> USE DEF IInv
<1>1. /\ key[g] \in Flag \ {EmptyKey} /\ entry[key[g]] \in Values
      /\ UNCHANGED <<order, entry, todo, genuine, key, type, stayed>>
      /\ (todo[g] # {} => key[g] \in todo[g])
      /\ (stayed[g] => key[g] \in Entries)
      /\ (~genuine => entry[key[g]].source # "signed")
  BY DEF GetStale, Looking, Types, cache, StayedHeld, EntriesGenuine
<1>2. "STALE_CACHE" \in Reason /\ "BOOTSTRAP" \in Reason /\ "FLAG_NOT_FOUND" \in Reason
  BY DEF Reason
<1>3. CASE key[g] \in Entries
  <2> DEFINE v == entry[key[g]]
  <2>1. Answer(g, "STALE_CACHE", v)
    BY <1>3 DEF GetStale
  <2>2. v \in Values /\ (~genuine => v.source # "signed")
    BY <1>1
  <2> HIDE DEF v
  <2> QED
    BY <1>1, <1>2, <2>1, <2>2, AnswerKeeps DEF Types
<1>4. CASE key[g] \notin Entries /\ key[g] \in DOMAIN Legacy
  <2> DEFINE v == Value(Legacy[key[g]], "legacy")
  <2>1. Answer(g, "BOOTSTRAP", v)
    BY <1>4 DEF GetStale
  <2>2. v \in Values /\ v.source = "legacy"
    BY <1>4, EvaluationAssumption, ValuesTyped
  <2> HIDE DEF v
  <2> QED
    BY <1>1, <1>2, <1>4, <2>1, <2>2, AnswerKeeps DEF Types
<1>5. CASE key[g] \notin Entries /\ key[g] \notin DOMAIN Legacy
  <2>1. Answer(g, "FLAG_NOT_FOUND", NoValue)
    BY <1>5 DEF GetStale
  <2>2. NoValue \in Values /\ NoValue.source = "default"
    BY ValuesTyped DEF NoValue
  <2>3. todo[g] # {} => Full
    BY <1>1, <1>5 DEF ListedHeld
  <2> QED
    BY <1>1, <1>2, <1>5, <2>1, <2>2, <2>3, AnswerKeeps DEF Types
<1> QED
  BY <1>3, <1>4, <1>5

\* What the list has left is still held.
LEMMA ReturnKeeps == ASSUME IInv, NEW g \in Goroutine, Return(g) PROVE IInv'
<1> USE DEF IInv
<1>1. /\ todo' = [todo EXCEPT ![g] = @ \ {key[g]}]
      /\ pc' = [pc EXCEPT ![g] = IF todo[g] \subseteq {key[g]} THEN "idle" ELSE "each"]
      /\ key' = [key EXCEPT ![g] = NoFlag]
      /\ type' = [type EXCEPT ![g] = AnyType]
      /\ result' = [result EXCEPT ![g] = NoResult]
      /\ stayed' = [stayed EXCEPT ![g] = FALSE]
      /\ UNCHANGED <<order, entry, genuine>>
  BY DEF Return, Goto, cache
<1>2. NoResult \in [reason : Reason, value : Values] /\ NoResult.value.source = "default"
  BY ValuesTyped DEF NoResult, Reason, NoValue
<1>3. Types'
  BY <1>1, <1>2 DEF Types
<1>4. /\ todo'[g] = todo[g] \ {key[g]} /\ ~stayed'[g] /\ result'[g] = NoResult
      /\ pc'[g] \in {"idle", "each"} /\ (pc'[g] = "idle" => todo'[g] = {})
      /\ \A h \in Goroutine \ {g} :
           /\ todo'[h] = todo[h] /\ pc'[h] = pc[h] /\ key'[h] = key[h] /\ type'[h] = type[h]
           /\ result'[h] = result[h] /\ stayed'[h] = stayed[h]
  BY <1>1 DEF Types
<1>5. Entries' = Entries /\ (Full' <=> Full)
  BY <1>1 DEF Entries, FC!Entries, Full
<1>6. Looking'
  BY <1>4 DEF Looking
<1>7. ListedHeld'
  BY <1>4, <1>5 DEF ListedHeld
<1>8. StayedHeld' /\ EntriesGenuine'
  BY <1>1, <1>4, <1>5 DEF StayedHeld, EntriesGenuine
<1>9. Typed' /\ ServedIfCached'
  BY <1>4 DEF Typed, ServedIfCached, Done
<1>10. FoundIfListed' /\ RefusedNotServed'
  BY <1>1, <1>2, <1>4 DEF FoundIfListed, RefusedNotServed, Done
<1> QED
  BY <1>3, <1>6, <1>7, <1>8, <1>9, <1>10

\* Everything on a new list has been found just now.
LEMMA EvaluateAllKeeps == ASSUME IInv, NEW g \in Goroutine, EvaluateAll(g) PROVE IInv'
<1> USE DEF IInv
<1>1. /\ todo' = [todo EXCEPT ![g] = GetAllFlagKeys]
      /\ pc' = [pc EXCEPT ![g] = "each"]
      /\ UNCHANGED <<order, entry, genuine, key, type, result, stayed>>
  BY DEF EvaluateAll, Goto, cache
<1>2. GetAllFlagKeys \in SUBSET Flag
  <2>1. Entries \subseteq Flag
    <3>1. DOMAIN order = 1 .. Len(order) /\ \A i \in 1 .. Len(order) : order[i] \in Flag
      BY LenProperties, ElementOfSeq DEF Types
    <3> QED
      BY <3>1 DEF Entries, FC!Entries, FC!ToSet
  <2> QED
    BY <2>1, EvaluationAssumption DEF GetAllFlagKeys
<1>3. Types'
  BY <1>1, <1>2 DEF Types
<1>4. /\ todo'[g] = Entries \cup DOMAIN Legacy /\ pc'[g] = "each"
      /\ \A h \in Goroutine \ {g} : todo'[h] = todo[h] /\ pc'[h] = pc[h]
  BY <1>1 DEF Types, GetAllFlagKeys
<1>5. Entries' = Entries /\ (Full' <=> Full)
  BY <1>1 DEF Entries, FC!Entries, Full
<1>6. Looking'
  BY <1>1, <1>4 DEF Looking
<1>7. ListedHeld'
  BY <1>4, <1>5 DEF ListedHeld
<1>8. StayedHeld' /\ EntriesGenuine'
  BY <1>1, <1>5 DEF StayedHeld, EntriesGenuine
<1>9. Typed' /\ ServedIfCached'
  BY <1>1, <1>4 DEF Typed, ServedIfCached, Done
<1>10. FoundIfListed' /\ RefusedNotServed'
  BY <1>1, <1>4 DEF FoundIfListed, RefusedNotServed, Done
<1> QED
  BY <1>3, <1>6, <1>7, <1>8, <1>9, <1>10

\* The inductive invariant holds throughout.
LEMMA Inductive == Spec => []IInv
<1>1. IInv /\ [Next]_vars => IInv'
  <2> SUFFICES ASSUME IInv, [Next]_vars PROVE IInv'
    OBVIOUS
  <2>1. ASSUME UNCHANGED <<order, entry, local, genuine, stayed>> PROVE IInv'
    BY <2>1 DEF local, IInv, Types, Looking, ListedHeld, StayedHeld, EntriesGenuine, Typed,
                ServedIfCached, FoundIfListed, RefusedNotServed, Done, Full, Entries, FC!Entries
  <2>2. ASSUME NEW f \in Flag, Expire(f) PROVE IInv'
    BY <2>1, <2>2 DEF Expire, cache
  <2>3. CASE UNCHANGED vars
    BY <2>1, <2>3 DEF vars, cache
  <2>4. ASSUME NEW g \in Goroutine, NEW f \in Flag, NEW t \in FlagType \cup {AnyType},
               Evaluate(g, f, t)
        PROVE  IInv'
    <3>1. Begin(g, f, t) /\ todo[g] = {}
      BY <2>4 DEF Evaluate, IInv, Looking
    <3> QED
      BY <3>1, BeginKeeps
  <2>5. ASSUME NEW g \in Goroutine, EvaluateNext(g) PROVE IInv'
    <3>1. PICK f \in todo[g] : Begin(g, f, AnyType)
      BY <2>5 DEF EvaluateNext
    <3>2. f \in Flag
      BY <3>1 DEF IInv, Types
    <3> QED
      BY <3>1, <3>2, BeginKeeps
  <2> QED
    BY <2>2, <2>3, <2>4, <2>5, SetKeeps, EvaluateAllKeeps, GetKeeps, GetStaleKeeps, ReturnKeeps
       DEF Next
<1> QED
  BY <1>1, InitIInv, PTL DEF Spec

-------------------------------------------------------------------------------

\* Every variable has its type, and only entries of the cache are expired ones.
THEOREM TypeCorrect == Spec => []TypeOK
<1> DEFINE ExpiredHeld == expired \subseteq Entries
<1>1. Init => ExpiredHeld
  BY DEF Init
<1>2. ExpiredHeld /\ [Next]_vars => ExpiredHeld'
  BY DEF Next, vars, cache, local, Expire, Set, EvaluateAll, Evaluate, EvaluateNext, Begin,
         Get, GetStale, Return, Entries, FC!Entries
<1>3. IInv /\ ExpiredHeld => TypeOK
  BY DEF IInv, Types, TypeOK
<1> QED
  BY <1>1, <1>2, <1>3, Inductive, PTL DEF Spec

\* However many entries expire, are set or are evicted between two looks of
\* evaluate, a flag that is in the cache throughout is answered from the cache
\* (Cache.Get, GetStale).
THEOREM CachedFlagsServed == Spec => []ServedIfCached
<1>1. IInv => ServedIfCached
  BY DEF IInv
<1> QED
  BY <1>1, Inductive, PTL

\* EvaluateAll finds each flag that it has listed, though it lists them under
\* another lock than it looks them up, as long as the cache is not full.
THEOREM ListedFlagsFound == Spec => []FoundIfListed
<1>1. IInv => FoundIfListed
  BY DEF IInv
<1> QED
  BY <1>1, Inductive, PTL

\* Signed bootstrap values that the verification does not allow are never served,
\* for any keys, values and times (applyBootstrap, evaluate).
THEOREM RefusedValuesNotServed == Spec => []RefusedNotServed
<1>1. IInv => RefusedNotServed
  BY DEF IInv
<1> QED
  BY <1>1, Inductive, PTL

\* A typed getter makes up a zero only where evaluate does not check the type, or
\* for an int32 (evaluate, BoolValue, StringValue, Float64Value, IntValue).
THEOREM ZerosUnchecked == Spec => []ZeroOnlyUnchecked
<1>1. IInv => ZeroOnlyUnchecked
  <2> SUFFICES ASSUME IInv, NEW g \in Goroutine, Done(g), type[g] # AnyType,
                      Returned(type[g], result[g].value) = "zero",
                      result[g].reason \notin {"STALE_CACHE", "BOOTSTRAP"}
               PROVE  result[g].value.kind = "int32"
    BY DEF ZeroOnlyUnchecked
  <2>1. PICK k \in GoType, s \in {"server", "legacy", "signed", "default"} :
          result[g].value = Value(k, s)
    BY DEF IInv, Types, Values
  <2>2. result[g].value # NoValue
    BY DEF Returned, NoValue
  <2>3. type[g] = InferFlagType[k] /\ result[g].value.kind = k
    BY <2>1, <2>2 DEF IInv, Typed, Value
  <2>4. type[g] # "json" /\ k \notin Listed[type[g]]
    BY <2>3 DEF Returned
  <2> QED
    BY <2>3, <2>4 DEF GoType, InferFlagType, Listed
<1> QED
  BY <1>1, Inductive, PTL
===============================================================================
