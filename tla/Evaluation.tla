------------------------------ MODULE Evaluation -------------------------------
(***************************************************************************)
(* How client/client.go answers for a flag: the bootstrap values that      *)
(* NewClient puts in the cache, and evaluate, which looks three times: for *)
(* a fresh entry of the cache, for any entry, and in the options.  Each    *)
(* look holds the lock of the cache for itself, and refresh sets, the clock *)
(* expires and the limit evicts entries in between.  EvaluateAll lists the *)
(* keys first and evaluates them one by one.                               *)
(*                                                                         *)
(* Of a flag's state matters what Go type its value has, the type it is    *)
(* declared to have, and where it comes from.  The server (external) may   *)
(* change the type of a flag, and declares the type its value has.         *)
(* Enabled and Version go the same way as the value; the evaluation context *)
(* is not used by evaluate at all; its jitter is time.                     *)
(***************************************************************************)
EXTENDS Integers, Sequences, FiniteSets, Security

CONSTANTS
    Flag, EmptyKey,     \* the keys of flags, "" possibly among them
    MaxSize,            \* of the cache
    Goroutine,          \* those that evaluate
    Kind,               \* Go types of values the server sends
    Legacy,             \* Options.Bootstrap: the type of the value of some flags
    Signed,             \* choices of Options.BootstrapWithSignature
    Verification,       \* choices of Options.BootstrapVerification
    APIKey, Now,
    NoFlag              \* the key of a goroutine that evaluates none

NoSigned == [flags |-> <<>>]
NoValue == [kind |-> "nil", type |-> "json", source |-> "default"]

FlagType == {"boolean", "string", "number", "json"}
AnyType == ""
GoType == {"bool", "string", "float64", "int32", "map", "other", "nil"}

ASSUME EvaluationAssumption ==
    /\ NoFlag \notin Flag
    /\ MaxSize \in Nat \ {0}
    /\ Kind \subseteq GoType
    /\ Now \in Int
    /\ \E L \in SUBSET Flag : IsFiniteSet(L) /\ Legacy \in [L -> GoType]
    /\ \A signed \in Signed :
         /\ signed = [flags |-> signed.flags, signature |-> signed.signature,
                      timestamp |-> signed.timestamp]
         /\ \E S \in SUBSET Flag : IsFiniteSet(S) /\ signed.flags \in [S -> GoType]
         /\ signed.timestamp \in Int
    /\ \A config \in Verification : config.maxAge \in Int /\ config.enabled \in BOOLEAN

\* InferFlagType; for what the server sends, the type it declares too.
InferFlagType ==
    [bool |-> "boolean", string |-> "string", float64 |-> "number", int32 |-> "number",
     map |-> "json", other |-> "json", nil |-> "json"]

Value(k, source) == [kind |-> k, type |-> InferFlagType[k], source |-> source]

VARIABLES
    order, entry,       \* the cache: keys by age, and what was set last for each
    expired,            \* the keys whose ExpiresAt has passed
    pc, key, type,      \* of each goroutine: where it is, what it is asked for
    todo,               \* the keys EvaluateAll has still to evaluate
    result,             \* [reason, value] of the evaluation that has just ended
    \* History, which no step depends on:
    genuine,            \* does the verification asked for allow the signed values?
    stayed              \* has the key been in the cache since evaluate began?

cache == <<order, entry>>
local == <<pc, key, type, todo, result>>
vars == <<cache, expired, local, genuine, stayed>>

Values == {Value(k, s) : k \in GoType, s \in {"server", "legacy", "signed", "default"}}
FC == INSTANCE FlagCache WITH version <- entry, Version <- Values

Entries == FC!Entries
Reason == {"CACHED", "STALE_CACHE", "BOOTSTRAP", "FLAG_NOT_FOUND", "ERROR", "DEFAULT"}
NoResult == [reason |-> "DEFAULT", value |-> NoValue]

-------------------------------------------------------------------------------

\* applyBootstrap: signed values take precedence, and if they are refused no
\* values are applied.  Go's map iteration chooses the order.
Applied(signed, config) ==
    IF signed = NoSigned THEN [f \in DOMAIN Legacy |-> Value(Legacy[f], "legacy")]
    ELSE IF Accepted(signed, APIKey, config, Now)
      THEN [f \in DOMAIN signed.flags |-> Value(signed.flags[f], "signed")]
    ELSE <<>>

Init ==
    /\ \E signed \in Signed \cup {NoSigned}, config \in Verification :
         LET flags == Applied(signed, config)
         IN  /\ FC!Filled(DOMAIN flags)
             /\ entry = [f \in Flag |-> IF f \in DOMAIN flags THEN flags[f] ELSE NoValue]
             /\ genuine = \/ signed = NoSigned
                          \/ signed.signature = Unsigned
                          \/ ~config.enabled
                          \/ config.onFailure # "error"
                          \/ /\ signed = CreateBootstrapSignature(signed.flags, APIKey, signed.timestamp)
                             /\ config.maxAge > 0 /\ signed.timestamp > 0
                                  => Now - signed.timestamp <= config.maxAge
    /\ expired = {}
    /\ pc = [g \in Goroutine |-> "idle"]
    /\ key = [g \in Goroutine |-> NoFlag]
    /\ type = [g \in Goroutine |-> AnyType]
    /\ todo = [g \in Goroutine |-> {}]
    /\ result = [g \in Goroutine |-> NoResult]
    /\ stayed = [g \in Goroutine |-> FALSE]

Goto(g, s) == pc' = [pc EXCEPT ![g] = s]

\* The keys that are still in the cache stay.
Remains == stayed' = [g \in Goroutine |-> stayed[g] /\ key[g] \in FC!ToSet(order')]

\* Initialize or refresh sets a flag.
Set(f, k) ==
    /\ FC!Set(f, Value(k, "server"))
    /\ expired' = (expired \ {f}) \cap FC!ToSet(order')
    /\ Remains
    /\ UNCHANGED <<local, genuine>>

Expire(f) ==
    /\ f \in Entries \ expired
    /\ expired' = expired \cup {f}
    /\ UNCHANGED <<cache, local, genuine, stayed>>

GetAllFlagKeys == Entries \cup DOMAIN Legacy
HasFlag(f) == f \in GetAllFlagKeys

\* EvaluateAll, up to its first call of Evaluate.
EvaluateAll(g) ==
    /\ pc[g] = "idle"
    /\ GetAllFlagKeys # {}
    /\ todo' = [todo EXCEPT ![g] = GetAllFlagKeys]
    /\ Goto(g, "each")
    /\ UNCHANGED <<cache, expired, key, type, result, genuine, stayed>>

Answer(g, r, v) ==
    /\ Goto(g, "done")
    /\ result' = [result EXCEPT ![g] = [reason |-> r, value |-> v]]

\* The default of a caller, whatever its type, has the type asked for.
Begin(g, f, t) ==
    /\ key' = [key EXCEPT ![g] = f]
    /\ type' = [type EXCEPT ![g] = t]
    /\ stayed' = [stayed EXCEPT ![g] = f \in Entries]
    /\ IF f = EmptyKey
         THEN Answer(g, "DEFAULT", NoValue)
         ELSE Goto(g, "get") /\ UNCHANGED result
    /\ UNCHANGED <<cache, expired, todo, genuine>>

\* A getter, whose type is t, or Evaluate.
Evaluate(g, f, t) == pc[g] = "idle" /\ Begin(g, f, t)

EvaluateNext(g) ==
    /\ pc[g] = "each"
    /\ \E f \in todo[g] : Begin(g, f, AnyType)

\* Mutant: an expired entry is deleted when it is met.
Get_Deletes(g) ==
    /\ pc[g] = "get"
    /\ Goto(g, "stale")
    /\ IF key[g] \in expired THEN FC!Delete(key[g]) ELSE UNCHANGED cache
    /\ expired' = expired \ {key[g]}
    /\ UNCHANGED <<key, type, todo, result, genuine, stayed>>

\* Mutant: no look at the type.
Get_Untyped(g) ==
    /\ pc[g] = "get"
    /\ IF key[g] \in Entries \ expired
         THEN Answer(g, "CACHED", entry[key[g]])
         ELSE Goto(g, "stale") /\ UNCHANGED result
    /\ UNCHANGED <<cache, expired, key, type, todo, genuine, stayed>>

Get(g) ==
    LET v == entry[key[g]]
    IN  /\ pc[g] = "get"
        /\ IF key[g] \notin Entries \ expired
             THEN Goto(g, "stale") /\ UNCHANGED result
           ELSE IF type[g] \in {AnyType, v.type} THEN Answer(g, "CACHED", v)
           ELSE Answer(g, "ERROR", NoValue)
        /\ UNCHANGED <<cache, expired, key, type, todo, genuine, stayed>>

\* Mutant: stale entries are not served when there is a bootstrap value.
GetStale_Last(g) ==
    /\ pc[g] = "stale"
    /\ IF key[g] \in DOMAIN Legacy THEN Answer(g, "BOOTSTRAP", Value(Legacy[key[g]], "legacy"))
       ELSE IF key[g] \in Entries THEN Answer(g, "STALE_CACHE", entry[key[g]])
       ELSE Answer(g, "FLAG_NOT_FOUND", NoValue)
    /\ UNCHANGED <<cache, expired, key, type, todo, genuine, stayed>>

\* GetStale, then the options, where only the legacy values are looked for.
GetStale(g) ==
    /\ pc[g] = "stale"
    /\ IF key[g] \in Entries THEN Answer(g, "STALE_CACHE", entry[key[g]])
       ELSE IF key[g] \in DOMAIN Legacy THEN Answer(g, "BOOTSTRAP", Value(Legacy[key[g]], "legacy"))
       ELSE Answer(g, "FLAG_NOT_FOUND", NoValue)
    /\ UNCHANGED <<cache, expired, key, type, todo, genuine, stayed>>

Return(g) ==
    /\ pc[g] = "done"
    /\ todo' = [todo EXCEPT ![g] = @ \ {key[g]}]
    /\ Goto(g, IF todo[g] \subseteq {key[g]} THEN "idle" ELSE "each")
    /\ key' = [key EXCEPT ![g] = NoFlag]
    /\ type' = [type EXCEPT ![g] = AnyType]
    /\ result' = [result EXCEPT ![g] = NoResult]
    /\ stayed' = [stayed EXCEPT ![g] = FALSE]
    /\ UNCHANGED <<cache, expired, genuine>>

Next ==
    \/ \E f \in Flag : Expire(f) \/ \E k \in Kind : Set(f, k)
    \/ \E g \in Goroutine :
         \/ \E f \in Flag, t \in FlagType \cup {AnyType} : Evaluate(g, f, t)
         \/ EvaluateAll(g) \/ EvaluateNext(g)
         \/ Get(g) \/ GetStale(g) \/ Return(g)

Spec == Init /\ [][Next]_vars

-------------------------------------------------------------------------------
\* What a getter makes of a result: BoolValue, StringValue, Float64Value and
\* IntValue return zero for a value of a Go type they do not list, int32 among
\* them; GetJSONValue returns the default of its caller.  "float64" stands for
\* the types of number they do list.

Listed == [boolean |-> {"bool"}, string |-> {"string"}, number |-> {"float64"}, json |-> {"map"}]

Returned(t, v) ==
    IF v.source = "default" THEN "default"
    ELSE IF v.kind \in Listed[t] THEN "value"
    ELSE IF t = "json" THEN "default"
    ELSE "zero"

Done(g) == pc[g] = "done"

\* Every variable has its type.
TypeOK ==
    /\ order \in Seq(Flag)
    /\ entry \in [Flag -> Values]
    /\ expired \subseteq Entries
    /\ pc \in [Goroutine -> {"idle", "each", "get", "stale", "done"}]
    /\ key \in [Goroutine -> Flag \cup {NoFlag}]
    /\ type \in [Goroutine -> FlagType \cup {AnyType}]
    /\ todo \in [Goroutine -> SUBSET Flag]
    /\ result \in [Goroutine -> [reason : Reason, value : Values]]
    /\ genuine \in BOOLEAN /\ stayed \in [Goroutine -> BOOLEAN]

\* A flag that is in the cache all the time that evaluate looks for it is
\* answered from the cache, whatever expires or is set between two looks.
ServedIfCached ==
    \A g \in Goroutine :
      Done(g) /\ stayed[g] /\ key[g] # EmptyKey
        => result[g].reason \in {"CACHED", "STALE_CACHE", "ERROR"}

\* EvaluateAll finds every flag that it has listed, unless the cache is full and
\* the flag has been evicted in between.
FoundIfListed ==
    \A g \in Goroutine :
      Done(g) /\ todo[g] # {} /\ result[g].reason = "FLAG_NOT_FOUND"
        => Len(order) >= MaxSize

\* A typed getter returns the flag's value or its caller's default, and makes up
\* a zero only where the type is not checked (a stale entry or a bootstrap value)
\* or not known to the conversion (int32).
ZeroOnlyUnchecked ==
    \A g \in Goroutine :
      Done(g) /\ type[g] # AnyType /\ Returned(type[g], result[g].value) = "zero"
        => result[g].reason \in {"STALE_CACHE", "BOOTSTRAP"} \/ result[g].value.kind = "int32"

\* Signed bootstrap values that the verification asked for does not allow are
\* never served: not by the cache, fresh or stale, and not by the fallback.
RefusedNotServed ==
    ~genuine => \A g \in Goroutine : result[g].value.source # "signed"
===============================================================================
