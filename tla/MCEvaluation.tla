----------------------------- MODULE MCEvaluation ------------------------------
(***************************************************************************)
(* Evaluation for TLC: a flag and the empty key, or two flags, in a cache  *)
(* for two; signed bootstrap values of every sort.  The pure parts of the  *)
(* SDK are compared with reference definitions over small inputs.          *)
(***************************************************************************)
EXTENDS Evaluation, SemVer, EvaluationContext, TLC

CONSTANTS f1, f2

MCLegacy == f1 :> "int32"

Flags == f1 :> "string" @@ f2 :> "other"

MCSigned ==
    {[flags |-> Flags, signature |-> s, timestamp |-> t] :
       s \in {Unsigned} \cup {Signature(u, Flags, k) : u \in {5, 12}, k \in {APIKey, "other"}},
       t \in {5, 12}}

MCVerification ==
    {[enabled |-> TRUE, onFailure |-> "error", maxAge |-> 0],
     [enabled |-> TRUE, onFailure |-> "error", maxAge |-> 5],
     [enabled |-> TRUE, onFailure |-> "warn", maxAge |-> 5],
     [enabled |-> FALSE, onFailure |-> "error", maxAge |-> 5]}

\* The flags that FlagCache says are evicted while NewClient sets them all are
\* those that are when they are set one by one.
ASSUME FilledIsFold ==
    \A B \in SUBSET Flag : \A s \in FC!SetToSeqs(B) :
      \E n \in 0 .. Len(s) :
        /\ FC!Pushed(s, n)
        /\ FC!FoldLeft(FC!AfterSet, <<>>, s) = SubSeq(s, n + 1, Len(s))

Versions ==
    {Unparsable} \cup [major : 0 .. 2, minor : 0 .. 2, patch : 0 .. 2]

Rank(v) == 9 * v.major + 3 * v.minor + v.patch

\* On valid versions Compare has the sign of the lexicographic order, and any
\* other version is equal to all.
ASSUME CompareIsLexicographic ==
    \A a \in Versions, b \in Versions :
      IF Valid(a) /\ Valid(b)
        THEN /\ IsLessThan(a, b) <=> Rank(a) < Rank(b)
             /\ IsAtLeast(a, b) <=> Rank(a) >= Rank(b)
        ELSE Compare(a, b) = 0

\* What can be read of a context, whatever holds it.
Visible(c) ==
    {<<f, c.fields[f]>> : f \in {g \in Field : c.fields[g] # Empty}}
      \cup {<<n, c.custom[n]>> : n \in DOMAIN c.custom}

\* Stripping removes what is private and nothing else, but the user's id.
ASSUME StripIsRestriction ==
    \A c \in EvaluationContexts :
      Visible(StripPrivateAttributes(c)) =
        {p \in Visible(c) : p[1] \notin c.private}
          \cup {p \in Visible(c) : p = <<UserId, c.fields[UserId]>>}
===============================================================================
