--------------------------- MODULE EvaluationContext ---------------------------
(***************************************************************************)
(* The evaluation context of types/context.go: who a flag is evaluated for. *)
(* The attributes with a field of their own (userId is one), the custom    *)
(* ones, a map, and the names of those that are private.  A field that is  *)
(* not set is Empty.                                                       *)
(***************************************************************************)
CONSTANTS
    Field,              \* "userId", "email", "name", "country", ...
    UserId,
    Name,               \* names of attributes, fields and custom ones
    AttributeValue,
    Empty,              \* the empty string
    NoContext           \* the nil pointer

EvaluationContexts ==
    [fields : [Field -> AttributeValue \cup {Empty}],
     anonymous : BOOLEAN,
     custom : UNION {[S -> AttributeValue] : S \in SUBSET Name},
     private : SUBSET Name]

ASSUME ContextAssumption ==
    /\ UserId \in Field
    /\ Field \subseteq Name
    /\ Empty \notin AttributeValue
    /\ NoContext \notin EvaluationContexts

NoCustom == [n \in {} |-> Empty]

NewContext(id) ==
    [fields |-> [f \in Field |-> IF f = UserId THEN id ELSE Empty],
     anonymous |-> FALSE, custom |-> NoCustom, private |-> {}]

NewAnonymousContext == [NewContext(Empty) EXCEPT !.anonymous = TRUE]

WithCustom(c, n, v) ==
    [c EXCEPT !.custom = [m \in DOMAIN @ \cup {n} |-> IF m = n THEN v ELSE @[m]]]

Overridden(c, other) ==
    [n \in DOMAIN c.custom \cup DOMAIN other.custom |->
       IF n \in DOMAIN other.custom THEN other.custom[n] ELSE c.custom[n]]

Merge(c, other) ==
    [fields |-> [f \in Field |-> IF other.fields[f] # Empty THEN other.fields[f] ELSE c.fields[f]],
     anonymous |-> c.anonymous \/ other.anonymous,
     custom |-> Overridden(c, other),
     private |-> c.private \cup other.private]

\* userId and anonymous stay, and the list of private attributes itself goes.
StripPrivateAttributes(c) ==
    [fields |-> [f \in Field |-> IF f # UserId /\ f \in c.private THEN Empty ELSE c.fields[f]],
     anonymous |-> c.anonymous,
     custom |-> [n \in DOMAIN c.custom \ c.private |-> c.custom[n]],
     private |-> {}]

-------------------------------------------------------------------------------
\* The client's context, client/client.go.

\* Identify, given what NewContext and the attributes make of the user.
Identify(context, identified) ==
    IF context = NoContext THEN identified ELSE Merge(context, identified)
===============================================================================
