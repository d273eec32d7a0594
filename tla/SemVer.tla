-------------------------------- MODULE SemVer ---------------------------------
(***************************************************************************)
(* Version comparison, internal/version/version.go, and what Initialize    *)
(* makes of the versions in the server's answer (checkVersionMetadata).    *)
(*                                                                         *)
(* A version string is what semverRegex finds in it: Unparsable, or three  *)
(* numbers.                                                                *)
(***************************************************************************)
EXTENDS Integers

CONSTANTS
    Unparsable,
    MaxComponent        \* maxVersionComponent

Components == [major : Nat, minor : Nat, patch : Nat]
ASSUME VersionAssumption ==
    /\ MaxComponent \in Nat
    /\ Unparsable \notin Components

String == Components \cup {Unparsable}

Valid(s) ==
    /\ s # Unparsable
    /\ s.major <= MaxComponent /\ s.minor <= MaxComponent /\ s.patch <= MaxComponent

\* Compare; 0 if one of them is not valid.
Compare(a, b) ==
    IF ~(Valid(a) /\ Valid(b)) THEN 0
    ELSE IF a.major # b.major THEN a.major - b.major
    ELSE IF a.minor # b.minor THEN a.minor - b.minor
    ELSE a.patch - b.patch

IsLessThan(a, b) == Compare(a, b) < 0
IsAtLeast(a, b) == Compare(a, b) >= 0

\* What is logged of an answer, "" being a version it does not name: the string
\* "" is Unparsable, and nothing is less or greater than that.
checkVersionMetadata(sdk, metadata) ==
    LET below == IsLessThan(sdk, metadata.recommended)
    IN  (IF IsLessThan(sdk, metadata.min) THEN {"below minimum"} ELSE {})
        \cup (IF below THEN {"below recommended"} ELSE {})
        \cup (IF IsLessThan(sdk, metadata.latest) /\ ~below THEN {"newer available"} ELSE {})
===============================================================================
