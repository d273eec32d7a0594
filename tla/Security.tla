------------------------------- MODULE Security --------------------------------
(***************************************************************************)
(* The signatures of security/security.go: of request bodies and payloads, *)
(* with an age limit and no tolerance for clocks that disagree, and of     *)
(* bootstrap values, with both.                                            *)
(*                                                                         *)
(* HMAC-SHA256 is taken for what it is used as, a value that tells which   *)
(* key signed which message; "timestamp.body" tells both parts, since the  *)
(* timestamp has no dot in it, and flags that differ have different        *)
(* canonical forms (numbers of different Go types but the same value are   *)
(* the same flag here).  Times are integers in milliseconds: where an int64 *)
(* difference overflows the age is out of bounds either way.               *)
(***************************************************************************)
EXTENDS Integers

\* 5 minutes: the default age limit, and the skew a bootstrap may have.
CONSTANT FiveMinutes

ASSUME SecurityAssumption == FiveMinutes \in Nat \ {0}

\* GenerateHMACSHA256(strconv.FormatInt(timestamp) + "." + body, apiKey)
Signature(timestamp, body, key) == [timestamp |-> timestamp, body |-> body, key |-> key]

\* The empty string, which no signature is.
Unsigned == [timestamp |-> 0]

CreateRequestSignature(body, key, now) ==
    [signature |-> Signature(now, body, key), timestamp |-> now]

\* GetKeyID is public, and a part of the key: keyId is a function of keys.
SignPayload(data, key, timestamp, now, keyId) ==
    LET t == IF timestamp = 0 THEN now ELSE timestamp
    IN  [data |-> data, signature |-> Signature(t, data, key), timestamp |-> t,
         keyId |-> keyId[key]]

InTime(timestamp, maxAge, now) ==
    LET limit == IF maxAge = 0 THEN FiveMinutes ELSE maxAge
    IN  now - timestamp \in 0 .. limit

VerifyRequestSignature(body, signature, timestamp, key, maxAge, now) ==
    /\ InTime(timestamp, maxAge, now)
    /\ signature = Signature(timestamp, body, key)

VerifySignedPayload(payload, key, maxAge, now, keyId) ==
    /\ InTime(payload.timestamp, maxAge, now)
    /\ payload.keyId = keyId[key]
    /\ payload.signature = Signature(payload.timestamp, payload.data, key)

-------------------------------------------------------------------------------

CreateBootstrapSignature(flags, key, now) ==
    [flags |-> flags, signature |-> Signature(now, flags, key), timestamp |-> now]

\* Mutant: the age is not looked at.
BootstrapInTime_Always(timestamp, maxAge, now) == TRUE

\* Without a limit or a timestamp any age will do.
BootstrapInTime(timestamp, maxAge, now) ==
    maxAge > 0 /\ timestamp > 0 => now - timestamp \in (-FiveMinutes) .. maxAge

VerifyBootstrapSignature(bootstrap, key, config, now) ==
    \/ ~config.enabled
    \/ bootstrap.signature = Unsigned
    \/ /\ BootstrapInTime(bootstrap.timestamp, config.maxAge, now)
       /\ bootstrap.signature = Signature(bootstrap.timestamp, bootstrap.flags, key)

\* applyBootstrap: are the signed values used?
Accepted(bootstrap, key, config, now) ==
    \/ bootstrap.signature = Unsigned
    \/ VerifyBootstrapSignature(bootstrap, key, config, now)
    \/ config.onFailure # "error"
===============================================================================
