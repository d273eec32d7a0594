------------------------------ MODULE HttpClient ------------------------------
(***************************************************************************)
(* HTTPClient of internal/http/client.go: goroutines performing Get and    *)
(* Post concurrently through one circuit breaker, with retries, back-off,  *)
(* API-key rotation and request signing.                                   *)
(*                                                                         *)
(* Every lock region of the code is one step.  The answer of the network   *)
(* (an external server) is chosen freely among the classes the code tells  *)
(* apart: success, a retryable error, an authentication error, any other   *)
(* error.  Bodies, headers and delays are left out; of the headers only    *)
(* which key was read for X-API-Key and which for the signature is kept.   *)
(***************************************************************************)
EXTENDS Integers, FiniteSets

CONSTANTS
    Request,            \* the goroutines that may be inside Get or Post
    Poster,             \* those that perform Post, the others perform Get
    Cancellable,        \* those whose context may be cancelled
    MaxAttempts,        \* RetryConfig.MaxAttempts, which is Options.Retries
    HasSecondary,       \* is a secondary API key configured?
    Signing,            \* EnableRequestSigning
    FailureThreshold,
    SuccessThreshold,
    HalfOpenMaxAllowed

ASSUME HttpAssumption ==
    /\ IsFiniteSet(Request)
    /\ Poster \subseteq Request
    /\ Cancellable \subseteq Request
    /\ MaxAttempts \in Nat
    /\ HasSecondary \in BOOLEAN
    /\ Signing \in BOOLEAN
    /\ FailureThreshold \in Nat
    /\ SuccessThreshold \in Nat
    /\ HalfOpenMaxAllowed \in Nat

VARIABLES
    state, failures, successes, halfOpenAllowed, halfOpenInProgress, cooled, call,
    currentKey,         \* HTTPClient.currentAPIKey
    pc,                 \* where each goroutine is
    attempt,            \* the attempt of the retry loop it is in
    headerKey,          \* the key its attempt carries in X-API-Key
    signKey,            \* the key its attempt is signed with
    rotated,            \* is it in the request that follows a rotation?
    sends,              \* how many times it has put the operation on the wire
    result              \* what the operation returned

CB == INSTANCE CircuitBreaker WITH Call <- Request, Abandoner <- Cancellable

circuit == <<state, failures, successes, halfOpenAllowed, halfOpenInProgress, cooled, call>>
client == <<currentKey, pc, attempt, headerKey, signKey, rotated, sends, result>>
vars == <<circuit, client>>

Key == {"primary", "secondary"}
Step == {"idle", "request", "header", "sign", "wire", "backoff", "exhausted", "rotate", "done"}
Result == {"none", "ok", "circuit_open", "auth", "error", "retry_limit", "cancelled"}

-------------------------------------------------------------------------------

Init ==
    /\ CB!Init
    /\ currentKey = "primary"
    /\ pc = [r \in Request |-> "idle"]
    /\ attempt = [r \in Request |-> 0]
    /\ headerKey = [r \in Request |-> "none"]
    /\ signKey = [r \in Request |-> "none"]
    /\ rotated = [r \in Request |-> FALSE]
    /\ sends = [r \in Request |-> 0]
    /\ result = [r \in Request |-> "none"]

At(r, s) == pc[r] = s
Goto(r, s) == pc' = [pc EXCEPT ![r] = s]

\* Get or Post is called.
Begin(r) ==
    /\ At(r, "idle")
    /\ Goto(r, "request")
    /\ UNCHANGED <<circuit, currentKey, attempt, headerKey, signKey, rotated, sends, result>>

\* request(): the circuit admits it, and the retry loop starts unless it has
\* no attempt to make.
Admit(r) ==
    /\ At(r, "request")
    /\ CB!Grant(r)
    /\ IF MaxAttempts > 0 THEN Goto(r, "header") ELSE Goto(r, "exhausted")
    /\ attempt' = [attempt EXCEPT ![r] = 1]
    /\ UNCHANGED <<currentKey, headerKey, signKey, rotated, sends, result>>

Finish(r, res) ==
    /\ Goto(r, "done")
    /\ result' = [result EXCEPT ![r] = res]

Refuse(r) ==
    /\ At(r, "request")
    /\ CB!Reject
    /\ Finish(r, "circuit_open")
    /\ UNCHANGED <<currentKey, attempt, headerKey, signKey, rotated, sends>>

PutOnWire(r) ==
    /\ Goto(r, "wire")
    /\ sends' = [sends EXCEPT ![r] = @ + 1]

Signs(r) == r \in Poster /\ Signing

\* doRequest: the key for X-API-Key is read under c.mu, and released ...
ReadHeaderKey(r) ==
    /\ At(r, "header")
    /\ headerKey' = [headerKey EXCEPT ![r] = currentKey]
    /\ IF Signs(r) THEN Goto(r, "sign") /\ UNCHANGED sends ELSE PutOnWire(r)
    /\ UNCHANGED <<circuit, currentKey, attempt, signKey, rotated, result>>

\* Mutant: signs with the configured key instead of the current one.
ReadSigningKey_Configured(r) ==
    /\ At(r, "sign")
    /\ signKey' = [signKey EXCEPT ![r] = "primary"]
    /\ PutOnWire(r)
    /\ UNCHANGED <<circuit, currentKey, attempt, headerKey, rotated, result>>

\* ... and createRequestSignature reads it again.
ReadSigningKey(r) ==
    /\ At(r, "sign")
    /\ signKey' = [signKey EXCEPT ![r] = currentKey]
    /\ PutOnWire(r)
    /\ UNCHANGED <<circuit, currentKey, attempt, headerKey, rotated, result>>

Succeed(r) ==
    /\ At(r, "wire")
    /\ CB!CountSuccess(r)
    /\ Finish(r, "ok")
    /\ UNCHANGED <<currentKey, attempt, headerKey, signKey, rotated, sends>>

\* postWithKeyRotation looks at the error of its first request only.
MayRotate(r) == r \in Poster /\ HasSecondary /\ ~rotated[r]

\* A 401 or 403: not retryable.
FailAuth(r) ==
    /\ At(r, "wire")
    /\ CB!CountFailure(r)
    /\ IF MayRotate(r) THEN Goto(r, "rotate") /\ UNCHANGED result ELSE Finish(r, "auth")
    /\ UNCHANGED <<currentKey, attempt, headerKey, signKey, rotated, sends>>

\* Mutant: a non-retryable error is returned without telling the circuit.
FailOther_Unreported(r) ==
    /\ At(r, "wire")
    /\ Finish(r, "error")
    /\ UNCHANGED <<circuit, currentKey, attempt, headerKey, signKey, rotated, sends>>

\* A 404 or 429: not retryable.
FailOther(r) ==
    /\ At(r, "wire")
    /\ CB!CountFailure(r)
    /\ Finish(r, "error")
    /\ UNCHANGED <<currentKey, attempt, headerKey, signKey, rotated, sends>>

\* Mutant: one attempt too many.
AttemptsLeft_OneMore(r) == attempt[r] <= MaxAttempts

AttemptsLeft(r) == attempt[r] < MaxAttempts

\* Mutant: each failed attempt is reported, and the operation's end again.
FailRetryable_Reported(r) ==
    /\ At(r, "wire")
    /\ CB!CountFailure(r)
    /\ IF AttemptsLeft(r) THEN Goto(r, "backoff") ELSE Goto(r, "exhausted")
    /\ UNCHANGED <<currentKey, attempt, headerKey, signKey, rotated, sends, result>>

\* No answer, or any other status from 400 up: NETWORK_ERROR, retryable.
FailRetryable(r) ==
    /\ At(r, "wire")
    /\ IF AttemptsLeft(r) THEN Goto(r, "backoff") ELSE Goto(r, "exhausted")
    /\ UNCHANGED <<circuit, currentKey, attempt, headerKey, signKey, rotated, sends, result>>

RetryAfterBackoff(r) ==
    /\ At(r, "backoff")
    /\ Goto(r, "header")
    /\ attempt' = [attempt EXCEPT ![r] = @ + 1]
    /\ UNCHANGED <<circuit, currentKey, headerKey, signKey, rotated, sends, result>>

\* The context is done during back-off: the circuit is told nothing.
Cancel(r) ==
    /\ At(r, "backoff")
    /\ r \in Cancellable
    /\ CB!Leave(r)
    /\ Finish(r, "cancelled")
    /\ UNCHANGED <<currentKey, attempt, headerKey, signKey, rotated, sends>>

\* Mutant: the failure is not recorded after the loop.
Exhaust_Unreported(r) ==
    /\ At(r, "exhausted")
    /\ Finish(r, "retry_limit")
    /\ UNCHANGED <<circuit, currentKey, attempt, headerKey, signKey, rotated, sends>>

Exhaust(r) ==
    /\ At(r, "exhausted")
    /\ CB!CountFailure(r)
    /\ Finish(r, "retry_limit")
    /\ UNCHANGED <<currentKey, attempt, headerKey, signKey, rotated, sends>>

\* Mutant: the rotation is noted but the key is not replaced.
RotateKey_KeepsKey(r) ==
    /\ At(r, "rotate")
    /\ currentKey # "secondary"
    /\ rotated' = [rotated EXCEPT ![r] = TRUE]
    /\ Goto(r, "request")
    /\ UNCHANGED <<circuit, currentKey, attempt, headerKey, signKey, sends, result>>

\* rotateToSecondaryKey succeeds: the operation is requested again.
RotateKey(r) ==
    /\ At(r, "rotate")
    /\ currentKey # "secondary"
    /\ currentKey' = "secondary"
    /\ rotated' = [rotated EXCEPT ![r] = TRUE]
    /\ Goto(r, "request")
    /\ UNCHANGED <<circuit, attempt, headerKey, signKey, sends, result>>

\* Mutant: a refused rotation starts the operation afresh.
RotationRefused_TryAgain(r) ==
    /\ At(r, "rotate")
    /\ currentKey = "secondary"
    /\ Goto(r, "request")
    /\ sends' = [sends EXCEPT ![r] = 0]
    /\ UNCHANGED <<circuit, currentKey, attempt, headerKey, signKey, rotated, result>>

\* Someone has rotated already: the authentication error is returned.
RotationRefused(r) ==
    /\ At(r, "rotate")
    /\ currentKey = "secondary"
    /\ Finish(r, "auth")
    /\ UNCHANGED <<circuit, currentKey, attempt, headerKey, signKey, rotated, sends>>

\* The caller takes the result; its goroutine may make another call.
Return(r) ==
    /\ At(r, "done")
    /\ Goto(r, "idle")
    /\ attempt' = [attempt EXCEPT ![r] = 0]
    /\ headerKey' = [headerKey EXCEPT ![r] = "none"]
    /\ signKey' = [signKey EXCEPT ![r] = "none"]
    /\ rotated' = [rotated EXCEPT ![r] = FALSE]
    /\ sends' = [sends EXCEPT ![r] = 0]
    /\ result' = [result EXCEPT ![r] = "none"]
    /\ UNCHANGED <<circuit, currentKey>>

\* ResetTimeout passes since the last failure.
Elapse == CB!Elapse /\ UNCHANGED client

\* The steps a goroutine takes inside Get or Post without waiting for its
\* caller: http.Client.Timeout bounds the wait for an answer.
Respond(r) == Succeed(r) \/ FailAuth(r) \/ FailOther(r) \/ FailRetryable(r)
Proceed(r) ==
    \/ Admit(r) \/ Refuse(r)
    \/ ReadHeaderKey(r) \/ ReadSigningKey(r)
    \/ Respond(r)
    \/ RetryAfterBackoff(r) \/ Exhaust(r)
    \/ RotateKey(r) \/ RotationRefused(r)

Next ==
    \/ \E r \in Request : Begin(r) \/ Proceed(r) \/ Cancel(r) \/ Return(r)
    \/ Elapse

Spec == Init /\ [][Next]_vars

\* Goroutines run, answers or timeouts come, and time passes; nobody has to
\* start an operation or to cancel one.
Fairness ==
    /\ \A r \in Request : WF_vars(Proceed(r))
    /\ WF_vars(Elapse)

FairSpec == Spec /\ Fairness

-------------------------------------------------------------------------------

\* Every variable has its type.
TypeOK ==
    /\ CB!TypeOK
    /\ currentKey \in Key
    /\ pc \in [Request -> Step]
    /\ attempt \in [Request -> Nat]
    /\ headerKey \in [Request -> Key \cup {"none"}]
    /\ signKey \in [Request -> Key \cup {"none"}]
    /\ rotated \in [Request -> BOOLEAN]
    /\ sends \in [Request -> Nat]
    /\ result \in [Request -> Result]

\* Whatever goroutines do, retries and rotations included, the breaker sees
\* the protocol its own specification expects: nobody asks for a second
\* admission before the first is answered, each is answered by one report at
\* most, and nothing is reported without an admission.  Nothing in the code
\* checks this: request() calls the breaker from four places, and each call
\* has its effect whoever makes it.
BreakerSpec == CB!Spec

\* The places in request() where the circuit waits for a report.
OwesReport(r) == pc[r] \in {"header", "sign", "wire", "backoff", "exhausted"}

\* An operation holds its admission exactly while it owes a report: no path
\* through retries, rotation, refusal or cancellation keeps a slot it will
\* never give back, or reports on a slot it does not hold.
SlotHeldWhileOwed == \A r \in Request : (call[r] # "none") <=> OwesReport(r)

\* An operation reaches the wire at most MaxAttempts times, twice that when a
\* key rotation makes it start over, and rotation happens at most once in it.
AttemptBudget ==
    \A r \in Request : sends[r] <= MaxAttempts * (IF rotated[r] THEN 2 ELSE 1)

\* The two reads of the key can disagree, but only in one way: a request that
\* carries the secondary key in its header is never signed with the primary.
SignatureNotOlder ==
    \A r \in Request :
        pc[r] = "wire" /\ Signs(r) /\ headerKey[r] = "secondary" => signKey[r] = "secondary"

\* A Post that returns an authentication error leaves the client on its
\* secondary key, whichever goroutine rotated and whenever it did.
AuthErrorLeavesSecondary ==
    \A r \in Poster :
        pc[r] = "done" /\ result[r] = "auth" /\ HasSecondary => currentKey = "secondary"

\* Every operation returns: it is refused, answered, or runs out of attempts.
EveryCallReturns == \A r \in Request : pc[r] = "request" ~> pc[r] = "done"

NoSlotLeft == state = "half_open" /\ halfOpenInProgress >= halfOpenAllowed

\* The circuit counts a slot as taken that no probe in progress will free:
\* a probe was cancelled during back-off.
SlotLeaked == halfOpenInProgress > Cardinality(CB!Probes)

\* A half-open circuit whose slots are all taken frees one again, unless a
\* cancelled probe has leaked its slot; a leaked slot is the only way for the
\* circuit to reject for ever.
HalfOpenNotWedged == NoSlotLeft ~> ~NoSlotLeft \/ SlotLeaked
===============================================================================
