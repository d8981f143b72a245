------------------------------- MODULE HttpSend -------------------------------
(***************************************************************************)
(* One call of RedfishHttpClient._request: the bounded retry loop of _send *)
(* run once, and once more after a session refresh                         *)
(* (redfish_sdk/http_client.py).  The BMC may execute a request whose      *)
(* answer is an error or never arrives.                                    *)
(***************************************************************************)
EXTENDS Naturals

CONSTANTS
    Retry5xx,           \* retry_5xx: extra attempts
    RetryOnReadTimeout, \* retry_on_read_timeout
    SessionMode         \* the client is in session mode

ASSUME SendAssumption ==
    /\ Retry5xx \in Nat
    /\ RetryOnReadTimeout \in BOOLEAN
    /\ SessionMode \in BOOLEAN

(* What _send may be asked to send: a GET or HEAD, a write, or a write     *)
(* whose operation declares RetryPolicy.IDEMPOTENT.                        *)
Kinds == {"read", "write", "idempotent"}

(* How an exchange ends: a status that is final, 401, one of the four      *)
(* statuses of _RETRY_STATUS_CODES, or an exception of requests.           *)
Statuses   == {"final", "unauthorised", "transient"}
Exceptions == {"read_timeout", "connect_timeout", "connection_error"}
Nothing    == "nothing"

VARIABLES
    kind,       \* what is sent
    pc,         \* "send", "backoff", "refresh", "returned" or "raised"
    attempt,    \* the loop counter of _send
    round,      \* 1, and 2 after a refresh
    answer,     \* how the latest exchange ended
    response,   \* the variable response of _send
    exchanges,  \* history: how often the request went on the wire
    executed,   \* history: how often the BMC executed it
    slept       \* history: back-off of this round, in units of retry_backoff

vars == <<kind, pc, attempt, round, answer, response, exchanges, executed, slept>>

Attempts == 1 + Retry5xx

Init ==
    /\ kind \in Kinds
    /\ pc = "send"
    /\ attempt = 1
    /\ round = 1
    /\ answer = Nothing
    /\ response = Nothing
    /\ exchanges = 0
    /\ executed = 0
    /\ slept = 0

CanRetry_AllKinds == TRUE

CanRetry == kind \in {"read", "idempotent"}

Retryable_PastTheLast(a) ==
    CanRetry /\ (a = "transient" \/ (a = "read_timeout" /\ RetryOnReadTimeout))

Retryable_TimeoutOnly(a) ==
    CanRetry /\ attempt < Attempts /\ a = "read_timeout" /\ RetryOnReadTimeout

Retryable(a) ==
    /\ CanRetry
    /\ attempt < Attempts
    /\ a = "transient" \/ (a = "read_timeout" /\ RetryOnReadTimeout)

Refreshable_Always(a) == a = "unauthorised" /\ kind = "read" /\ SessionMode

Refreshable(a) ==
    /\ a = "unauthorised"
    /\ kind = "read"
    /\ SessionMode
    /\ round = 1

Outcome_SwallowTimeout(a) ==
    IF Retryable(a) THEN "backoff"
    ELSE IF Refreshable(a) THEN "refresh"
    ELSE IF a \in Exceptions /\ response = Nothing THEN "raised"
    ELSE "returned"

(* Where the loop, and _request around it, go from an answer.              *)
Outcome(a) ==
    IF Retryable(a) THEN "backoff"
    ELSE IF Refreshable(a) THEN "refresh"
    ELSE IF a \in Exceptions THEN "raised"
    ELSE "returned"

(* A BMC that answers 401 or is not reached has not executed the request;  *)
(* one that answers with success has; the others may have.                 *)
Executions(a) ==
    IF a \in {"unauthorised", "connect_timeout"} THEN {0}
    ELSE IF a = "final" THEN {1}
    ELSE {0, 1}

Exchange(a) ==
    /\ pc = "send"
    /\ pc' = Outcome(a)
    /\ answer' = a
    /\ response' = IF a \in Exceptions THEN response ELSE a
    /\ exchanges' = exchanges + 1
    /\ \E n \in Executions(a) : executed' = executed + n
    /\ UNCHANGED <<kind, attempt, round, slept>>

Backoff_Exponential ==
    /\ pc = "backoff"
    /\ pc' = "send"
    /\ slept' = slept + 2 ^ attempt
    /\ attempt' = attempt + 1
    /\ UNCHANGED <<kind, round, answer, response, exchanges, executed>>

Backoff ==
    /\ pc = "backoff"
    /\ pc' = "send"
    /\ slept' = slept + attempt
    /\ attempt' = attempt + 1
    /\ UNCHANGED <<kind, round, answer, response, exchanges, executed>>

(* _refresh_session returns, or raises.  The second _send starts anew.     *)
Refreshed ==
    /\ pc = "refresh"
    /\ pc' = "send"
    /\ round' = 2
    /\ attempt' = 1
    /\ response' = Nothing
    /\ slept' = 0
    /\ UNCHANGED <<kind, answer, exchanges, executed>>

RefreshRaises ==
    /\ pc = "refresh"
    /\ pc' = "raised"
    /\ UNCHANGED <<kind, attempt, round, answer, response, exchanges,
                   executed, slept>>

Finished == pc \in {"returned", "raised"}

Next ==
    \/ \E a \in Statuses \cup Exceptions : Exchange(a)
    \/ Backoff
    \/ Refreshed
    \/ RefreshRaises
    \/ Finished /\ UNCHANGED vars

Spec == Init /\ [][Next]_vars
-----------------------------------------------------------------------------
TypeOK ==
    /\ kind \in Kinds
    /\ pc \in {"send", "backoff", "refresh", "returned", "raised"}
    /\ attempt \in 1..Attempts
    /\ round \in {1, 2}
    /\ answer \in Statuses \cup Exceptions \cup {Nothing}
    /\ response \in Statuses \cup {Nothing}
    /\ exchanges \in Nat /\ executed \in Nat /\ slept \in Nat

(* A write that did not opt into replay is executed at most once, also     *)
(* when its answer was an error or was lost (RetryPolicy.DEFAULT).         *)
WriteExecutedOnce == kind = "write" => executed <= 1

(* A call never costs more than two full retry rounds on the wire.         *)
BoundedExchanges == exchanges <= 2 * Attempts

(* The caller is handed the answer to the latest exchange, never an older  *)
(* response kept from an attempt that was retried.                         *)
FreshAnswer == pc = "returned" => response = answer

(* A retryable answer reaches the caller only when the attempts are used   *)
(* up.                                                                     *)
RetriesExhausted ==
    Finished /\ CanRetry
        /\ (answer = "transient" \/ (answer = "read_timeout" /\ RetryOnReadTimeout))
    => attempt = Attempts

(* Waiting between the attempts of a round grows linearly and is bounded   *)
(* by the sum of the first Retry5xx back-offs.                             *)
BoundedBackoff == 2 * slept <= Retry5xx * Attempts
=============================================================================
