--------------------------- MODULE HttpSend_proofs ---------------------------
(***************************************************************************)
(* What a call of _request may cost, and what it returns, for every value  *)
(* of retry_5xx and both retry switches.                                   *)
(***************************************************************************)
EXTENDS HttpSend, TLAPS

USE SendAssumption DEF SendAssumption

(* How often the request has been on the wire is the number of attempts    *)
(* over, of both rounds; only a read gets to the second.                   *)
Spent == IF round = 1 THEN 0 ELSE Attempts

CostInv ==
    /\ 2 * slept = attempt * (attempt - 1)
    /\ pc = "send" => exchanges <= Spent + attempt - 1
    /\ pc = "backoff" => exchanges <= Spent + attempt /\ attempt < Attempts /\ CanRetry
    /\ pc = "refresh" => /\ round = 1 /\ exchanges <= Attempts
                         /\ kind = "read" /\ answer = "unauthorised"
    /\ kind = "write" /\ pc = "send" => executed = 0

SendInv ==
    /\ TypeOK
    /\ CostInv
    /\ WriteExecutedOnce
    /\ BoundedExchanges
    /\ FreshAnswer
    /\ RetriesExhausted

LEMMA InitSend == Init => SendInv
  BY DEF Init, SendInv, TypeOK, CostInv, WriteExecutedOnce, BoundedExchanges,
         FreshAnswer, RetriesExhausted, Finished, Attempts, Nothing, Spent, CanRetry

LEMMA NextSend == SendInv /\ [Next]_vars => SendInv'
<1> SUFFICES ASSUME SendInv, [Next]_vars PROVE SendInv'
  OBVIOUS
<1> USE DEF SendInv, TypeOK, CostInv, WriteExecutedOnce, BoundedExchanges,
            FreshAnswer, RetriesExhausted, Finished, Attempts, Spent, CanRetry
<1>1. ASSUME NEW a \in Statuses \cup Exceptions, Exchange(a) PROVE SendInv'
  <2> USE <1>1 DEF Exchange, Statuses, Exceptions, Nothing, Kinds, Executions
  <2>1. CASE Retryable(a)
    BY <2>1 DEF Outcome, Retryable
  <2>2. CASE ~Retryable(a) /\ Refreshable(a)
    BY <2>2 DEF Outcome, Retryable, Refreshable
  <2>3. CASE ~Retryable(a) /\ ~Refreshable(a)
    BY <2>3 DEF Outcome, Retryable, Refreshable
  <2> QED
    BY <2>1, <2>2, <2>3
<1>2. CASE Backoff
  BY <1>2 DEF Backoff
<1>3. CASE Refreshed
  BY <1>3 DEF Refreshed
<1>4. CASE RefreshRaises
  BY <1>4 DEF RefreshRaises
<1>5. CASE UNCHANGED vars
  BY <1>5 DEF vars
<1> QED
  BY <1>1, <1>2, <1>3, <1>4, <1>5 DEF Next

THEOREM SendInvariant == Spec => []SendInv
<1>1. Init => SendInv
  BY InitSend
<1>2. SendInv /\ [Next]_vars => SendInv'
  BY NextSend
<1> QED
  BY <1>1, <1>2, PTL DEF Spec

(* The variables of a call keep their types; in particular the attempt     *)
(* counter stays within the configured attempts.                           *)
THEOREM SendTypes == Spec => []TypeOK
<1>1. SendInv => TypeOK
  BY DEF SendInv
<1> QED
  BY <1>1, SendInvariant, PTL

(* However many retries are configured, a write that did not opt into      *)
(* replay is executed at most once.                                        *)
THEOREM WritesExecuteOnce == Spec => []WriteExecutedOnce
<1>1. SendInv => WriteExecutedOnce
  BY DEF SendInv
<1> QED
  BY <1>1, SendInvariant, PTL

(* A call costs at most two full rounds of attempts.                       *)
THEOREM ExchangesAreBounded == Spec => []BoundedExchanges
<1>1. SendInv => BoundedExchanges
  BY DEF SendInv
<1> QED
  BY <1>1, SendInvariant, PTL

(* What a call returns is the answer to its latest exchange.               *)
THEOREM AnswersAreFresh == Spec => []FreshAnswer
<1>1. SendInv => FreshAnswer
  BY DEF SendInv
<1> QED
  BY <1>1, SendInvariant, PTL

(* A retryable answer is given up on only after the last attempt.          *)
THEOREM RetriesAreUsed == Spec => []RetriesExhausted
<1>1. SendInv => RetriesExhausted
  BY DEF SendInv
<1> QED
  BY <1>1, SendInvariant, PTL

LEMMA Scaled ==
    ASSUME NEW a \in Nat, NEW b \in Nat, NEW c \in Nat, a <= b
    PROVE  a * c <= b * c
  BY SMT

(* The back-off of a round is at most the sum of the first Retry5xx.       *)
THEOREM BackoffIsBounded == Spec => []BoundedBackoff
<1>1. SendInv => BoundedBackoff
  <2> SUFFICES ASSUME SendInv PROVE 2 * slept <= Retry5xx * Attempts
    BY DEF BoundedBackoff
  <2>1. attempt \in Nat /\ attempt - 1 \in Nat /\ attempt - 1 <= Retry5xx
        /\ attempt <= Attempts /\ Attempts \in Nat
    BY DEF SendInv, TypeOK, Attempts
  <2>2. (attempt - 1) * attempt <= Retry5xx * attempt
    BY <2>1, Scaled
  <2>3. attempt * Retry5xx <= Attempts * Retry5xx
    BY <2>1, Scaled
  <2>4. /\ attempt * (attempt - 1) = (attempt - 1) * attempt
        /\ attempt * Retry5xx = Retry5xx * attempt
        /\ Attempts * Retry5xx = Retry5xx * Attempts
    BY <2>1
  <2>5. /\ attempt * (attempt - 1) \in Nat /\ Retry5xx * attempt \in Nat
        /\ Retry5xx * Attempts \in Nat
    BY <2>1
  <2> QED
    BY <2>1, <2>2, <2>3, <2>4, <2>5 DEF SendInv, CostInv
<1> QED
  BY <1>1, SendInvariant, PTL
=============================================================================
