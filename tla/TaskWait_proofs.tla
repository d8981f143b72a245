--------------------------- MODULE TaskWait_proofs ---------------------------
(***************************************************************************)
(* The safety of the task waits for every timeout, every set of delays and *)
(* request times, and every recovery policy.                               *)
(***************************************************************************)
EXTENDS TaskWait, TLAPS

USE WaitAssumption DEF WaitAssumption, Kind

(* A poll is sent before the deadline; what follows it may be one request  *)
(* past the deadline, and the check of a missing monitor one more.         *)
DeadlineInv ==
    /\ pc = "start" => now = 0
    /\ pc = "poll" => now < Timeout
    /\ pc \in {"loop", "sleep", "verify"} => \E r \in RequestTimes : now < Timeout + r
    /\ DeadlineRespected

(* The counter of the code is the number of failures in a row, unless a    *)
(* refusal came between them.                                              *)
StreakInv ==
    /\ pc # "done" => /\ streak <= connections
                      /\ refusals = 0 => streak = connections
    /\ PatientWithOutages

VerdictInv == verdict = "none" <=> pc # "done"

WaitInv == TypeOK /\ DeadlineInv /\ StreakInv /\ VerdictInv

LEMMA RequestTimePositive == \E r \in RequestTimes : r > 0
<1>1. \A r \in RequestTimes : r > 0
  OBVIOUS
<1> QED
  BY <1>1, RequestTimes # {}, Zenon

LEMMA InitWait == Init => WaitInv
<1> SUFFICES ASSUME Init PROVE WaitInv
  OBVIOUS
<1>1. PICK r \in RequestTimes : r > 0
  BY RequestTimePositive
<1>2. DeadlineInv
  BY <1>1 DEF Init, DeadlineInv, DeadlineRespected
<1>3. monitor \in BOOLEAN /\ session \in BOOLEAN /\ taskUri \in BOOLEAN
  BY Zenon DEF Init
<1>4. TypeOK
  BY <1>3 DEF Init, TypeOK, Verdicts, Terminal
<1> QED
  BY <1>2, <1>4 DEF Init, WaitInv, StreakInv, VerdictInv, PatientWithOutages

(* How late the two requests of the last poll may be answered.             *)
LEMMA TwoRequests ==
    ASSUME NEW r \in RequestTimes, NEW s \in RequestTimes, NEW n \in Nat,
           n < Timeout + r + s
    PROVE  \E slowest \in RequestTimes : n < Timeout + 2 * slowest
<1>1. CASE r <= s
  BY <1>1
<1>2. CASE s <= r
  BY <1>2
<1> QED
  BY <1>1, <1>2

LEMMA LaterType == ASSUME now \in 0..Horizon, NEW d \in Nat
                   PROVE  Later(d) \in 0..Horizon /\ Later(d) <= now + d
  BY DEF Later

LEMMA NextType == TypeOK /\ [Next]_vars => TypeOK'
<1> SUFFICES ASSUME TypeOK, [Next]_vars PROVE TypeOK'
  OBVIOUS
<1> USE DEF TypeOK, bmc, call, history, Verdicts, Terminal, Done, SleepFor, Passes,
            Answered, Reconnected
<1>1. CASE Begin
  BY <1>1 DEF Begin
<1>2. CASE Loop
  BY <1>2 DEF Loop
<1>3. CASE Sleep
  BY <1>3, LaterType DEF Sleep, Remaining
<1>4. CASE PollLost
  BY <1>4, LaterType DEF PollLost, ConnectionsUsedUp
<1>5. CASE PollUnauthorised
  BY <1>5, LaterType DEF PollUnauthorised
<1>6. CASE PollTask
  BY <1>6, LaterType DEF PollTask
<1>7. CASE PollAccepted
  <2>1. taskUri' \in BOOLEAN
    BY <1>7, Zenon DEF PollAccepted
  <2> QED
    BY <1>7, <2>1, LaterType DEF PollAccepted
<1>8. CASE PollResult
  BY <1>8, LaterType DEF PollResult
<1>9. CASE PollMissing
  BY <1>9, LaterType DEF PollMissing, MissingMonitor
<1>10. CASE PollHttpError
  BY <1>10, LaterType DEF PollHttpError
<1>11. CASE Verify
  BY <1>11, LaterType DEF Verify, VerifyVerdict
<1>12. CASE TaskEnds
  BY <1>12 DEF TaskEnds
<1>13. CASE MonitorDisappears
  <2>1. monitor' \in BOOLEAN
    BY <1>13, Zenon DEF MonitorDisappears
  <2>2. /\ task' = task /\ session' = session /\ kind' = kind
        /\ taskUri' = taskUri
    BY <1>13, Zenon DEF MonitorDisappears
  <2>3. UNCHANGED <<pc, delay, now, connections, auths, verdict, history>>
    BY <1>13, Zenon DEF MonitorDisappears
  <2> QED
    BY <2>1, <2>2, <2>3
<1>14. CASE UNCHANGED vars
  BY <1>14 DEF vars
<1> QED
  BY <1>1, <1>2, <1>3, <1>4, <1>5, <1>6, <1>7, <1>8, <1>9, <1>10, <1>11,
     <1>12, <1>13, <1>14 DEF Next, Wait, Finished

Poll ==
    \/ PollLost \/ PollUnauthorised \/ PollTask \/ PollAccepted
    \/ PollResult \/ PollMissing \/ PollHttpError

LEMMA PollEnds ==
    ASSUME Poll
    PROVE  pc = "poll" /\ Passes /\ pc' \in {"loop", "sleep", "verify", "done"}
  BY DEF Poll, PollLost, PollUnauthorised, PollTask, PollAccepted, PollResult,
         PollMissing, MissingMonitor, PollHttpError, Answered, Done, SleepFor

LEMMA NextDeadline ==
    ASSUME TypeOK, DeadlineInv, [Next]_vars
    PROVE  DeadlineInv'
<1> USE DEF TypeOK, DeadlineInv, Done, SleepFor
<1>1. CASE Begin
  <2>1. PICK r \in RequestTimes : r > 0
    BY RequestTimePositive
  <2>2. now' = 0 /\ pc' \in {"loop", "sleep"}
    BY <1>1 DEF Begin
  <2> QED
    BY <2>1, <2>2 DEF DeadlineRespected
<1>2. CASE Loop
  BY <1>2 DEF Loop, Expired, Remaining, DeadlineRespected
<1>3. CASE Sleep
  <2>1. PICK r \in RequestTimes : now < Timeout + r /\ r > 0
    BY <1>3 DEF Sleep
  <2>2. CASE Expired \/ delay > Remaining
    BY <1>3, <2>2 DEF Sleep, DeadlineRespected
  <2>3. CASE ~(Expired \/ delay > Remaining)
    <3>1. pc' = "loop" /\ now' <= now + delay /\ now' \in Nat
      BY <1>3, <2>3, LaterType DEF Sleep
    <3>2. now' <= Timeout
      BY <2>3, <3>1 DEF Remaining, Expired
    <3>3. now' < Timeout + r /\ now' < Timeout + 2 * r
      BY <2>1, <3>1, <3>2
    <3> QED
      BY <3>1, <3>3 DEF DeadlineRespected
  <2> QED
    BY <2>2, <2>3
<1>4. CASE Poll
  <2>1. PICK r \in RequestTimes : now' = Later(r)
    BY <1>4, PollEnds DEF Passes
  <2>2. now < Timeout /\ r \in Nat /\ r > 0
    BY <1>4, PollEnds
  <2>3. now' < Timeout + r /\ now' < Timeout + 2 * r
    BY <2>1, <2>2, LaterType
  <2> QED
    BY <1>4, <2>3, PollEnds DEF DeadlineRespected
<1>5. CASE Verify
  <2>1. PICK r \in RequestTimes : now < Timeout + r
    BY <1>5 DEF Verify
  <2>2. PICK s \in RequestTimes : now' = Later(s)
    BY <1>5 DEF Verify, Passes
  <2>3. now' < Timeout + r + s /\ now' \in Nat
    BY <2>1, <2>2, LaterType
  <2>4. DeadlineRespected'
    BY <2>3, TwoRequests DEF DeadlineRespected
  <2> QED
    BY <1>5, <2>4 DEF Verify
<1>6. CASE TaskEnds \/ MonitorDisappears \/ UNCHANGED vars
  BY <1>6 DEF TaskEnds, MonitorDisappears, vars, DeadlineRespected
<1> QED
  BY <1>1, <1>2, <1>3, <1>4, <1>5, <1>6 DEF Next, Wait, Poll, Finished

(* The outcome of a wait: one step decides it, and says what the task is.  *)
LEMMA NextOutcome ==
    ASSUME TypeOK, StreakInv, VerdictInv, [Next]_vars
    PROVE  StreakInv' /\ VerdictInv' /\ [Outcome!TaskEnds \/ Outcome!Decide]_(Outcome!outcomeVars)
<1> USE DEF TypeOK, StreakInv, VerdictInv, PatientWithOutages, Done, SleepFor,
            Answered, Reconnected, bmc, call, history, Terminal,
            Outcome!TaskEnds, Outcome!Decide, Outcome!outcomeVars
<1>1. CASE Begin \/ Loop \/ Sleep
  BY <1>1 DEF Begin, Loop, Sleep
<1>2. CASE PollLost
  BY <1>2 DEF PollLost, ConnectionsUsedUp
<1>3. CASE PollUnauthorised
  BY <1>3 DEF PollUnauthorised
<1>4. CASE PollTask
  BY <1>4 DEF PollTask
<1>5. CASE PollAccepted
  BY <1>5 DEF PollAccepted
<1>6. CASE PollResult
  BY <1>6 DEF PollResult
<1>7. CASE PollMissing \/ PollHttpError
  BY <1>7 DEF PollMissing, MissingMonitor, PollHttpError
<1>8. CASE Verify
  BY <1>8 DEF Verify, VerifyVerdict
<1>9. CASE TaskEnds \/ MonitorDisappears \/ UNCHANGED vars
  BY <1>9 DEF TaskEnds, MonitorDisappears, vars
<1> QED
  BY <1>1, <1>2, <1>3, <1>4, <1>5, <1>6, <1>7, <1>8, <1>9
  DEF Next, Wait, Finished

THEOREM WaitInvariant == Spec => []WaitInv
<1>1. Init => WaitInv
  BY InitWait
<1>2. WaitInv /\ [Next]_vars => WaitInv'
  BY NextType, NextDeadline, NextOutcome DEF WaitInv
<1> QED
  BY <1>1, <1>2, PTL DEF Spec

(* The counters stay within the policy and the clock within its bound.     *)
THEOREM WaitTypes == Spec => []TypeOK
<1>1. WaitInv => TypeOK
  BY DEF WaitInv
<1> QED
  BY <1>1, WaitInvariant, PTL

(* No wait goes on past its deadline for longer than two requests take.    *)
THEOREM DeadlineHolds == Spec => []DeadlineRespected
<1>1. WaitInv => DeadlineRespected
  BY DEF WaitInv, DeadlineInv
<1> QED
  BY <1>1, WaitInvariant, PTL

(* A wait that gives the connection up has used up its policy: on failures *)
(* in a row, unless credentials were refused in between; never on more.    *)
THEOREM OutagesAreTolerated == Spec => []PatientWithOutages
<1>1. WaitInv => PatientWithOutages
  BY DEF WaitInv, StreakInv
<1> QED
  BY <1>1, WaitInvariant, PTL

(* Every wait implements AsyncOutcome: one verdict, and a true one.        *)
THEOREM VerdictsAreTrue == Spec => ReportsTheTask
<1>1. Init => Outcome!Init
  BY DEF Init, Outcome!Init
<1>2. WaitInv /\ [Next]_vars
      => [Outcome!TaskEnds \/ Outcome!Decide]_(Outcome!outcomeVars)
  BY NextOutcome DEF WaitInv
<1> QED
  BY <1>1, <1>2, WaitInvariant, PTL DEF Spec, ReportsTheTask, Outcome!Spec
=============================================================================
