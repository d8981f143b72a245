------------------------------- MODULE TaskWait -------------------------------
(***************************************************************************)
(* Waiting for an asynchronous operation: wait_for_task and                *)
(* wait_for_operation of TaskServiceManager (redfish_sdk/managers/task.py),*)
(* against a BMC whose task ends at any moment, whose task monitor may     *)
(* disappear, and whose answers may be lost, refused or slow.              *)
(***************************************************************************)
EXTENDS Integers

CONSTANTS
    Kinds,              \* what is waited on, see Kind
    Timeout,            \* timeout, in seconds
    Delays,             \* delays between polls: poll_interval, Retry-After, OEM
    RequestTimes,       \* how long one poll may take
    RecoveryInterval,   \* TaskRecoveryPolicy.recovery_interval
    MaxConnection,      \* TaskRecoveryPolicy.max_connection_attempts
    MaxAuth,            \* TaskRecoveryPolicy.max_auth_attempts
    Horizon             \* bound: the clock stops here, long after the deadline

(* "task" is wait_for_task.  wait_for_operation polls the Location of the  *)
(* 202 answer, which is the Task resource itself ("resource") or an opaque *)
(* monitor ("monitor").                                                    *)
Kind == {"task", "resource", "monitor"}

ASSUME WaitAssumption ==
    /\ Kinds \subseteq Kind
    /\ Timeout \in Nat /\ RecoveryInterval \in Nat
    /\ Delays \subseteq Nat
    /\ RequestTimes \subseteq Nat \ {0} /\ RequestTimes # {}
    /\ MaxConnection \in Nat /\ MaxAuth \in Nat
    /\ Horizon \in Nat

VARIABLES
    task,           \* BMC: TaskState; "Exception" stands for every failed state
    monitor,        \* BMC: the task monitor still exists
    kind,           \* what is waited on
    session,        \* the client is in session mode
    taskUri,        \* the Task resource of a monitored operation is known
    pc,             \* "start", "loop", "poll", "verify", "sleep" or "done"
    delay,          \* the delay _sleep was called with
    now,            \* the monotonic clock, 0 at the call
    connections,    \* connection_attempts
    auths,          \* auth_attempts
    verdict,        \* what the caller was told
    streak,         \* history: transport failures since an answer of any kind
    refusals        \* history: polls refused since an authorised answer

bmc  == <<task, monitor>>
call == <<kind, session>>
history == <<streak, refusals>>
vars == <<bmc, call, taskUri, pc, delay, now, connections, auths, verdict,
          history>>

Terminal == {"Completed", "Exception"}

(* Verdicts about the operation, and the ways of giving the wait up.       *)
Verdicts == {"none", "success", "failed", "timeout", "unreachable",
             "unauthorised", "unverified", "http_error", "broken"}

Init ==
    /\ task = "Running"
    /\ monitor = TRUE
    /\ kind \in Kinds
    /\ session \in BOOLEAN
    /\ taskUri \in (IF kind = "monitor" THEN BOOLEAN ELSE {TRUE})
    /\ pc = "start"
    /\ delay = 0 /\ now = 0
    /\ connections = 0 /\ auths = 0
    /\ verdict = "none"
    /\ streak = 0 /\ refusals = 0
-----------------------------------------------------------------------------
(* The BMC.                                                                *)
TaskEnds ==
    /\ task = "Running"
    /\ task' \in Terminal
    /\ UNCHANGED <<monitor, call, taskUri, pc, delay, now, connections, auths,
                   verdict, history>>

MonitorDisappears ==
    /\ monitor /\ kind = "monitor"
    /\ monitor' = FALSE
    /\ UNCHANGED <<task, call, taskUri, pc, delay, now, connections, auths,
                   verdict, history>>
-----------------------------------------------------------------------------
Later(d) == IF now + d <= Horizon THEN now + d ELSE Horizon

(* The request of a poll has ended, after some time.                       *)
Passes == \E r \in RequestTimes : now' = Later(r)

Done(v) == pc' = "done" /\ verdict' = v

SleepFor(d) == pc' = "sleep" /\ delay' = d /\ UNCHANGED verdict

(* The Retry-After of the 202 answer that started the operation.           *)
Begin ==
    /\ pc = "start"
    /\ \/ pc' = "loop" /\ UNCHANGED <<delay, verdict>>
       \/ kind # "task" /\ \E d \in Delays : SleepFor(d)
    /\ UNCHANGED <<bmc, call, taskUri, now, connections, auths, history>>

Remaining_Restarted == Timeout

Remaining == Timeout - now

Expired == Remaining <= 0

Loop ==
    /\ pc = "loop"
    /\ IF Expired
         THEN Done("timeout")
         ELSE pc' = "poll" /\ UNCHANGED verdict
    /\ UNCHANGED <<bmc, call, taskUri, delay, now, connections, auths, history>>

(* _sleep raises instead of sleeping past the deadline.                    *)
Sleep ==
    /\ pc = "sleep"
    /\ IF Expired \/ delay > Remaining
         THEN Done("timeout") /\ UNCHANGED now
         ELSE pc' = "loop" /\ now' = Later(delay) /\ UNCHANGED verdict
    /\ UNCHANGED <<bmc, call, taskUri, delay, connections, auths, history>>

ConnectionsUsedUp_OneMore == connections > MaxConnection

ConnectionsUsedUp == connections >= MaxConnection

(* A connection error or a timeout of the poll.                            *)
PollLost ==
    /\ pc = "poll"
    /\ Passes
    /\ streak' = streak + 1
    /\ IF ConnectionsUsedUp
         THEN Done("unreachable") /\ UNCHANGED <<delay, connections>>
         ELSE SleepFor(RecoveryInterval) /\ connections' = connections + 1
    /\ UNCHANGED <<bmc, call, taskUri, auths, refusals>>

(* 401 or 403, or a refresh that failed.  Basic mode tries again at once   *)
(* after reset_basic_auth, and leaves connection_attempts as they are.     *)
PollUnauthorised ==
    /\ pc = "poll"
    /\ Passes
    /\ streak' = 0 /\ refusals' = refusals + 1
    /\ IF session \/ auths >= MaxAuth
         THEN Done("unauthorised") /\ UNCHANGED auths
         ELSE pc' = "loop" /\ auths' = auths + 1 /\ UNCHANGED verdict
    /\ UNCHANGED <<bmc, call, taskUri, delay, connections>>

Reconnected_Forgotten ==
    UNCHANGED connections /\ streak' = 0 /\ refusals' = 0

(* Any other answer ends a streak of lost polls.                           *)
Reconnected == connections' = 0 /\ streak' = 0 /\ refusals' = 0

Answered == pc = "poll" /\ Passes /\ Reconnected

(* The Task resource is read: wait_for_task hands over any terminal task,  *)
(* wait_for_operation raises for a failed one.                             *)
PollTask ==
    /\ kind \in {"task", "resource"}
    /\ Answered
    /\ CASE task = "Completed" -> Done("success") /\ UNCHANGED delay
         [] task = "Exception" -> Done("failed") /\ UNCHANGED delay
         [] OTHER -> \E d \in Delays : SleepFor(d)
    /\ UNCHANGED <<bmc, call, taskUri, auths>>

(* 202: the operation goes on; its body may name the Task resource.        *)
PollAccepted ==
    /\ kind = "monitor" /\ monitor /\ task = "Running"
    /\ Answered
    /\ \E d \in Delays : SleepFor(d)
    /\ taskUri' \in {taskUri, TRUE}
    /\ UNCHANGED <<bmc, call, auths>>

(* The monitor of a completed operation answers with its result; that of a *)
(* failed one with an error status, which PollHttpError covers.            *)
PollResult ==
    /\ kind = "monitor" /\ monitor /\ task = "Completed"
    /\ Answered
    /\ Done("success")
    /\ UNCHANGED <<bmc, call, taskUri, delay, auths>>

MissingMonitor ==
    IF taskUri
      THEN pc' = "verify" /\ UNCHANGED verdict
      ELSE Done("unverified")

(* 404 or 410: the monitor is gone, and the Task resource must tell.       *)
PollMissing ==
    /\ kind = "monitor" /\ ~monitor
    /\ Answered
    /\ MissingMonitor
    /\ UNCHANGED <<bmc, call, taskUri, delay, auths>>

(* Any other status ends the wait, whatever became of the task: so does a  *)
(* missing Task resource for wait_for_task.  A missing Task resource that  *)
(* was the Location of the operation is looked up once more.               *)
PollHttpError ==
    /\ Answered
    /\ \/ Done("http_error")
       \/ kind = "resource" /\ pc' = "verify" /\ UNCHANGED verdict
    /\ UNCHANGED <<bmc, call, taskUri, delay, auths>>

VerifyVerdict_OnlyFailures ==
    IF task = "Exception" THEN "failed" ELSE "success"

VerifyVerdict ==
    CASE task = "Completed" -> "success"
      [] task = "Exception" -> "failed"
      [] OTHER -> "unverified"

(* _verify_missing_monitor reads the Task resource once.                   *)
Verify ==
    /\ pc = "verify"
    /\ Passes
    /\ \/ Done(VerifyVerdict) /\ UNCHANGED streak
       \/ Done("unverified") /\ UNCHANGED streak
       \/ Done("broken") /\ streak' = streak + 1
    /\ UNCHANGED <<bmc, call, taskUri, delay, connections, auths, refusals>>
-----------------------------------------------------------------------------
Wait ==
    \/ Begin \/ Loop \/ Sleep
    \/ PollLost \/ PollUnauthorised \/ PollTask \/ PollAccepted
    \/ PollResult \/ PollMissing \/ PollHttpError
    \/ Verify

Finished == pc = "done" /\ UNCHANGED vars

Next == Wait \/ TaskEnds \/ MonitorDisappears \/ Finished

(* The waiting thread keeps running and requests time out; the task need   *)
(* never end.                                                              *)
Spec == Init /\ [][Next]_vars /\ WF_vars(Wait)
-----------------------------------------------------------------------------
TypeOK ==
    /\ task \in {"Running"} \cup Terminal
    /\ monitor \in BOOLEAN /\ session \in BOOLEAN /\ taskUri \in BOOLEAN
    /\ kind \in Kind
    /\ pc \in {"start", "loop", "poll", "verify", "sleep", "done"}
    /\ delay \in Delays \cup {0, RecoveryInterval}
    /\ now \in 0..Horizon
    /\ connections \in 0..MaxConnection
    /\ auths \in 0..MaxAuth
    /\ verdict \in Verdicts
    /\ streak \in Nat /\ refusals \in Nat

(* The wait never sleeps past its deadline: it ends, at the latest, with   *)
(* the answers to a poll sent before the deadline and to the check of the  *)
(* Task resource that may follow it.                                       *)
DeadlineRespected == \E slowest \in RequestTimes : now < Timeout + 2 * slowest

(* The wait outlives max_connection_attempts consecutive losses, and not   *)
(* one more.  It is less patient in one case: when credentials are refused *)
(* between two losses, the losses before the refusal count as well, for a  *)
(* 401 in Basic mode is an answer that does not reset connection_attempts. *)
PatientWithOutages ==
    verdict = "unreachable" =>
        /\ streak <= MaxConnection + 1
        /\ refusals = 0 => streak = MaxConnection + 1

Outcome == INSTANCE AsyncOutcome

(* One verdict, and a true one, also when the monitor disappears.          *)
ReportsTheTask == Outcome!Spec

(* The wait ends, whatever the BMC does.                                   *)
Terminates == <>(pc = "done")

(* A transport failure is retried while the policy allows it.              *)
EveryPollRecovers == verdict = "broken" => streak > MaxConnection

(* An error that says the operation completed is about a completed one.    *)
CompletedMeansTerminal == verdict = "http_error" => task # "Running"
=============================================================================
