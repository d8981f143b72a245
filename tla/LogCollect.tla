------------------------------ MODULE LogCollect ------------------------------
(***************************************************************************)
(* collect_and_download_diagnostic_data (redfish_sdk/managers/managers.py) *)
(* with the strategies that follow a collection through the TaskService    *)
(* (managers/log_collect_strategies/): find a collection to reuse, or      *)
(* trigger one, wait for it, and download its bundle.  Several callers     *)
(* collect from one BMC.                                                   *)
(*                                                                         *)
(* A bundle is named by the number of the collection that produced it.     *)
(***************************************************************************)
EXTENDS Naturals, Sequences

CONSTANTS
    Callers,
    Strategies,     \* the strategies of the BMC's vendor, a set of names
    Faults,         \* what reads during a download may meet, see Fault
    None,
    MaxRetries,     \* max_retries
    MaxTasks,       \* bound: collections on the BMC
    MaxClock        \* bound: the clock of the BMC, in seconds

(* What find_existing_task takes, and where download_artifact looks: at    *)
(* the task and its log entries, or into the one slot where the BMC keeps  *)
(* its latest archive (an OEM download action, or the entry "Latest").     *)
Strategy ==
    [generic       |-> [reuse |-> "any",     fetch |-> "entry"],
     smoothcompute |-> [reuse |-> "any",     fetch |-> "slot"],
     ieit          |-> [reuse |-> "running", fetch |-> "slot"],
     inspur        |-> [reuse |-> "none",    fetch |-> "slot"],
     h3c           |-> [reuse |-> "none",    fetch |-> "slot"],
     enginetech    |-> [reuse |-> "none",    fetch |-> "slot"]]

(* Log entries cannot be read (they may have been rotated out); a task or  *)
(* an entry has no time.                                                   *)
Fault == {"unread", "undated"}

ASSUME CollectAssumption ==
    /\ Strategies \subseteq DOMAIN Strategy
    /\ Faults \subseteq Fault
    /\ MaxRetries \in Nat /\ MaxTasks \in Nat /\ MaxClock \in Nat \ {0}
    /\ None \notin Nat

VARIABLES
    strategy,
    clock,
    tasks,      \* the collections of the BMC, in the order they were started
    entries,    \* those that made a log entry
    slot,       \* the one whose archive is in the slot, or None
    pc, task, adopted, attempt, bundle, verdict,    \* of each caller
    old,        \* history: collections that were over when its call began
    mine        \* history: collections it has triggered

bmc  == <<clock, tasks, entries, slot>>
call == <<task, adopted, attempt, bundle, verdict, old, mine>>
vars == <<strategy, clock, tasks, entries, slot, pc, call>>

States == {"Running", "Completed", "Warning", "Failed"}

Collection == [state : States, began : Nat, ended : Nat \cup {None},
               timed : BOOLEAN, dated : BOOLEAN]

(* A completed task names its artifact, its log entry, or neither.         *)
Tells == {"uri", "link", "nothing"}

Known == 1..Len(tasks)

Reuse == Strategy[strategy].reuse
Fetch == Strategy[strategy].fetch

Init ==
    /\ strategy \in Strategies
    /\ clock = 1
    /\ tasks = <<>> /\ entries = {} /\ slot = None
    /\ pc = [c \in Callers |-> "idle"]
    /\ task = [c \in Callers |-> None]
    /\ adopted = [c \in Callers |-> FALSE]
    /\ attempt = [c \in Callers |-> 0]
    /\ bundle = [c \in Callers |-> None]
    /\ verdict = [c \in Callers |-> "none"]
    /\ old = [c \in Callers |-> {}]
    /\ mine = [c \in Callers |-> {}]

Goto(c, from, to) == pc[c] = from /\ pc' = [pc EXCEPT ![c] = to]

Raise(c, why) ==
    /\ pc' = [pc EXCEPT ![c] = "raised"]
    /\ verdict' = [verdict EXCEPT ![c] = why]
-----------------------------------------------------------------------------
(* The BMC.  began and ended are the moments themselves; timed and dated   *)
(* say whether the task has a StartTime and its entry a Created.           *)
NewTask(timed, dated) ==
    [state |-> "Running", began |-> clock, ended |-> None,
     timed |-> timed, dated |-> dated]

Dated == IF "undated" \in Faults THEN BOOLEAN ELSE {TRUE}

BmcStarts ==
    /\ Len(tasks) < MaxTasks
    /\ \E timed, dated \in Dated : tasks' = Append(tasks, NewTask(timed, dated))

Tick ==
    /\ clock < MaxClock
    /\ clock' = clock + 1
    /\ UNCHANGED <<strategy, tasks, entries, slot, pc, call>>

(* Another client, or the operator at the web page, collects.              *)
OtherStarts ==
    /\ BmcStarts
    /\ UNCHANGED <<strategy, clock, entries, slot, pc, call>>

TaskEnds(i, s) ==
    /\ tasks[i].state = "Running"
    /\ tasks' = [tasks EXCEPT ![i].state = s, ![i].ended = clock]

TaskSucceeds(i, s) ==
    /\ TaskEnds(i, s)
    /\ entries' = entries \cup {i}
    /\ slot' = i
    /\ UNCHANGED <<strategy, clock, pc, call>>

TaskFails(i) ==
    /\ TaskEnds(i, "Failed")
    /\ UNCHANGED <<strategy, clock, entries, slot, pc, call>>

Purge ==
    /\ slot # None /\ slot' = None
    /\ UNCHANGED <<strategy, clock, tasks, entries, pc, call>>
-----------------------------------------------------------------------------
Start(c) ==
    /\ \E reuse \in BOOLEAN : Goto(c, "idle", IF reuse THEN "find" ELSE "trigger")
    /\ old' = [old EXCEPT ![c] = {i \in Known : tasks[i].state # "Running"}]
    /\ UNCHANGED <<strategy, bmc, task, adopted, attempt, bundle, verdict, mine>>

Started(i) == IF tasks[i].timed THEN tasks[i].began ELSE 0

(* The newest by StartTime of the tasks that could be read.                *)
Newest(readable) ==
    {i \in readable : \A j \in readable : Started(j) <= Started(i)}

MayAdopt_Newest(i) == Reuse # "none"

MayAdopt(i) ==
    \/ Reuse = "any"
    \/ Reuse = "running" /\ tasks[i].state = "Running"

(* _find_existing_collect_task: any failure means that nothing is found.   *)
FindNothing(c) ==
    /\ Goto(c, "find", "trigger")
    /\ UNCHANGED <<strategy, bmc, call>>

(* A completed task is downloaded at once, every other is waited for.      *)
FindExisting(c) ==
    /\ \E readable \in SUBSET Known : \E i \in Newest(readable) :
          /\ MayAdopt(i)
          /\ Goto(c, "find", IF tasks[i].state \in {"Completed", "Warning"}
                             THEN "download" ELSE "wait")
          /\ task' = [task EXCEPT ![c] = i]
    /\ adopted' = [adopted EXCEPT ![c] = TRUE]
    /\ UNCHANGED <<strategy, bmc, attempt, bundle, verdict, old, mine>>

Trigger(c) ==
    /\ Goto(c, "trigger", "wait")
    /\ BmcStarts
    /\ task' = [task EXCEPT ![c] = Len(tasks) + 1]
    /\ mine' = [mine EXCEPT ![c] = @ \cup {Len(tasks) + 1}]
    /\ attempt' = [attempt EXCEPT ![c] = @ + 1]
    /\ UNCHANGED <<strategy, clock, entries, slot, adopted, bundle, verdict, old>>

(* Refused, or the answer is lost and the collection may have been started.*)
TriggerFails(c) ==
    /\ pc[c] = "trigger" /\ Raise(c, "error")
    /\ UNCHANGED tasks \/ BmcStarts
    /\ attempt' = [attempt EXCEPT ![c] = @ + 1]
    /\ UNCHANGED <<strategy, clock, entries, slot, task, adopted, bundle, old, mine>>
-----------------------------------------------------------------------------
Waiting(c, states) == pc[c] = "wait" /\ tasks[task[c]].state \in states

Ready_Ended(c) == Waiting(c, States \ {"Running"})

Ready(c) == Waiting(c, {"Completed"})

WaitSucceeds(c) ==
    /\ Ready(c) /\ Goto(c, "wait", "download")
    /\ UNCHANGED <<strategy, bmc, call>>

(* LogCollectFailedError, which alone is retried, and not for a task that  *)
(* was reused.                                                             *)
WaitFails_OnceMore(c) ==
    /\ Waiting(c, {"Warning", "Failed"})
    /\ IF ~adopted[c] /\ attempt[c] <= MaxRetries + 1
         THEN Goto(c, "wait", "trigger") /\ UNCHANGED verdict
         ELSE Raise(c, "failed")
    /\ UNCHANGED <<strategy, bmc, task, adopted, attempt, bundle, old, mine>>

WaitFails(c) ==
    /\ Waiting(c, {"Warning", "Failed"})
    /\ IF ~adopted[c] /\ attempt[c] <= MaxRetries
         THEN Goto(c, "wait", "trigger") /\ UNCHANGED verdict
         ELSE Raise(c, "failed")
    /\ UNCHANGED <<strategy, bmc, task, adopted, attempt, bundle, old, mine>>

GiveUp_Retries(c) ==
    /\ pc[c] = "wait"
    /\ IF ~adopted[c] /\ attempt[c] <= MaxRetries
         THEN Goto(c, "wait", "trigger") /\ UNCHANGED verdict
         ELSE Raise(c, "error")
    /\ UNCHANGED <<strategy, bmc, task, adopted, attempt, bundle, old, mine>>

(* Timeout, loss of the BMC or of the task: none is a LogCollectFailedError.*)
GiveUp(c) ==
    /\ pc[c] = "wait" /\ Raise(c, "error")
    /\ UNCHANGED <<strategy, bmc, task, adopted, attempt, bundle, old, mine>>
-----------------------------------------------------------------------------
(* extract_download_uri: the URI of the task, the entry it links to, or    *)
(* _latest_resulting_log_entry.  A collection of entries that could not be *)
(* read in full is shorter than it should be.                              *)
Created(i) == IF tasks[i].dated THEN tasks[i].ended ELSE 0

Readings == IF "unread" \in Faults THEN SUBSET entries ELSE {entries}

Latest(pool) == {i \in pool : \A j \in pool : Created(j) <= Created(i)}

Recent(i, pool) ==
    {j \in pool : tasks[i].timed /\ tasks[j].dated /\ Created(j) >= Started(i)}

Resulting(i, pool) ==
    Latest(IF Recent(i, pool) # {} THEN Recent(i, pool) ELSE pool)

Found(i, pool) ==
    UNION {CASE tells = "uri" -> {i}
             [] tells = "link" /\ i \in entries -> {i}
             [] OTHER -> Resulting(i, pool) : tells \in Tells}

Archives == IF slot = None THEN {} ELSE {slot}

Download(c) ==
    /\ Goto(c, "download", "returned")
    /\ \E pool \in Readings :
       \E b \in IF Fetch = "entry" THEN Found(task[c], pool) ELSE Archives :
          bundle' = [bundle EXCEPT ![c] = b]
    /\ UNCHANGED <<strategy, bmc, task, adopted, attempt, verdict, old, mine>>

(* No artifact is found, or its download fails.                            *)
DownloadFails(c) ==
    /\ pc[c] = "download" /\ Raise(c, "error")
    /\ UNCHANGED <<strategy, bmc, task, adopted, attempt, bundle, old, mine>>
-----------------------------------------------------------------------------
Step(c) ==
    \/ FindNothing(c) \/ FindExisting(c)
    \/ Trigger(c) \/ TriggerFails(c)
    \/ WaitSucceeds(c) \/ WaitFails(c) \/ GiveUp(c)
    \/ Download(c) \/ DownloadFails(c)

Bmc ==
    \/ Tick \/ OtherStarts \/ Purge
    \/ \E i \in Known : \/ \E s \in {"Completed", "Warning"} : TaskSucceeds(i, s)
                        \/ TaskFails(i)

Next == Bmc \/ \E c \in Callers : Start(c) \/ Step(c)

Spec == Init /\ [][Next]_vars

-----------------------------------------------------------------------------
TypeOK ==
    /\ strategy \in Strategies
    /\ clock \in 1..MaxClock
    /\ tasks \in Seq(Collection)
    /\ Len(tasks) <= MaxTasks
    /\ entries \subseteq Known /\ slot \in Known \cup {None}
    /\ pc \in [Callers -> {"idle", "find", "trigger", "wait", "download",
                           "returned", "raised"}]
    /\ task \in [Callers -> Known \cup {None}]
    /\ adopted \in [Callers -> BOOLEAN]
    /\ attempt \in [Callers -> 0..MaxRetries + 1]
    /\ bundle \in [Callers -> Known \cup {None}]
    /\ verdict \in [Callers -> {"none", "failed", "error"}]
    /\ old \in [Callers -> SUBSET Known]
    /\ mine \in [Callers -> SUBSET Known]

(* A caller is handed a bundle that was finished after the collection it   *)
(* waited for, or reused, had begun: never one of an earlier collection.   *)
(* Where a collection that is over is not reused, the bundle is of one     *)
(* that was not over when the call began (find_existing_task of Inspur,    *)
(* IEIT, H3C and Enginetech).                                              *)
FreshBundle ==
    \A c \in Callers : bundle[c] # None =>
        /\ tasks[bundle[c]].ended >= tasks[task[c]].began
        /\ Reuse # "any" => bundle[c] \notin old[c]

(* A caller triggers a collection only when those it triggered before are  *)
(* over ("avoids piling up tasks on BMCs that don't allow concurrent       *)
(* collections"), and never once it has reused one.                        *)
NoPileUp ==
    [][\A c \in Callers : Trigger(c) =>
          /\ ~adopted[c]
          /\ \A i \in mine[c] : tasks[i].state # "Running"]_vars

(* A call that fails says so of a collection that failed meanwhile, and    *)
(* one that returns has waited for a success, unless the strategy reuses   *)
(* collections that are over.                                              *)
HonestVerdict ==
    \A c \in Callers : Reuse # "any" =>
        /\ verdict[c] = "failed" =>
              task[c] \notin old[c] /\ tasks[task[c]].state \in {"Failed", "Warning"}
        /\ pc[c] = "returned" => tasks[task[c]].state = "Completed"

(* Only a collection that has not ended is waited for (the comment in      *)
(* collect_and_download_diagnostic_data).                                  *)
AdoptedInFlight ==
    \A c \in Callers : verdict[c] = "failed" => task[c] \notin old[c]
=============================================================================
