--------------------------- MODULE ProgressCollect ---------------------------
(***************************************************************************)
(* collect_and_download_diagnostic_data (redfish_sdk/managers/managers.py) *)
(* with the strategies that wait in a way of their own                     *)
(* (managers/log_collect_strategies/): ZTE and Lenovo poll one progress    *)
(* register, which shows one run only, and for as long as the BMC likes    *)
(* one before the latest; an IEIT task is invisible for as long.           *)
(*                                                                         *)
(* One call is followed.  Other clients start runs on the same BMC.  Time  *)
(* is what the call has slept since its wait began, in seconds.            *)
(***************************************************************************)
EXTENDS Naturals, Sequences

CONSTANTS
    Vendors,        \* the vendors the BMC may be of
    None,
    Step,           \* poll_interval
    Timeout,        \* timeout
    OneTarPath,     \* the firmware gives every archive the same path
    MaxRetries,     \* max_retries
    MaxRuns         \* bound: runs on the BMC

Placeholder == 0    \* the TarPath of an idle BMC, which names no archive

ASSUME ProgressAssumption ==
    /\ Vendors \subseteq {"zte", "lenovo", "ieit"}
    /\ Step \in Nat \ {0} /\ Timeout \in Nat
    /\ MaxRetries \in Nat /\ MaxRuns \in Nat
    /\ OneTarPath \in BOOLEAN
    /\ None \notin Nat

VARIABLES
    vendor,
    runs,       \* the runs of the BMC, in the order they were started
    kept,       \* those whose archive the BMC has
    shown,      \* the run the register shows, 0 if none; IEIT lists it and
                \* those before it
    pc,
    run,        \* the run the call has triggered or adopted
    adopted,    \* it is not the call's own (on ZTE: no _zte_fresh_trigger)
    prev,       \* _zte_previous_tar_path
    observed,   \* observed_new_run
    elapsed, deadline, attempt,
    tar,        \* tar_path, then _zte_tar_path
    bundle, verdict,
    old,        \* history: runs that were over when the call began
    mine,       \* history: runs it has triggered
    behind,     \* history: a run after the one the register showed was over
                \* when the call adopted it or captured its path
    late,       \* history: polls of the wait that showed an earlier run, up to 2
    vague,      \* history: one of them showed a success without its path
    ignored     \* history: readings it ignored of its own run's success, up to 2

bmc  == <<runs, kept, shown>>
wait == <<observed, elapsed, deadline>>
reading == <<tar, late, vague>>
call == <<run, adopted, prev, behind, attempt, bundle, verdict, old, mine>>
vars == <<vendor, bmc, pc, wait, reading, call, ignored>>

Known == 1..Len(runs)
Over  == {i \in Known : runs[i] # "running"}

Init ==
    /\ vendor \in Vendors
    /\ runs = <<>> /\ kept = {} /\ shown = 0
    /\ pc = "idle" /\ run = 0 /\ adopted = FALSE
    /\ prev = None /\ behind = FALSE /\ observed = FALSE
    /\ elapsed = 0 /\ deadline = Timeout /\ attempt = 0
    /\ tar = None /\ late = 0 /\ vague = FALSE
    /\ bundle = None /\ verdict = "none"
    /\ old = {} /\ mine = {} /\ ignored = 0

Goto(from, to) == pc = from /\ pc' = to

Raise(why) == pc' = "raised" /\ verdict' = why
-----------------------------------------------------------------------------
(* The BMC.                                                                *)
RunStarts ==
    /\ Len(runs) < MaxRuns
    /\ runs' = Append(runs, "running")

OtherStarts ==
    /\ RunStarts
    /\ UNCHANGED <<vendor, kept, shown, pc, wait, reading, call, ignored>>

(* The register goes over to a later run, now or never.                    *)
TakesOver ==
    /\ shown' \in (shown + 1)..Len(runs)
    /\ UNCHANGED <<vendor, runs, kept, pc, wait, reading, call, ignored>>

RunEnds(i, how) ==
    /\ runs[i] = "running"
    /\ runs' = [runs EXCEPT ![i] = how]
    /\ kept' = IF how = "done" THEN kept \cup {i} ELSE kept
    /\ UNCHANGED <<vendor, shown, pc, wait, reading, call, ignored>>

Purge ==
    /\ kept # {} /\ kept' = {}
    /\ UNCHANGED <<vendor, runs, shown, pc, wait, reading, call, ignored>>

(* What a reading says of the run it shows.                                *)
State(i) == IF i = 0 THEN "idle" ELSE runs[i]

Path(i) == IF OneTarPath THEN 1 ELSE i

(* What the TarPath of a reading may be: that of the run it shows, the     *)
(* placeholder, or nothing.                                                *)
TarPaths ==
    {None, Placeholder} \cup (IF shown = 0 THEN {} ELSE {Path(shown)})
-----------------------------------------------------------------------------
Start ==
    /\ \E reuse \in BOOLEAN : Goto("idle", IF reuse THEN "find" ELSE "capture")
    /\ old' = Over
    /\ UNCHANGED <<vendor, bmc, wait, reading, run, adopted, prev, behind, attempt,
                   bundle, verdict, mine, ignored>>

(* What the register is found to be when the call first looks at it.       *)
IsBehind == behind' = (\E i \in old : i > shown)

(* find_existing_task: a run in flight is adopted.  A run that is over is  *)
(* not, nor is anything by Lenovo; a read that fails finds nothing.        *)
Adopt(i) ==
    /\ vendor # "lenovo" /\ State(i) = "running"
    /\ Goto("find", "poll")
    /\ run' = i /\ adopted' = TRUE

FindExisting ==
    /\ Adopt(shown) /\ IsBehind
    /\ UNCHANGED <<vendor, bmc, wait, reading, prev, attempt, bundle, verdict, old,
                   mine, ignored>>

FindNothing ==
    /\ Goto("find", "capture")
    /\ UNCHANGED <<vendor, bmc, wait, reading, call, ignored>>

(* trigger of ZTE first reads the path of the archive before, if the       *)
(* register shows a valid one and the read does not fail.                  *)
Capture ==
    /\ Goto("capture", "trigger")
    /\ IF vendor = "zte"
         THEN /\ prev' \in (TarPaths \cup {None}) \ {Placeholder}
              /\ IsBehind
         ELSE UNCHANGED <<prev, behind>>
    /\ UNCHANGED <<vendor, bmc, wait, reading, run, adopted, attempt, bundle, verdict,
                   old, mine, ignored>>

BeginWait ==
    /\ observed' = FALSE /\ elapsed' = 0 /\ deadline' = Timeout
    /\ tar' = None /\ late' = 0 /\ vague' = FALSE

Trigger ==
    /\ Goto("trigger", "poll")
    /\ RunStarts
    /\ run' = Len(runs) + 1
    /\ mine' = mine \cup {Len(runs) + 1}
    /\ attempt' = attempt + 1
    /\ BeginWait /\ ignored' = 0
    /\ UNCHANGED <<vendor, kept, shown, adopted, prev, behind, bundle, verdict, old>>

(* Refused, or the answer is lost and the run may have been started.       *)
TriggerFails ==
    /\ pc = "trigger" /\ Raise("error")
    /\ UNCHANGED runs \/ RunStarts
    /\ attempt' = attempt + 1
    /\ UNCHANGED <<vendor, kept, shown, wait, reading, run, adopted, prev, behind,
                   bundle, old, mine, ignored>>
-----------------------------------------------------------------------------
Polling == pc = "poll" /\ elapsed < deadline

(* ZTE: a finished run may be the one before, until another state was read;*)
(* with no path to compare, only the first reading is distrusted.          *)
Stale_NoPath(path) ==
    ~adopted /\ IF prev = None THEN FALSE ELSE ~observed /\ path = prev

Stale_Always(path) ==
    ~adopted /\ IF prev = None THEN ~observed ELSE ~observed /\ path = prev

Stale(path) ==
    ~adopted /\ IF prev = None THEN elapsed = 0 ELSE ~observed /\ path = prev

Succeeded(i, path) ==
    State(i) = "done" /\ (vendor = "zte" => ~Stale(path))

(* ZTE does not believe the first reading of a failure.                    *)
Failed_AtOnce(i) == State(i) = "failed"

Failed(i) == State(i) = "failed" /\ (vendor = "zte" => elapsed > 0)

(* The run a poll is answered with: the register, or the IEIT task itself. *)
Polled == IF vendor = "ieit" THEN run ELSE shown

Hidden == vendor = "ieit" /\ shown < run

Smaller(a, b) == IF a < b THEN a ELSE b
Greater(a, b) == IF a > b THEN a ELSE b

(* What a poll of ZTE adds to tar_path, which outlives the poll, and what  *)
(* it was like.                                                            *)
Reading ==
    /\ IF vendor = "zte"
         THEN \E p \in TarPaths :
                /\ tar' = IF p = None THEN tar ELSE p
                /\ vague' = (vague \/ (State(shown) = "done" /\ p # Path(shown)))
         ELSE UNCHANGED <<tar, vague>>
    /\ late' = IF Polled < run THEN Smaller(late + 1, 2) ELSE late

PollSucceeds ==
    /\ Polling /\ ~Hidden /\ Reading /\ Succeeded(Polled, tar')
    /\ Goto("poll", "download")
    /\ UNCHANGED <<vendor, bmc, wait, call, ignored>>

(* The delay of the visibility and the wait share the timeout of IEIT.     *)
Deadline_Whole ==
    IF vendor = "ieit" /\ ~Hidden /\ ~observed THEN elapsed + Timeout ELSE deadline

Deadline ==
    IF vendor = "ieit" /\ ~Hidden /\ ~observed
      THEN elapsed + Greater(Timeout - elapsed, Step)
      ELSE deadline

Sleep_Uncounted ==
    elapsed' = IF vendor = "ieit" /\ ~Hidden
                 THEN Smaller(elapsed + Step, deadline')
                 ELSE elapsed

(* elapsed += step; only the wait on a visible task ends at the deadline.  *)
Sleep ==
    elapsed' = IF vendor = "ieit" /\ ~Hidden
                 THEN Smaller(elapsed + Step, deadline')
                 ELSE elapsed + Step

PollAgain ==
    /\ Polling /\ pc' = "sleep" /\ Reading
    /\ Hidden \/ ~(Succeeded(Polled, tar') \/ Failed(Polled))
    /\ deadline' = Deadline
    /\ observed' = (observed \/ (~Hidden /\ State(Polled) \in {"idle", "running"}))
    /\ ignored' = IF ~Hidden /\ Polled = run /\ State(run) = "done"
                    THEN Smaller(ignored + 1, 2) ELSE ignored
    /\ Sleep
    /\ UNCHANGED <<vendor, bmc, call>>

Wake ==
    /\ Goto("sleep", "poll")
    /\ UNCHANGED <<vendor, bmc, wait, reading, call, ignored>>

(* LogCollectFailedError, which alone is retried, and not for a run that   *)
(* was adopted.                                                            *)
RetryOrRaise ==
    IF ~adopted /\ attempt <= MaxRetries
      THEN pc' = "capture" /\ UNCHANGED verdict
      ELSE Raise("failed")

PollFails ==
    /\ Polling /\ ~Hidden /\ Reading /\ Failed(Polled) /\ RetryOrRaise
    /\ UNCHANGED <<vendor, bmc, wait, run, adopted, prev, behind, attempt, bundle, old,
                   mine, ignored>>

(* On ZTE and Lenovo a timeout is a LogCollectFailedError as well.         *)
TimedOut ==
    /\ pc = "poll" /\ elapsed >= deadline
    /\ IF vendor = "ieit" THEN Raise("error") ELSE RetryOrRaise
    /\ UNCHANGED <<vendor, bmc, wait, reading, run, adopted, prev, behind, attempt,
                   bundle, old, mine, ignored>>

PollLost ==
    /\ Polling /\ Raise("error")
    /\ UNCHANGED <<vendor, bmc, wait, reading, run, adopted, prev, behind, attempt,
                   bundle, old, mine, ignored>>
-----------------------------------------------------------------------------
Newest(S) == {i \in S : \A j \in S : j <= i}

(* ExportLogs names the path of the archive, DownloadAllLog nothing.       *)
Archives ==
    IF vendor = "zte" THEN Newest({i \in kept : Path(i) = tar}) ELSE Newest(kept)

(* With no path seen, download_artifact of ZTE reads the register again.   *)
Reread ==
    /\ pc = "download" /\ vendor = "zte" /\ tar = None
    /\ tar' \in TarPaths \ {None}
    /\ UNCHANGED <<vendor, bmc, pc, wait, late, vague, call, ignored>>

Download ==
    /\ Goto("download", "returned")
    /\ vendor = "zte" => tar # None
    /\ \E i \in Archives : bundle' = i
    /\ UNCHANGED <<vendor, bmc, wait, reading, run, adopted, prev, behind, attempt,
                   verdict, old, mine, ignored>>

DownloadFails ==
    /\ pc = "download" /\ Raise("error")
    /\ UNCHANGED <<vendor, bmc, wait, reading, run, adopted, prev, behind, attempt,
                   bundle, old, mine, ignored>>
-----------------------------------------------------------------------------
Find == FindExisting \/ FindNothing

Begin == Trigger \/ TriggerFails

Poll == PollSucceeds \/ PollAgain \/ Wake \/ PollFails \/ PollLost \/ TimedOut

Finish == Reread \/ Download \/ DownloadFails

Bmc ==
    \/ OtherStarts \/ TakesOver \/ Purge
    \/ \E i \in Known : \E how \in {"done", "failed"} : RunEnds(i, how)

Next == Start \/ Find \/ Capture \/ Begin \/ Poll \/ Finish \/ Bmc

(* The thread of the call runs on: a request is answered or times out, and *)
(* a sleep ends.                                                           *)
Fairness == WF_vars(Find \/ Capture \/ Begin \/ Poll \/ Finish)

Spec == Init /\ [][Next]_vars /\ Fairness

-----------------------------------------------------------------------------
TypeOK ==
    /\ vendor \in Vendors
    /\ runs \in Seq({"running", "done", "failed"}) /\ Len(runs) <= MaxRuns
    /\ kept \subseteq Known /\ shown \in 0..Len(runs)
    /\ pc \in {"idle", "find", "capture", "trigger", "poll", "sleep",
               "download", "returned", "raised"}
    /\ run \in 0..Len(runs)
    /\ adopted \in BOOLEAN /\ observed \in BOOLEAN
    /\ behind \in BOOLEAN /\ vague \in BOOLEAN
    /\ prev \in Nat \cup {None} /\ tar \in Nat \cup {None}
    /\ elapsed \in Nat /\ deadline \in Nat
    /\ attempt \in 0..MaxRetries + 1
    /\ bundle \in Known \cup {None}
    /\ verdict \in {"none", "failed", "error"}
    /\ old \subseteq Known /\ mine \subseteq Known
    /\ late \in 0..2 /\ ignored \in 0..2

(* The call cannot tell that what it was shown is old: the run it adopted  *)
(* was not the latest; or its wait was answered by earlier runs, and on    *)
(* Lenovo nothing, on ZTE no path tells them from its own, since a success *)
(* was shown without one, none was captured and more than the first poll   *)
(* was late, or the register was behind at the capture already.            *)
Misled ==
    IF adopted THEN behind
    ELSE /\ late > 0
         /\ vendor = "zte" => vague \/ IF prev = None THEN late > 1 ELSE behind

(* The caller is not handed the archive of a run that was over when its    *)
(* call began, unless it was misled: "BMC often keeps the previous run's   *)
(* terminal state until the new task takes over" (wait_until_ready of ZTE).*)
FreshArchive == bundle # None /\ bundle \in old => Misled

(* A call that says that the collection failed has seen the run it waited  *)
(* for, or a later one, fail, or has waited as long as it was told to.  It *)
(* is taken in by the failure of an earlier attempt, or of an earlier      *)
(* client, when the register shows it to the first poll (Lenovo), or still *)
(* shows it to the second (ZTE).                                           *)
HonestFailure ==
    verdict = "failed" =>
        \/ \E i \in run..Len(runs) : runs[i] = "failed"
        \/ elapsed >= Timeout
        \/ IF vendor = "zte" THEN late > 1 ELSE late > 0

(* Distrust of the register costs one poll: the success of the run the     *)
(* call waits for is not ignored twice, unless one was shown without its   *)
(* path (wait_until_ready of ZTE).                                         *)
SuccessIsNoticed == ignored > 1 => vague

(* The polls before an IEIT task is visible and those after share one      *)
(* timeout, up to the last step.                                           *)
OneTimeout == elapsed < Timeout + Step

(* A LogCollectFailedError is "raised when out-of-band diagnostic-data     *)
(* collection fails on the BMC" and carries the terminal state of its task.*)
FailedOnTheBmc ==
    verdict = "failed" => \E i \in mine \cup {run} : runs[i] = "failed"

(* Every call returns or raises, whatever the BMC does.                    *)
EveryCallReturns == (pc # "idle") ~> (pc \in {"returned", "raised"})
=============================================================================
