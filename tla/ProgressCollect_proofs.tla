------------------------ MODULE ProgressCollect_proofs ------------------------
(***************************************************************************)
(* What holds of one call of ProgressCollect, for every number of runs,    *)
(* retries, and every timeout and interval.                                *)
(***************************************************************************)
EXTENDS ProgressCollect, TLAPS

USE ProgressAssumption DEF ProgressAssumption

(* What is kept and what was over before has ended.                        *)
RegisterInv ==
    /\ kept \subseteq {i \in Known : runs[i] = "done"}
    /\ old \subseteq Over

InWait == pc \in {"poll", "sleep", "download"}

(* Where a call is in its attempts.                                        *)
StageInv ==
    /\ pc \in {"idle", "find", "capture", "trigger"} => attempt <= MaxRetries
    /\ pc \in {"idle", "find"} => elapsed = 0 /\ ~observed /\ deadline = Timeout
    /\ pc \in {"idle", "find"} => ignored = 0 /\ tar = None /\ late = 0 /\ ~vague
    /\ InWait => run \in Known
    /\ pc # "returned" => bundle = None
    /\ pc # "raised" => verdict = "none"
    /\ pc \in {"idle", "find", "capture", "trigger"} => ~adopted

BaseInv == TypeOK /\ RegisterInv /\ StageInv

-----------------------------------------------------------------------------
(* What a step does to the BMC.                                            *)

(* A reading is of one of the runs, or of none.                            *)
LEMMA ShownType ==
    ASSUME TypeOK
    PROVE  /\ Len(runs) \in Nat /\ DOMAIN runs = Known /\ Known = 1..Len(runs)
           /\ shown \in 0..Len(runs)
           /\ \A i \in Known : runs[i] \in {"running", "done", "failed"}
           /\ \A i \in Known : State(i) = runs[i]
           /\ State(0) = "idle"
<1>1. /\ Len(runs) \in Nat /\ DOMAIN runs = Known /\ Known = 1..Len(runs)
      /\ shown \in 0..Len(runs)
  BY DEF TypeOK, Known
<1>2. \A i \in Known : runs[i] \in {"running", "done", "failed"}
  BY <1>1 DEF TypeOK
<1>3. \A i \in Known : State(i) = runs[i]
  BY <1>1 DEF State
<1>4. State(0) = "idle"
  BY DEF State
<1> QED
  BY <1>1, <1>2, <1>3, <1>4

(* A new run is the last, and runs.                                        *)
LEMMA StartType ==
    ASSUME TypeOK, RunStarts
    PROVE  /\ runs' \in Seq({"running", "done", "failed"}) /\ Len(runs') <= MaxRuns
           /\ Len(runs') = Len(runs) + 1
           /\ \A i \in Known : runs'[i] = runs[i]
           /\ runs'[Len(runs')] = "running"
           /\ Known' = Known \cup {Len(runs) + 1}
           /\ Len(runs) \in Nat
<1>1. /\ runs' \in Seq({"running", "done", "failed"})
      /\ Len(runs') = Len(runs) + 1
      /\ \A i \in Known : runs'[i] = runs[i]
      /\ runs'[Len(runs) + 1] = "running"
  BY DEF TypeOK, RunStarts, Known
<1>2. Len(runs) \in Nat /\ Known' = Known \cup {Len(runs) + 1}
  BY <1>1 DEF TypeOK, Known
<1>3. Len(runs') <= MaxRuns
  BY <1>1, <1>2 DEF RunStarts
<1> QED
  BY <1>1, <1>2, <1>3

LEMMA EndType ==
    ASSUME TypeOK, NEW i \in Known, NEW how \in {"done", "failed"}, RunEnds(i, how)
    PROVE  /\ runs' \in Seq({"running", "done", "failed"})
           /\ Len(runs') = Len(runs) /\ Known' = Known
           /\ runs[i] = "running" /\ runs'[i] = how
           /\ \A j \in Known \ {i} : runs'[j] = runs[j]
<1>1. /\ runs' \in Seq({"running", "done", "failed"})
      /\ Len(runs') = Len(runs)
      /\ \A j \in Known \ {i} : runs'[j] = runs[j]
      /\ runs[i] = "running" /\ runs'[i] = how
  BY DEF TypeOK, RunEnds, Known
<1>2. Known' = Known
  BY <1>1 DEF Known
<1> QED
  BY <1>1, <1>2

(* What every step keeps of the runs: they end once, none is lost, and the *)
(* register never goes back.                                               *)
Onward ==
    /\ vendor' = vendor
    /\ Len(runs) <= Len(runs') /\ Known \subseteq Known'
    /\ \A i \in Known : runs'[i] = runs[i] \/ runs[i] = "running"
    /\ shown <= shown'

BmcTypes ==
    /\ vendor \in Vendors
    /\ runs \in Seq({"running", "done", "failed"}) /\ Len(runs) <= MaxRuns
    /\ kept \subseteq {i \in Known : runs[i] = "done"}
    /\ shown \in 0..Len(runs)

LEMMA BmcOnward ==
    ASSUME TypeOK, RegisterInv, [Next]_vars
    PROVE  BmcTypes' /\ Onward
<1> Len(runs) \in Nat /\ Known = 1..Len(runs) /\ Known' = 1..Len(runs')
    /\ shown \in 0..Len(runs)
  BY DEF TypeOK, Known
<1>1. CASE RunStarts /\ UNCHANGED <<vendor, kept, shown>>
  <2>1. BmcTypes'
    <3>1. kept' \subseteq {i \in Known' : runs'[i] = "done"}
      BY <1>1, StartType DEF RegisterInv
    <3> QED
      BY <1>1, <3>1, StartType DEF BmcTypes, TypeOK
  <2> QED
    BY <1>1, <2>1, StartType DEF Onward
<1>2. CASE UNCHANGED <<vendor, bmc>>
  BY <1>2 DEF bmc, BmcTypes, Onward, TypeOK, RegisterInv
<1>3. ASSUME NEW i \in Known, NEW how \in {"done", "failed"}, RunEnds(i, how)
      PROVE  BmcTypes' /\ Onward
  <2> USE <1>3
  <2>1. UNCHANGED <<vendor, shown>>
    BY DEF RunEnds
  <2>2. kept' \subseteq {j \in Known' : runs'[j] = "done"}
    BY EndType DEF RunEnds, RegisterInv
  <2>3. Len(runs') <= MaxRuns
    BY EndType DEF TypeOK
  <2>4. BmcTypes'
    BY <2>1, <2>2, <2>3, EndType DEF BmcTypes, TypeOK
  <2> QED
    BY <2>1, <2>4, EndType DEF Onward
<1>4. CASE Purge
  BY <1>4 DEF Purge, BmcTypes, Onward, TypeOK, RegisterInv
<1>5. CASE TakesOver
  BY <1>5 DEF TakesOver, BmcTypes, Onward, TypeOK, RegisterInv
<1>6. CASE Start
  BY <1>2, <1>6 DEF Start
<1>7. CASE Find
  BY <1>2, <1>7 DEF Find, FindExisting, FindNothing
<1>8. CASE Capture
  BY <1>2, <1>8 DEF Capture
<1>9. CASE Begin
  BY <1>1, <1>2, <1>9 DEF Begin, Trigger, TriggerFails, bmc
<1>10. CASE Poll
  BY <1>2, <1>10 DEF Poll, PollSucceeds, PollAgain, Wake, PollFails, PollLost,
                     TimedOut
<1>11. CASE Finish
  BY <1>2, <1>11 DEF Finish, Reread, Download, DownloadFails
<1>12. CASE Bmc
  BY <1>1, <1>3, <1>4, <1>5, <1>12 DEF Bmc, OtherStarts
<1>13. CASE UNCHANGED vars
  BY <1>2, <1>13 DEF vars
<1> QED
  BY <1>6, <1>7, <1>8, <1>9, <1>10, <1>11, <1>12, <1>13 DEF Next

-----------------------------------------------------------------------------
(* Types, and the stage of the call.                                       *)

CallTypes ==
    /\ pc \in {"idle", "find", "capture", "trigger", "poll", "sleep",
               "download", "returned", "raised"}
    /\ run \in 0..Len(runs)
    /\ adopted \in BOOLEAN /\ observed \in BOOLEAN
    /\ behind \in BOOLEAN /\ vague \in BOOLEAN
    /\ prev \in Nat \cup {None} /\ tar \in Nat \cup {None}
    /\ elapsed \in Nat /\ deadline \in Nat
    /\ attempt \in 0..MaxRetries + 1
    /\ bundle \in Known \cup {None}
    /\ verdict \in {"none", "failed", "error"}
    /\ old \subseteq Over /\ mine \subseteq Known
    /\ late \in 0..2 /\ ignored \in 0..2

LEMMA TypeParts == BmcTypes /\ CallTypes <=> TypeOK /\ RegisterInv
BY DEF BmcTypes, CallTypes, TypeOK, RegisterInv, Over, Known

LEMMA Monotone ==
    ASSUME CallTypes, BmcTypes, Onward, BmcTypes'
    PROVE  /\ Len(runs) \in Nat /\ Len(runs') \in Nat
           /\ Known \subseteq Known' /\ Over \subseteq Over'
           /\ 0..Len(runs) \subseteq 0..Len(runs')
<1>1. Len(runs) \in Nat /\ Len(runs') \in Nat
  BY DEF BmcTypes
<1> QED
  BY <1>1 DEF BmcTypes, Onward, Over, Known

(* A path that is read.                                                    *)
LEMMA PathType ==
    ASSUME TypeOK
    PROVE  TarPaths \subseteq Nat \cup {None}
BY ShownType DEF TarPaths, Path, Placeholder

LEMMA ReadingType ==
    ASSUME TypeOK, Reading
    PROVE  tar' \in Nat \cup {None} /\ vague' \in BOOLEAN /\ late' \in 0..2
<1>1. tar' \in Nat \cup {None}
  BY PathType DEF Reading, TypeOK
<1>2. vague' \in BOOLEAN
  BY DEF Reading, TypeOK
<1>3. late' \in 0..2
  BY DEF Reading, TypeOK, Smaller
<1> QED
  BY <1>1, <1>2, <1>3

LEMMA BaseStep ==
    ASSUME BaseInv, [Next]_vars
    PROVE  BaseInv' /\ Onward
<1>1. BmcTypes /\ CallTypes /\ BmcTypes' /\ Onward
  BY BmcOnward, TypeParts DEF BaseInv
<1>2. /\ Len(runs) \in Nat /\ Len(runs') \in Nat
      /\ Known \subseteq Known' /\ Over \subseteq Over'
      /\ 0..Len(runs) \subseteq 0..Len(runs') /\ vendor' = vendor
  BY <1>1, Monotone DEF Onward
<1>3. SUFFICES CallTypes' /\ StageInv'
  BY <1>1 DEF BaseInv, BmcTypes, CallTypes, TypeOK, RegisterInv, Over, Known
<1>4. StageInv /\ TypeOK
  BY DEF BaseInv
<1>5. SUFFICES ASSUME ~UNCHANGED <<call, wait, reading, pc, ignored>>
               PROVE  CallTypes' /\ StageInv'
  <2> SUFFICES ASSUME UNCHANGED <<call, wait, reading, pc, ignored>>
               PROVE  CallTypes' /\ StageInv'
    OBVIOUS
  <2>1. CallTypes'
    BY <1>1, <1>2 DEF CallTypes, call, wait, reading
  <2>2. StageInv'
    BY <1>2, <1>4 DEF StageInv, InWait, call, wait, reading
  <2> QED
    BY <2>1, <2>2
<1>6. CASE Start
  <2>1. CallTypes'
    BY <1>1, <1>2, <1>6 DEF Start, Goto, CallTypes, wait, reading, bmc
  <2>2. StageInv'
    BY <1>2, <1>4, <1>6 DEF Start, Goto, StageInv, InWait, wait, reading, bmc
  <2> QED
    BY <2>1, <2>2
<1>7. CASE FindExisting
  <2>1. shown \in Known
    BY <1>4, <1>7, ShownType DEF FindExisting, Adopt, State
  <2>2. run' \in 0..Len(runs') /\ run' \in Known'
    BY <1>2, <1>7, <2>1 DEF FindExisting, Adopt, Known
  <2>3. behind' \in BOOLEAN
    BY <1>7 DEF FindExisting, IsBehind
  <2>4. CallTypes'
    BY <1>1, <1>2, <1>7, <2>2, <2>3
       DEF FindExisting, Adopt, Goto, CallTypes, wait, reading
  <2>5. StageInv'
    BY <1>2, <1>4, <1>7, <2>2 DEF FindExisting, Adopt, Goto, StageInv, InWait, wait, reading
  <2> QED
    BY <2>4, <2>5
<1>8. CASE FindNothing
  <2>1. CallTypes'
    BY <1>1, <1>2, <1>8 DEF FindNothing, Goto, CallTypes, wait, reading, call
  <2>2. StageInv'
    BY <1>2, <1>4, <1>8 DEF FindNothing, Goto, StageInv, InWait, wait, reading, call
  <2> QED
    BY <2>1, <2>2
<1>9. CASE Capture
  <2>1. prev' \in Nat \cup {None}
    BY <1>1, <1>4, <1>9, PathType DEF Capture, CallTypes
  <2>2. behind' \in BOOLEAN
    BY <1>1, <1>9 DEF Capture, IsBehind, CallTypes
  <2>3. CallTypes'
    BY <1>1, <1>2, <1>9, <2>1, <2>2 DEF Capture, Goto, CallTypes, wait, reading
  <2>4. StageInv'
    BY <1>2, <1>4, <1>9 DEF Capture, Goto, StageInv, InWait, wait, reading
  <2> QED
    BY <2>3, <2>4
<1>10. CASE Trigger
  <2>1. run' \in Known' /\ Known' = Known \cup {run'} /\ run' \in 0..Len(runs')
    BY <1>2, <1>4, <1>10, StartType DEF Trigger, Known
  <2>2. attempt' \in 0..MaxRetries + 1
    BY <1>1, <1>4, <1>10 DEF Trigger, Goto, CallTypes, StageInv
  <2>3. mine' \subseteq Known'
    BY <1>1, <1>2, <1>10, <2>1 DEF Trigger, CallTypes
  <2>4. /\ elapsed' \in Nat /\ deadline' \in Nat /\ ignored' \in 0..2
        /\ late' \in 0..2 /\ tar' \in Nat \cup {None}
    BY <1>10 DEF Trigger, BeginWait
  <2>5. observed' \in BOOLEAN /\ vague' \in BOOLEAN
    BY <1>10 DEF Trigger, BeginWait
  <2>6. /\ UNCHANGED <<adopted, behind, prev, bundle, verdict, old>>
        /\ pc = "trigger" /\ pc' = "poll"
    BY <1>10 DEF Trigger, Goto
  <2>7. CallTypes'
    BY <1>1, <1>2, <2>1, <2>2, <2>3, <2>4, <2>5, <2>6 DEF CallTypes
  <2> QED
    BY <1>2, <1>4, <2>1, <2>6, <2>7 DEF StageInv, InWait
<1>11. CASE TriggerFails
  <2>1. attempt' \in 0..MaxRetries + 1
    BY <1>1, <1>4, <1>11 DEF TriggerFails, CallTypes, StageInv
  <2>2. CallTypes'
    BY <1>1, <1>2, <1>11, <2>1 DEF TriggerFails, Raise, CallTypes, wait, reading
  <2>3. StageInv'
    BY <1>2, <1>4, <1>11 DEF TriggerFails, Raise, StageInv, InWait, wait, reading
  <2> QED
    BY <2>2, <2>3
<1>12. CASE PollSucceeds
  <2>1. tar' \in Nat \cup {None} /\ vague' \in BOOLEAN /\ late' \in 0..2
    BY <1>4, <1>12, ReadingType DEF PollSucceeds
  <2>2. CallTypes'
    BY <1>1, <1>2, <1>12, <2>1 DEF PollSucceeds, Goto, CallTypes, wait, call
  <2>3. StageInv'
    BY <1>2, <1>4, <1>12 DEF PollSucceeds, Goto, StageInv, InWait, wait, call
  <2> QED
    BY <2>2, <2>3
<1>13. CASE PollAgain
  <2>1. deadline' \in Nat /\ elapsed' \in Nat
    BY <1>1, <1>13 DEF PollAgain, Polling, Deadline, Sleep, Greater, Smaller, CallTypes
  <2>2. ignored' \in 0..2
    BY <1>1, <1>13 DEF PollAgain, Smaller, CallTypes
  <2>3. observed' \in BOOLEAN
    BY <1>1, <1>13 DEF PollAgain, CallTypes
  <2>4. tar' \in Nat \cup {None} /\ vague' \in BOOLEAN /\ late' \in 0..2
    BY <1>4, <1>13, ReadingType DEF PollAgain
  <2>5. pc = "poll" /\ pc' = "sleep" /\ UNCHANGED call
    BY <1>13 DEF PollAgain, Polling
  <2>6. CallTypes'
    BY <1>1, <1>2, <2>1, <2>2, <2>3, <2>4, <2>5 DEF CallTypes, call
  <2>7. StageInv'
    BY <1>2, <1>4, <2>5 DEF StageInv, InWait, call
  <2> QED
    BY <2>6, <2>7
<1>14. CASE Wake
  <2>1. CallTypes'
    BY <1>1, <1>2, <1>14 DEF Wake, Goto, CallTypes, wait, reading, call
  <2>2. StageInv'
    BY <1>2, <1>4, <1>14 DEF Wake, Goto, StageInv, InWait, wait, reading, call
  <2> QED
    BY <2>1, <2>2
<1>15. ASSUME RetryOrRaise, pc = "poll",
              tar' \in Nat \cup {None} /\ vague' \in BOOLEAN /\ late' \in 0..2,
              UNCHANGED <<wait, run, adopted, prev, behind, attempt, bundle, old, mine,
                          ignored>>
       PROVE  CallTypes' /\ StageInv'
  <2>1. CallTypes'
    BY <1>1, <1>2, <1>15 DEF RetryOrRaise, Raise, CallTypes, wait
  <2>2. StageInv'
    BY <1>1, <1>2, <1>4, <1>15 DEF RetryOrRaise, Raise, StageInv, InWait, wait, CallTypes
  <2> QED
    BY <2>1, <2>2
<1>16. ASSUME Raise("error"), pc \in {"poll", "download"},
              UNCHANGED <<wait, reading, run, adopted, prev, behind, attempt, bundle, old,
                          mine, ignored>>
       PROVE  CallTypes' /\ StageInv'
  <2>1. CallTypes'
    BY <1>1, <1>2, <1>16 DEF Raise, CallTypes, wait, reading
  <2>2. StageInv'
    BY <1>2, <1>4, <1>16 DEF Raise, StageInv, InWait, wait, reading
  <2> QED
    BY <2>1, <2>2
<1>17. CASE PollFails
  BY <1>4, <1>15, <1>17, ReadingType DEF PollFails, Polling
<1>18. CASE TimedOut
  <2>1. tar' \in Nat \cup {None} /\ vague' \in BOOLEAN /\ late' \in 0..2
    BY <1>1, <1>18 DEF TimedOut, reading, CallTypes
  <2> QED
    BY <1>15, <1>16, <1>18, <2>1 DEF TimedOut
<1>19. CASE PollLost \/ DownloadFails
  BY <1>16, <1>19 DEF PollLost, DownloadFails, Polling
<1>20. CASE Reread
  <2>1. tar' \in Nat \cup {None}
    BY <1>4, <1>20, PathType DEF Reread
  <2>2. CallTypes'
    BY <1>1, <1>2, <1>20, <2>1 DEF Reread, CallTypes, wait, call
  <2>3. StageInv'
    BY <1>2, <1>4, <1>20 DEF Reread, StageInv, InWait, wait, call
  <2> QED
    BY <2>2, <2>3
<1>21. CASE Download
  <2>1. bundle' \in Known
    BY <1>1, <1>21 DEF Download, Archives, Newest, BmcTypes
  <2>2. CallTypes'
    BY <1>1, <1>2, <1>21, <2>1 DEF Download, Goto, CallTypes, wait, reading
  <2>3. StageInv'
    BY <1>2, <1>4, <1>21 DEF Download, Goto, StageInv, InWait, wait, reading
  <2> QED
    BY <2>2, <2>3
<1>22. ~Bmc /\ ~UNCHANGED vars
  BY <1>5 DEF Bmc, OtherStarts, TakesOver, Purge, RunEnds, vars
<1> QED
  BY <1>6, <1>7, <1>8, <1>9, <1>10, <1>11, <1>12, <1>13, <1>14, <1>17, <1>18, <1>19,
     <1>20, <1>21, <1>22
     DEF Next, Find, Begin, Poll, Finish

-----------------------------------------------------------------------------
(* The clock of the wait.  The deadline moves once, when the IEIT task is  *)
(* first seen, and an IEIT task that was seen stays visible.               *)

TimeInv ==
    /\ vendor # "ieit" \/ ~observed => deadline = Timeout
    /\ deadline < Timeout + Step
    /\ elapsed < Timeout + Step

VisibleInv == pc \in {"poll", "sleep"} /\ observed /\ vendor = "ieit" => ~Hidden

(* What a poll of an IEIT task that goes on has seen.                      *)
LEMMA IeitPoll ==
    ASSUME BaseInv, PollAgain, vendor = "ieit", ~Hidden
    PROVE  observed' = TRUE
<1>1. run \in Known /\ run # 0
  BY DEF PollAgain, Polling, BaseInv, StageInv, InWait, TypeOK, Known
<1>2. runs[run] \in {"running", "done", "failed"}
  BY <1>1 DEF BaseInv, TypeOK, Known
<1>3. Polled = run /\ State(Polled) = runs[run]
  BY <1>1 DEF Polled, State
<1>4. State(Polled) = "running"
  BY <1>2, <1>3 DEF PollAgain, Succeeded, Failed
<1> QED
  BY <1>4 DEF PollAgain

LEMMA TimeStep ==
    ASSUME BaseInv, TimeInv, VisibleInv, [Next]_vars
    PROVE  TimeInv' /\ VisibleInv'
<1>1. /\ Len(runs) \in Nat /\ Len(runs') \in Nat /\ shown \in Nat
      /\ elapsed \in Nat /\ deadline \in Nat /\ run \in 0..Len(runs)
  BY DEF BaseInv, TypeOK
<1>2. /\ vendor' = vendor /\ Len(runs) <= Len(runs')
      /\ shown <= shown' /\ shown' \in Nat
  BY BaseStep DEF Onward, BaseInv, TypeOK
<1>3. StageInv
  BY DEF BaseInv
<1>4. ~Hidden /\ run' = run /\ vendor = "ieit" => ~Hidden'
  BY <1>1, <1>2 DEF Hidden
<1>5. CASE UNCHANGED wait /\ run' = run /\ (pc' \in {"poll", "sleep"} => pc \in {"poll", "sleep"})
  BY <1>2, <1>4, <1>5 DEF TimeInv, VisibleInv, wait
<1>6. CASE FindExisting
  BY <1>2, <1>3, <1>6 DEF FindExisting, Adopt, Goto, TimeInv, VisibleInv, StageInv, wait
<1>7. CASE Trigger
  <2>1. ~observed' /\ elapsed' = 0 /\ deadline' = Timeout
    BY <1>7 DEF Trigger, BeginWait
  <2> QED
    BY <1>2, <2>1 DEF TimeInv, VisibleInv
<1>8. CASE PollAgain
  <2>1. elapsed < deadline /\ pc = "poll" /\ run' = run
    BY <1>8 DEF PollAgain, Polling, call
  <2>2. CASE vendor = "ieit" /\ ~Hidden
    <3>1. observed' = TRUE
      BY <1>8, <2>2, IeitPoll
    <3>2. deadline' \in Nat /\ deadline' < Timeout + Step
      <4>1. CASE observed
        BY <1>1, <1>8, <4>1 DEF PollAgain, Deadline, TimeInv
      <4>2. CASE ~observed
        <5>1. deadline = Timeout /\ deadline' = elapsed + Greater(Timeout - elapsed, Step)
          BY <1>8, <2>2, <4>2 DEF PollAgain, Deadline, TimeInv
        <5> QED
          BY <1>1, <2>1, <5>1 DEF Greater
      <4> QED
        BY <4>1, <4>2
    <3>3. elapsed' <= deadline' /\ elapsed' \in Nat
      BY <1>1, <1>8, <2>2, <3>2 DEF PollAgain, Sleep, Smaller
    <3> QED
      BY <1>2, <1>4, <2>1, <2>2, <3>1, <3>2, <3>3 DEF TimeInv, VisibleInv
  <2>3. CASE ~(vendor = "ieit" /\ ~Hidden)
    <3>1. deadline' = deadline /\ elapsed' = elapsed + Step
      BY <1>8, <2>3 DEF PollAgain, Deadline, Sleep
    <3>2. vendor = "ieit" => ~observed
      BY <2>1, <2>3 DEF VisibleInv
    <3>3. vendor = "ieit" => ~observed'
      BY <1>8, <2>3, <3>2 DEF PollAgain
    <3> QED
      BY <1>1, <1>2, <2>1, <3>1, <3>2, <3>3 DEF TimeInv, VisibleInv
  <2> QED
    BY <2>2, <2>3
<1>9. CASE UNCHANGED vars
  BY <1>5, <1>9 DEF vars, call
<1>10. CASE Bmc
  BY <1>5, <1>10 DEF Bmc, OtherStarts, TakesOver, Purge, RunEnds, call
<1>11. CASE Start \/ FindNothing \/ Capture \/ TriggerFails
  BY <1>5, <1>11 DEF Start, FindNothing, Capture, TriggerFails, Goto, Raise, call
<1>12. CASE PollSucceeds \/ Wake \/ PollFails \/ PollLost \/ TimedOut \/ Finish
  BY <1>5, <1>12 DEF PollSucceeds, Wake, PollFails, PollLost, TimedOut, RetryOrRaise,
                     Finish, Reread, Download, DownloadFails, Goto, Raise,
                     call
<1> QED
  BY <1>6, <1>7, <1>8, <1>9, <1>10, <1>11, <1>12 DEF Next, Find, Begin, Poll

LEMMA BaseInit == Init => BaseInv /\ TimeInv /\ VisibleInv
<1> SUFFICES ASSUME Init PROVE BaseInv /\ TimeInv /\ VisibleInv
  OBVIOUS
<1>1. Len(runs) = 0 /\ Known = {} /\ runs \in Seq({"running", "done", "failed"})
  BY DEF Init, Known
<1>2. TypeOK
  <2>1. run \in 0..Len(runs) /\ kept \subseteq Known /\ Len(runs) <= MaxRuns
    BY <1>1 DEF Init
  <2>2. old \subseteq Known /\ mine \subseteq Known /\ bundle \in Known \cup {None}
    BY DEF Init
  <2>3. /\ attempt \in 0..MaxRetries + 1 /\ ignored \in 0..2
        /\ late \in 0..2 /\ shown \in 0..Len(runs)
    BY <1>1 DEF Init
  <2> QED
    BY <1>1, <2>1, <2>2, <2>3 DEF Init, TypeOK
<1>3. RegisterInv
  BY <1>1 DEF Init, RegisterInv
<1>4. StageInv
  BY DEF Init, StageInv, InWait
<1>5. TimeInv /\ VisibleInv
  BY DEF Init, TimeInv, VisibleInv
<1> QED
  BY <1>2, <1>3, <1>4, <1>5 DEF BaseInv

(* The types.                                                              *)
THEOREM TypeCorrect == Spec => []TypeOK
<1>1. Init => BaseInv
  BY BaseInit
<1>2. BaseInv /\ [Next]_vars => BaseInv'
  BY BaseStep
<1>3. BaseInv => TypeOK
  BY DEF BaseInv
<1> QED
  BY <1>1, <1>2, <1>3, PTL DEF Spec

(* The polls before an IEIT task is visible and those after share one      *)
(* timeout: no wait of any vendor outlasts it by a whole step.             *)
THEOREM WaitsOneTimeout == Spec => []OneTimeout
<1>1. BaseInv /\ TimeInv /\ VisibleInv /\ [Next]_vars
        => (BaseInv /\ TimeInv /\ VisibleInv)'
  BY BaseStep, TimeStep
<1>2. TimeInv => OneTimeout
  BY DEF TimeInv, OneTimeout
<1> QED
  BY BaseInit, <1>1, <1>2, PTL DEF Spec

-----------------------------------------------------------------------------
(* What a wait may take the register for.                                  *)

(* What was over when the call began was started before its own run, and   *)
(* before the one it adopted unless the register was behind.               *)
OldInv == InWait /\ ~(adopted /\ behind) => \A i \in old : i < run

KeptInv ==
    kept \cap old # {} => \A j \in Known \ old : runs[j] = "done" => j \in kept

(* Whether the wait has a path to compare with that means something.       *)
Captured ==
    vendor = "zte" /\ ~behind /\ ~adopted /\ (pc = "trigger" \/ InWait)

(* If the register was not behind then, it shows no run before the latest  *)
(* that was over, and that one has the path that was captured, if any.     *)
CaptureInv ==
    Captured =>
        /\ \A i \in old : i <= shown
        /\ shown \in old /\ runs[shown] = "done" => prev \in {None, Path(shown)}

(* Another state has been read: the register has left those runs behind.   *)
ObservedInv == Captured /\ InWait /\ observed => \A i \in old : i < shown

(* The register never goes back, so a wait that has polled it and was not  *)
(* late is not late from then on; nor is one that adopted what it showed.  *)
LateInv ==
    /\ InWait /\ vendor # "ieit" /\ adopted => run <= shown /\ late = 0
    /\ pc \in {"poll", "sleep"} /\ vendor # "ieit" /\ elapsed > 0 /\ late = 0
         => run <= shown

(* A path that it carries is then that of its run or of a later one.       *)
TarInv ==
    pc \in {"poll", "sleep"} /\ vendor = "zte" /\ late = 0 /\ tar \notin {None, Placeholder}
        => \E j \in Known : run <= j /\ tar = Path(j)

After(j) == \A i \in old : i < j

(* The run whose success a wait believes, and whose archive is downloaded. *)
DoneInv ==
    pc = "download" /\ ~Misled =>
        /\ \E s \in Known : runs[s] = "done" /\ After(s)
        /\ vendor = "zte" /\ tar = None => After(shown)
        /\ vendor = "zte" /\ tar \notin {None, Placeholder}
             => \E j \in Known : tar = Path(j) /\ After(j)

(* A run that was over stays as it was, and the register never goes back.  *)
LEMMA OldOnes ==
    ASSUME BaseInv, [Next]_vars
    PROVE  /\ Len(runs) \in Nat /\ Len(runs') \in Nat /\ Len(runs) <= Len(runs')
           /\ Known = 1..Len(runs) /\ Known' = 1..Len(runs')
           /\ old \subseteq Known
           /\ \A i \in Known : runs[i] # "running" => runs'[i] = runs[i]
           /\ \A i \in old : runs[i] # "running" /\ runs'[i] = runs[i]
           /\ vendor' = vendor
           /\ shown \in 0..Len(runs) /\ shown' \in 0..Len(runs') /\ shown <= shown'
<1>1. BaseInv' /\ Onward
  BY BaseStep
<1>2. /\ Len(runs) \in Nat /\ Len(runs') \in Nat /\ Len(runs) <= Len(runs')
      /\ vendor' = vendor
      /\ shown \in 0..Len(runs) /\ shown' \in 0..Len(runs') /\ shown <= shown'
  BY <1>1 DEF BaseInv, TypeOK, Onward
<1>3. Known = 1..Len(runs) /\ Known' = 1..Len(runs')
  BY DEF Known
<1>4. old \subseteq Known /\ \A i \in old : runs[i] # "running"
  BY DEF BaseInv, RegisterInv, Over
<1>5. \A i \in Known : runs[i] # "running" => runs'[i] = runs[i]
  BY <1>1 DEF Onward
<1> QED
  BY <1>2, <1>3, <1>4, <1>5

(* A step takes a call into its wait, polls, or leaves what the wait knows *)
(* as it is; it leaves it for a download with a success only.              *)
Rests ==
    /\ UNCHANGED <<wait, reading, run, adopted, prev, behind, old>>
    /\ pc' \in {"poll", "sleep"} => pc \in {"poll", "sleep"}
    /\ pc' = "download" => pc = "download"
    /\ pc' = "trigger" => pc = "trigger"

LEMMA WaitSteps ==
    ASSUME [Next]_vars
    PROVE  \/ Start \/ FindExisting \/ Capture \/ Trigger \/ TriggerFails
           \/ PollSucceeds \/ PollAgain \/ PollFails \/ Reread \/ Rests
<1>1. CASE FindNothing
  BY <1>1 DEF FindNothing, Goto, call, Rests
<1>2. CASE Wake
  BY <1>2 DEF Wake, Goto, call, Rests
<1>3. CASE PollLost \/ TimedOut
  BY <1>3 DEF PollLost, TimedOut, RetryOrRaise, Raise, Polling, Rests
<1>4. CASE Download \/ DownloadFails
  BY <1>4 DEF Download, DownloadFails, Goto, Raise, Rests
<1>5. CASE Bmc
  BY <1>5 DEF Bmc, OtherStarts, TakesOver, Purge, RunEnds, call, Rests
<1>6. CASE UNCHANGED vars
  BY <1>6 DEF vars, call, Rests
<1> QED
  BY <1>1, <1>2, <1>3, <1>4, <1>5, <1>6 DEF Next, Find, Begin, Poll, Finish

LEMMA OldStep ==
    ASSUME BaseInv, OldInv, [Next]_vars
    PROVE  OldInv'
<1>1. /\ Len(runs) \in Nat /\ Known = 1..Len(runs) /\ old \subseteq Known
      /\ \A i \in old : runs[i] # "running"
      /\ shown \in 0..Len(runs)
  BY OldOnes
<1>2. CASE FindExisting
  <2>1. run' = shown /\ old' = old /\ behind' = (\E i \in old : i > shown)
    BY <1>2 DEF FindExisting, Adopt, IsBehind
  <2>2. shown \notin old
    BY <1>1, <1>2, ShownType DEF FindExisting, Adopt, BaseInv
  <2>3. ~behind' => \A i \in old : i < shown
    BY <1>1, <2>1, <2>2
  <2>4. adopted'
    BY <1>2 DEF FindExisting, Adopt
  <2> QED
    BY <2>1, <2>3, <2>4 DEF OldInv
<1>3. CASE Trigger
  <2>1. run' = Len(runs) + 1 /\ old' = old
    BY <1>3 DEF Trigger
  <2> QED
    BY <1>1, <2>1 DEF OldInv
<1>4. CASE UNCHANGED <<run, adopted, behind, old>> /\ (InWait' => InWait)
  BY <1>4 DEF OldInv
<1>5. CASE pc' \in {"find", "capture", "trigger", "raised"}
  BY <1>5 DEF OldInv, InWait
<1>6. CASE PollSucceeds \/ PollAgain
  BY <1>4, <1>6 DEF PollSucceeds, PollAgain, Polling, Goto, call, InWait
<1>7. CASE PollFails
  BY <1>5, <1>7 DEF PollFails, RetryOrRaise, Raise
<1>8. CASE Reread
  BY <1>4, <1>8 DEF Reread, call, InWait
<1>9. CASE Rests
  BY <1>4, <1>9 DEF Rests, InWait
<1>10. CASE Start \/ Capture \/ TriggerFails
  BY <1>5, <1>10 DEF Start, Capture, TriggerFails, Goto, Raise
<1> QED
  BY <1>2, <1>3, <1>6, <1>7, <1>8, <1>9, <1>10, WaitSteps

LEMMA KeptStep ==
    ASSUME BaseInv, KeptInv, [Next]_vars
    PROVE  KeptInv'
<1>1. /\ old \subseteq Known
      /\ \A i \in Known : runs[i] # "running" => runs'[i] = runs[i]
      /\ \A i \in old : runs[i] # "running" /\ runs'[i] = runs[i]
  BY OldOnes
<1>2. CASE UNCHANGED <<old, kept>> /\ (runs' = runs \/ RunStarts)
  <2>1. \A j \in Known' : runs'[j] = "done" => j \in Known /\ runs[j] = "done"
    <3>1. CASE runs' = runs
      BY <3>1 DEF Known
    <3>2. CASE RunStarts
      BY <3>2, StartType DEF BaseInv
    <3> QED
      BY <1>2, <3>1, <3>2
  <2> QED
    BY <1>2, <2>1 DEF KeptInv
<1>3. CASE Start
  <2>1. old' = Over /\ runs' = runs
    BY <1>3 DEF Start, bmc
  <2>2. \A j \in Known' \ old' : runs'[j] # "done"
    BY <2>1 DEF Over, Known
  <2> QED
    BY <2>2 DEF KeptInv
<1>4. CASE Purge
  BY <1>4 DEF Purge, KeptInv
<1>5. ASSUME NEW i \in Known, NEW how \in {"done", "failed"}, RunEnds(i, how)
      PROVE  KeptInv'
  <2>1. old' = old /\ kept' = IF how = "done" THEN kept \cup {i} ELSE kept
    BY <1>5 DEF RunEnds, call
  <2>2. /\ Known' = Known /\ runs[i] = "running" /\ runs'[i] = how
        /\ \A j \in Known \ {i} : runs'[j] = runs[j]
    BY <1>5, EndType DEF BaseInv
  <2>3. i \notin old
    BY <1>1, <2>2
  <2> QED
    BY <2>1, <2>2, <2>3 DEF KeptInv
<1>6. Start \/ Purge \/ (\E i \in Known : \E how \in {"done", "failed"} : RunEnds(i, how))
      \/ (UNCHANGED <<old, kept>> /\ (runs' = runs \/ RunStarts))
  BY DEF Next, vars, bmc, Find, FindExisting, FindNothing, Capture, Begin, Trigger,
         TriggerFails, Poll, PollSucceeds, PollAgain, Wake, PollFails, PollLost, TimedOut,
         Finish, Reread, Download, DownloadFails, Bmc, OtherStarts, TakesOver, call
<1> QED
  BY <1>2, <1>3, <1>4, <1>5, <1>6

(* The register may go over from a run that was over to a later one, and   *)
(* not to another of those.                                                *)
LEMMA CaptureStep ==
    ASSUME BaseInv, CaptureInv, [Next]_vars
    PROVE  CaptureInv'
<1>0. SUFFICES ASSUME Captured'
               PROVE  /\ \A i \in old' : i <= shown'
                      /\ shown' \in old' /\ runs'[shown'] = "done"
                            => prev' \in {None, Path(shown')}
  BY DEF CaptureInv, Path
<1>1. /\ Len(runs) \in Nat /\ Known = 1..Len(runs) /\ old \subseteq Known
      /\ \A i \in old : runs[i] # "running" /\ runs'[i] = runs[i]
      /\ shown \in 0..Len(runs) /\ shown' \in 0..Len(runs') /\ shown <= shown'
      /\ Len(runs') \in Nat /\ vendor' = vendor
  BY OldOnes
<1>2. CASE Captured /\ UNCHANGED <<old, prev>>
  <2>1. \A i \in old : i <= shown
    BY <1>2 DEF CaptureInv
  <2>2. \A i \in old : i <= shown'
    BY <1>1, <2>1
  <2>3. shown' \in old => shown' = shown
    BY <1>1, <2>1
  <2> QED
    BY <1>1, <1>2, <2>2, <2>3 DEF CaptureInv
<1>3. CASE Capture
  <2>1. /\ behind' = (\E i \in old : i > shown) /\ prev' \in (TarPaths \cup {None}) \ {Placeholder}
        /\ UNCHANGED <<runs, shown, old>>
    BY <1>0, <1>1, <1>3 DEF Capture, IsBehind, Captured, bmc
  <2>2. \A i \in old : i <= shown
    BY <1>0, <1>1, <2>1 DEF Captured
  <2>3. prev' = None \/ prev' = Path(shown)
    BY <2>1 DEF TarPaths
  <2> QED
    BY <2>1, <2>2, <2>3
<1>4. CASE UNCHANGED <<adopted, behind, prev, old>> /\ (pc = "trigger" \/ InWait)
  BY <1>0, <1>1, <1>2, <1>4 DEF Captured
<1>5. CASE Trigger
  BY <1>4, <1>5 DEF Trigger, Goto
<1>6. CASE PollSucceeds \/ PollAgain \/ Reread
  BY <1>4, <1>6 DEF PollSucceeds, PollAgain, Reread, Polling, Goto, call, InWait
<1>7. CASE Rests
  BY <1>0, <1>4, <1>7 DEF Rests, Captured, InWait
<1>8. ~Start /\ ~FindExisting /\ ~TriggerFails /\ ~PollFails
  BY <1>0 DEF Start, FindExisting, Adopt, TriggerFails, PollFails, RetryOrRaise, Goto, Raise,
              Captured, InWait
<1> QED
  BY <1>3, <1>5, <1>6, <1>7, <1>8, WaitSteps

LEMMA ObservedStep ==
    ASSUME BaseInv, CaptureInv, ObservedInv, [Next]_vars
    PROVE  ObservedInv'
<1>0. SUFFICES ASSUME Captured', InWait', observed'
               PROVE  \A i \in old' : i < shown'
  BY DEF ObservedInv
<1>1. /\ Len(runs) \in Nat /\ Known = 1..Len(runs) /\ old \subseteq Known
      /\ \A i \in old : runs[i] # "running"
      /\ shown \in 0..Len(runs) /\ shown' \in 0..Len(runs') /\ shown <= shown'
      /\ Len(runs') \in Nat /\ vendor' = vendor
  BY OldOnes
<1>2. CASE InWait /\ UNCHANGED <<observed, adopted, behind, old>>
  BY <1>0, <1>1, <1>2 DEF Captured, ObservedInv
<1>3. CASE PollAgain
  <2>1. /\ UNCHANGED <<run, adopted, behind, old, shown>> /\ InWait
        /\ observed' = (observed \/ (~Hidden /\ State(Polled) \in {"idle", "running"}))
    BY <1>3 DEF PollAgain, Polling, InWait, call, bmc
  <2>2. Captured
    BY <1>0, <1>1, <2>1 DEF Captured
  <2>3. CASE observed
    BY <2>1, <2>2, <2>3 DEF ObservedInv
  <2>4. CASE ~observed
    <3>1. State(shown) \in {"idle", "running"}
      BY <1>0, <2>1, <2>2, <2>4 DEF Captured, Polled
    <3>2. shown \notin old
      BY <1>1, <3>1, ShownType DEF BaseInv
    <3>3. \A i \in old : i <= shown
      BY <2>2 DEF CaptureInv
    <3> QED
      BY <1>1, <2>1, <3>2, <3>3
  <2> QED
    BY <2>3, <2>4
<1>4. CASE PollSucceeds \/ Reread
  BY <1>2, <1>4 DEF PollSucceeds, Reread, Polling, Goto, call, wait, InWait
<1>5. CASE Rests
  BY <1>0, <1>2, <1>5 DEF Rests, InWait, wait
<1>6. ~Start /\ ~FindExisting /\ ~Capture /\ ~Trigger /\ ~TriggerFails /\ ~PollFails
  BY <1>0 DEF Start, FindExisting, Adopt, Capture, Trigger, BeginWait, TriggerFails,
              PollFails, RetryOrRaise, Goto, Raise, Captured, InWait
<1> QED
  BY <1>3, <1>4, <1>5, <1>6, WaitSteps

LEMMA LateStep ==
    ASSUME BaseInv, LateInv, [Next]_vars
    PROVE  LateInv'
<1>1. /\ Len(runs) \in Nat /\ run \in Nat /\ late \in 0..2 /\ vendor' = vendor
      /\ shown \in 0..Len(runs) /\ shown' \in 0..Len(runs') /\ shown <= shown'
      /\ Len(runs') \in Nat
  BY OldOnes DEF BaseInv, TypeOK
<1>2. CASE UNCHANGED <<run, adopted, late, elapsed>> /\ (InWait' => InWait)
           /\ (pc' \in {"poll", "sleep"} => pc \in {"poll", "sleep"})
  BY <1>1, <1>2 DEF LateInv
<1>3. CASE FindExisting
  <2>1. run' = shown /\ shown' = shown /\ late' = late /\ late = 0 /\ elapsed' = 0
    BY <1>3 DEF FindExisting, Adopt, Goto, wait, reading, bmc, BaseInv, StageInv
  <2> QED
    BY <1>1, <2>1 DEF LateInv
<1>4. CASE Trigger
  <2>1. ~adopted' /\ elapsed' = 0
    BY <1>4 DEF Trigger, BeginWait, Goto, BaseInv, StageInv
  <2> QED
    BY <2>1 DEF LateInv
<1>5. CASE PollSucceeds \/ PollAgain
  <2>1. /\ UNCHANGED <<run, adopted, shown>> /\ pc = "poll" /\ Reading
    BY <1>5 DEF PollSucceeds, PollAgain, Polling, call, bmc
  <2>2. vendor # "ieit" => late' = IF shown < run THEN Smaller(late + 1, 2) ELSE late
    BY <2>1 DEF Reading, Polled
  <2>3. vendor # "ieit" /\ adopted => run <= shown /\ late' = 0
    BY <1>1, <2>1, <2>2 DEF LateInv, InWait
  <2>4. vendor # "ieit" /\ late' = 0 => run <= shown
    BY <1>1, <2>2 DEF Smaller
  <2> QED
    BY <1>1, <2>1, <2>3, <2>4 DEF LateInv
<1>6. CASE Reread
  BY <1>2, <1>6 DEF Reread, InWait, call, wait
<1>7. CASE Rests
  BY <1>2, <1>7 DEF Rests, InWait, wait, reading
<1>8. CASE Start \/ Capture \/ TriggerFails \/ PollFails
  <2>1. pc' \in {"find", "capture", "trigger", "raised"}
    BY <1>8 DEF Start, Capture, TriggerFails, PollFails, RetryOrRaise, Goto, Raise
  <2> QED
    BY <2>1 DEF LateInv, InWait
<1> QED
  BY <1>3, <1>4, <1>5, <1>6, <1>7, <1>8, WaitSteps

(* What a poll that is not late leaves the wait with.                      *)
LEMMA Carried ==
    ASSUME BaseInv, TarInv, Reading, pc = "poll", vendor = "zte", late' = 0,
           tar' \notin {None, Placeholder}
    PROVE  \E j \in Known : run <= j /\ tar' = Path(j)
<1>1. shown \in 0..Len(runs) /\ Len(runs) \in Nat /\ run \in Nat /\ late \in 0..2
      /\ Known = 1..Len(runs)
  BY ShownType DEF BaseInv, TypeOK
<1>2. late = 0 /\ run <= shown
  BY <1>1 DEF Reading, Polled, Smaller
<1>3. CASE tar' = tar
  BY <1>2, <1>3 DEF TarInv
<1>4. CASE tar' # tar
  <2>1. tar' \in TarPaths
    BY <1>4 DEF Reading
  <2>2. shown # 0 /\ tar' = Path(shown)
    BY <2>1 DEF TarPaths
  <2>3. shown \in Known
    BY <1>1, <2>2
  <2> QED
    BY <1>2, <2>2, <2>3
<1> QED
  BY <1>3, <1>4

LEMMA TarStep ==
    ASSUME BaseInv, TarInv, [Next]_vars
    PROVE  TarInv'
<1>0. SUFFICES ASSUME pc' \in {"poll", "sleep"}, vendor' = "zte", late' = 0,
                      tar' \notin {None, Placeholder}
               PROVE  \E j \in Known' : run' <= j /\ tar' = Path(j)
  BY DEF TarInv, Path, Placeholder
<1>1. Known \subseteq Known' /\ vendor' = vendor
  BY BaseStep DEF Onward
<1>2. CASE UNCHANGED <<run, late, tar>> /\ pc \in {"poll", "sleep"}
  BY <1>0, <1>1, <1>2 DEF TarInv
<1>3. CASE FindExisting \/ Trigger
  <2>1. tar' = None
    BY <1>3 DEF FindExisting, Adopt, Goto, Trigger, BeginWait, reading, BaseInv, StageInv
  <2> QED
    BY <1>0, <2>1
<1>4. CASE PollAgain
  <2>1. Reading /\ pc = "poll" /\ run' = run
    BY <1>4 DEF PollAgain, Polling, call
  <2>2. \E j \in Known : run <= j /\ tar' = Path(j)
    BY <1>0, <1>1, <2>1, Carried
  <2> QED
    BY <1>1, <2>1, <2>2
<1>5. CASE Rests
  BY <1>0, <1>2, <1>5 DEF Rests, reading
<1>6. ~Start /\ ~Capture /\ ~TriggerFails /\ ~PollSucceeds /\ ~PollFails /\ ~Reread
  BY <1>0 DEF Start, Capture, TriggerFails, PollSucceeds, PollFails, Reread, RetryOrRaise,
              Goto, Raise
<1> QED
  BY <1>3, <1>4, <1>5, <1>6, WaitSteps

-----------------------------------------------------------------------------
(* What a wait that was not misled believes.                               *)

(* With a path on each success, and one captured or a single late reading, *)
(* ZTE believes no success of a run that was over when the call began.     *)
LEMMA ZteBelieves ==
    ASSUME BaseInv, OldInv, CaptureInv, ObservedInv, LateInv, PollSucceeds,
           vendor = "zte", ~adopted, late' > 0, ~Misled'
    PROVE  After(shown) /\ tar' = Path(shown)
<1>1. /\ shown \in 0..Len(runs) /\ Len(runs) \in Nat /\ run \in Known /\ late \in 0..2
      /\ Known = 1..Len(runs) /\ old \subseteq Known /\ elapsed \in Nat
      /\ \A i \in Known : State(i) = runs[i]
      /\ State(0) = "idle"
  BY ShownType DEF BaseInv, TypeOK, StageInv, PollSucceeds, Polling, InWait
<1>2. /\ UNCHANGED <<adopted, prev, behind, vendor>> /\ pc = "poll" /\ Reading
      /\ State(shown) = "done" /\ ~Stale(tar')
  BY DEF PollSucceeds, Polling, Succeeded, Polled, call
<1>3. ~vague' /\ IF prev = None THEN ~(late' > 1) ELSE ~behind
  BY <1>2 DEF Misled
<1>4. tar' = Path(shown)
  <2>1. PICK p \in TarPaths :
           /\ tar' = IF p = None THEN tar ELSE p
           /\ vague' = (vague \/ (State(shown) = "done" /\ p # Path(shown)))
    BY <1>2 DEF Reading
  <2>2. p = Path(shown)
    BY <1>2, <1>3, <2>1
  <2>3. Path(shown) # None
    BY <1>1 DEF Path
  <2> QED
    BY <2>1, <2>2, <2>3
<1>5. CASE prev = None
  <2>1. elapsed > 0
    BY <1>1, <1>2, <1>5 DEF Stale
  <2>2. late' = IF shown < run THEN Smaller(late + 1, 2) ELSE late
    BY <1>2 DEF Reading, Polled
  <2>3. run <= shown
    BY <1>1, <1>2, <1>3, <1>5, <2>1, <2>2 DEF LateInv, Smaller, Known
  <2>4. \A i \in old : i < run
    BY <1>2 DEF OldInv, InWait
  <2> QED
    BY <1>1, <1>4, <2>3, <2>4 DEF After
<1>6. CASE prev # None
  <2>1. Captured /\ InWait
    BY <1>2, <1>3, <1>6 DEF Captured, InWait
  <2>2. CASE observed
    BY <1>4, <2>1, <2>2 DEF ObservedInv, After
  <2>3. CASE ~observed
    <3>1. tar' # prev
      BY <1>2, <1>6, <2>3 DEF Stale
    <3>2. shown \notin old
      BY <1>1, <1>2, <1>4, <1>6, <2>1, <3>1 DEF CaptureInv
    <3>3. \A i \in old : i <= shown
      BY <2>1 DEF CaptureInv
    <3> QED
      BY <1>1, <1>4, <3>2, <3>3 DEF After
  <2> QED
    BY <2>2, <2>3
<1> QED
  BY <1>5, <1>6

LEMMA Believed ==
    ASSUME BaseInv, OldInv, CaptureInv, ObservedInv, LateInv, PollSucceeds, ~Misled'
    PROVE  /\ Polled \in Known /\ runs[Polled] = "done" /\ After(Polled)
           /\ vendor = "zte" /\ late' > 0 => tar' = Path(shown)
           /\ \A i \in old : i < run
<1>1. /\ shown \in 0..Len(runs) /\ Len(runs) \in Nat /\ run \in Known /\ late \in 0..2
      /\ Known = 1..Len(runs) /\ old \subseteq Known
      /\ \A i \in Known : State(i) = runs[i]
      /\ State(0) = "idle" /\ vendor \in {"zte", "lenovo", "ieit"}
  BY ShownType DEF BaseInv, TypeOK, StageInv, PollSucceeds, Polling, InWait
<1>2. /\ UNCHANGED <<adopted, prev, behind, vendor>> /\ pc = "poll" /\ Reading
      /\ State(Polled) = "done"
  BY DEF PollSucceeds, Polling, Succeeded, call
<1>3. Polled \in Known /\ runs[Polled] = "done"
  <2>1. Polled \in 0..Len(runs)
    BY <1>1 DEF Polled
  <2>2. Polled # 0
    BY <1>1, <1>2
  <2> QED
    BY <1>1, <1>2, <2>1, <2>2
<1>4. \A i \in old : i < run
  BY <1>2 DEF OldInv, Misled, InWait
<1>5. run <= Polled => After(Polled)
  BY <1>1, <1>3, <1>4 DEF After
<1>6. late' = 0 /\ vendor # "ieit" => run <= Polled
  BY <1>1, <1>2 DEF Reading, Polled, Smaller
<1>7. CASE vendor = "ieit"
  BY <1>1, <1>3, <1>4, <1>5, <1>7 DEF Polled
<1>8. CASE vendor # "ieit" /\ late' = 0
  BY <1>3, <1>4, <1>5, <1>6, <1>8
<1>9. CASE vendor # "ieit" /\ late' # 0
  <2>1. late' > 0
    BY <1>1, <1>2, <1>9, ReadingType DEF BaseInv
  <2>2. ~adopted
    BY <1>1, <1>2, <1>9 DEF LateInv, InWait, Reading, Polled
  <2>3. vendor = "zte"
    BY <1>1, <1>2, <1>9, <2>1, <2>2 DEF Misled
  <2>4. After(shown) /\ tar' = Path(shown)
    BY <2>1, <2>2, <2>3, ZteBelieves
  <2> QED
    BY <1>3, <1>4, <2>3, <2>4 DEF Polled
<1> QED
  BY <1>7, <1>8, <1>9

LEMMA DoneStep ==
    ASSUME BaseInv, OldInv, CaptureInv, ObservedInv, LateInv, TarInv, DoneInv, [Next]_vars
    PROVE  DoneInv'
<1>0. SUFFICES ASSUME pc' = "download", ~Misled'
               PROVE  /\ \E s \in Known' : runs'[s] = "done" /\ After(s)'
                      /\ vendor' = "zte" /\ tar' = None => After(shown)'
                      /\ vendor' = "zte" /\ tar' \notin {None, Placeholder}
                           => \E j \in Known' : tar' = Path(j) /\ After(j)'
  BY DEF DoneInv, After, Path, Placeholder
<1>1. /\ Len(runs) \in Nat /\ Known = 1..Len(runs) /\ old \subseteq Known
      /\ Known \subseteq Known' /\ Len(runs') \in Nat
      /\ \A i \in Known : runs[i] # "running" => runs'[i] = runs[i]
      /\ shown \in 0..Len(runs) /\ shown' \in 0..Len(runs') /\ shown <= shown'
      /\ vendor' = vendor
  BY OldOnes, BaseStep DEF Onward
<1>2. CASE PollSucceeds
  <2>1. /\ Polled \in Known /\ runs[Polled] = "done" /\ After(Polled)
        /\ vendor = "zte" /\ late' > 0 => tar' = Path(shown)
        /\ \A i \in old : i < run
    BY <1>0, <1>2, Believed
  <2>2. UNCHANGED <<runs, shown, old>> /\ Reading /\ pc = "poll"
    BY <1>2 DEF PollSucceeds, Polling, Goto, bmc, call
  <2>3. \E s \in Known' : runs'[s] = "done" /\ After(s)'
    BY <1>1, <2>1, <2>2 DEF After
  <2>4. vendor = "zte" => After(shown)' /\ shown \in Known
    BY <2>1, <2>2 DEF Polled, After
  <2>5. ASSUME vendor = "zte", tar' \notin {None, Placeholder}
        PROVE  \E j \in Known' : tar' = Path(j) /\ After(j)'
    <3>1. CASE late' = 0
      <4>1. PICK j \in Known : run <= j /\ tar' = Path(j)
        BY <2>2, <2>5, <3>1, Carried
      <4>2. run \in Nat
        BY DEF BaseInv, TypeOK
      <4>3. After(j)'
        BY <1>1, <2>1, <2>2, <4>1, <4>2 DEF After
      <4> QED
        BY <1>1, <4>1, <4>3
    <3>2. CASE late' # 0
      <4>1. late' > 0
        BY <2>2, <3>2, ReadingType DEF BaseInv
      <4>2. tar' = Path(shown) /\ shown \in Known'
        BY <1>1, <2>1, <2>4, <2>5, <4>1
      <4>3. \A i \in old' : i < shown
        BY <2>2, <2>4, <2>5 DEF After
      <4> QED
        BY <4>2, <4>3 DEF After
    <3> QED
      BY <3>1, <3>2
  <2> QED
    BY <1>1, <2>2, <2>3, <2>4, <2>5
<1>3. ASSUME pc = "download", UNCHANGED <<late, vague, adopted, behind, prev, old>>
      PROVE  /\ ~Misled
             /\ \E s \in Known' : runs'[s] = "done" /\ After(s)'
  <2>1. ~Misled
    BY <1>0, <1>1, <1>3 DEF Misled
  <2>2. PICK s \in Known : runs[s] = "done" /\ After(s)
    BY <1>3, <2>1 DEF DoneInv
  <2>3. runs'[s] = "done" /\ After(s)' /\ s \in Known'
    BY <1>1, <1>3, <2>2 DEF After
  <2> QED
    BY <2>1, <2>3
<1>4. CASE Reread
  <2>1. /\ pc = "download" /\ UNCHANGED <<late, vague, adopted, behind, prev, old, shown>>
        /\ vendor = "zte" /\ tar = None /\ tar' \in TarPaths \ {None}
    BY <1>4 DEF Reread, call, bmc
  <2>2. After(shown)
    BY <1>3, <2>1 DEF DoneInv
  <2>3. tar' = Placeholder \/ (tar' = Path(shown) /\ shown \in Known)
    BY <1>1, <2>1 DEF TarPaths
  <2>4. After(shown)'
    BY <2>1, <2>2 DEF After
  <2> QED
    BY <1>1, <1>3, <2>1, <2>3, <2>4
<1>5. CASE Rests
  <2>1. /\ pc = "download" /\ UNCHANGED <<late, vague, adopted, behind, prev, old, tar>>
    BY <1>0, <1>5 DEF Rests, reading
  <2>2. ~Misled
    BY <1>3, <2>1
  <2>3. vendor = "zte" /\ tar = None => After(shown)'
    BY <1>1, <2>1, <2>2 DEF DoneInv, After
  <2>4. vendor = "zte" /\ tar \notin {None, Placeholder}
          => \E j \in Known : tar = Path(j) /\ After(j)'
    BY <2>1, <2>2 DEF DoneInv, After
  <2> QED
    BY <1>1, <1>3, <2>1, <2>3, <2>4
<1>6. ~Start /\ ~FindExisting /\ ~Capture /\ ~Trigger /\ ~TriggerFails /\ ~PollAgain
      /\ ~PollFails
  BY <1>0 DEF Start, FindExisting, Adopt, Capture, Trigger, TriggerFails, PollAgain,
              PollFails, RetryOrRaise, Goto, Raise
<1> QED
  BY <1>2, <1>4, <1>5, <1>6, WaitSteps

LEMMA FreshStep ==
    ASSUME BaseInv, KeptInv, DoneInv, FreshArchive, [Next]_vars
    PROVE  FreshArchive'
<1>1. CASE Download
  <2>1. pc = "download" /\ (vendor = "zte" => tar # None) /\ old' = old
    BY <1>1 DEF Download, Goto
  <2>2. PICK b \in Archives : bundle' = b
    BY <1>1 DEF Download
  <2>3. Misled' = Misled
    BY <1>1 DEF Download, reading, Misled
  <2>4. SUFFICES ASSUME ~Misled, b \in old PROVE FALSE
    BY <2>1, <2>2, <2>3 DEF FreshArchive
  <2>5. PICK s \in Known : runs[s] = "done" /\ After(s)
    BY <2>1, <2>4 DEF DoneInv
  <2>6. b \in kept /\ b \in Nat /\ b > 0 /\ s \in Nat /\ s > 0 /\ b < s /\ Known \subseteq Nat
    BY <2>2, <2>4, <2>5, ShownType DEF Archives, Newest, BaseInv, TypeOK, After
  <2>7. s \in kept
    BY <2>4, <2>5, <2>6 DEF KeptInv, After
  <2>8. \A i \in kept : (vendor = "zte" => Path(i) = tar) => i <= b
    BY <2>2 DEF Archives, Newest
  <2>9. vendor = "zte" /\ Path(s) # tar
    BY <2>5, <2>6, <2>7, <2>8
  <2>10. tar = Path(b)
    BY <2>2, <2>9 DEF Archives, Newest
  <2>11. tar \notin {None, Placeholder}
    BY <2>6, <2>10 DEF Path, Placeholder
  <2>12. PICK j \in Known : tar = Path(j) /\ After(j)
    BY <2>1, <2>4, <2>9, <2>11 DEF DoneInv
  <2>13. ~OneTarPath
    BY <2>9, <2>12 DEF Path
  <2>14. j = b
    BY <2>10, <2>12, <2>13 DEF Path
  <2> QED
    BY <2>4, <2>6, <2>12, <2>14 DEF After
<1>2. CASE bundle = None /\ bundle' = bundle
  BY <1>2 DEF FreshArchive
<1>3. CASE bundle # None
  <2>1. pc = "returned"
    BY <1>3 DEF BaseInv, StageInv
  <2>2. UNCHANGED <<bundle, old, reading, adopted, behind, prev, vendor>>
    BY <2>1 DEF Next, vars, Start, Find, FindExisting, FindNothing, Adopt, Capture, Begin,
                Trigger, TriggerFails, Poll, PollSucceeds, PollAgain, Wake, PollFails,
                PollLost, TimedOut, Finish, Reread, Download, DownloadFails, Bmc,
                OtherStarts, TakesOver, Purge, RunEnds, Goto, Polling, call
  <2> QED
    BY <2>2 DEF FreshArchive, Misled, reading
<1>4. Download \/ bundle' = bundle
  BY DEF Next, vars, Start, Find, FindExisting, FindNothing, Capture, Begin, Trigger,
         TriggerFails, Poll, PollSucceeds, PollAgain, Wake, PollFails, PollLost, TimedOut,
         Finish, Reread, DownloadFails, Bmc, OtherStarts, TakesOver, Purge, RunEnds, call
<1> QED
  BY <1>1, <1>2, <1>3, <1>4

WaitInv ==
    /\ BaseInv /\ OldInv /\ KeptInv /\ CaptureInv /\ ObservedInv
    /\ LateInv /\ TarInv /\ DoneInv

LEMMA WaitInit == Init => WaitInv
<1> SUFFICES ASSUME Init PROVE WaitInv
  OBVIOUS
<1> QED
  BY BaseInit DEF Init, WaitInv, OldInv, KeptInv, Captured, CaptureInv, ObservedInv,
                  LateInv, TarInv, DoneInv, InWait

LEMMA WaitStep ==
    ASSUME WaitInv, [Next]_vars
    PROVE  WaitInv'
BY BaseStep, OldStep, KeptStep, CaptureStep, ObservedStep, LateStep, TarStep, DoneStep
   DEF WaitInv

(* The caller is not handed the archive of a run that was over when its    *)
(* call began, unless it could not tell: however far behind the register   *)
(* is, whatever paths the readings show, however many runs other clients   *)
(* start while it waits and whenever archives are purged (wait_until_ready *)
(* and download_artifact of the strategies).                               *)
THEOREM HandsOutTheFresh == Spec => []FreshArchive
<1>1. Init => FreshArchive
  BY DEF Init, FreshArchive
<1>2. WaitInv /\ FreshArchive /\ [Next]_vars => WaitInv' /\ FreshArchive'
  BY WaitStep, FreshStep DEF WaitInv
<1> QED
  BY WaitInit, <1>1, <1>2, PTL DEF Spec

-----------------------------------------------------------------------------
(* What a failure says.                                                    *)

FailedInv == HonestFailure /\ (verdict = "failed" => run \in Known)

LEMMA HonestStep ==
    ASSUME BaseInv, TimeInv, LateInv, FailedInv, [Next]_vars
    PROVE  FailedInv'
<1>0. SUFFICES ASSUME verdict' = "failed"
               PROVE  /\ \/ \E i \in run'..Len(runs') : runs'[i] = "failed"
                         \/ elapsed' >= Timeout
                         \/ IF vendor' = "zte" THEN late' > 1 ELSE late' > 0
                      /\ run' \in Known'
  BY DEF HonestFailure, FailedInv
<1>1. /\ Len(runs) \in Nat /\ Len(runs') \in Nat /\ Len(runs) <= Len(runs')
      /\ \A i \in Known : runs[i] # "running" => runs'[i] = runs[i]
      /\ Known = 1..Len(runs) /\ Known' = 1..Len(runs') /\ vendor' = vendor
      /\ shown \in 0..Len(runs)
  BY OldOnes
<1>2. CASE verdict = "failed"
  <2>1. pc = "raised"
    BY <1>2 DEF BaseInv, StageInv
  <2>2. UNCHANGED <<run, elapsed, late>>
    BY <2>1 DEF Next, vars, Start, Find, FindExisting, FindNothing, Adopt, Capture, Begin,
                Trigger, TriggerFails, Poll, PollSucceeds, PollAgain, Wake, PollFails,
                PollLost, TimedOut, Finish, Reread, Download, DownloadFails, Bmc,
                OtherStarts, TakesOver, Purge, RunEnds, Goto, Polling, call, wait, reading
  <2>3. run \in Known /\ run' \in Known'
    BY <1>1, <1>2, <2>2 DEF FailedInv
  <2>4. \A i \in run..Len(runs) : i \in Known /\ i \in run'..Len(runs')
    BY <1>1, <2>2, <2>3
  <2>5. \/ \E i \in run..Len(runs) : runs[i] = "failed"
        \/ elapsed >= Timeout
        \/ IF vendor = "zte" THEN late > 1 ELSE late > 0
    BY <1>2 DEF HonestFailure, FailedInv
  <2>6. ASSUME NEW i \in run..Len(runs), runs[i] = "failed"
        PROVE  i \in run'..Len(runs') /\ runs'[i] = "failed"
    BY <1>1, <2>4, <2>6
  <2> QED
    BY <1>1, <2>2, <2>3, <2>5, <2>6
<1>3. CASE PollFails
  <2>1. /\ run \in Known /\ late \in 0..2 /\ elapsed \in Nat
        /\ vendor \in {"zte", "lenovo", "ieit"} /\ pc = "poll"
        /\ \A i \in Known : State(i) = runs[i]
    BY <1>3, ShownType DEF BaseInv, TypeOK, StageInv, InWait, PollFails, Polling
  <2>2. Failed(Polled) /\ runs' = runs /\ run' = run /\ Reading
    BY <1>3 DEF PollFails, bmc
  <2>3. run' \in Known'
    BY <1>1, <2>1, <2>2
  <2>4. CASE run <= Polled
    <3>1. Polled \in run..Len(runs) /\ Polled \in Known
      BY <1>1, <2>1, <2>4 DEF Polled
    <3>2. runs[Polled] = "failed"
      BY <2>1, <2>2, <3>1 DEF Failed
    <3> QED
      BY <2>2, <2>3, <3>1, <3>2
  <2>5. CASE Polled < run
    <3>1. vendor # "ieit" /\ Polled = shown
      BY <1>1, <2>1, <2>5 DEF Polled
    <3>2. late' = Smaller(late + 1, 2)
      BY <2>2, <2>5 DEF Reading
    <3>3. vendor = "zte" => late > 0
      <4>1. vendor = "zte" => elapsed > 0
        BY <2>2 DEF Failed
      <4> QED
        BY <1>1, <2>1, <2>5, <3>1, <4>1 DEF LateInv
    <3> QED
      BY <1>1, <2>1, <2>3, <3>2, <3>3 DEF Smaller
  <2> QED
    BY <1>1, <2>1, <2>4, <2>5 DEF Polled
<1>4. CASE TimedOut /\ verdict # "failed"
  <2>1. vendor # "ieit" /\ elapsed >= deadline /\ elapsed' = elapsed
    BY <1>0, <1>4 DEF TimedOut, Raise, wait
  <2>2. run \in Known /\ run' = run /\ runs' = runs
    BY <1>4 DEF TimedOut, BaseInv, StageInv, InWait, bmc
  <2>3. elapsed' >= Timeout
    BY <2>1 DEF TimeInv
  <2> QED
    BY <1>1, <2>2, <2>3
<1>5. PollFails \/ TimedOut \/ verdict = "failed"
  BY <1>0 DEF Next, vars, Start, Find, FindExisting, FindNothing, Adopt, Capture, Begin,
              Trigger, TriggerFails, Poll, PollSucceeds, PollAgain, Wake, PollLost, Finish,
              Reread, Download, DownloadFails, Bmc, OtherStarts, TakesOver, Purge, RunEnds,
              Raise, call
<1> QED
  BY <1>2, <1>3, <1>4, <1>5

(* A call that says that the collection failed has seen the run it waited  *)
(* for, or a later one, fail, has waited as long as it was told to, or was *)
(* shown an earlier run: once by Lenovo, by the first poll and another of  *)
(* ZTE (wait_until_ready, collect_and_download_diagnostic_data).           *)
THEOREM FailsHonestly == Spec => []HonestFailure
<1>1. Init => FailedInv
  BY DEF Init, HonestFailure, FailedInv
<1>2. WaitInv /\ TimeInv /\ VisibleInv /\ FailedInv /\ [Next]_vars
        => (WaitInv /\ TimeInv /\ VisibleInv /\ FailedInv)'
  BY WaitStep, TimeStep, HonestStep DEF WaitInv
<1>3. FailedInv => HonestFailure
  BY DEF FailedInv
<1> QED
  BY WaitInit, BaseInit, <1>1, <1>2, <1>3, PTL DEF Spec

-----------------------------------------------------------------------------
(* What distrust costs.  The path a call compares with is one that was     *)
(* there before its own run; a success that is shown with its path is      *)
(* ignored before the first sleep only.                                    *)

IgnoredInv ==
    /\ vague \/ ignored = 0 \/ (ignored = 1 /\ elapsed > 0)
    /\ pc \in {"poll", "sleep"} /\ ~adopted /\ prev # None => prev < run
    /\ pc = "trigger" /\ prev # None => prev <= Len(runs)
    /\ prev # None => vendor = "zte"

LEMMA IgnoredStep ==
    ASSUME ~OneTarPath, BaseInv, IgnoredInv, [Next]_vars
    PROVE  IgnoredInv'
<1>1. /\ Len(runs) \in Nat /\ Len(runs') \in Nat /\ Len(runs) <= Len(runs')
      /\ Known = 1..Len(runs) /\ shown \in 0..Len(runs)
      /\ elapsed \in Nat /\ prev \in Nat \cup {None} /\ vendor' = vendor
      /\ vague \in BOOLEAN
  BY OldOnes DEF BaseInv, TypeOK
<1>2. CASE /\ UNCHANGED <<elapsed, run, adopted, prev, ignored>> /\ (vague => vague')
           /\ pc' \in {"poll", "sleep"} => pc \in {"poll", "sleep"}
           /\ pc' = "trigger" => pc = "trigger"
  BY <1>1, <1>2 DEF IgnoredInv
<1>3. CASE FindExisting
  BY <1>1, <1>3 DEF FindExisting, Adopt, Goto, IgnoredInv, wait, reading
<1>4. CASE Capture
  <2>1. prev' # None => prev' \in 0..Len(runs) /\ vendor = "zte"
    BY <1>1, <1>4 DEF Capture, TarPaths, Path, IgnoredInv, Placeholder
  <2>2. prev' # None => prev' <= Len(runs)
    <3>1. CASE vendor = "zte"
      BY <1>1, <2>1, <3>1
    <3>2. CASE vendor # "zte"
      BY <2>1, <3>2
    <3> QED
      BY <3>1, <3>2
  <2>3. pc' = "trigger" /\ UNCHANGED <<elapsed, ignored, vague, runs>>
    BY <1>4 DEF Capture, Goto, wait, reading, bmc
  <2> QED
    BY <1>1, <2>1, <2>2, <2>3 DEF IgnoredInv
<1>5. CASE Trigger
  <2>1. ignored' = 0 /\ run' = Len(runs) + 1 /\ prev' = prev /\ pc = "trigger" /\ pc' = "poll"
    BY <1>5 DEF Trigger, Goto
  <2> QED
    BY <1>1, <2>1 DEF IgnoredInv
<1>6. CASE PollAgain
  <2>1. /\ pc = "poll" /\ pc' = "sleep" /\ UNCHANGED <<run, adopted, prev>> /\ Reading
        /\ run \in Known /\ vendor \in {"zte", "lenovo", "ieit"}
    BY <1>6 DEF PollAgain, Polling, call, BaseInv, StageInv, InWait, TypeOK
  <2>2. vague => vague'
    BY <2>1 DEF Reading
  <2>3. SUFFICES ASSUME ~vague'
                 PROVE  (ignored' = 0 \/ ignored' = 1) /\ elapsed' > 0
    BY <1>1, <2>1 DEF IgnoredInv
  <2>4. ignored = 0 \/ (ignored = 1 /\ elapsed > 0)
    BY <2>2, <2>3 DEF IgnoredInv
  <2>5. elapsed' > 0
    <3>1. elapsed < deadline /\ deadline' = Deadline /\ Sleep /\ deadline \in Nat
      BY <1>6 DEF PollAgain, Polling, BaseInv, TypeOK
    <3>2. deadline' \in Nat /\ deadline' > 0
      BY <1>1, <3>1 DEF Deadline, Greater
    <3> QED
      BY <1>1, <3>1, <3>2 DEF Sleep, Smaller
  <2>6. CASE ~Hidden /\ Polled = run /\ State(run) = "done"
    <3>1. vendor = "zte" /\ Stale(tar') /\ shown = run
      BY <1>6, <2>1, <2>6 DEF PollAgain, Succeeded, Polled
    <3>2. PICK p \in TarPaths :
             /\ tar' = IF p = None THEN tar ELSE p
             /\ vague' = (vague \/ (State(shown) = "done" /\ p # Path(shown)))
      BY <2>1, <3>1 DEF Reading
    <3>3. p = Path(shown) /\ Path(shown) = run
      BY <2>3, <2>6, <3>1, <3>2 DEF Path
    <3>4. tar' = run
      BY <1>1, <2>1, <3>2, <3>3
    <3>5. ~(prev # None /\ tar' = prev /\ ~adopted)
      BY <1>1, <2>1, <3>4 DEF IgnoredInv
    <3>6. elapsed = 0
      BY <3>1, <3>5 DEF Stale
    <3>7. ignored = 0
      BY <2>4, <3>6
    <3> QED
      BY <1>6, <2>5, <3>7 DEF PollAgain, Smaller
  <2>7. CASE ~(~Hidden /\ Polled = run /\ State(run) = "done")
    BY <1>6, <2>4, <2>5, <2>7 DEF PollAgain
  <2> QED
    BY <2>6, <2>7
<1>7. CASE TriggerFails
  BY <1>1, <1>7 DEF TriggerFails, Raise, IgnoredInv, wait, reading
<1>8. CASE PollSucceeds \/ PollFails
  <2>1. vague => vague'
    BY <1>8 DEF PollSucceeds, PollFails, Reading
  <2> QED
    BY <1>2, <1>8, <2>1 DEF PollSucceeds, PollFails, RetryOrRaise, Raise, Goto, wait, call
<1>9. CASE Reread
  BY <1>2, <1>9 DEF Reread, wait, call
<1>10. CASE Start
  BY <1>2, <1>10 DEF Start, Goto, wait, reading
<1>11. CASE Rests
  <2>1. UNCHANGED <<elapsed, run, adopted, prev, vague>>
        /\ (pc' \in {"poll", "sleep"} => pc \in {"poll", "sleep"})
        /\ (pc' = "trigger" => pc = "trigger")
    BY <1>11 DEF Rests, wait, reading
  <2>2. ignored' = ignored \/ Start \/ FindExisting \/ Capture \/ Trigger \/ TriggerFails
        \/ PollSucceeds \/ PollAgain \/ PollFails \/ Reread
    BY DEF Next, vars, Find, FindNothing, Begin, Poll, Wake, PollLost, TimedOut, Finish,
           Download, DownloadFails, Bmc, OtherStarts, TakesOver, Purge, RunEnds
  <2> QED
    BY <1>2, <1>3, <1>4, <1>5, <1>6, <1>7, <1>8, <1>9, <1>10, <2>1, <2>2
<1> QED
  BY <1>3, <1>4, <1>5, <1>6, <1>7, <1>8, <1>9, <1>10, <1>11, WaitSteps

(* Where archives have paths of their own, distrust of the register costs  *)
(* one poll: the success of the run the call waits for is not ignored      *)
(* twice, unless one was shown without its path (wait_until_ready of ZTE). *)
THEOREM NoticesSuccess ==
    ASSUME ~OneTarPath
    PROVE  Spec => []SuccessIsNoticed
<1>1. Init => IgnoredInv
  BY DEF Init, IgnoredInv
<1>2. BaseInv /\ IgnoredInv /\ [Next]_vars => BaseInv' /\ IgnoredInv'
  BY BaseStep, IgnoredStep
<1>3. IgnoredInv => SuccessIsNoticed
  BY DEF IgnoredInv, SuccessIsNoticed
<1> QED
  BY BaseInit, <1>1, <1>2, <1>3, PTL DEF Spec
=============================================================================
