-------------------------- MODULE LogCollect_proofs --------------------------
(***************************************************************************)
(* What collect_and_download_diagnostic_data promises, for every number of *)
(* callers, collections and retries and every strategy that follows its    *)
(* collections through the TaskService.                                    *)
(***************************************************************************)
EXTENDS LogCollect, TLAPS

USE CollectAssumption DEF CollectAssumption

Over(i) == tasks[i].state # "Running"

(* Where a call is: it has nothing before it has found or started a        *)
(* collection, and goes back only while it has retries.                    *)
StageInv ==
    \A c \in Callers :
        /\ pc[c] \in {"idle", "find"} =>
              attempt[c] = 0 /\ ~adopted[c] /\ task[c] = None /\ mine[c] = {}
        /\ pc[c] = "trigger" => attempt[c] <= MaxRetries /\ ~adopted[c]
        /\ pc[c] \in {"wait", "download", "returned"} => task[c] # None
        /\ bundle[c] # None => pc[c] = "returned"
        /\ verdict[c] = "failed" => pc[c] = "raised" /\ task[c] # None

StageType == TypeOK /\ StageInv

(* The collections a call has triggered, but for the one it waits for, are *)
(* over.                                                                   *)
MineInv ==
    \A c \in Callers :
        /\ pc[c] = "trigger" => \A i \in mine[c] : Over(i)
        /\ pc[c] = "wait" /\ ~adopted[c] => \A i \in mine[c] \ {task[c]} : Over(i)

-----------------------------------------------------------------------------
LEMMA CollectionFields ==
    ASSUME NEW k \in Collection
    PROVE  /\ k.state \in States /\ k.began \in Nat /\ k.ended \in Nat \cup {None}
           /\ k.timed \in BOOLEAN /\ k.dated \in BOOLEAN
  BY DEF Collection

(* A collection is started at the end of the list.                         *)
LEMMA Starts ==
    ASSUME tasks \in Seq(Collection), clock \in Nat, BmcStarts
    PROVE  /\ tasks' \in Seq(Collection)
           /\ Len(tasks') = Len(tasks) + 1 /\ Len(tasks') <= MaxTasks
           /\ Known' = Known \cup {Len(tasks) + 1}
           /\ \A i \in Known : tasks'[i] = tasks[i]
           /\ tasks'[Len(tasks) + 1].state = "Running"
           /\ tasks'[Len(tasks) + 1].began = clock
           /\ "undated" \notin Faults => /\ tasks'[Len(tasks) + 1].timed
                                         /\ tasks'[Len(tasks) + 1].dated
<1>1. PICK timed \in Dated, dated \in Dated :
         tasks' = Append(tasks, NewTask(timed, dated))
  BY DEF BmcStarts
<1>2. timed \in BOOLEAN /\ dated \in BOOLEAN
  BY Zenon DEF Dated
<1>3. NewTask(timed, dated) \in Collection
  BY <1>2 DEF NewTask, Collection, States
<1>4. /\ NewTask(timed, dated).state = "Running"
      /\ NewTask(timed, dated).began = clock
      /\ NewTask(timed, dated).timed = timed
      /\ NewTask(timed, dated).dated = dated
  BY DEF NewTask
<1>5. "undated" \notin Faults => timed /\ dated
  BY Zenon DEF Dated
<1>6. Len(tasks) + 1 <= MaxTasks
  BY DEF BmcStarts
<1>7. /\ tasks' \in Seq(Collection)
      /\ Len(tasks') = Len(tasks) + 1
      /\ \A i \in Known : tasks'[i] = tasks[i]
      /\ tasks'[Len(tasks) + 1] = NewTask(timed, dated)
      /\ Known' = Known \cup {Len(tasks) + 1}
  BY <1>1, <1>3 DEF Known
<1> QED
  BY <1>4, <1>5, <1>6, <1>7

(* A collection that ends changes in its state and its time alone.         *)
LEMMA Ends ==
    ASSUME tasks \in Seq(Collection), clock \in Nat,
           NEW i \in Known, NEW s \in States,
           TaskEnds(i, s)
    PROVE  /\ tasks' \in Seq(Collection)
           /\ Len(tasks') = Len(tasks) /\ Known' = Known
           /\ \A j \in Known \ {i} : tasks'[j] = tasks[j]
           /\ tasks'[i].state = s /\ tasks'[i].ended = clock
           /\ tasks'[i].began = tasks[i].began
           /\ tasks'[i].timed = tasks[i].timed /\ tasks'[i].dated = tasks[i].dated
<1>0. tasks[i] \in Collection
  BY DEF Known
<1> DEFINE k == [tasks[i] EXCEPT !.state = s, !.ended = clock]
<1>1. /\ k \in Collection /\ k.state = s /\ k.ended = clock
      /\ k.began = tasks[i].began
      /\ k.timed = tasks[i].timed /\ k.dated = tasks[i].dated
  BY <1>0 DEF Collection
<1>2. tasks' = [tasks EXCEPT ![i] = k]
  BY DEF TaskEnds
<1> HIDE DEF k
<1>3. tasks' \in Seq(Collection) /\ Len(tasks') = Len(tasks)
  BY <1>1, <1>2 DEF Known
<1>4. Known' = Known
  BY <1>3 DEF Known
<1>5. DOMAIN tasks = Known
  BY DEF Known
<1>6. /\ \A j \in Known \ {i} : tasks'[j] = tasks[j]
      /\ tasks'[i] = k
  BY <1>2, <1>5, Zenon
<1> QED
  BY <1>1, <1>3, <1>4, <1>6

LEMMA FoundIn ==
    ASSUME NEW i, NEW pool, NEW b \in Found(i, pool)
    PROVE  b = i \/ b \in Resulting(i, pool)
<1>1. PICK tells \in Tells :
         b \in CASE tells = "uri" -> {i}
                 [] tells = "link" /\ i \in entries -> {i}
                 [] OTHER -> Resulting(i, pool)
  BY Zenon DEF Found
<1>2. CASE tells = "uri" \/ (tells = "link" /\ i \in entries)
  BY <1>1, <1>2
<1>3. CASE ~(tells = "uri" \/ (tells = "link" /\ i \in entries))
  BY <1>1, <1>3
<1> QED
  BY <1>2, <1>3

(* What a download may be given is a collection of the BMC.                *)
LEMMA Offered ==
    ASSUME StageType, NEW i \in Known, NEW pool \in Readings,
           NEW b \in IF Fetch = "entry" THEN Found(i, pool) ELSE Archives
    PROVE  b \in Known
<1>1. pool \subseteq Known
  BY Zenon DEF StageType, TypeOK, Readings
<1>2. CASE b \in Archives
  BY <1>2 DEF StageType, TypeOK, Archives
<1>3. CASE b \in Found(i, pool)
  <2>1. Resulting(i, pool) \subseteq Known
    BY <1>1, Zenon DEF Resulting, Latest, Recent
  <2> QED
    BY <1>3, <2>1, FoundIn
<1> QED
  BY <1>2, <1>3
-----------------------------------------------------------------------------
LEMMA InitStage == Init => StageType
  BY DEF Init, StageType, TypeOK, StageInv, Known

LEMMA NextStage == StageType /\ [Next]_vars => StageType'
<1> SUFFICES ASSUME StageType, [Next]_vars PROVE StageType'
  OBVIOUS
<1> USE DEF StageType, TypeOK, StageInv, bmc, call
<1>1. CASE Tick
  BY <1>1 DEF Tick, Known
<1>2. CASE OtherStarts
  BY <1>2, Starts DEF OtherStarts
<1>3. ASSUME NEW i \in Known, NEW s \in {"Completed", "Warning"}, TaskSucceeds(i, s)
      PROVE  StageType'
  <2>1. s \in States
    BY DEF States
  <2>2. /\ tasks' \in Seq(Collection) /\ Len(tasks') = Len(tasks) /\ Known' = Known
    BY <1>3, <2>1, Ends DEF TaskSucceeds
  <2> QED
    BY <1>3, <2>2 DEF TaskSucceeds
<1>4. ASSUME NEW i \in Known, TaskFails(i)
      PROVE  StageType'
  <2>1. "Failed" \in States
    BY DEF States
  <2>2. /\ tasks' \in Seq(Collection) /\ Len(tasks') = Len(tasks) /\ Known' = Known
    BY <1>4, <2>1, Ends DEF TaskFails
  <2> QED
    BY <1>4, <2>2 DEF TaskFails
<1>5. CASE Purge
  BY <1>5 DEF Purge, Known
<1>6. ASSUME NEW c \in Callers, Start(c) PROVE StageType'
  BY <1>6 DEF Start, Goto, Known
<1>7. ASSUME NEW c \in Callers, FindNothing(c) PROVE StageType'
  BY <1>7 DEF FindNothing, Goto, Known
<1>8. ASSUME NEW c \in Callers, FindExisting(c) PROVE StageType'
  <2>1. PICK i \in Known : task' = [task EXCEPT ![c] = i]
    BY <1>8, Zenon DEF FindExisting, Newest
  <2>2. pc[c] = "find" /\ \E to \in {"download", "wait"} : pc' = [pc EXCEPT ![c] = to]
    BY <1>8, Zenon DEF FindExisting, Goto
  <2> QED
    BY <1>8, <2>1, <2>2 DEF FindExisting, Known
<1>9. ASSUME NEW c \in Callers, Trigger(c) PROVE StageType'
  <2>1. /\ tasks' \in Seq(Collection) /\ Len(tasks') = Len(tasks) + 1
        /\ Len(tasks') <= MaxTasks /\ Known' = Known \cup {Len(tasks) + 1}
    BY <1>9, Starts DEF Trigger
  <2> QED
    BY <1>9, <2>1 DEF Trigger, Goto
<1>10. ASSUME NEW c \in Callers, TriggerFails(c) PROVE StageType'
  <2>1. CASE UNCHANGED tasks
    <3>1. Known' = Known
      BY <2>1 DEF Known
    <3>2. /\ pc' = [pc EXCEPT ![c] = "raised"]
          /\ verdict' = [verdict EXCEPT ![c] = "error"]
          /\ pc[c] = "trigger" /\ attempt' = [attempt EXCEPT ![c] = @ + 1]
          /\ UNCHANGED <<strategy, clock, entries, slot, task, adopted, bundle, old, mine>>
      BY <1>10, Zenon DEF TriggerFails, Raise
    <3> QED
      BY <2>1, <3>1, <3>2
  <2>2. CASE BmcStarts
    BY <1>10, <2>2, Starts DEF TriggerFails, Raise
  <2> QED
    BY <1>10, <2>1, <2>2 DEF TriggerFails
<1>11. ASSUME NEW c \in Callers, WaitSucceeds(c) PROVE StageType'
  BY <1>11 DEF WaitSucceeds, Goto, Known
<1>12. ASSUME NEW c \in Callers, WaitFails(c) PROVE StageType'
  <2>0. /\ pc[c] = "wait"
        /\ UNCHANGED <<strategy, bmc, task, adopted, attempt, bundle, old, mine>>
        /\ Known' = Known
    BY <1>12, Zenon DEF WaitFails, Waiting, Known
  <2>1. CASE ~adopted[c] /\ attempt[c] <= MaxRetries
    <3>1. pc' = [pc EXCEPT ![c] = "trigger"] /\ UNCHANGED verdict
      BY <1>12, <2>1 DEF WaitFails, Goto
    <3> QED
      BY <2>0, <2>1, <3>1
  <2>2. CASE ~(~adopted[c] /\ attempt[c] <= MaxRetries)
    <3>1. /\ pc' = [pc EXCEPT ![c] = "raised"]
          /\ verdict' = [verdict EXCEPT ![c] = "failed"]
      BY <1>12, <2>2 DEF WaitFails, Raise
    <3> QED
      BY <2>0, <3>1
  <2> QED
    BY <2>1, <2>2
<1>13. ASSUME NEW c \in Callers, GiveUp(c) PROVE StageType'
  BY <1>13 DEF GiveUp, Raise, Known
<1>14. ASSUME NEW c \in Callers, Download(c) PROVE StageType'
  <2>1. PICK b : bundle' = [bundle EXCEPT ![c] = b] /\ b \in Known
    <3>1. task[c] \in Known
      BY <1>14 DEF Download, Goto
    <3> QED
      BY <1>14, <3>1, Offered DEF Download
  <2> QED
    BY <1>14, <2>1 DEF Download, Goto, Known
<1>15. ASSUME NEW c \in Callers, DownloadFails(c) PROVE StageType'
  BY <1>15 DEF DownloadFails, Raise, Known
<1>16. CASE UNCHANGED vars
  BY <1>16 DEF vars, Known
<1> QED
  BY <1>1, <1>2, <1>3, <1>4, <1>5, <1>6, <1>7, <1>8, <1>9, <1>10, <1>11, <1>12,
     <1>13, <1>14, <1>15, <1>16 DEF Next, Bmc, Step

(* TypeOK: the variables keep their types, and a call has at most          *)
(* max_retries + 1 attempts.                                               *)
THEOREM TypeCorrect == Spec => []TypeOK
<1>1. StageType => TypeOK
  BY DEF StageType
<1> QED
  BY <1>1, InitStage, NextStage, PTL DEF Spec
-----------------------------------------------------------------------------
(* What a step does to the collections: it leaves them alone, starts one,  *)
(* or ends one.                                                            *)
LEMMA TaskSteps ==
    ASSUME StageType, [Next]_vars
    PROVE  UNCHANGED tasks \/ BmcStarts
           \/ \E i \in Known, s \in States \ {"Running"} : TaskEnds(i, s)
<1>1. CASE Bmc
  <2>1. CASE \E i \in Known, s \in {"Completed", "Warning"} : TaskSucceeds(i, s)
    BY <2>1 DEF TaskSucceeds, States
  <2>2. CASE \E i \in Known : TaskFails(i)
    BY <2>2 DEF TaskFails, States
  <2>3. CASE Tick \/ OtherStarts \/ Purge
    BY <2>3, Zenon DEF Tick, OtherStarts, Purge
  <2> QED
    BY <1>1, <2>1, <2>2, <2>3, Zenon DEF Bmc
<1>2. ASSUME NEW c \in Callers, Start(c) \/ Step(c)
      PROVE  UNCHANGED tasks \/ BmcStarts
  BY <1>2, Zenon DEF Step, Start, FindNothing, FindExisting, Trigger, TriggerFails,
     WaitSucceeds, WaitFails, GiveUp, Download, DownloadFails, bmc
<1>3. CASE UNCHANGED vars
  BY <1>3, Zenon DEF vars, bmc
<1> QED
  BY <1>1, <1>2, <1>3, Zenon DEF Next

(* A collection keeps its start, and once it is over it does not change.   *)
Same(i) ==
    /\ i \in Known'
    /\ Over(i) => tasks'[i] = tasks[i]
    /\ tasks'[i].began = tasks[i].began
    /\ tasks'[i].timed = tasks[i].timed /\ tasks'[i].dated = tasks[i].dated

LEMMA Evolve == ASSUME StageType, [Next]_vars PROVE \A i \in Known : Same(i)
<1> USE DEF StageType, TypeOK
<1>1. CASE UNCHANGED tasks
  BY <1>1 DEF Same, Known
<1>2. CASE BmcStarts
  BY <1>2, Starts DEF Same
<1>3. ASSUME NEW i \in Known, NEW s \in States, TaskEnds(i, s)
      PROVE  \A j \in Known : Same(j)
  <2>1. ~Over(i)
    BY <1>3 DEF TaskEnds, Over
  <2>2. Same(i)
    BY <1>3, <2>1, Ends DEF Same
  <2>3. \A j \in Known \ {i} : Same(j)
    BY <1>3, Ends DEF Same
  <2> QED
    BY <2>2, <2>3
<1> QED
  BY <1>1, <1>2, <1>3, TaskSteps
-----------------------------------------------------------------------------
LEMMA NextMine == StageType /\ MineInv /\ [Next]_vars => MineInv'
<1> SUFFICES ASSUME StageType, MineInv, [Next]_vars PROVE MineInv'
  OBVIOUS
<1>1. \A c \in Callers : \A i \in mine[c] : Over(i) => Over(i)'
  BY Evolve DEF StageType, TypeOK, Same, Over
<1> USE DEF MineInv, call, StageType, TypeOK, StageInv
<1>2. CASE Bmc \/ UNCHANGED vars
  <2>1. UNCHANGED <<pc, call>>
    BY <1>2, Zenon DEF Bmc, Tick, OtherStarts, Purge, TaskSucceeds, TaskFails, vars
  <2> QED
    BY <1>1, <2>1
<1>3. ASSUME NEW c \in Callers, Start(c) \/ FindNothing(c) PROVE MineInv'
  BY <1>1, <1>3 DEF Start, FindNothing, Goto
<1>4. ASSUME NEW c \in Callers, FindExisting(c) PROVE MineInv'
  BY <1>1, <1>4 DEF FindExisting, Goto
<1>5. ASSUME NEW c \in Callers, Trigger(c) PROVE MineInv'
  BY <1>1, <1>5 DEF Trigger, Goto
<1>6. ASSUME NEW c \in Callers, TriggerFails(c) PROVE MineInv'
  BY <1>1, <1>6 DEF TriggerFails, Raise
<1>7. ASSUME NEW c \in Callers, WaitSucceeds(c) PROVE MineInv'
  BY <1>1, <1>7 DEF WaitSucceeds, Goto
<1>8. ASSUME NEW c \in Callers, WaitFails(c) PROVE MineInv'
  <2>0. Over(task[c])
    BY <1>8 DEF WaitFails, Waiting, Over
  <2>1. CASE ~adopted[c] /\ attempt[c] <= MaxRetries
    BY <1>1, <1>8, <2>0, <2>1 DEF WaitFails, Waiting, Goto
  <2>2. CASE ~(~adopted[c] /\ attempt[c] <= MaxRetries)
    BY <1>1, <1>8, <2>2 DEF WaitFails, Waiting, Raise
  <2> QED
    BY <2>1, <2>2
<1>9. ASSUME NEW c \in Callers, GiveUp(c) \/ Download(c) \/ DownloadFails(c)
      PROVE  MineInv'
  BY <1>1, <1>9 DEF GiveUp, Download, DownloadFails, Goto, Raise
<1> QED
  BY <1>2, <1>3, <1>4, <1>5, <1>6, <1>7, <1>8, <1>9 DEF Next, Step

(* NoPileUp: whatever was retried, a call triggers a collection only when  *)
(* those it has triggered are over, and never after it has reused one.     *)
THEOREM NoPileUpAlways == Spec => NoPileUp
<1>1. Init => MineInv
  BY DEF Init, MineInv
<1>2. ASSUME StageType, MineInv, NEW c \in Callers, Trigger(c)
      PROVE  ~adopted[c] /\ \A i \in mine[c] : Over(i)
  BY <1>2 DEF StageType, StageInv, MineInv, Trigger, Goto
<1>3. StageType /\ MineInv =>
        [\A c \in Callers : Trigger(c) =>
          /\ ~adopted[c]
          /\ \A i \in mine[c] : tasks[i].state # "Running"]_vars
  BY <1>2 DEF Over
<1>4. Spec => [](StageType /\ MineInv)
  BY <1>1, InitStage, NextStage, NextMine, PTL DEF Spec
<1> QED
  BY <1>3, <1>4, PTL DEF NoPileUp
-----------------------------------------------------------------------------
(* The clock of the BMC orders its collections, the entries are those of   *)
(* the collections that succeeded, and the slot holds the last of them.    *)
Timing(i) ==
    /\ tasks[i].began <= clock
    /\ Over(i) => /\ tasks[i].ended \in Nat
                  /\ tasks[i].began <= tasks[i].ended
                  /\ tasks[i].ended <= clock
    /\ "undated" \notin Faults => tasks[i].timed /\ tasks[i].dated

BmcInv ==
    /\ \A i \in Known : Timing(i)
    /\ entries = {i \in Known : tasks[i].state \in {"Completed", "Warning"}}
    /\ slot # None => /\ slot \in entries
                      /\ \A i \in entries : tasks[i].ended <= tasks[slot].ended

(* What a call knows of the collection it follows.  Where a collection     *)
(* that is over is not reused, that collection outlasts the start of the   *)
(* call, and so does what the slot holds once it has succeeded.            *)
Followed(c) ==
    /\ \A i \in old[c] : Over(i)
    /\ pc[c] \in {"download", "returned"} => task[c] \in entries
    /\ bundle[c] # None => bundle[c] \in entries

FollowedNew(c) ==
    /\ task[c] # None => task[c] \notin old[c]
    /\ task[c] \in entries /\ slot # None => slot \notin old[c]
    /\ pc[c] \in {"download", "returned"} => tasks[task[c]].state = "Completed"
    /\ verdict[c] = "failed" => tasks[task[c]].state \in {"Failed", "Warning"}

CallInv == \A c \in Callers : Followed(c) /\ (Reuse # "any" => FollowedNew(c))

CollectInv == StageType /\ BmcInv /\ CallInv

LEMMA NextBmc == StageType /\ BmcInv /\ [Next]_vars => BmcInv'
<1> SUFFICES ASSUME StageType, BmcInv, [Next]_vars PROVE BmcInv'
  OBVIOUS
<1> USE DEF StageType, TypeOK, BmcInv
<1>0. clock \in Nat /\ \A i \in Known : tasks[i].began \in Nat
  BY CollectionFields DEF Known
<1>1. CASE Tick
  <2>1. clock' = clock + 1 /\ Known' = Known /\ UNCHANGED <<tasks, entries, slot>>
    BY <1>1 DEF Tick, Known
  <2>2. \A i \in Known : Timing(i)'
    BY <1>0, <2>1 DEF Timing, Over
  <2> QED
    BY <2>1, <2>2
<1>2. ASSUME BmcStarts, UNCHANGED <<clock, entries, slot>> PROVE BmcInv'
  <2>0. \A i \in Known : tasks'[i] = tasks[i]
    BY <1>2, Starts
  <2>1. \A i \in Known' : i \in Known \/ i = Len(tasks) + 1
    BY <1>2, Starts
  <2>2. entries' = {i \in Known : tasks[i].state \in {"Completed", "Warning"}}
    BY <1>2
  <2>3. entries' = {i \in Known' : tasks'[i].state \in {"Completed", "Warning"}}
    BY <1>2, <2>0, <2>1, <2>2, Starts
  <2>4. \A i \in Known : Timing(i)'
    BY <1>2, <2>0 DEF Timing, Over
  <2>5. ASSUME NEW n \in Nat, n = Len(tasks) + 1 PROVE Timing(n)'
    <3>0. tasks \in Seq(Collection) /\ clock \in Nat
      BY <1>0
    <3> HIDE DEF StageType, TypeOK, BmcInv
    <3>1. /\ tasks'[Len(tasks) + 1].state = "Running"
          /\ tasks'[Len(tasks) + 1].began = clock
          /\ "undated" \notin Faults => /\ tasks'[Len(tasks) + 1].timed
                                        /\ tasks'[Len(tasks) + 1].dated
      BY <1>2, <3>0, Starts
    <3> QED
      BY <1>0, <1>2, <2>5, <3>1 DEF Timing, Over
  <2>6. \A i \in entries : i \in Known /\ tasks'[i] = tasks[i]
    BY <1>2, Starts
  <2> QED
    BY <1>2, <2>1, <2>3, <2>4, <2>5, <2>6 DEF Known
<1>3. ASSUME NEW i \in Known, NEW s \in {"Completed", "Warning"}, TaskSucceeds(i, s)
      PROVE  BmcInv'
  <2>1. s \in States /\ TaskEnds(i, s)
    BY <1>3 DEF States, TaskSucceeds
  <2>2. entries' = {j \in Known' : tasks'[j].state \in {"Completed", "Warning"}}
    BY <1>3, <2>1, Ends DEF TaskSucceeds
  <2>3. \A j \in entries : j # i /\ tasks[j].ended <= clock
    BY <2>1 DEF TaskEnds, Timing, Over
  <2>4. \A j \in Known \ {i} : tasks'[j] = tasks[j]
    BY <2>1, Ends
  <2>5. /\ clock' = clock /\ Known' = Known
        /\ entries' = entries \cup {i} /\ slot' = i /\ tasks'[i].ended = clock
    BY <1>3, <2>1, Ends DEF TaskSucceeds
  <2>6. Timing(i)'
    <3>1. /\ tasks'[i].began = tasks[i].began
          /\ tasks'[i].timed = tasks[i].timed /\ tasks'[i].dated = tasks[i].dated
      BY <2>1, Ends
    <3>2. Timing(i)
      OBVIOUS
    <3> QED
      BY <1>0, <2>5, <3>1, <3>2 DEF Timing
  <2>7. \A j \in Known \ {i} : Timing(j)'
    BY <2>4, <2>5 DEF Timing, Over
  <2> QED
    <3>1. \A j \in Known' : Timing(j)'
      BY <2>5, <2>6, <2>7
    <3>2. /\ slot' \in entries'
          /\ \A j \in entries' : tasks'[j].ended <= tasks'[slot'].ended
      BY <1>0, <2>3, <2>4, <2>5
    <3> QED
      BY <2>2, <3>1, <3>2
<1>4. ASSUME NEW i \in Known, TaskFails(i) PROVE BmcInv'
  <2>1. "Failed" \in States /\ TaskEnds(i, "Failed")
    BY <1>4 DEF States, TaskFails
  <2>2. i \notin entries
    BY <2>1 DEF TaskEnds
  <2>4. \A j \in Known \ {i} : tasks'[j] = tasks[j]
    BY <2>1, Ends
  <2>5. /\ clock' = clock /\ Known' = Known
        /\ entries' = entries /\ slot' = slot
        /\ tasks'[i].state = "Failed" /\ tasks'[i].ended = clock
    BY <1>4, <2>1, Ends DEF TaskFails
  <2>3. entries' = {j \in Known' : tasks'[j].state \in {"Completed", "Warning"}}
    BY <2>2, <2>4, <2>5
  <2>6. Timing(i)'
    <3>1. /\ tasks'[i].began = tasks[i].began
          /\ tasks'[i].timed = tasks[i].timed /\ tasks'[i].dated = tasks[i].dated
      BY <2>1, Ends
    <3>2. Timing(i)
      OBVIOUS
    <3> QED
      BY <1>0, <2>5, <3>1, <3>2 DEF Timing
  <2>7. \A j \in Known \ {i} : Timing(j)'
    BY <2>4, <2>5 DEF Timing, Over
  <2> QED
    BY <2>2, <2>3, <2>4, <2>5, <2>6, <2>7
<1>5. CASE Purge
  BY <1>5 DEF Purge, Known, Timing, Over
<1>6. ASSUME UNCHANGED bmc PROVE BmcInv'
  BY <1>6 DEF bmc, Known, Timing, Over
<1>7. ASSUME NEW c \in Callers, Start(c) \/ Step(c)
      PROVE  UNCHANGED bmc \/ (BmcStarts /\ UNCHANGED <<clock, entries, slot>>)
  BY <1>7, Zenon DEF Step, Start, FindNothing, FindExisting, Trigger, TriggerFails,
     WaitSucceeds, WaitFails, GiveUp, Download, DownloadFails, bmc
<1> QED
  BY <1>1, <1>2, <1>3, <1>4, <1>5, <1>6, <1>7, Zenon
     DEF Next, Bmc, OtherStarts, vars, bmc

(* Whoever downloads for a collection that succeeded is given one that did.*)
LEMMA OfferedEntry ==
    ASSUME BmcInv, NEW i \in entries, NEW pool \in Readings,
           NEW b \in IF Fetch = "entry" THEN Found(i, pool) ELSE Archives
    PROVE  b \in entries
<1>1. pool \subseteq entries
  BY Zenon DEF Readings
<1>2. CASE b \in Archives
  BY <1>2 DEF BmcInv, Archives
<1>3. CASE b \in Found(i, pool)
  <2>1. Resulting(i, pool) \subseteq entries
    BY <1>1, Zenon DEF Resulting, Latest, Recent
  <2> QED
    BY <1>3, <2>1, FoundIn
<1> QED
  BY <1>2, <1>3

(* A step changes the entries and the slot by a collection that succeeds,  *)
(* or empties the slot.                                                    *)
LEMMA SlotSteps ==
    ASSUME StageType, BmcInv, [Next]_vars
    PROVE  /\ UNCHANGED strategy
           /\ \/ entries' = entries /\ slot' \in {slot, None}
              \/ slot' \in Known /\ ~Over(slot') /\ entries' = entries \cup {slot'}
<1>1. ASSUME NEW i \in Known, NEW s, TaskSucceeds(i, s)
      PROVE  UNCHANGED strategy /\ slot' \in Known /\ tasks[slot'].state = "Running"
             /\ entries' = entries \cup {slot'}
  BY <1>1 DEF TaskSucceeds, TaskEnds
<1>2. ASSUME NEW i \in Known, TaskFails(i)
      PROVE  UNCHANGED strategy /\ entries' = entries /\ slot' \in {slot, None}
  BY <1>2 DEF TaskFails
<1>3. CASE Tick \/ OtherStarts \/ Purge
  BY <1>3 DEF Tick, OtherStarts, Purge
<1>4. ASSUME NEW c \in Callers, Start(c) \/ Step(c)
      PROVE  UNCHANGED <<strategy, entries, slot>>
  BY <1>4, Zenon DEF Step, Start, FindNothing, FindExisting, Trigger, TriggerFails,
     WaitSucceeds, WaitFails, GiveUp, Download, DownloadFails, bmc
<1>5. CASE UNCHANGED vars
  BY <1>5 DEF vars, bmc
<1> QED
  BY <1>1, <1>2, <1>3, <1>4, <1>5 DEF Next, Bmc, Over

LEMMA NextCall == CollectInv /\ [Next]_vars => CallInv'
<1> SUFFICES ASSUME CollectInv, [Next]_vars PROVE CallInv'
  OBVIOUS
<1>0. entries \subseteq Known /\ \A i \in entries : Over(i)
  BY DEF CollectInv, BmcInv, Over
<1>1. \A i \in Known : i \in Known' /\ (Over(i) => Over(i)' /\ tasks'[i] = tasks[i])
  BY Evolve DEF CollectInv, Same, Over
<1>2. /\ UNCHANGED strategy
      /\ \/ entries' = entries /\ slot' \in {slot, None}
         \/ slot' \in Known /\ ~Over(slot') /\ entries' = entries \cup {slot'}
  BY SlotSteps DEF CollectInv
<1>3. UNCHANGED Reuse
  BY <1>2 DEF Reuse
<1> USE DEF CollectInv, CallInv, StageType, TypeOK, StageInv
(* What holds of a call that takes no step.                                *)
<1>4. ASSUME NEW c \in Callers,
             pc'[c] = pc[c], task'[c] = task[c], bundle'[c] = bundle[c],
             verdict'[c] = verdict[c], old'[c] = old[c]
      PROVE  Followed(c)' /\ (Reuse' # "any" => FollowedNew(c)')
  <2>1. Followed(c)'
    BY <1>0, <1>1, <1>2, <1>4 DEF Followed
  <2>2. ASSUME Reuse # "any" PROVE FollowedNew(c)'
    <3> USE DEF Followed, FollowedNew
    <3>1. task'[c] # None => task'[c] \notin old'[c]
      BY <1>4, <2>2
    <3>2. task'[c] \in entries' /\ slot' # None => slot' \notin old'[c]
      BY <1>0, <1>2, <1>4, <2>2
    <3>3. pc'[c] \in {"download", "returned"} => tasks'[task'[c]].state = "Completed"
      BY <1>0, <1>1, <1>4, <2>2
    <3>4. verdict'[c] = "failed" => tasks'[task'[c]].state \in {"Failed", "Warning"}
      <4> SUFFICES ASSUME verdict[c] = "failed"
                   PROVE  tasks'[task[c]].state \in {"Failed", "Warning"}
        BY <1>4
      <4>1. task[c] \in Known
        OBVIOUS
      <4>2. tasks[task[c]].state \in {"Failed", "Warning"}
        BY <2>2
      <4> QED
        BY <1>1, <4>1, <4>2 DEF Over
    <3> QED
      BY <3>1, <3>2, <3>3, <3>4
  <2> QED
    BY <1>3, <2>1, <2>2
<1>5. CASE Bmc \/ UNCHANGED vars
  <2>1. UNCHANGED <<pc, call>>
    BY <1>5, Zenon DEF Bmc, Tick, OtherStarts, Purge, TaskSucceeds, TaskFails, vars
  <2> QED
    BY <1>4, <2>1 DEF call
(* A caller that takes a step leaves the others alone.                     *)
<1>6. ASSUME NEW c \in Callers, Start(c) \/ Step(c),
             Followed(c)' /\ (Reuse # "any" => FollowedNew(c)')
      PROVE  CallInv'
  <2>1. ASSUME NEW d \in Callers, d # c
        PROVE  /\ pc'[d] = pc[d] /\ task'[d] = task[d] /\ bundle'[d] = bundle[d]
               /\ verdict'[d] = verdict[d] /\ old'[d] = old[d]
    <3>1. CASE Start(c) \/ FindNothing(c) \/ FindExisting(c) \/ Trigger(c)
      BY <2>1, <3>1 DEF Start, FindNothing, FindExisting, Trigger, Goto, call
    <3>2. CASE TriggerFails(c) \/ WaitSucceeds(c) \/ GiveUp(c) \/ DownloadFails(c)
      BY <2>1, <3>2 DEF TriggerFails, WaitSucceeds, GiveUp, DownloadFails, Goto,
         Raise, call
    <3>3. CASE WaitFails(c)
      BY <2>1, <3>3 DEF WaitFails, Goto, Raise
    <3>4. CASE Download(c)
      BY <2>1, <3>4 DEF Download, Goto
    <3> QED
      BY <1>6, <3>1, <3>2, <3>3, <3>4, Zenon DEF Step
  <2> QED
    BY <1>3, <1>4, <1>6, <2>1
<1>7. ASSUME NEW c \in Callers, Start(c) \/ Step(c)
      PROVE  Followed(c)' /\ (Reuse # "any" => FollowedNew(c)')
  <2> USE DEF Followed, FollowedNew
  <2>1. CASE Start(c)
    <3>1. /\ old'[c] = {i \in Known : tasks[i].state # "Running"}
          /\ pc'[c] \in {"find", "trigger"} /\ task'[c] = None
          /\ UNCHANGED <<bmc, bundle, verdict>>
          /\ bundle[c] = None /\ verdict[c] # "failed"
      BY <2>1 DEF Start, Goto
    <3>2. None \notin entries
      <4>1. Len(tasks) \in Nat
        OBVIOUS
      <4>2. \A i \in Known : i \in Nat
        BY <4>1 DEF Known
      <4> QED
        BY <1>0, <4>2, None \notin Nat, Zenon
    <3> QED
      BY <1>0, <3>1, <3>2 DEF Over, bmc
  <2>2. CASE FindNothing(c)
    <3>1. /\ pc'[c] = "trigger" /\ bundle[c] = None /\ verdict[c] # "failed"
          /\ UNCHANGED <<bmc, call>>
      BY <2>2 DEF FindNothing, Goto
    <3> QED
      BY <3>1 DEF bmc, call, Over
  <2>3. CASE FindExisting(c)
    <3>1. PICK i \in Known :
            /\ MayAdopt(i)
            /\ Goto(c, "find", IF tasks[i].state \in {"Completed", "Warning"}
                               THEN "download" ELSE "wait")
            /\ task' = [task EXCEPT ![c] = i]
      BY <2>3, Zenon DEF FindExisting, Newest
    <3>2. /\ UNCHANGED <<bmc, bundle, verdict, old>>
          /\ bundle[c] = None /\ verdict[c] # "failed" /\ task'[c] = i
      BY <2>3, <3>1 DEF FindExisting, Goto
    <3>3. CASE tasks[i].state \in {"Completed", "Warning"}
      <4>1. i \in entries
        BY <3>3 DEF BmcInv
      <4>2. Reuse = "any"
        BY <3>1, <3>3 DEF MayAdopt
      <4> QED
        BY <3>2, <4>1, <4>2 DEF bmc, Over
    <3>4. CASE tasks[i].state \notin {"Completed", "Warning"}
      <4>1. pc'[c] = "wait" /\ i \notin entries
        BY <3>1, <3>4 DEF BmcInv, Goto
      <4>2. Reuse # "any" => ~Over(i)
        BY <3>1 DEF MayAdopt, Over
      <4> QED
        BY <3>2, <4>1, <4>2 DEF bmc, Over
    <3> QED
      BY <3>3, <3>4
  <2>4. CASE Trigger(c)
    <3>1. /\ task'[c] = Len(tasks) + 1 /\ pc'[c] = "wait"
          /\ UNCHANGED <<entries, slot, bundle, verdict, old>>
          /\ bundle[c] = None /\ verdict[c] # "failed"
      BY <2>4 DEF Trigger, Goto
    <3>2. Len(tasks) + 1 \notin Known
      BY DEF Known
    <3> QED
      BY <1>0, <1>1, <3>1, <3>2
  <2>5. CASE TriggerFails(c) \/ GiveUp(c) \/ DownloadFails(c)
    <3>1. /\ pc'[c] = "raised" /\ verdict'[c] = "error" /\ bundle[c] = None
          /\ UNCHANGED <<entries, slot, task, bundle, old>>
      BY <2>5 DEF TriggerFails, GiveUp, DownloadFails, Raise, bmc
    <3> QED
      BY <1>1, <3>1
  <2>6. CASE WaitSucceeds(c)
    <3>1. /\ pc'[c] = "download" /\ tasks[task[c]].state = "Completed"
          /\ task[c] \in Known /\ bundle[c] = None /\ verdict[c] # "failed"
          /\ UNCHANGED <<bmc, call>>
      BY <2>6 DEF WaitSucceeds, Ready, Waiting, Goto
    <3>2. task[c] \in entries
      BY <3>1 DEF BmcInv
    <3> QED
      BY <3>1, <3>2 DEF bmc, call, Over
  <2>7. CASE WaitFails(c)
    <3>1. /\ pc'[c] \in {"trigger", "raised"} /\ bundle[c] = None
          /\ UNCHANGED <<bmc, task, bundle, old>>
          /\ tasks[task[c]].state \in {"Failed", "Warning"}
      BY <2>7 DEF WaitFails, Waiting, Goto, Raise
    <3> QED
      BY <3>1 DEF bmc, Over
  <2>8. CASE Download(c)
    <3>1. /\ pc[c] = "download" /\ pc'[c] = "returned" /\ verdict[c] # "failed"
          /\ UNCHANGED <<bmc, task, verdict, old>>
      BY <2>8 DEF Download, Goto
    <3>2. bundle'[c] \in entries
      BY <2>8, <3>1, OfferedEntry DEF Download
    <3> QED
      BY <3>1, <3>2 DEF bmc, Over
  <2> QED
    BY <1>7, <2>1, <2>2, <2>3, <2>4, <2>5, <2>6, <2>7, <2>8, Zenon DEF Step
<1> QED
  BY <1>5, <1>6, <1>7 DEF Next

LEMMA InitCollect == Init => CollectInv
<1> SUFFICES ASSUME Init PROVE CollectInv
  OBVIOUS
<1>1. Known = {}
  BY DEF Init, Known
<1>2. BmcInv
  BY <1>1 DEF Init, BmcInv
<1>3. CallInv
  BY DEF Init, CallInv, Followed, FollowedNew
<1> QED
  BY <1>2, <1>3, InitStage DEF CollectInv

LEMMA CollectInvariant == Spec => []CollectInv
<1>1. CollectInv /\ [Next]_vars => CollectInv'
  BY NextStage, NextBmc, NextCall DEF CollectInv
<1> QED
  BY <1>1, InitCollect, PTL DEF Spec

(* HonestVerdict: unless collections that are over are reused, a call that *)
(* fails reports the failure of a collection that was not over when it     *)
(* began, and one that returns has waited for a success.                   *)
THEOREM VerdictIsHonest == Spec => []HonestVerdict
<1>1. CollectInv => HonestVerdict
  BY DEF CollectInv, CallInv, FollowedNew, HonestVerdict, StageType, StageInv
<1> QED
  BY <1>1, CollectInvariant, PTL
-----------------------------------------------------------------------------
(* Nothing hides a log entry where bundles are looked for among them.      *)
Clean == \A s \in Strategies : Strategy[s].fetch = "entry" => Faults = {}

LEMMA WaysToFetch ==
    \A s \in DOMAIN Strategy : /\ Strategy[s].fetch \in {"entry", "slot"}
                               /\ Strategy[s].reuse # "any" => Strategy[s].fetch = "slot"
  BY DEF Strategy

(* The entry of the collection is among those found, and it is recent.     *)
LEMMA OfferedIsFresh ==
    ASSUME Faults = {}, StageType, BmcInv, NEW i \in entries, NEW pool \in Readings,
           NEW b \in Found(i, pool)
    PROVE  tasks[i].began <= tasks[b].ended
<1>1. pool = entries
  BY DEF Readings
<1>2. \A j \in entries : /\ tasks[j].began \in Nat /\ tasks[j].ended \in Nat
                         /\ tasks[j].began <= tasks[j].ended
                         /\ tasks[j].timed /\ tasks[j].dated
  BY CollectionFields DEF StageType, TypeOK, BmcInv, Timing, Over, Known
<1>3. i \in Recent(i, pool)
  BY <1>1, <1>2 DEF Recent, Created, Started
<1>4. Resulting(i, pool) \subseteq Recent(i, pool)
  BY <1>3, Zenon DEF Resulting, Latest
<1>5. \A j \in Recent(i, pool) : tasks[i].began <= tasks[j].ended
  BY <1>1, <1>2 DEF Recent, Created, Started
<1> QED
  BY <1>2, <1>4, <1>5, FoundIn

LEMMA NextFresh ==
    ASSUME Clean, CollectInv, FreshBundle, [Next]_vars PROVE FreshBundle'
<1> USE DEF CollectInv, StageType, TypeOK
<1>0. entries \subseteq Known /\ \A i \in entries : Over(i)
  BY DEF BmcInv, Over
<1>1. /\ UNCHANGED Reuse
      /\ \A i \in Known : /\ tasks'[i].began = tasks[i].began
                          /\ Over(i) => tasks'[i] = tasks[i]
  BY Evolve, SlotSteps DEF Same, Reuse
(* What holds of a call that has its bundle.                               *)
<1>2. ASSUME NEW c \in Callers, bundle[c] # None,
             bundle'[c] = bundle[c], task'[c] = task[c], old'[c] = old[c]
      PROVE  /\ tasks'[bundle'[c]].ended >= tasks'[task'[c]].began
             /\ Reuse' # "any" => bundle'[c] \notin old'[c]
  <2>1. bundle[c] \in entries /\ task[c] \in Known
    BY <1>2 DEF CallInv, Followed, StageInv
  <2> QED
    BY <1>0, <1>1, <1>2, <2>1 DEF FreshBundle
<1>3. CASE UNCHANGED <<bundle, task, old>>
  BY <1>2, <1>3 DEF FreshBundle
<1>4. ASSUME NEW c \in Callers, Download(c) PROVE FreshBundle'
  <2>1. /\ UNCHANGED <<bmc, strategy, task, old>> /\ task[c] \in entries
        /\ \A d \in Callers : d # c => bundle'[d] = bundle[d]
    BY <1>4 DEF Download, Goto, CallInv, Followed
  <2>0. PICK pool \in Readings :
           \E b \in IF Fetch = "entry" THEN Found(task[c], pool) ELSE Archives :
              bundle' = [bundle EXCEPT ![c] = b]
    BY <1>4 DEF Download
  <2>2. PICK b \in IF Fetch = "entry" THEN Found(task[c], pool) ELSE Archives :
           bundle'[c] = b
    BY <2>0
  <2>3. CASE Fetch = "entry"
    <3>1. Faults = {} /\ Reuse = "any"
      BY <2>3, WaysToFetch DEF Clean, Fetch, Reuse
    <3>2. tasks[task[c]].began <= tasks[b].ended
      BY <2>1, <2>2, <2>3, <3>1, OfferedIsFresh
    <3> QED
      BY <1>1, <1>2, <2>1, <2>2, <3>1, <3>2 DEF FreshBundle, bmc
  <2>4. CASE Fetch # "entry"
    <3>1. b = slot /\ slot # None
      BY <2>2, <2>4 DEF Archives
    <3>2. tasks[task[c]].began <= tasks[slot].ended
      <4>1. /\ tasks[task[c]].began \in Nat /\ tasks[task[c]].ended \in Nat
            /\ tasks[slot].ended \in Nat
            /\ tasks[task[c]].began <= tasks[task[c]].ended
        <5>1. Over(task[c]) /\ Over(slot) /\ task[c] \in Known /\ slot \in Known
          BY <1>0, <2>1, <3>1 DEF BmcInv
        <5>2. tasks[task[c]] \in Collection
          BY <5>1 DEF Known
        <5> QED
          BY <5>1, <5>2, CollectionFields DEF BmcInv, Timing
      <4>2. tasks[task[c]].ended <= tasks[slot].ended
        BY <2>1, <3>1 DEF BmcInv
      <4> QED
        BY <4>1, <4>2
    <3>3. Reuse # "any" => slot \notin old[c]
      BY <2>1, <3>1 DEF CallInv, FollowedNew
    <3>4. /\ tasks'[bundle'[c]].ended >= tasks'[task'[c]].began
          /\ Reuse' # "any" => bundle'[c] \notin old'[c]
      BY <1>1, <2>1, <2>2, <3>1, <3>2, <3>3 DEF bmc
    <3> QED
      BY <1>2, <2>1, <3>4 DEF FreshBundle
  <2> QED
    BY <2>3, <2>4
<1>5. ASSUME NEW c \in Callers, Start(c) \/ FindExisting(c) \/ Trigger(c)
      PROVE  FreshBundle'
  <2>1. /\ UNCHANGED bundle /\ bundle[c] = None
        /\ \A d \in Callers : d # c => task'[d] = task[d] /\ old'[d] = old[d]
    BY <1>5 DEF Start, FindExisting, Trigger, Goto, StageInv
  <2> QED
    BY <1>2, <2>1 DEF FreshBundle
<1>6. CASE Bmc \/ UNCHANGED vars
  BY <1>3, <1>6, Zenon DEF Bmc, Tick, OtherStarts, Purge, TaskSucceeds, TaskFails,
     vars, call
<1>7. ASSUME NEW c \in Callers, Step(c)
      PROVE  UNCHANGED <<bundle, task, old>>
             \/ FindExisting(c) \/ Trigger(c) \/ Download(c)
  BY <1>7, Zenon DEF Step, FindNothing, TriggerFails, WaitSucceeds, WaitFails, GiveUp,
     DownloadFails, call
<1> QED
  BY <1>3, <1>4, <1>5, <1>6, <1>7, Zenon DEF Next

(* FreshBundle: whatever others collect meanwhile, the bundle a caller is  *)
(* handed was finished after the collection it followed had begun.         *)
THEOREM BundleIsFresh == ASSUME Clean PROVE Spec => []FreshBundle
<1>1. Init => FreshBundle
  BY DEF Init, FreshBundle
<1>2. CollectInv /\ FreshBundle /\ [Next]_vars => FreshBundle'
  BY NextFresh
<1> QED
  BY <1>1, <1>2, CollectInvariant, PTL DEF Spec
=============================================================================
