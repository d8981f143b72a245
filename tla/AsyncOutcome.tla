----------------------------- MODULE AsyncOutcome -----------------------------
(***************************************************************************)
(* What waiting for an asynchronous operation promises: the caller gets    *)
(* one verdict, once, and a verdict about the operation is true.  Any      *)
(* other verdict says that the wait was given up.                          *)
(***************************************************************************)
VARIABLES
    task,       \* the state of the task on the BMC
    verdict     \* what the caller was told, or "none"

outcomeVars == <<task, verdict>>

Init == task = "Running" /\ verdict = "none"

TaskEnds ==
    /\ task = "Running"
    /\ task' \in {"Completed", "Exception"}
    /\ UNCHANGED verdict

Decide ==
    /\ verdict = "none"
    /\ verdict' # "none"
    /\ verdict' = "success" => task = "Completed"
    /\ verdict' = "failed" => task = "Exception"
    /\ UNCHANGED task

Spec == Init /\ [][TaskEnds \/ Decide]_outcomeVars
=============================================================================
