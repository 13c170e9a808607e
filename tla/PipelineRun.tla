----------------------------- MODULE PipelineRun -----------------------------
(***************************************************************************)
(* The row of one pipeline run and the functions of                        *)
(* services/PipelineRunService.ts that change it, for the modules of its   *)
(* writers (PlaybookRun, RolloutRun).                                      *)
(*                                                                         *)
(* Each function is findByPk followed by row.update(): two statements.     *)
(* Sequelize writes only the attributes whose new value differs from the   *)
(* value that was read, so the second statement depends on the first.      *)
(***************************************************************************)
EXTENDS Naturals, Sequences

CONSTANTS
    Threads,  \* requests and background jobs that may touch the run
    NoGate,   \* gateStepId null
    NoPlan    \* pendingPlan null

VARIABLES
    row,      \* [status, gateStepId, pendingPlan]
    pc,       \* pc[t]: what thread t does next
    loaded,   \* loaded[t]: the row as t's findByPk returned it
    verdict   \* verdict[t]: the status t completes the run with

recordVars == <<row, pc, loaded, verdict>>

Statuses == {"pending", "running", "awaiting_approval", "succeeded", "failed"}

\* The row after markRunning().
StartedRow == [status |-> "running", gateStepId |-> NoGate, pendingPlan |-> NoPlan]

Goto(t, step) == pc' = [pc EXCEPT ![t] = step]

\* First half of an update: findByPk.
FindRow(t, next) ==
    /\ loaded' = [loaded EXCEPT ![t] = row]
    /\ Goto(t, next)

\* Second half: row.update(new) leaves the attributes alone that it found equal.
Updated(t, new) ==
    [status      |-> IF new.status = loaded[t].status
                       THEN row.status ELSE new.status,
     gateStepId  |-> IF new.gateStepId = loaded[t].gateStepId
                       THEN row.gateStepId ELSE new.gateStepId,
     pendingPlan |-> IF new.pendingPlan = loaded[t].pendingPlan
                       THEN row.pendingPlan ELSE new.pendingPlan]

UpdateRow(t, new) == row' = Updated(t, new)

\* The thread ends; nothing reads its local variables any more.
Return(t) ==
    /\ loaded' = [loaded EXCEPT ![t] = StartedRow]
    /\ verdict' = [verdict EXCEPT ![t] = "failed"]
    /\ Goto(t, "done")

\* completeRun(): no check that the run is not complete already.
CompleteRun(t, status) ==
    /\ verdict' = [verdict EXCEPT ![t] = status]
    /\ Goto(t, "completing")

FindCompleted(t) ==
    /\ pc[t] = "completing"
    /\ FindRow(t, "completed")
    /\ UNCHANGED <<row, verdict>>

UpdateCompleted(t) ==
    /\ pc[t] = "completed"
    /\ UpdateRow(t, [status      |-> verdict[t],
                     gateStepId  |-> loaded[t].gateStepId,
                     pendingPlan |-> loaded[t].pendingPlan])
    /\ Return(t)

\* abortRun(): the status is read once, then completeRun() reads it again.
AbortRun(t) ==
    /\ pc[t] = "idle"
    /\ row.status \in {"awaiting_approval", "running"}
    /\ verdict' = [verdict EXCEPT ![t] = "failed"]
    /\ Goto(t, "aborting")
    /\ UNCHANGED <<row, loaded>>

FindAborted(t) ==
    /\ pc[t] = "aborting"
    /\ FindRow(t, "aborted")
    /\ UNCHANGED <<row, verdict>>

UpdateAborted(t) ==
    /\ pc[t] = "aborted"
    /\ UpdateRow(t, [status      |-> verdict[t],
                     gateStepId  |-> loaded[t].gateStepId,
                     pendingPlan |-> loaded[t].pendingPlan])
    /\ Return(t)

Complete(t) == FindCompleted(t) \/ UpdateCompleted(t)
Abort(t) == FindAborted(t) \/ UpdateAborted(t)
=============================================================================
