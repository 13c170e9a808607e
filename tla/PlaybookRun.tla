----------------------------- MODULE PlaybookRun -----------------------------
(***************************************************************************)
(* An apply run whose manifest has playbook tasks: the background job that *)
(* dispatches the plans and runs the tasks (ApplyService.execute,          *)
(* ApplyPlaybookRunner, ApplyStageRunner.executePlan), the approval gates  *)
(* that pause it, and the continue and abort requests, which any replica   *)
(* serves and none serialises.                                             *)
(*                                                                         *)
(* Whether a condition ("when") holds and whether a command succeeds is    *)
(* left open.  Everything else a task is, is in the constant Playbook.     *)
(***************************************************************************)
EXTENDS PipelineRun

CONSTANTS
    Tasks,     \* the tasks of the manifest, those of rescue blocks included
    Playbook,  \* manifest.tasks, a sequence of tasks
    Def,       \* Def[k]: name, module, when, rescue and ignoreErrors of task k
    Job,       \* the thread that applies the manifest
    Replicas,
    Host       \* Host[t]: the replica that runs thread t

\* Names need not be unique; "when" says that the task has a condition.
ASSUME TasksAssumption ==
    /\ Def \in [Tasks -> [name : STRING, module : {"command", "confirm"}, when : BOOLEAN,
                          rescue : Seq(Tasks), ignoreErrors : BOOLEAN]]
    /\ Playbook \in Seq(Tasks)
ASSUME ThreadsAssumption ==
    /\ Job \in Threads
    /\ Host \in [Threads -> Replicas]
\* Every occurrence of a task in the manifest is a task of its own.
ASSUME OccurrencesAssumption ==
    /\ \A k, n \in DOMAIN Playbook : Playbook[k] = Playbook[n] => k = n
    /\ \A task \in Tasks : \A k \in DOMAIN Playbook, n \in DOMAIN Def[task].rescue :
          Def[task].rescue[n] # Playbook[k]

\* null is neither the name of a gate nor a plan.
ASSUME NullAssumption ==
    /\ \A task \in Tasks : Def[task].name # NoGate
    /\ NoPlan \notin [tasks : Seq(Tasks), cursor : Nat]

IsGate(task) == Def[task].module = "confirm"

VARIABLES
    plan,      \* plan[t]: [tasks, cursor], the plan thread t executes
    started,   \* history: how often each task was handed to the executor
    unannounced, \* history: the tasks that failed before, the event of their start being rejected
    approved,  \* history: names of the gates the operators approved
    overlapped \* history: a gate was approved again before the first approval resumed the run

history == <<started, unannounced, approved, overlapped>>
vars == <<recordVars, plan, history>>

Requests == Threads \ {Job}
InFlight(t) == pc[t] \notin {"idle", "done", "cut off"}
Plan(tasks, cursor) == [tasks |-> tasks, cursor |-> cursor]
AtEnd(t) == plan[t].cursor > Len(plan[t].tasks)
Current(t) == plan[t].tasks[plan[t].cursor]
SetPlan(t, tasks, cursor) == plan' = [plan EXCEPT ![t] = Plan(tasks, cursor)]
NextTask(t) == SetPlan(t, plan[t].tasks, plan[t].cursor + 1)

Init ==
    /\ row = StartedRow
    /\ pc = [t \in Threads |-> IF t = Job THEN "dispatching" ELSE "idle"]
    /\ loaded = [t \in Threads |-> StartedRow]
    /\ verdict = [t \in Threads |-> "failed"]
    /\ plan = [t \in Threads |-> Plan(Playbook, 1)]
    /\ started = [task \in Tasks |-> 0]
    /\ unannounced = {}
    /\ approved = {}
    /\ overlapped = FALSE

-----------------------------------------------------------------------------
(* execute(): everything up to the dispatch, whose outcome is left open.   *)

\* Every watched instance failed to dispatch, or an earlier step threw and
\* enqueue() caught it.
DispatchFails ==
    /\ pc[Job] = "dispatching"
    /\ CompleteRun(Job, "failed")
    /\ UNCHANGED <<row, loaded, plan, history>>

\* An earlier step threw and nobody caught it, the caller being another than
\* enqueue(): the row stays as it is.
DispatchThrows ==
    /\ pc[Job] = "dispatching"
    /\ Goto(Job, "cut off")
    /\ UNCHANGED <<row, loaded, verdict, plan, history>>

DispatchSucceeds ==
    /\ pc[Job] = "dispatching"
    /\ Goto(Job, "tasks")
    /\ UNCHANGED <<row, loaded, verdict, plan, history>>

-----------------------------------------------------------------------------
(* executePlan(), one iteration of its loop at a time.                     *)

\* A condition that does not hold skips the task.
SkipTask(t) ==
    /\ pc[t] = "tasks"
    /\ ~AtEnd(t)
    /\ Def[Current(t)].when
    /\ NextTask(t)
    /\ UNCHANGED <<recordVars, history>>

\* A gate: updateRunFields() stores the rest of the plan and the call returns.
FindPaused(t) ==
    /\ pc[t] = "tasks"
    /\ ~AtEnd(t)
    /\ IsGate(Current(t))
    /\ FindRow(t, "pausing")
    /\ UNCHANGED <<row, verdict, plan, history>>

\* The row as it is to be when the run pauses.
PausedRow(t, stored) ==
    [status |-> "awaiting_approval", gateStepId |-> Def[Current(t)].name, pendingPlan |-> stored]

\* A plan is stored with its registers, which are left out: two plans that look
\* the same here may differ in them, and then the plan is written.
PauseAt(t, stored) ==
    \/ UpdateRow(t, PausedRow(t, stored))
    \/ row' = [Updated(t, PausedRow(t, stored)) EXCEPT !.pendingPlan = stored]

\* Mutant: the loop goes on after it has asked for approval.
UpdatePausedAndGoOn(t) ==
    /\ pc[t] = "pausing"
    /\ PauseAt(t, plan[t])
    /\ NextTask(t)
    /\ Goto(t, "tasks")
    /\ UNCHANGED <<loaded, verdict, history>>

\* Mutant: the cursor is moved on before the plan is stored.
UpdatePausedPastGate(t) ==
    /\ pc[t] = "pausing"
    /\ PauseAt(t, Plan(plan[t].tasks, plan[t].cursor + 1))
    /\ Goto(t, "done")
    /\ UNCHANGED <<loaded, verdict, plan, history>>

UpdatePaused(t) ==
    /\ pc[t] = "pausing"
    /\ PauseAt(t, plan[t])
    /\ Goto(t, "done")
    /\ UNCHANGED <<loaded, verdict, plan, history>>

StartTask(t) ==
    /\ pc[t] = "tasks"
    /\ ~AtEnd(t)
    /\ ~IsGate(Current(t))
    /\ Goto(t, "executing")
    /\ started' = [started EXCEPT ![Current(t)] = @ + 1]
    /\ UNCHANGED <<row, loaded, verdict, plan, unannounced, approved, overlapped>>

\* deploy.step.started is inserted inside the try, before the executor is
\* called: when that statement is rejected the task fails without a start.
AnnounceFails(t) ==
    /\ pc[t] = "tasks"
    /\ ~AtEnd(t)
    /\ ~IsGate(Current(t))
    /\ Goto(t, "failing")
    /\ unannounced' = unannounced \cup {Current(t)}
    /\ UNCHANGED <<row, loaded, verdict, plan, started, approved, overlapped>>

TaskSucceeds(t) ==
    /\ pc[t] = "executing"
    /\ NextTask(t)
    /\ Goto(t, "tasks")
    /\ UNCHANGED <<row, loaded, verdict, history>>

\* Mutant: the rescue block replaces the task after the one that failed.
RescuedInstead(tasks, k) ==
    SubSeq(tasks, 1, k) \o Def[tasks[k]].rescue \o SubSeq(tasks, k + 2, Len(tasks))

\* The rescue block goes in right after the task that failed.
Rescued(tasks, k) ==
    SubSeq(tasks, 1, k) \o Def[tasks[k]].rescue \o SubSeq(tasks, k + 1, Len(tasks))

\* Mutant: a failure ends the loop without completing the run.
TaskFailsSilently(t) ==
    /\ pc[t] \in {"executing", "failing"}
    /\ \/ /\ Def[Current(t)].rescue # <<>>
          /\ SetPlan(t, Rescued(plan[t].tasks, plan[t].cursor), plan[t].cursor + 1)
          /\ Goto(t, "tasks")
       \/ /\ Def[Current(t)].rescue = <<>>
          /\ Def[Current(t)].ignoreErrors
          /\ NextTask(t)
          /\ Goto(t, "tasks")
       \/ /\ Def[Current(t)].rescue = <<>>
          /\ ~Def[Current(t)].ignoreErrors
          /\ Goto(t, "done")
          /\ UNCHANGED plan
    /\ UNCHANGED <<row, loaded, verdict, history>>

\* A failure is rescued, ignored, or ends the run.
TaskFails(t) ==
    /\ pc[t] \in {"executing", "failing"}
    /\ \/ /\ Def[Current(t)].rescue # <<>>
          /\ SetPlan(t, Rescued(plan[t].tasks, plan[t].cursor), plan[t].cursor + 1)
          /\ Goto(t, "tasks")
          /\ UNCHANGED verdict
       \/ /\ Def[Current(t)].rescue = <<>>
          /\ Def[Current(t)].ignoreErrors
          /\ NextTask(t)
          /\ Goto(t, "tasks")
          /\ UNCHANGED verdict
       \/ /\ Def[Current(t)].rescue = <<>>
          /\ ~Def[Current(t)].ignoreErrors
          /\ CompleteRun(t, "failed")
          /\ UNCHANGED plan
    /\ UNCHANGED <<row, loaded, history>>

FinishPlan(t) ==
    /\ pc[t] = "tasks"
    /\ AtEnd(t)
    /\ CompleteRun(t, "succeeded")
    /\ UNCHANGED <<row, loaded, plan, history>>

ExecutePlan(t) ==
    \/ SkipTask(t) \/ FindPaused(t) \/ UpdatePaused(t) \/ StartTask(t)
    \/ AnnounceFails(t) \/ TaskSucceeds(t) \/ TaskFails(t) \/ FinishPlan(t)

-----------------------------------------------------------------------------
(* The requests.  A request that is refused with 409 changes nothing.      *)

\* Mutant: one task too many.
AdvanceTooFar(pending, gate) == Plan(pending.tasks, pending.cursor + 2)

\* advancePastApprovedGate(): the first gate of that name, wherever the cursor is.
AdvancePastApprovedGate(pending, gate) ==
    LET named == {k \in DOMAIN pending.tasks :
                     IsGate(pending.tasks[k]) /\ Def[pending.tasks[k]].name = gate}
    IN  IF named # {}
          THEN Plan(pending.tasks, (CHOOSE k \in named : \A n \in named : k <= n) + 1)
        ELSE IF IsGate(pending.tasks[pending.cursor])
          THEN Plan(pending.tasks, pending.cursor + 1)
        ELSE pending

\* continueRun(): the row is checked once, before the update that claims it.
Approve(t) ==
    /\ pc[t] = "idle"
    /\ row.status = "awaiting_approval"
    /\ row.pendingPlan # NoPlan
    /\ plan' = [plan EXCEPT ![t] = AdvancePastApprovedGate(row.pendingPlan, row.gateStepId)]
    /\ approved' = approved \cup {row.gateStepId}
    /\ overlapped' = (overlapped \/ \E u \in Threads : pc[u] \in {"approved", "resuming"})
    /\ Goto(t, "approved")
    /\ UNCHANGED <<row, loaded, verdict, started, unannounced>>

FindResumed(t) ==
    /\ pc[t] = "approved"
    /\ FindRow(t, "resuming")
    /\ UNCHANGED <<row, verdict, plan, history>>

UpdateResumed(t) ==
    /\ pc[t] = "resuming"
    /\ UpdateRow(t, StartedRow)
    /\ Goto(t, "tasks")
    /\ UNCHANGED <<loaded, verdict, plan, history>>

ContinueRun(t) == FindResumed(t) \/ UpdateResumed(t)

\* The replica goes down: the row is all that is left of its threads.
Crash(r) ==
    /\ \E t \in Threads : Host[t] = r /\ InFlight(t)
    /\ pc' = [t \in Threads |-> IF Host[t] = r /\ InFlight(t) THEN "cut off" ELSE pc[t]]
    /\ UNCHANGED <<row, loaded, verdict, plan, history>>

Step(t) ==
    \/ ExecutePlan(t) \/ ContinueRun(t)
    \/ (Complete(t) \/ Abort(t)) /\ UNCHANGED <<plan, history>>

Dispatch == DispatchFails \/ DispatchThrows \/ DispatchSucceeds

Request(t) ==
    \/ Approve(t)
    \/ AbortRun(t) /\ UNCHANGED <<plan, history>>

Next ==
    \/ Dispatch
    \/ \E t \in Threads : Step(t)
    \/ \E t \in Requests : Request(t)
    \/ \E r \in Replicas : Crash(r)

Spec == Init /\ [][Next]_vars

\* A command returns: the executor answers or gives up.  Threads of a replica
\* that stays up go on.
Progress == WF_vars(Dispatch) /\ \A t \in Threads : WF_vars(Step(t))

FairSpec == Spec /\ Progress

-----------------------------------------------------------------------------
(* Properties. *)

Plans == [tasks : Seq(Tasks), cursor : Nat \ {0}]
Rows == [status : Statuses, gateStepId : STRING \cup {NoGate}, pendingPlan : Plans \cup {NoPlan}]
Steps == {"idle", "dispatching", "tasks", "executing", "failing", "pausing", "approved",
          "resuming", "completing", "completed", "aborting", "aborted", "done", "cut off"}

\* The values that the variables range over.
TypeOK ==
    /\ row \in Rows
    /\ pc \in [Threads -> Steps]
    /\ loaded \in [Threads -> Rows]
    /\ verdict \in [Threads -> {"succeeded", "failed"}]
    /\ plan \in [Threads -> Plans]
    /\ started \in [Tasks -> Nat]
    /\ unannounced \subseteq Tasks
    /\ approved \subseteq STRING \cup {NoGate}
    /\ overlapped \in BOOLEAN

\* Whatever goes down and whoever aborts: no task is handed to the executor
\* before every unconditional gate in front of it was approved.  That takes
\* operators of whom no two approve the same pause: the row of a run which is
\* executed twice pairs the gate of one execution with the plan of the other.
GatesHold ==
    ~overlapped =>
        \A k, n \in DOMAIN Playbook :
            LET gate == Playbook[k]
            IN  (k < n /\ IsGate(gate) /\ ~Def[gate].when /\ started[Playbook[n]] > 0)
                    => Def[gate].name \in approved

\* The run goes on when the task fails.
Tolerated(task) == Def[task].rescue # <<>> \/ Def[task].ignoreErrors

\* A run is never reported as succeeded while an unconditional task was not
\* even started, although rescue blocks shift the plan and gates store it.  It
\* takes a rejected event insert and a task whose failure is rescued or
\* ignored to succeed without it.
SuccessMeansStarted ==
    row.status = "succeeded" =>
        \A k \in DOMAIN Playbook :
            LET task == Playbook[k]
            IN  ~IsGate(task) /\ ~Def[task].when =>
                    started[task] > 0 \/ (task \in unannounced /\ Tolerated(task))

\* A gated run can be continued: the row says at which gate it stands, and its
\* plan stands there, although each update writes only what it found changed
\* and aborts race with it.
GatesAreResumable ==
    ~overlapped /\ row.status = "awaiting_approval" =>
        /\ row.pendingPlan # NoPlan
        /\ row.pendingPlan.cursor \in DOMAIN row.pendingPlan.tasks
        /\ LET gate == row.pendingPlan.tasks[row.pendingPlan.cursor]
           IN  IsGate(gate) /\ Def[gate].name = row.gateStepId

\* A run only stays "running" for ever when a thread that worked on it was cut
\* off, by a crash of its replica or an error that nobody caught: nothing
\* takes such a run up again.
RunSettles ==
    row.status = "running" ~> row.status # "running" \/ \E t \in Threads : pc[t] = "cut off"
=============================================================================
