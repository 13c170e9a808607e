------------------------------ MODULE RolloutRun ------------------------------
(***************************************************************************)
(* An apply run without playbook tasks: once its plans are dispatched      *)
(* (ApplyService.execute, applyDispatchResults), RolloutWatcher polls the  *)
(* instances on a timer until it can complete the run.  Polls are not      *)
(* awaited, so two may be in flight; the timer lives in the memory of the  *)
(* replica that applied the manifest and is gone when that goes down;      *)
(* agents, the reconciler and other requests change and delete instance    *)
(* rows meanwhile, and operators may abort the run.  Of an instance row    *)
(* the watch tells three conditions apart: failed (by its status), ready   *)
(* (not failed, and running or healthy: isInstanceRolloutReady()) and      *)
(* pending (any other).                                                    *)
(***************************************************************************)
EXTENDS PipelineRun, FiniteSets

CONSTANTS
    Watched,  \* ids of the instances created or redeployed by the apply
    Job,      \* the thread that applies the manifest
    Polls,    \* polls that may be in flight together
    Aborts,   \* abort requests
    Replicas,
    Host      \* Host[t]: the replica that runs thread t

ASSUME ThreadsAssumption ==
    /\ Threads = {Job} \cup Polls \cup Aborts
    /\ Job \notin Polls \cup Aborts
    /\ Polls \cap Aborts = {}
    /\ Polls # {}
    /\ IsFiniteSet(Watched)
    /\ Host \in [Threads -> Replicas]
    /\ \A t \in Polls : Host[t] = Host[Job]

VARIABLES
    condition,  \* condition[i] of instance i; "gone" when its row was deleted
    unmarked,   \* instances whose dispatch result is still to be recorded
    dispatched, \* instances whose node accepted its plan
    armed,      \* the interval timer of the watch runs
    expired,    \* timeoutMs has passed since the watch started
    marking,    \* the row applyDispatchResults() read and is about to update
    caught,     \* enqueue() caught what the job threw
    outcome,    \* outcome[t]: what the instances poll t listed amount to
    touched,    \* history: instances written by others since their dispatch result
    allReady    \* history: at some instant all instances left were ready

watchVars == <<unmarked, marking, dispatched, armed, expired, outcome, caught>>
history == <<touched, allReady>>
vars == <<recordVars, condition, watchVars, history>>

Conditions == {"pending", "ready", "failed", "gone"}
Outcomes == {"failed", "succeeded", "open"}
NoMark == [instance |-> {}, found |-> "gone"]

\* What listInstances() returns of the watched ones.
Listed == {i \in Watched : condition[i] # "gone"}
AnyFailed == \E i \in Listed : condition[i] = "failed"
AllReady == Listed # {} /\ \A i \in Listed : condition[i] = "ready"

\* Mutant: one ready instance is enough.
OutcomeOfAny ==
    IF AnyFailed THEN "failed"
    ELSE IF \E i \in Listed : condition[i] = "ready" THEN "succeeded" ELSE "open"

\* poll(): failed comes first.
Outcome ==
    IF AnyFailed THEN "failed" ELSE IF AllReady THEN "succeeded" ELSE "open"

Init ==
    /\ row = StartedRow
    /\ pc = [t \in Threads |-> IF t = Job THEN "dispatching" ELSE "idle"]
    /\ loaded = [t \in Threads |-> StartedRow]
    /\ verdict = [t \in Threads |-> "failed"]
    /\ condition \in [Watched -> {"pending", "ready", "failed"}]
    /\ unmarked = Watched
    /\ dispatched = {}
    /\ armed = FALSE
    /\ expired = FALSE
    /\ marking = NoMark
    /\ caught = FALSE
    /\ outcome = [t \in Polls |-> "open"]
    /\ touched = {}
    /\ allReady = AllReady

\* What every step records about the instances it leaves behind.
Observe == allReady' = (allReady \/ AllReady')

-----------------------------------------------------------------------------
(* The job: execute() from the dispatch on. *)

DispatchPlans ==
    /\ pc[Job] = "dispatching"
    /\ dispatched' \in SUBSET Watched
    /\ Goto(Job, "marking")
    /\ UNCHANGED <<row, loaded, verdict, condition, unmarked, marking, armed,
                   expired, outcome, caught, history>>

\* A step of the job throws: before or after the dispatch, in its own
\* completeRun(), or in the last emitEvent(), when the watch has begun already
\* and goes on.  enqueue() catches that and completes the run; the other
\* callers of execute() do not, and nobody catches what the catch throws.
Throw ==
    /\ pc[Job] \in {"dispatching", "marking", "completing", "completed", "finishing"}
    /\ \/ /\ ~caught
          /\ caught' = TRUE
          /\ CompleteRun(Job, "failed")
       \/ /\ Goto(Job, IF pc[Job] = "finishing" THEN "done" ELSE "cut off")
          /\ UNCHANGED <<verdict, caught>>
    /\ UNCHANGED <<row, loaded, condition, unmarked, marking, dispatched, armed,
                   expired, outcome, history>>

\* applyDispatchResults(), one updateInstance() after the other: findByPk,
FindInstance(i) ==
    /\ pc[Job] = "marking"
    /\ marking = NoMark
    /\ i \in unmarked
    /\ marking' = [instance |-> {i}, found |-> condition[i]]
    /\ touched' = touched \ {i}
    /\ UNCHANGED <<recordVars, condition, unmarked, dispatched, armed, expired, outcome,
                   caught, allReady>>

\* Mutant: a failed dispatch is not recorded.
UpdateInstanceUnrecorded(i) ==
    /\ pc[Job] = "marking"
    /\ marking.instance = {i}
    /\ marking' = NoMark
    /\ unmarked' = unmarked \ {i}
    /\ UNCHANGED <<recordVars, condition, dispatched, armed, expired, outcome, caught, history>>

\* and row.update().  The status is written unless the row was found failed
\* already; a row that is gone by now is not written.
UpdateInstance(i) ==
    /\ pc[Job] = "marking"
    /\ marking.instance = {i}
    /\ marking' = NoMark
    /\ unmarked' = unmarked \ {i}
    /\ condition' = [condition EXCEPT ![i] =
                     IF i \in dispatched \/ marking.found \in {"failed", "gone"} \/ @ = "gone"
                       THEN @ ELSE "failed"]
    /\ UNCHANGED <<recordVars, dispatched, armed, expired, outcome, caught, touched>>
    /\ Observe

\* All failed: the run fails.  Otherwise watch() starts the timer; with nothing
\* to watch, it has the run succeed and does not wait for that.
Watch ==
    /\ pc[Job] = "marking"
    /\ unmarked = {}
    /\ \/ /\ Watched # {} /\ dispatched = {}
          /\ CompleteRun(Job, "failed")
          /\ UNCHANGED armed
       \/ /\ Watched = {}
          /\ \E t \in Polls :
                /\ verdict' = [verdict EXCEPT ![t] = "succeeded"]
                /\ pc' = [pc EXCEPT ![t] = "completing", ![Job] = "finishing"]
          /\ UNCHANGED armed
       \/ /\ dispatched # {}
          /\ armed' = TRUE
          /\ Goto(Job, "finishing")
          /\ UNCHANGED verdict
    /\ UNCHANGED <<row, loaded, condition, unmarked, marking, dispatched,
                   expired, outcome, caught, history>>

\* The last event is inserted.
Finish ==
    /\ pc[Job] = "finishing"
    /\ Goto(Job, "done")
    /\ UNCHANGED <<row, loaded, verdict, condition, watchVars, history>>

-----------------------------------------------------------------------------
(* poll(). *)

Fire(t) ==
    /\ armed
    /\ pc[t] = "idle"
    /\ Goto(t, "listing")
    /\ UNCHANGED <<row, loaded, verdict, condition, watchVars, history>>

ListInstances(t) ==
    /\ pc[t] = "listing"
    /\ outcome' = [outcome EXCEPT ![t] = Outcome]
    /\ Goto(t, "deciding")
    /\ UNCHANGED <<row, loaded, verdict, condition, unmarked, marking,
                   dispatched, armed, expired, caught, history>>

\* The timer is cleared before the run is completed.
Settle(t, final) == armed' = FALSE /\ CompleteRun(t, final)

\* Mutant: when the time is up, the timer is cleared and no verdict given.
DecideSilently(t) ==
    /\ pc[t] = "deciding"
    /\ \/ outcome[t] # "open" /\ Settle(t, outcome[t])
       \/ /\ outcome[t] = "open"
          /\ armed' = (armed /\ ~expired)
          /\ Goto(t, "idle")
          /\ UNCHANGED verdict
    /\ outcome' = [outcome EXCEPT ![t] = "open"]
    /\ UNCHANGED <<row, loaded, condition, unmarked, marking, dispatched,
                   expired, caught, history>>

Decide(t) ==
    /\ pc[t] = "deciding"
    /\ \/ outcome[t] # "open" /\ Settle(t, outcome[t])
       \/ outcome[t] = "open" /\ expired /\ Settle(t, "failed")
       \/ outcome[t] = "open" /\ ~expired /\ Goto(t, "idle") /\ UNCHANGED <<armed, verdict>>
    /\ outcome' = [outcome EXCEPT ![t] = "open"]
    /\ UNCHANGED <<row, loaded, condition, unmarked, marking, dispatched,
                   expired, caught, history>>

\* A statement is rejected: the poll ends, what it did stays done.
PollRejected(t) ==
    /\ pc[t] \in {"listing", "completing", "completed"}
    /\ Goto(t, IF pc[t] = "listing" THEN "idle" ELSE "cut off")
    /\ UNCHANGED <<row, loaded, verdict, condition, watchVars, history>>

Expire ==
    /\ armed /\ ~expired
    /\ expired' = TRUE
    /\ UNCHANGED <<recordVars, condition, unmarked, marking, dispatched, armed, outcome,
                   caught, history>>

-----------------------------------------------------------------------------
(* The others. *)

\* An agent's report, a redispatch by the reconciler or a lifecycle request.
Report(i) ==
    /\ condition[i] # "gone"
    /\ \E now \in Conditions \ {"gone"} : condition' = [condition EXCEPT ![i] = now]
    /\ touched' = touched \cup {i}
    /\ UNCHANGED <<recordVars, watchVars>>
    /\ Observe

\* Another apply retires the instance, or an operator removes it: the row is
\* gone, which is all that the watch sees.
DeleteInstance(i) ==
    /\ condition[i] # "gone"
    /\ condition' = [condition EXCEPT ![i] = "gone"]
    /\ UNCHANGED <<recordVars, watchVars, touched>>
    /\ Observe

\* The statement of an abort is rejected: the operator is told.
AbortRejected(t) ==
    /\ pc[t] \in {"aborting", "aborted"}
    /\ Return(t)
    /\ UNCHANGED <<row, condition, watchVars, history>>

\* A replica goes down.  With the one that applied the manifest goes the timer,
\* which makes the job one that was cut off, whether it had returned or not.
InFlight(t) == pc[t] \notin {"idle", "done", "cut off"} \/ (t = Job /\ armed)

Crash(r) ==
    /\ \E t \in Threads : Host[t] = r /\ InFlight(t)
    /\ pc' = [t \in Threads |-> IF Host[t] = r /\ InFlight(t) THEN "cut off" ELSE pc[t]]
    /\ armed' = (armed /\ Host[Job] # r)
    /\ UNCHANGED <<row, loaded, verdict, condition, unmarked, marking, dispatched, expired,
                   outcome, caught, history>>

ExecuteStep ==
    DispatchPlans \/ Watch \/ Finish \/ \E i \in Watched : FindInstance(i) \/ UpdateInstance(i)

PollStep(t) == ListInstances(t) \/ Decide(t)

CompleteStep(t) ==
    (Complete(t) \/ Abort(t)) /\ UNCHANGED <<condition, watchVars, history>>

Environment ==
    \/ Expire
    \/ \E i \in Watched : Report(i) \/ DeleteInstance(i)
    \/ \E t \in Aborts :
          AbortRejected(t) \/ (AbortRun(t) /\ UNCHANGED <<condition, watchVars, history>>)
    \/ \E r \in Replicas : Crash(r)

Next ==
    \/ ExecuteStep \/ Throw
    \/ \E t \in Polls : Fire(t) \/ PollStep(t) \/ PollRejected(t)
    \/ \E t \in Threads : CompleteStep(t)
    \/ Environment

Spec == Init /\ [][Next]_vars

\* Statements are answered, the timer fires, the time-out passes; the database
\* does not reject the listing of every poll from some time on.
Progress ==
    /\ WF_vars(ExecuteStep)
    /\ WF_vars(Expire)
    /\ \A t \in Polls : WF_vars(Fire(t)) /\ SF_vars(ListInstances(t)) /\ WF_vars(Decide(t))
    /\ \A t \in Threads : WF_vars(CompleteStep(t))

FairSpec == Spec /\ Progress

-----------------------------------------------------------------------------
(* Properties. *)

\* The values that the variables range over.
TypeOK ==
    /\ row.status \in Statuses
    /\ pc \in [Threads -> {"idle", "dispatching", "marking", "listing", "deciding",
                           "finishing", "completing", "completed", "aborting", "aborted",
                           "done", "cut off"}]
    /\ verdict \in [Threads -> {"succeeded", "failed"}]
    /\ condition \in [Watched -> Conditions]
    /\ unmarked \subseteq Watched
    /\ dispatched \subseteq Watched
    /\ marking \in [instance : SUBSET Watched, found : Conditions]
    /\ outcome \in [Polls -> Outcomes]
    /\ touched \subseteq Watched
    /\ {armed, expired, caught, allReady} \subseteq BOOLEAN

\* However polls overlap and statuses change under them: a run only succeeds
\* if at one instant no instance left was failed and all of them were ready.
SuccessMeansReadyTogether ==
    row.status = "succeeded" => Watched = {} \/ allReady

\* A run only succeeds over an instance whose node did not take its plan if
\* somebody wrote or deleted that instance since its failure was recorded.
\* What a row said before (it may be pending and healthy since the last
\* deployment) must not count.
FailedDispatchBlocksSuccess ==
    row.status = "succeeded" => Listed \ dispatched \subseteq touched

\* The time-out bounds the watch: a run only stays "running" for ever when the
\* job threw with nobody to catch it, when the statement that would have
\* completed the run was rejected, the timer being cleared already, or when the
\* replica went down and took the job, a verdict or the timer with it.  What
\* becomes of an abort is no reason.
RolloutSettles ==
    row.status = "running" ~>
        row.status # "running" \/ \E t \in {Job} \cup Polls : pc[t] = "cut off"
=============================================================================
