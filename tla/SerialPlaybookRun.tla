-------------------------- MODULE SerialPlaybookRun --------------------------
(***************************************************************************)
(* PlaybookRun with operators that wait or race.  Those who wait make a    *)
(* request only while nothing else works on the run; then, while enqueue() *)
(* catches what the job throws, no replica goes down and gate names are    *)
(* distinct, the run keeps the promise of GatedPlan.  The code enforces    *)
(* none of this: the behaviours that race are those without it.            *)
(***************************************************************************)
EXTENDS PlaybookRun

VARIABLE waiting  \* whether the operators of this behaviour wait

SerialNext ==
    \/ DispatchFails \/ DispatchSucceeds
    \/ \E t \in Threads : Step(t)
    \/ \E t \in Requests : Request(t) /\ \A u \in Threads : ~InFlight(u)

Wait == waiting /\ SerialNext /\ UNCHANGED waiting
Race == ~waiting /\ Next /\ UNCHANGED waiting

InitOfBoth == waiting \in BOOLEAN /\ Init
NextOfBoth == Wait \/ Race
SpecOfBoth == InitOfBoth /\ [][NextOfBoth]_<<vars, waiting>>

\* The thread at work, when there is one.
Working == {t \in Threads : InFlight(t)}
Worker == CHOOSE t \in Working : TRUE

PhaseOf(step) ==
    CASE step \in {"tasks", "pausing", "approved", "resuming"} -> "ready"
      [] step \in {"completing", "completed"} -> verdict[Worker]
      [] step \in {"aborting", "aborted"} -> "failed"
      [] step = "failing" -> "executing"
      [] OTHER -> step

phase ==
    IF ~waiting THEN "dispatching"  \* nothing is promised
    ELSE IF Working # {} THEN PhaseOf(pc[Worker])
    ELSE IF row.status = "awaiting_approval" THEN "paused"
    ELSE row.status

Remaining(p) == SubSeq(p.tasks, p.cursor, Len(p.tasks))

todo ==
    IF ~waiting THEN Playbook
    ELSE IF phase \in {"succeeded", "failed"} THEN <<>>
    ELSE IF Working # {} THEN Remaining(plan[Worker])
    ELSE Remaining(row.pendingPlan)

Promise == INSTANCE GatedPlan WITH todo <- todo, phase <- phase

\* With one request at a time, the run is a sequential execution of its
\* playbook: no task twice, none after a failure or an abort, none out of order.
KeepsPromise == Promise!Spec
=============================================================================
