------------------------------ MODULE GatedPlan ------------------------------
(***************************************************************************)
(* What a playbook run promises: the tasks run one at a time, in order and *)
(* at most once; a rescue block runs right after the task it rescues; a    *)
(* gate waits for an operator; a run that ended stays as it ended.         *)
(***************************************************************************)
EXTENDS Sequences

CONSTANTS Tasks, Playbook, Def  \* as in PlaybookRun

VARIABLES
    todo,  \* the tasks still to run
    phase

vars == <<todo, phase>>

Phases == {"dispatching", "ready", "executing", "paused", "succeeded", "failed"}
IsGate(task) == Def[task].module = "confirm"

TypeOK == todo \in Seq(Tasks) /\ phase \in Phases

Init == todo = Playbook /\ phase = "dispatching"

End(outcome) == phase' = outcome /\ todo' = <<>>

Dispatch ==
    /\ phase = "dispatching"
    /\ \/ phase' = "ready" /\ UNCHANGED todo
       \/ End("failed")

Skip ==
    /\ phase = "ready" /\ todo # <<>>
    /\ Def[Head(todo)].when
    /\ todo' = Tail(todo)
    /\ UNCHANGED phase

Pause ==
    /\ phase = "ready" /\ todo # <<>>
    /\ IsGate(Head(todo))
    /\ phase' = "paused"
    /\ UNCHANGED todo

Approve ==
    /\ phase = "paused"
    /\ phase' = "ready"
    /\ todo' = Tail(todo)

Abort == phase = "paused" /\ End("failed")

Start ==
    /\ phase = "ready" /\ todo # <<>>
    /\ ~IsGate(Head(todo))
    /\ phase' = "executing"
    /\ UNCHANGED todo

Succeed ==
    /\ phase = "executing"
    /\ phase' = "ready"
    /\ todo' = Tail(todo)

Fail ==
    LET task == Head(todo)
    IN  /\ phase = "executing"
        /\ \/ /\ Def[task].rescue # <<>> \/ Def[task].ignoreErrors
              /\ phase' = "ready"
              /\ todo' = Def[task].rescue \o Tail(todo)
           \/ /\ Def[task].rescue = <<>> /\ ~Def[task].ignoreErrors
              /\ End("failed")

Finish == phase = "ready" /\ todo = <<>> /\ End("succeeded")

Next ==
    \/ Dispatch \/ Skip \/ Pause \/ Approve \/ Abort
    \/ Start \/ Succeed \/ Fail \/ Finish

Spec == Init /\ [][Next]_vars
=============================================================================
