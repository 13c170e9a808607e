---------------------------- MODULE MCPlaybookRun ----------------------------
(* A playbook with three gates, a rescue block, a condition and an ignored *)
(* failure.                                                                *)
EXTENDS SerialPlaybookRun, TLC

CONSTANTS cp1, cp2, Last

Command(name) == [name |-> name, module |-> "command", when |-> FALSE,
                  rescue |-> <<>>, ignoreErrors |-> FALSE]
Confirm(name) == [Command(name) EXCEPT !.module = "confirm"]

GatedPlaybook == <<1, 2, 3, 4, 5, 6>>
GatedDef ==
    <<Confirm("start"), [Command("migrate") EXCEPT !.rescue = <<7>>], Confirm("release"),
      [Command("notify") EXCEPT !.ignoreErrors = TRUE], Confirm("finish"),
      [Command("cleanup") EXCEPT !.when = TRUE], Command("revert")>>

JobOnFirst == [t \in Threads |-> IF t = Job THEN cp1 ELSE cp2]

\* The last request only serves operators who wait: one for each gate and one
\* to spare.
FewerRaces == pc'[Last] = "idle"

FewerNext == Wait \/ (Race /\ FewerRaces)

FewerSpec == InitOfBoth /\ [][FewerNext]_<<vars, waiting>> /\ Progress
=============================================================================
