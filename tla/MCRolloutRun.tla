----------------------------- MODULE MCRolloutRun -----------------------------
(* Two overlapping polls and one abort request, which another replica      *)
(* serves, over two instances for the safety properties and one for        *)
(* liveness.                                                               *)
EXTENDS RolloutRun, TLC

CONSTANTS cp1, cp2

AbortsElsewhere == [t \in Threads |-> IF t \in Aborts THEN cp2 ELSE cp1]

\* Instances are alike, and so are polls.
Alike == Permutations(Watched) \cup Permutations(Polls)

\* A run that no thread will touch again, settled or with a thread cut off, is
\* not followed further, whatever its instances do then.
Unsettled ==
    \/ row.status = "running" /\ \A t \in Threads : pc[t] # "cut off"
    \/ \E t \in Threads : InFlight(t)
=============================================================================
