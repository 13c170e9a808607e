------------------------------ MODULE MCCronRuns ------------------------------
(* By two replicas, three ticks in two minutes for one job, or two ticks in   *)
(* one minute for two jobs.                                                  *)
EXTENDS CronRuns, TLC

\* Jobs that share a name are followed when both are due.
FewerInit == Init /\ ((\E j \in Jobs : named[j] # {j}) => due = Jobs)
FewerSpec == FewerInit /\ [][Next]_vars

\* Two jobs at a time are followed within one minute: what one job leaves to the
\* next minute does not depend on the other.
OneMinute == Cardinality(due) > 1 => clock = 1

Symmetry == Permutations(Replicas) \cup Permutations(Jobs)
=============================================================================
