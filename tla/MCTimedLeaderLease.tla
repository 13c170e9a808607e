-------------------------- MODULE MCTimedLeaderLease --------------------------
(* Times in units of renewIntervalMs = 5 s: leaseTtlMs = 15 s is 3.  A     *)
(* renewal takes at most one unit and none in a row may fail: Gap = 1 + 1. *)
EXTENDS TimedLeaderLease

NoSkew == [i \in Instances |-> 0]

\* Requests, which no renewal reads, are followed while they run in the first
\* unit of time; states with a later one are not explored further.
EarlyRequests == \A i \in Instances : guarded[i] => clock = 0
=============================================================================
