--------------------------- MODULE TimedLeaderLease ---------------------------
(***************************************************************************)
(* LeaderLease when replicas and the database keep to a schedule: a        *)
(* statement is answered within Latency, and every running replica         *)
(* completes a renewal that it began less than Gap ago.  With one renewal  *)
(* every renewIntervalMs and up to f rejected renewals in a row,           *)
(* Gap = (f + 1) * renewIntervalMs + Latency.  The schedule restricts only *)
(* the passage of time; what a replica does in between is LeaderLease.     *)
(***************************************************************************)
EXTENDS LeaderLease

CONSTANTS
    Latency,  \* longest time from the start of a renewal to its last reply
    Gap,      \* longest time without a completed renewal
    Spread,   \* largest difference between two replicas' clocks
    Mortal    \* replicas that may stop, crash and restart

ASSUME ScheduleAssumption ==
    /\ Latency \in Nat
    /\ Gap \in Nat
    /\ Spread \in Nat
    /\ Mortal \subseteq Instances
    /\ \A i, j \in Instances : Skew[i] - Skew[j] <= Spread
\* A renewal ends before the next tick of the timer, so calls do not overlap.
ASSUME NoOverlapAssumption == \A c, d \in Slots : c = d

VARIABLES
    begun,        \* begun[i]: when the renewal in flight began
    renewedFrom,  \* renewedFrom[i]: when i's last completed renewal began
    lastChange,   \* when the row last changed holder
    interrupted,  \* the holder was not running all the time since it was granted the row
    lastServed    \* last time a running replica held an unexpired row

timing == <<begun, renewedFrom, lastChange, interrupted, lastServed>>
timedVars == <<vars, timing>>

InFlight(i) == \E c \in Slots : pc[i][c] # "idle"

Served ==
    /\ leaseHolder # NoInstance
    /\ process[leaseHolder] # "down"
    /\ ~Lapsed(Now(leaseHolder))

TimedTypeOK ==
    /\ begun \in [Instances -> Nat]
    /\ renewedFrom \in [Instances -> Nat]
    /\ lastChange \in Nat
    /\ interrupted \in BOOLEAN
    /\ lastServed \in Nat

TimedInit ==
    /\ Init
    /\ begun = [i \in Instances |-> 0]
    /\ renewedFrom = [i \in Instances |-> 0]
    /\ lastChange = 0
    /\ interrupted = FALSE
    /\ lastServed = 0

\* What every step records about the row.
Record ==
    /\ lastChange' = IF leaseHolder' = leaseHolder THEN lastChange ELSE clock
    /\ lastServed' = IF Served' THEN clock' ELSE lastServed

TimedBegin(i, c) ==
    /\ Begin(i, c)
    /\ begun' = [begun EXCEPT ![i] = clock]
    /\ Record
    /\ UNCHANGED <<renewedFrom, interrupted>>

\* A renewal is completed by the reply to its write or to its second read; one
\* whose insert was rejected and that reads no row afterwards has failed.
Completes(i, c) ==
    \/ Granted(i, c)
    \/ Observe(i, c) /\ seen[i][c] # NoInstance

TimedRenewal(i, c) ==
    /\ Renewal(i, c)
    /\ renewedFrom' = IF Completes(i, c)
                        THEN [renewedFrom EXCEPT ![i] = begun[i]]
                        ELSE renewedFrom
    /\ interrupted' = IF leaseHolder' = leaseHolder THEN interrupted
                                                   ELSE process[i] # "up"
    /\ Record
    /\ UNCHANGED begun

TimedReject(i, c) ==
    /\ Reject(i, c)
    /\ Record
    /\ UNCHANGED <<begun, renewedFrom, interrupted>>

TimedStop(i) ==
    /\ i \in Mortal
    /\ Stop(i) \/ Exit(i)
    /\ interrupted' = (interrupted \/ leaseHolder = i)
    /\ Record
    /\ UNCHANGED <<begun, renewedFrom>>

\* start() renews at once: the schedule runs from the boot.
TimedRestart(i) ==
    /\ Restart(i)
    /\ renewedFrom' = [renewedFrom EXCEPT ![i] = clock]
    /\ Record
    /\ UNCHANGED <<begun, interrupted>>

TimedRequest(i) ==
    /\ Admit(i) \/ Respond(i)
    /\ Record
    /\ UNCHANGED <<begun, renewedFrom, interrupted>>

TimedTick ==
    /\ \A i \in Instances :
          /\ process[i] = "up" => clock - renewedFrom[i] < Gap
          /\ InFlight(i) => clock - begun[i] < Latency
    /\ Tick
    /\ Record
    /\ UNCHANGED <<begun, renewedFrom, interrupted>>

TimedNext ==
    \/ TimedTick
    \/ \E i \in Instances :
          \/ TimedStop(i) \/ TimedRestart(i) \/ TimedRequest(i)
          \/ \E c \in Slots : TimedBegin(i, c) \/ TimedRenewal(i, c) \/ TimedReject(i, c)

TimedSpec == TimedInit /\ [][TimedNext]_timedVars

-----------------------------------------------------------------------------
(* Properties. *)

\* A replica that lost the row goes on believing it leads (isLeader() reads a
\* cached flag), but for at most Gap: its next completed renewal clears the
\* flag.  Longer than that, two running replicas never both act as leader.
StaleLeaderBounded ==
    \A i \in Instances :
        (process[i] = "up" /\ isCurrentLeader[i] /\ leaseHolder # i)
            => clock - lastChange <= Gap

\* When Gap + Spread < TTL, a leader that keeps to the schedule is never
\* deposed: the row only changes hands when its holder stopped or crashed, or
\* within Latency of a change, while a renewal that had read the expired row
\* is still in flight (its update has no condition on what the row holds now).
PunctualLeaderKept ==
    [][leaseHolder' # leaseHolder =>
          \/ leaseHolder = NoInstance
          \/ interrupted
          \/ clock - lastChange <= Latency]_timedVars

\* docs/operations/failover.md, "let the lease expire (within one TTL window)
\* [...] a surviving replica acquires the lease on the next renewal tick":
\* with a replica that stays up, the cluster is never without a running
\* holder of an unexpired row for longer than TTL plus one renewal.
FailoverBounded ==
    clock - lastServed < TTL + Gap + Spread
=============================================================================
