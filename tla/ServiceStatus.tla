---------------------------- MODULE ServiceStatus ----------------------------
(***************************************************************************)
(* The aggregate status of one service.  Whoever writes an instance (the   *)
(* status route, the reconciler, the lifecycle routes) calls               *)
(* syncFromInstances() afterwards: the service is read, then the           *)
(* instances, a status is derived and written if it differs from the one   *)
(* read.  Applies write instances and the service without that, and the    *)
(* reconciler's poll runs syncAll() on the leader.  Several syncs may be   *)
(* between their reads and their write.                                    *)
(***************************************************************************)
EXTENDS Naturals, FiniteSets

CONSTANTS
    Instances,  \* instance ids the service may have
    Syncs,      \* calls of syncFromInstances() in progress
    Poll,       \* the call of syncAll()
    MaxChanges  \* bound on the writes of instances and applies

ASSUME ServiceStatusAssumption ==
    /\ IsFiniteSet(Instances)
    /\ Poll \notin Syncs
    /\ MaxChanges \in Nat

VARIABLES
    instance, \* instance[i]: what deriveServiceStatus() tells apart, or "gone"
    desired,  \* desiredReplicas
    service,  \* status of the service
    step,       \* step[t]: where sync t is
    seen,     \* seen[t]: the service as sync t has read it
    next,     \* next[t]: the status derived
    changes   \* number of writes so far

serviceVars == <<instance, desired, service, step, seen, next, changes>>

Threads == Syncs \cup {Poll}
InstanceStatuses == {"running", "failed", "progress", "stopped"}
ServiceStatuses == {"pending", "deploying", "running", "degraded", "stopped", "failed"}

\* deriveServiceStatus(), instances being a function to their statuses.
DeriveServiceStatus(replicas, instances) ==
    LET all == DOMAIN instances
        count(s) == Cardinality({i \in all : instances[i] = s})
        running == count("running")
        failed == count("failed")
    IN  CASE replicas = 0 ->
                IF \A i \in all : instances[i] = "stopped" THEN "stopped" ELSE "degraded"
          [] replicas > 0 /\ all = {} -> "pending"
          [] replicas > 0 /\ all # {} /\ failed > 0 ->
                IF running = 0 THEN "failed" ELSE "degraded"
          [] OTHER ->
                IF running >= replicas /\ count("progress") = 0 THEN "running"
                ELSE IF running > 0 \/ count("progress") > 0 THEN "deploying"
                ELSE "stopped"

Present == {i \in Instances : instance[i] # "gone"}
Derived == DeriveServiceStatus(desired, [i \in Present |-> instance[i]])

ServiceInit ==
    /\ instance = [i \in Instances |-> "progress"]
    /\ desired = Cardinality(Instances)
    /\ service \in {"pending", "deploying"}  \* before or after a first sync
    /\ step = [t \in Threads |-> "idle"]
    /\ seen = [t \in Threads |-> [status |-> "pending", desired |-> 0]]
    /\ next = [t \in Threads |-> "pending"]
    /\ changes = 0

Advance(t, place) == step' = [step EXCEPT ![t] = place]
Change == changes < MaxChanges /\ changes' = changes + 1

-----------------------------------------------------------------------------
(* Writers. *)

\* A row is written or deleted, and a sync follows.
WriteInstance(t, i) ==
    /\ Change
    /\ step[t] = "idle" /\ t \in Syncs
    /\ instance[i] # "gone"
    /\ \E s \in (InstanceStatuses \cup {"gone"}) \ {instance[i]} :
          instance' = [instance EXCEPT ![i] = s]
    /\ Advance(t, "reading")
    /\ UNCHANGED <<desired, service, seen, next>>

\* An apply deletes the rows it retires, inserts new ones and upserts the
\* service as pending; the apply does not sync.
DeleteRetired(i) ==
    /\ Change
    /\ instance[i] # "gone"
    /\ instance' = [instance EXCEPT ![i] = "gone"]
    /\ UNCHANGED <<desired, service, step, seen, next>>

InsertScheduled(i) ==
    /\ Change
    /\ instance[i] = "gone"
    /\ instance' = [instance EXCEPT ![i] = "progress"]
    /\ UNCHANGED <<desired, service, step, seen, next>>

UpsertService ==
    /\ Change
    /\ desired' \in 0 .. Cardinality(Instances)
    /\ service' = "pending"
    /\ UNCHANGED <<instance, step, seen, next>>

-----------------------------------------------------------------------------
(* Syncs. *)

StartPoll ==
    /\ step[Poll] = "idle"
    /\ Advance(Poll, "reading")
    /\ UNCHANGED <<instance, desired, service, seen, next, changes>>

ReadService(t) ==
    /\ step[t] = "reading"
    /\ seen' = [seen EXCEPT ![t] = [status |-> service, desired |-> desired]]
    /\ Advance(t, "listing")
    /\ UNCHANGED <<instance, desired, service, next, changes>>

\* Mutant: a service that was read as running is taken to be settled.
SkipsRunning(t) ==
    /\ step[t] = "listing"
    /\ next' = [next EXCEPT ![t] = DeriveServiceStatus(seen[t].desired,
                                       [i \in Present |-> instance[i]])]
    /\ Advance(t, IF seen[t].status \in {next'[t], "running"} THEN "idle" ELSE "writing")
    /\ UNCHANGED <<instance, desired, service, seen, changes>>

\* The status derived is compared with the one read before.
ListInstances(t) ==
    /\ step[t] = "listing"
    /\ next' = [next EXCEPT ![t] = DeriveServiceStatus(seen[t].desired,
                                       [i \in Present |-> instance[i]])]
    /\ Advance(t, IF next'[t] = seen[t].status THEN "idle" ELSE "writing")
    /\ UNCHANGED <<instance, desired, service, seen, changes>>

UpdateServiceStatus(t) ==
    /\ step[t] = "writing"
    /\ service' = next[t]
    /\ Advance(t, "idle")
    /\ UNCHANGED <<instance, desired, seen, next, changes>>

SyncStep(t) == ReadService(t) \/ ListInstances(t) \/ UpdateServiceStatus(t)

ServiceNext ==
    \/ \E i \in Instances :
          \/ \E t \in Syncs : WriteInstance(t, i)
          \/ DeleteRetired(i) \/ InsertScheduled(i)
    \/ UpsertService
    \/ StartPoll
    \/ \E t \in Threads : SyncStep(t)

ServiceSpec == ServiceInit /\ [][ServiceNext]_serviceVars

\* A leader polls, and statements are answered.
SyncProgress == \A t \in Threads : WF_serviceVars(SyncStep(t))
FairServiceSpec == ServiceSpec /\ WF_serviceVars(StartPoll) /\ SyncProgress

-----------------------------------------------------------------------------
(* Properties. *)

\* The values that the variables range over.
ServiceTypeOK ==
    /\ instance \in [Instances -> InstanceStatuses \cup {"gone"}]
    /\ desired \in 0 .. Cardinality(Instances)
    /\ service \in ServiceStatuses
    /\ step \in [Threads -> {"idle", "reading", "listing", "writing"}]
    /\ seen \in [Threads -> [status : ServiceStatuses, desired : 0 .. Cardinality(Instances)]]
    /\ next \in [Threads -> ServiceStatuses]
    /\ changes \in 0 .. MaxChanges

\* Whatever the syncs write over each other: once nothing changes any more the
\* status becomes the one of the instances, and stays that.
StatusConverges == <>[](service = Derived)
=============================================================================
