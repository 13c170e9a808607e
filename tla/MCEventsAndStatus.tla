-------------------------- MODULE MCEventsAndStatus --------------------------
(* Two parts that share no state and settle once nothing changes any more,  *)
(* EventBus and ServiceStatus, in one run: each behaviour is one of either. *)
(* Two replicas, whose polls may overlap with a second one of their own; or *)
(* two instances, a writer whose syncs overlap with the leader's poll, and  *)
(* three writes.                                                            *)
EXTENDS EventBus, ServiceStatus

CONSTANTS a, b, i1, i2

VARIABLE part

InitParts ==
    /\ part \in {"events", "status"}
    /\ Init
    /\ ServiceInit
    /\ part = "events" => service = Derived  \* the service rests in these behaviours

EventsNext == part = "events" /\ Next /\ UNCHANGED <<part, serviceVars>>
OnlyServiceNext == part = "status" /\ ServiceNext /\ UNCHANGED <<part, vars>>

NextParts == EventsNext \/ OnlyServiceNext

\* Each part is as fair as it is by itself; the part that rests has nothing
\* enabled but the poll of the service.
FairParts ==
    /\ InitParts
    /\ [][NextParts]_<<part, vars, serviceVars>>
    /\ Fairness
    /\ SyncProgress /\ WF_serviceVars(part = "status" /\ StartPoll)
==============================================================================
