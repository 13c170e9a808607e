---------------------------- MODULE InstanceLife ----------------------------
(***************************************************************************)
(* The life of one workload instance: the row the control plane keeps and  *)
(* the container the agents run for it.  Requests (the reconciler's poll,  *)
(* the reconciliation of a node that registers, lifecycle routes, an       *)
(* apply) decide from the row they have read, send a plan to the agent of  *)
(* the instance's node, and write the row when they have the answer.  An   *)
(* agent serves one connection at a time: it carries out the operations of *)
(* a plan in order, reporting to the control plane as it goes, and answers *)
(* at the end.  updateInstance() reads the row and writes the fields that  *)
(* differ, or nothing if the row is gone: for each field this amounts to   *)
(* one write, at the read when nothing differs and at the write otherwise. *)
(* The backoff between two attempts is any time at all.                    *)
(***************************************************************************)
EXTENDS Integers, Sequences

CONSTANTS
    Nodes,
    Pollers,    \* polls of the reconciler that may be in progress together
    Handlers,   \* handlers of routes that may be in progress together
    Operations, \* what handlers may be asked for
    MaxRetries, \* resolveMaxRetries()
    Movable,    \* the manifest allows the instance on any node
    FaultSets,  \* sets of kinds of fault, from FaultKinds, that may happen together
    MaxFaults,  \* bound on faults other than lost reports
    Nobody

ForceCap == MaxRetries + 1 \* bound on the attempts of forced reconciliations
FaultKinds == {"lost", "timeout", "agent", "server", "offline"}
LifecycleOperations == {"stop", "start", "restart", "remove"}
HandlerOperations == LifecycleOperations \cup {"node", "forced"}
Requests == Pollers \cup Handlers

ASSUME InstanceAssumption ==
    /\ Nodes # {}
    /\ Nobody \notin Requests
    /\ Operations \subseteq HandlerOperations
    /\ MaxRetries \in Nat \ {0}
    /\ MaxFaults \in Nat
    /\ Movable \in BOOLEAN
    /\ FaultSets \subseteq SUBSET FaultKinds

VARIABLES
    status,    \* of the row, "gone" when it is deleted
    attempts,  \* dispatchAttempts of the row
    home,      \* nodeId of the row
    online,    \* the nodes whose rows are not offline
    pc,        \* pc[r]: where request r is
    asked,     \* asked[r]: the operation it carries out
    cached,    \* cached[r]: the instance as r has read it
    nodesSeen, \* nodesSeen[r]: the nodes online as r has read them
    result,    \* result[r]: what dispatchPlans() returned
    container, \* container[n] on node n
    inbox,     \* inbox[n]: the plans that agent n has to carry out
    report,    \* report[n]: the report that agent n is posting
    possible,  \* the kinds of fault that may happen in this behaviour
    faults     \* number of bounded faults so far

rowVars == <<status, attempts, home>>
requestVars == <<pc, asked, cached, nodesSeen, result>>
agentVars == <<container, inbox, report>>
faultVars == <<possible, faults>>
vars == <<rowVars, online, requestVars, agentVars, faultVars>>

Stuck == {"pending", "failed"}
Statuses == Stuck \cup {"running", "starting", "stopping", "stopped", "gone"}

Row == [status |-> status, attempts |-> attempts, home |-> home]

Reconciles == {"poll", "node", "forced"}

\* What a request keeps of the row once it has decided: the node the plan goes
\* to and, for the reconciler, the attempts to count on from.
Nothing == [status |-> "gone", attempts |-> 0, home |-> Nobody]
Kept(operation) ==
    [Nothing EXCEPT !.home = home,
                    !.attempts = IF operation \in Reconciles THEN attempts ELSE 0]

\* The operations of the plan; a deployment pulls the image and joins the
\* networks as well, which can fail and nothing else.
PlanOf(operation) ==
    CASE operation = "stop" -> <<"stop">>
      [] operation = "start" -> <<"start">>
      [] operation = "restart" -> <<"stop", "start">>
      [] operation = "remove" -> <<"stop", "remove">>
      [] OTHER -> <<"create", "start">>

\* The row has just been inserted and its apply is about to dispatch it.
Init ==
    /\ status = "pending"
    /\ attempts = 0
    /\ home \in Nodes
    /\ online = Nodes
    /\ \E r \in Requests : pc = [q \in Requests |-> IF q = r THEN "ready" ELSE "idle"]
    /\ asked = [r \in Requests |-> "apply"]
    /\ cached = [r \in Requests |-> IF pc[r] = "ready" THEN Kept("apply") ELSE Nothing]
    /\ nodesSeen = [r \in Requests |-> {}]
    /\ result = [r \in Requests |-> "failed"]
    /\ container = [n \in Nodes |-> "none"]
    /\ inbox = [n \in Nodes |-> <<>>]
    /\ report = [n \in Nodes |-> "none"]
    /\ possible \in FaultSets
    /\ faults = 0

Goto(r, place) == pc' = [pc EXCEPT ![r] = place]

\* A request that has decided what to do is ready to dispatch its plan.
Decided(r, operation) ==
    /\ asked' = [asked EXCEPT ![r] = operation]
    /\ cached' = [cached EXCEPT ![r] = Kept(operation)]
    /\ nodesSeen' = [nodesSeen EXCEPT ![r] = {}]
    /\ Goto(r, "ready")
    /\ UNCHANGED result

\* A request is over, and what it knew is forgotten.
Finish(r) ==
    /\ asked' = [asked EXCEPT ![r] = "apply"]
    /\ cached' = [cached EXCEPT ![r] = Nothing]
    /\ nodesSeen' = [nodesSeen EXCEPT ![r] = {}]
    /\ result' = [result EXCEPT ![r] = "failed"]
    /\ Goto(r, "idle")

-----------------------------------------------------------------------------
(* The reconciler. *)

\* Mutant: failed instances are left alone.
PendingOnly(instance, nodes, force) ==
    /\ instance.status = "pending"
    /\ force \/ instance.attempts < MaxRetries
    /\ instance.home \in nodes

IsReconcileCandidate(instance, nodes, force) ==
    /\ instance.status \in Stuck
    /\ force \/ instance.attempts < MaxRetries
    /\ instance.home \in nodes

\* reconcileAll(): the instances and the nodes are listed,
ListAll(r) ==
    /\ pc[r] = "idle"
    /\ status # "gone"
    /\ asked' = [asked EXCEPT ![r] = "poll"]
    /\ cached' = [cached EXCEPT ![r] = Row]
    /\ nodesSeen' = [nodesSeen EXCEPT ![r] = online]
    /\ Goto(r, "listed")
    /\ UNCHANGED <<rowVars, online, result, agentVars, faultVars>>

CanMove(r) ==
    /\ Movable
    /\ cached[r].status \in Stuck
    /\ cached[r].home \notin nodesSeen[r]
    /\ nodesSeen[r] # {}

\* maybeRescheduleFromUnreachableNode(): stuck instances move off nodes that
\* are offline.  The container, if there is one, stays where it is.
Reschedule(r) ==
    /\ pc[r] = "listed"
    /\ CanMove(r)
    /\ IF status = "gone" THEN UNCHANGED <<status, home>>
       ELSE status' = "pending" /\ home' \in nodesSeen[r]
    /\ Goto(r, "moved")
    /\ UNCHANGED <<attempts, online, asked, cached, nodesSeen, result, agentVars, faultVars>>

Remain(r) ==
    /\ pc[r] = "listed"
    /\ ~CanMove(r)
    /\ Goto(r, "moved")
    /\ UNCHANGED <<rowVars, online, asked, cached, nodesSeen, result, agentVars, faultVars>>

\* the instances are listed again and the candidates looked for.
ListAgain(r) ==
    /\ pc[r] = "moved"
    /\ IF IsReconcileCandidate(Row, nodesSeen[r], FALSE) THEN Decided(r, "poll") ELSE Finish(r)
    /\ UNCHANGED <<rowVars, online, agentVars, faultVars>>

\* reconcileNode() when a node registers, and reconcileService(), which forces.
Reconcile(r, operation) ==
    /\ operation \in {"node", "forced"} \cap Operations
    /\ pc[r] = "idle"
    /\ IsReconcileCandidate(Row, online, operation = "forced")
    /\ attempts < ForceCap
    /\ Decided(r, operation)
    /\ UNCHANGED <<rowVars, online, agentVars, faultVars>>

(* Lifecycle routes: dispatchLifecycleOperation() up to the dispatch. *)
Order(r, operation) ==
    /\ operation \in LifecycleOperations \cap Operations
    /\ pc[r] = "idle"
    /\ status # "gone"
    /\ Decided(r, operation)
    /\ UNCHANGED <<rowVars, online, agentVars, faultVars>>

-----------------------------------------------------------------------------
(* dispatchPlans(), and what follows it. *)

\* The plan goes to the node that the instance had when it was read.
Dispatch(r) ==
    /\ pc[r] = "ready"
    /\ inbox' = [inbox EXCEPT ![cached[r].home] =
                    Append(@, [todo |-> PlanOf(asked[r]), from |-> r])]
    /\ Goto(r, "waiting")
    /\ UNCHANGED <<rowVars, online, asked, cached, nodesSeen, result, container, report,
                   faultVars>>

\* Mutant: failed dispatches of the reconciler are not counted.
UncountedFailures(r) ==
    LET reconciles == asked[r] \in Reconciles
    IN  IF result[r] = "failed"
        THEN status' = "failed" /\ UNCHANGED attempts
        ELSE /\ status' = IF reconciles THEN "pending" ELSE status
             /\ attempts' = IF reconciles THEN cached[r].attempts + 1 ELSE attempts

\* Mutant: the reconciler takes a dispatched plan for a running container.
OutcomeRunning(r) ==
    LET reconciles == asked[r] \in Reconciles
    IN  /\ attempts' = IF reconciles THEN cached[r].attempts + 1 ELSE attempts
        /\ status' = IF result[r] = "failed" THEN "failed"
                     ELSE CASE reconciles -> "running"
                            [] asked[r] = "stop" -> "stopping"
                            [] asked[r] \in {"start", "restart"} -> "starting"
                            [] asked[r] = "remove" -> "gone"
                            [] OTHER -> status

\* What a request writes.  The apply's own dispatch is not an attempt, and its
\* success says nothing about the status.
Outcome(r) ==
    LET reconciles == asked[r] \in Reconciles
    IN  /\ attempts' = IF reconciles THEN cached[r].attempts + 1 ELSE attempts
        /\ status' = IF result[r] = "failed" THEN "failed"
                     ELSE CASE reconciles -> "pending"
                            [] asked[r] = "stop" -> "stopping"
                            [] asked[r] \in {"start", "restart"} -> "starting"
                            [] asked[r] = "remove" -> "gone"
                            [] OTHER -> status

Record(r) ==
    /\ pc[r] = "answered"
    /\ IF status = "gone" THEN UNCHANGED <<status, attempts>> ELSE Outcome(r)
    /\ Finish(r)
    /\ UNCHANGED <<home, online, agentVars, faultVars>>

-----------------------------------------------------------------------------
(* The agents. *)

\* Requests that wait for an answer get one.
Answer(waiting, answer) ==
    /\ result' = [r \in Requests |-> IF r \in waiting THEN answer ELSE result[r]]
    /\ pc' = [r \in Requests |-> IF r \in waiting THEN "answered" ELSE pc[r]]

\* What Docker does, 304 (and 409 for a container that exists) being success
\* and 404 success for a removal only.
Effect(operation, before) ==
    CASE operation = "create" -> IF before = "none" THEN "stopped" ELSE before
      [] operation = "start" -> "running"
      [] operation = "stop" -> "stopped"
      [] operation = "remove" -> "none"

Possible(operation, before) == operation \in {"start", "stop"} => before # "none"

ReportOf(operation) ==
    CASE operation = "create" -> "silent"
      [] operation = "start" -> "running"
      [] OTHER -> "stopped"

\* One operation of the plan at hand; Docker may refuse any.
Perform(n) ==
    /\ inbox[n] # <<>>
    /\ report[n] = "none"
    /\ LET operation == Head(Head(inbox[n]).todo)
       IN  \/ /\ Possible(operation, container[n])
              /\ container' = [container EXCEPT ![n] = Effect(operation, @)]
              /\ report' = [report EXCEPT ![n] = ReportOf(operation)]
           \/ /\ report' = [report EXCEPT ![n] = "failed"]
              /\ UNCHANGED container
    /\ UNCHANGED <<rowVars, online, requestVars, inbox, faultVars>>

\* The first failure ends a plan, and so does its last operation.
Proceed(n) ==
    LET plan == Head(inbox[n])
        over == report[n] = "failed" \/ Len(plan.todo) = 1
    IN  /\ report' = [report EXCEPT ![n] = "none"]
        /\ IF over
           THEN /\ inbox' = [inbox EXCEPT ![n] = Tail(@)]
                /\ Answer({plan.from} \ {Nobody},
                          IF report[n] = "failed" THEN "failed" ELSE "dispatched")
           ELSE /\ inbox' = [inbox EXCEPT ![n] = <<[plan EXCEPT !.todo = Tail(@)]>> \o Tail(@)]
                /\ UNCHANGED <<pc, result>>

\* POST /instances/:id/status.
HandleReport(n) ==
    /\ report[n] # "none"
    /\ status' = IF status = "gone" \/ report[n] = "silent" THEN status ELSE report[n]
    /\ Proceed(n)
    /\ UNCHANGED <<attempts, home, online, asked, cached, nodesSeen, container, faultVars>>

-----------------------------------------------------------------------------
(* Faults. *)

\* The report does not arrive: the agent logs that and goes on.
LoseReport(n) ==
    /\ "lost" \in possible
    /\ report[n] \notin {"none", "silent"}
    /\ Proceed(n)
    /\ UNCHANGED <<rowVars, online, asked, cached, nodesSeen, container, faultVars>>

Fault(kind) ==
    /\ kind \in possible
    /\ faults < MaxFaults
    /\ faults' = faults + 1
    /\ UNCHANGED possible

Disown(n, r) ==
    [k \in DOMAIN inbox[n] |->
        IF inbox[n][k].from = r THEN [inbox[n][k] EXCEPT !.from = Nobody] ELSE inbox[n][k]]

\* fetchAgentBounded() gives up, or the node cannot be reached at all.
GiveUp(r) ==
    /\ Fault("timeout")
    /\ pc[r] \in {"ready", "waiting"}
    /\ inbox' = [n \in Nodes |-> Disown(n, r)]
    /\ Answer({r}, "failed")
    /\ UNCHANGED <<rowVars, online, asked, cached, nodesSeen, container, report>>

\* The agent restarts: connections break, its plans are forgotten.
RestartAgent(n) ==
    /\ Fault("agent")
    /\ inbox' = [inbox EXCEPT ![n] = <<>>]
    /\ report' = [report EXCEPT ![n] = "none"]
    /\ Answer({inbox[n][k].from : k \in DOMAIN inbox[n]} \ {Nobody}, "failed")
    /\ UNCHANGED <<rowVars, online, asked, cached, nodesSeen, container>>

\* The replica that runs the request restarts; the agent has the plan.
LoseRequest(r) ==
    /\ Fault("server")
    /\ pc[r] # "idle"
    /\ inbox' = [n \in Nodes |-> Disown(n, r)]
    /\ Finish(r)
    /\ UNCHANGED <<rowVars, online, container, report>>

\* Heartbeats stop, and start again.
GoOffline(n) ==
    /\ Fault("offline")
    /\ online' = online \ {n}
    /\ UNCHANGED <<rowVars, requestVars, agentVars>>

Heartbeat(n) ==
    /\ n \notin online
    /\ online' = online \cup {n}
    /\ UNCHANGED <<rowVars, requestVars, agentVars, faultVars>>

RequestStep(r) ==
    \/ Reschedule(r) \/ Remain(r) \/ ListAgain(r)
    \/ Dispatch(r) \/ Record(r)

AgentStep(n) == Perform(n) \/ HandleReport(n)

Next ==
    \/ \E r \in Pollers : ListAll(r)
    \/ \E r \in Handlers, operation \in Operations :
          Reconcile(r, operation) \/ Order(r, operation)
    \/ \E r \in Requests : RequestStep(r) \/ GiveUp(r) \/ LoseRequest(r)
    \/ \E n \in Nodes :
          \/ AgentStep(n) \/ LoseReport(n)
          \/ RestartAgent(n) \/ GoOffline(n) \/ Heartbeat(n)

Spec == Init /\ [][Next]_vars

\* Requests and agents proceed, the leader polls, nodes come back.
Progress ==
    /\ \A r \in Pollers : WF_vars(ListAll(r))
    /\ \A r \in Requests : WF_vars(RequestStep(r))
    /\ \A n \in Nodes : WF_vars(AgentStep(n)) /\ WF_vars(Heartbeat(n))

FairSpec == Spec /\ Progress

-----------------------------------------------------------------------------
(* Properties. *)

\* The values that the variables range over.
TypeOK ==
    /\ status \in Statuses
    /\ attempts \in 0 .. MaxRetries + 1
    /\ home \in Nodes
    /\ online \subseteq Nodes
    /\ pc \in [Requests -> {"idle", "listed", "moved", "ready", "waiting", "answered"}]
    /\ asked \in [Requests -> HandlerOperations \cup {"poll", "apply"}]
    /\ result \in [Requests -> {"dispatched", "failed"}]
    /\ container \in [Nodes -> {"none", "stopped", "running"}]
    /\ report \in [Nodes -> {"none", "silent", "running", "stopped", "failed"}]

\* Nothing is under way that will still change the row or the container.
Settled ==
    /\ \A n \in Nodes : inbox[n] = <<>>
    /\ \A r \in Requests : pc[r] # "answered"

\* A row that says "running" is right once the plans are through: neither a
\* report overtaken by others nor one that is lost, an agent or a replica that
\* restarts or a request that gives up leaves a stopped container running for
\* the control plane.  Either of the two that tell it of a stop may fail, the
\* report of the agent or the request that waits for the answer, but not both.
RunningIsTrue == Settled /\ status = "running" => container[home] = "running"

\* The reconciler sends a plan that nobody forced it to send.
Redispatch(r) == asked[r] \in {"poll", "node"} /\ pc[r] = "ready" /\ pc'[r] = "waiting"

\* However polls overlap, and although one that is late may set the counter
\* back to what it had read: the reconciler does not redispatch an instance
\* for ever.
RetriesEnd == <>[][\A r \in Requests : ~Redispatch(r)]_vars

Deserted == status \in Stuck /\ attempts < MaxRetries /\ container[home] # "running"

\* A stuck instance with attempts left does not stay without a container: it
\* gets one, runs out of attempts or is taken over by a lifecycle request.
StuckGetsDeployed == Deserted ~> ~Deserted
=============================================================================
