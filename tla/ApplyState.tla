----------------------------- MODULE ApplyState ------------------------------
(***************************************************************************)
(* What an apply does to the desired state, the instance rows and the      *)
(* containers: ApplyService.execute() with the Planner and the Scheduler.  *)
(* An apply reads services and rows once, computes a diff from them, and   *)
(* carries it out as single statements without a transaction: it deletes   *)
(* rows, inserts rows and updates services one by one, deletes services,   *)
(* and sends each node the operations of the instances that its map of     *)
(* instances to nodes places there.  Runs and their watches are in         *)
(* PlaybookRun and RolloutRun, the agent's steps in InstanceLife.          *)
(***************************************************************************)
EXTENDS Integers, FiniteSets, Functions, FiniteSetsExt, SequencesExt

CONSTANTS
    Services,    \* names of services
    Nodes,
    Appliers,    \* applies that may be in progress together
    Manifests,   \* versions of one manifest: [some services -> [image, replicas]]; the
                 \* planner finds stored services by their bare name (Planner.ts:50), so
                 \* other manifests are taken to name other services
    Unscheduled, \* the node of an instance that has none yet
    MaxApplies,  \* bound on applies
    MaxFaults    \* bound on crashes, failed dispatches and failed schedules

ASSUME ApplyAssumption ==
    /\ Nodes # {} /\ IsFiniteSet(Nodes)
    /\ Unscheduled \notin Nodes
    /\ \A m \in Manifests :
        /\ m = [s \in DOMAIN m |-> m[s]]
        /\ DOMAIN m \subseteq Services
        /\ \A s \in DOMAIN m : m[s].replicas \in Nat
    /\ {MaxApplies, MaxFaults} \subseteq Nat

VARIABLES
    services,   \* services of the database: [some services -> [image, replicas]]
    rows,       \* instance rows: [some ids -> [node, image, status]]
    containers, \* containers: [some <<node, id>> -> image]
    stage,      \* stage[a]: where apply a is
    wanted,     \* wanted[a]: its manifest
    diff,       \* diff[a]: the rest of its diff
    deletes,    \* deletes[a]: rows that it is still to delete
    todo,       \* todo[a]: services it is still to create or update
    inserts,    \* inserts[a]: ids that it is still to insert for the service at hand
    place,      \* place[a]: instanceNodes, by id
    unsent,     \* unsent[a]: nodes whose plan it has not dispatched
    reached,    \* reached[a]: nodes whose dispatch has succeeded
    applies,    \* number of applies so far
    faults,     \* number of faults so far
    tried,      \* history: manifests applied since the state was last settled
    settled,    \* history: the manifest that the state has settled at, if any
    cut,        \* history: an apply was cut off since then
    rejected,   \* history: an insert was rejected
    excuses     \* history: what may leave containers that differ from the rows

database == <<services, rows>>
inProgress == <<wanted, diff, deletes, todo, inserts, place, unsent, reached>>
bounds == <<applies, faults>>
history == <<tried, settled, cut, rejected, excuses>>
applyVars == <<database, containers, stage, inProgress, bounds, history>>

Idle == \A a \in Appliers : stage[a] = "idle"
Without(f, domain) == Restrict(f, DOMAIN f \ domain)

\* Function f laid over g, and f with a value for x.
Over(f, g) == [x \in DOMAIN f \cup DOMAIN g |-> IF x \in DOMAIN f THEN f[x] ELSE g[x]]
Put(f, x, value) == [y \in DOMAIN f \cup {x} |-> IF y = x THEN value ELSE f[y]]

NoDiff == [remove |-> {}, create |-> {}, redeploy |-> {}, gone |-> {}, images |-> <<>>]
NoManifest == [s \in {} |-> [image |-> 0, replicas |-> 0]]

ApplyInit ==
    /\ services = <<>>
    /\ rows = <<>>
    /\ containers = <<>>
    /\ stage = [a \in Appliers |-> "idle"]
    /\ wanted = [a \in Appliers |-> NoManifest]
    /\ diff = [a \in Appliers |-> NoDiff]
    /\ deletes = [a \in Appliers |-> {}]
    /\ todo = [a \in Appliers |-> {}]
    /\ inserts = [a \in Appliers |-> {}]
    /\ place = [a \in Appliers |-> <<>>]
    /\ unsent = [a \in Appliers |-> {}]
    /\ reached = [a \in Appliers |-> {}]
    /\ applies = 0
    /\ faults = 0
    /\ tried = {}
    /\ settled = {}
    /\ cut = FALSE
    /\ rejected = FALSE
    /\ excuses = {}

(* The planner ************************************************************)

\* The ids of the rows of service s; an id is a service and a replica index.
RowsOf(s) == {id \in DOMAIN rows : id[1] = s}
Indexes(ids) == {id[2] : id \in ids}

\* buildInstances(), buildScaledInstances() and pickInstancesToRetire().
Built(s, count) == {<<s, i>> : i \in 1 .. count}
Scaled(s, count) ==
    LET top == Max(Indexes(RowsOf(s)) \cup {0})
    IN  {<<s, top + i>> : i \in 1 .. count}
Retired(s, count) ==
    {id \in RowsOf(s) : Cardinality({other \in RowsOf(s) : other[2] > id[2]}) < count}

New(m) == DOMAIN m \ DOMAIN services
Gone(m) == DOMAIN services \ DOMAIN m
Recreated(m) == {s \in DOMAIN m \cap DOMAIN services : m[s].image # services[s].image}

\* Mutant: a service counts as changed only when its image is.
UpdatedByImage(m) == Recreated(m)

Updated(m) == {s \in DOMAIN m \cap DOMAIN services : m[s] # services[s]}

Surplus(m, s) == Max({Cardinality(RowsOf(s)) - m[s].replicas, 0})
Shortage(m, s) == Max({m[s].replicas - Cardinality(RowsOf(s)), 0})

\* Mutant: the instances of a service that is gone are left to its deletion.
ToRemoveOfKept(m) ==
    (UNION {RowsOf(s) : s \in Recreated(m)})
        \cup (UNION {Retired(s, Surplus(m, s)) : s \in Updated(m) \ Recreated(m)})

ToRemove(m) ==
    (UNION {RowsOf(s) : s \in Gone(m) \cup Recreated(m)})
        \cup (UNION {Retired(s, Surplus(m, s)) : s \in Updated(m) \ Recreated(m)})

ToCreate(m) ==
    (UNION {Built(s, m[s].replicas) : s \in New(m) \cup Recreated(m)})
        \cup (UNION {Scaled(s, Shortage(m, s)) : s \in Updated(m) \ Recreated(m)})

ToRedeploy(m) ==
    {id \in DOMAIN rows \ (ToRemove(m) \cup ToCreate(m)) :
        rows[id].status \in {"pending", "failed"} /\ id[1] \in DOMAIN m}

\* The image that is deployed: a row that stays keeps its own.
Images(m) ==
    [id \in ToCreate(m) \cup ToRedeploy(m) |-> IF id \in ToCreate(m) THEN m[id[1]].image ELSE rows[id].image]

(* An apply ***************************************************************)

\* The reads, the diff, and buildInstanceNodeMap(), in which an id that is both
\* removed and created has the place of the new instance.
Begin(a, m) ==
    /\ stage[a] = "idle"
    /\ applies < MaxApplies
    /\ applies' = applies + 1
    /\ stage' = [stage EXCEPT ![a] = "updating"]
    /\ wanted' = [wanted EXCEPT ![a] = m]
    /\ diff' = [diff EXCEPT ![a] = [remove |-> ToRemove(m), create |-> ToCreate(m),
                                    redeploy |-> ToRedeploy(m), gone |-> Gone(m),
                                    images |-> Images(m)]]
    /\ deletes' = [deletes EXCEPT ![a] = ToRemove(m)]
    /\ todo' = [todo EXCEPT ![a] = New(m) \cup Updated(m)]
    /\ place' = [place EXCEPT ![a] = 
        [id \in DOMAIN rows \cup ToCreate(m) |-> IF id \in ToCreate(m) THEN Unscheduled ELSE rows[id].node]]
    /\ tried' = tried \cup {m}
    /\ settled' = {}
    /\ excuses' = IF Idle THEN excuses ELSE excuses \cup {"concurrent"}
    /\ UNCHANGED <<database, containers, inserts, unsent, reached, faults, cut, rejected>>

\* deleteInstance() for each row that the planner removes.
DeleteRow(a) ==
    /\ \E id \in deletes[a] :
        /\ rows' = Without(rows, {id})
        /\ deletes' = [deletes EXCEPT ![a] = @ \ {id}]
    /\ UNCHANGED <<services, containers, stage, wanted, diff, todo, inserts, place, unsent, reached, bounds, history>>

\* What the planner creates for service s, and the service at hand, if any.
Creates(a, s) == {id \in diff[a].create : id[1] = s}
InHand(a) == {s \in todo[a] : \E id \in Creates(a, s) : place[a][id] # Unscheduled}

\* scheduleReplicaNodes(): round robin over the nodes that qualify, best first.
RoundRobin(ids, ranked) ==
    [id \in ids |-> ranked[(Cardinality({other \in ids : other[2] < id[2]}) % Len(ranked)) + 1]]

\* Mutant: rows are deleted and inserted at the same time.
TurnsAtOnce(a) == stage[a] = "updating" /\ InHand(a) = {}

\* The apply turns to its next service, once the rows are deleted.
Turns(a) == stage[a] = "updating" /\ deletes[a] = {} /\ InHand(a) = {}

Schedule(a, s) ==
    /\ Turns(a)
    /\ s \in todo[a]
    /\ Creates(a, s) # {}
    /\ \E ranked \in UNION {SetToSeqs(nodes) : nodes \in (SUBSET Nodes) \ {{}}} :
        place' = [place EXCEPT ![a] = Over(RoundRobin(Creates(a, s), ranked), @)]
    /\ inserts' = [inserts EXCEPT ![a] = Creates(a, s)]
    /\ UNCHANGED <<database, containers, stage, wanted, diff, deletes, todo, unsent, reached, bounds, history>>

Reset(a) ==
    /\ stage' = [stage EXCEPT ![a] = "idle"]
    /\ wanted' = [wanted EXCEPT ![a] = NoManifest]
    /\ diff' = [diff EXCEPT ![a] = NoDiff]
    /\ deletes' = [deletes EXCEPT ![a] = {}]
    /\ todo' = [todo EXCEPT ![a] = {}]
    /\ inserts' = [inserts EXCEPT ![a] = {}]
    /\ place' = [place EXCEPT ![a] = <<>>]
    /\ unsent' = [unsent EXCEPT ![a] = {}]
    /\ reached' = [reached EXCEPT ![a] = {}]

\* What a failure has done so far stays.
Fail(a, excuse) ==
    /\ faults < MaxFaults
    /\ faults' = faults + 1
    /\ cut' = TRUE
    /\ excuses' = excuses \cup {excuse}
    /\ Reset(a)
    /\ UNCHANGED <<database, containers, applies, tried, settled, rejected>>

\* No eligible target.
Unschedulable(a, s) ==
    /\ Turns(a)
    /\ s \in todo[a]
    /\ Creates(a, s) # {}
    /\ Fail(a, "unschedulable")

\* The instances of a service are inserted in the order of their indexes.
NextInsert(a) == {id \in inserts[a] : \A other \in inserts[a] : id[2] <= other[2]}

InsertRow(a) ==
    /\ \E id \in NextInsert(a) \ DOMAIN rows :
        /\ rows' = Put(rows, id, [node |-> place[a][id], image |-> diff[a].images[id], status |-> "pending"])
        /\ inserts' = [inserts EXCEPT ![a] = @ \ {id}]
    /\ UNCHANGED <<services, containers, stage, wanted, diff, deletes, todo, place, unsent, reached, bounds, history>>

\* The id is the primary key: the insert is rejected, and the apply with it.
InsertRejected(a) ==
    /\ NextInsert(a) \cap DOMAIN rows # {}
    /\ Reset(a)
    /\ rejected' = TRUE
    /\ cut' = TRUE
    /\ UNCHANGED <<database, containers, bounds, tried, settled, excuses>>

UpsertService(a, s) ==
    /\ stage[a] = "updating"
    /\ deletes[a] = {}
    /\ inserts[a] = {}
    /\ s \in todo[a]
    /\ InHand(a) \subseteq {s}
    /\ \A id \in Creates(a, s) : place[a][id] # Unscheduled
    /\ services' = Put(services, s, wanted[a][s])
    /\ todo' = [todo EXCEPT ![a] = @ \ {s}]
    /\ UNCHANGED <<rows, containers, stage, wanted, diff, deletes, inserts, place, unsent, reached, bounds, history>>

\* deleteService() for each service that is gone, with the rows it has by now.
DeleteServices(a) ==
    /\ stage[a] = "updating"
    /\ deletes[a] \cup todo[a] = {}
    /\ services' = Without(services, diff[a].gone)
    /\ rows' = Without(rows, {id \in DOMAIN rows : id[1] \in diff[a].gone})
    /\ stage' = [stage EXCEPT ![a] = "dispatching"]
    /\ unsent' = [unsent EXCEPT ![a] = Nodes]
    /\ UNCHANGED <<containers, wanted, diff, deletes, todo, inserts, place, reached, bounds, history>>

(* Plans ******************************************************************)

\* filterOperationsForNode(): an operation goes where the map has its instance.
Here(a, n, ids) == {id \in ids : place[a][id] = n}

Removes(a, n) == Here(a, n, diff[a].remove)
Deploys(a, n) == Here(a, n, diff[a].create \cup diff[a].redeploy)
Missing(a, n) == {id \in Removes(a, n) : <<n, id>> \notin DOMAIN containers}

\* What an agent reports of an instance is written whichever node it is on.
Reported(ids, status) == [id \in DOMAIN rows |-> IF id \in ids THEN [rows[id] EXCEPT !.status = status] ELSE rows[id]]

\* The agent stops and removes, then creates and starts.  A container that
\* exists under the name is taken for the one to create.
Dispatch(a, n) ==
    /\ stage[a] = "dispatching"
    /\ n \in unsent[a]
    /\ Missing(a, n) = {}
    /\ LET left == Without(containers, {n} \X Removes(a, n))
           made == [c \in {n} \X Deploys(a, n) |-> diff[a].images[c[2]]]
       IN  containers' = Over(left, made)
    /\ rows' = Reported(Deploys(a, n), "running")
    /\ unsent' = [unsent EXCEPT ![a] = @ \ {n}]
    /\ reached' = IF Removes(a, n) \cup Deploys(a, n) = {} THEN reached ELSE [reached EXCEPT ![a] = @ \cup {n}]
    /\ UNCHANGED <<services, stage, wanted, diff, deletes, todo, inserts, place, bounds, history>>

\* A plan that fails has removed some of the containers.  Stopping a container
\* that is not there is such a failure.
DispatchFails(a, n) ==
    /\ stage[a] = "dispatching"
    /\ n \in unsent[a]
    /\ Removes(a, n) \cup Deploys(a, n) # {}
    /\ \/ Missing(a, n) # {} /\ UNCHANGED faults
       \/ faults < MaxFaults /\ faults' = faults + 1
    /\ \E removed \in SUBSET (Removes(a, n) \ Missing(a, n)) :
        /\ containers' = Without(containers, {n} \X removed)
        /\ rows' = Reported(removed, "stopped")
    /\ unsent' = [unsent EXCEPT ![a] = @ \ {n}]
    /\ excuses' = excuses \cup {"dispatch"}
    /\ UNCHANGED <<services, stage, wanted, diff, deletes, todo, inserts, place, reached, applies, tried, settled, cut, rejected>>

\* The state settles when the last apply in progress ends, unless applies of
\* several manifests have met, or one that was cut off has met another.
Settles(a) ==
    /\ \A other \in Appliers \ {a} : stage[other] = "idle"
    /\ tried = {wanted[a]}
    /\ ~(cut /\ "concurrent" \in excuses)

\* applyDispatchResults(), and the end of the apply.
Finish(a) ==
    LET lost == {id \in diff[a].create \cup diff[a].redeploy : place[a][id] \notin reached[a]}
    IN  /\ stage[a] = "dispatching"
        /\ unsent[a] = {}
        /\ rows' = Reported(lost, "failed")
        /\ settled' = IF Settles(a) THEN {wanted[a]} ELSE {}
        /\ tried' = IF Settles(a) THEN {} ELSE tried
        /\ cut' = IF Settles(a) THEN FALSE ELSE cut
        /\ Reset(a)
        /\ UNCHANGED <<services, containers, bounds, excuses, rejected>>

(***************************************************************************)

\* The replica ends, and its apply with it.
ApplyCrash(a) ==
    /\ stage[a] # "idle"
    /\ Fail(a, "crash")

Step(a) ==
    \/ DeleteRow(a) \/ InsertRow(a) \/ InsertRejected(a)
    \/ DeleteServices(a) \/ Finish(a)
    \/ \E s \in Services : Schedule(a, s) \/ Unschedulable(a, s) \/ UpsertService(a, s)
    \/ \E n \in Nodes : Dispatch(a, n) \/ DispatchFails(a, n)

ApplyNext == \E a \in Appliers : ApplyCrash(a) \/ Step(a) \/ \E m \in Manifests : Begin(a, m)

ApplySpec == ApplyInit /\ [][ApplyNext]_applyVars

(***************************************************************************)
(* Properties                                                              *)
(***************************************************************************)

IdsOf(ids) == \A id \in ids : id[1] \in Services /\ id[2] \in Nat \ {0}

\* The values that the variables range over.
ApplyTypeOK ==
    /\ DOMAIN services \subseteq Services
    /\ IdsOf(DOMAIN rows)
    /\ \A id \in DOMAIN rows :
        /\ rows[id].node \in Nodes
        /\ rows[id].status \in {"pending", "running", "stopped", "failed"}
    /\ \A c \in DOMAIN containers : c[1] \in Nodes /\ IdsOf({c[2]})
    /\ stage \in [Appliers -> {"idle", "updating", "dispatching"}]
    /\ \A a \in Appliers :
        /\ deletes[a] \subseteq diff[a].remove
        /\ todo[a] \subseteq DOMAIN wanted[a]
        /\ reached[a] \cap unsent[a] = {}
        /\ diff[a].remove \cup diff[a].create \cup diff[a].redeploy \subseteq DOMAIN place[a]
        /\ Range(place[a]) \subseteq Nodes \cup {Unscheduled}
    /\ applies \in 0 .. MaxApplies
    /\ faults \in 0 .. MaxFaults

\* The rows are what manifest m asks for.
RowsAgree(m) ==
    /\ services = m
    /\ \A id \in DOMAIN rows : id[1] \in DOMAIN m /\ rows[id].image = m[id[1]].image
    /\ \A s \in DOMAIN m : Cardinality(RowsOf(s)) = m[s].replicas

\* When the applies of one manifest have ended, there are exactly the replicas it
\* asks for, of its image: if they overlapped, and also if some were cut off
\* half-way, one at a time, before the last one ran to its end
\* (ApplyService.ts:211-262, Planner.ts:49).
AppliedAgree == \A m \in settled : RowsAgree(m)

\* If every plan has got through and no apply was cut off or overlapped
\* another, every container belongs to a row on its node and has its image, and
\* every row has one (ApplyService.ts:299-329, 736-777).
ContainersAgree ==
    Idle /\ excuses = {} =>
        /\ DOMAIN containers = {<<rows[id].node, id>> : id \in DOMAIN rows}
        /\ \A id \in DOMAIN rows : containers[<<rows[id].node, id>>] = rows[id].image

\* As long as every apply ran to its end before the next one began, no insert is
\* rejected, whatever became of its plans: the ids of new instances are those of
\* rows that were deleted before, or of none (ApplyService.ts:213-255,
\* Planner.ts:72-107, 411-446).
RejectedWithReason == rejected => excuses \ {"dispatch"} # {}

\* failover.md:75: another replica completes the revision of a leader that was
\* killed in the middle of an apply.  No apply is rejected that overlapped none.
SurvivorCompletes == rejected => "concurrent" \in excuses
==============================================================================
