------------------------------ MODULE EventBus -------------------------------
(***************************************************************************)
(* Synchronisation of control-plane replicas through rows of               *)
(* control_plane_events (ControlPlaneSync), and its two users: the         *)
(* revision that applies increment in the memory of their replica, and the *)
(* gateway routes that only the leader pushes to Traefik.  An id is given  *)
(* to an event before its insert commits; a poll asks for ids above its    *)
(* cursor, and its rows are handled in one go when they arrive.            *)
(***************************************************************************)
EXTENDS Integers, Sequences, FiniteSets, FiniteSetsExt

CONSTANTS
    Replicas,      \* control-plane replicas, each with its instanceId
    FirstLeader,   \* the replica that leads at first
    NoReplica,     \* nobody leads
    Polls,         \* polls of one replica that may overlap
    MaxOperations  \* bound on increments, changes of routes and faults together

ASSUME EventBusAssumption ==
    /\ IsFiniteSet(Replicas)
    /\ FirstLeader \in Replicas
    /\ NoReplica \notin Replicas
    /\ MaxOperations \in Nat

VARIABLES
    events,    \* events by id: [kind, revision, source]
    committed, \* ids whose insert has committed
    cursor,    \* cursor[r]: lastEventId
    rows,      \* rows[r][p]: ids that poll p of r has read, {} when idle
    rev,       \* rev[r]: context.applyRevision
    counter,   \* apply_revision in cluster_state
    apply,     \* apply[r]: where incrementRevision() is
    value,     \* value[r]: the revision it saves
    saves,     \* saves[r]: revisions event handlers of r are still to save
    leader,    \* the replica whose isLeader() is TRUE, if any
    routes,    \* gateway_routes, as the number of changes so far
    change,    \* change[r][k]: where a change of routes or onBecameLeader() is
    calls,     \* calls[r]: event handlers that are still to list the routes
    lists,     \* lists[r]: routes listed by them and not pushed
    listed,    \* listed[r][k]: routes listed by it
    pushed,    \* the routes Traefik has
    faults,    \* failed pushes, restarts and changes of leader so far
    increments,\* increments so far
    handled,   \* history: handled[r], ids handled since r started
    passed,    \* history: passed[r], ids not committed when r read a higher one
    excuses    \* history: what may leave replicas or Traefik behind

vars == <<events, committed, cursor, rows, rev, counter, apply, value, saves, leader, routes,
          change, calls, lists, listed, pushed, faults, increments, handled, passed, excuses>>

Ids == DOMAIN events
Changes == {"routes", "leader"}
Kinds == Changes \cup {"revision"}

Init ==
    /\ events = <<>>
    /\ committed = {}
    /\ cursor = [r \in Replicas |-> 0]
    /\ rows = [r \in Replicas |-> [p \in Polls |-> {}]]
    /\ rev = [r \in Replicas |-> 0]
    /\ counter = 0
    /\ apply = [r \in Replicas |-> "idle"]
    /\ value = [r \in Replicas |-> 0]
    /\ saves = [r \in Replicas |-> {}]
    /\ leader = FirstLeader
    /\ routes = 0
    /\ change = [r \in Replicas |-> [k \in Changes |-> "idle"]]
    /\ calls = [r \in Replicas |-> 0]
    /\ lists = [r \in Replicas |-> {}]
    /\ listed = [r \in Replicas |-> [k \in Changes |-> 0]]
    /\ pushed = 0
    /\ faults = 0
    /\ increments = 0
    /\ handled = [r \in Replicas |-> {}]
    /\ passed = [r \in Replicas |-> {}]
    /\ excuses = {}

Bus == <<cursor, rows, handled, passed>>
Revision == <<rev, counter, apply, value, saves, increments>>
Gateway == <<routes, change, calls, lists, listed, pushed>>

MoreOperations == increments + routes + faults < MaxOperations

(* Events *****************************************************************)

\* publish(): the insert gets the next id of the sequence.
Publish(r, kind, revision) ==
    events' = Append(events, [kind |-> kind, revision |-> revision, source |-> r])

Commit(id) ==
    /\ id \notin committed
    /\ committed' = committed \cup {id}
    /\ UNCHANGED <<events, Bus, Revision, Gateway, leader, faults, excuses>>

\* Ids above the cursor of r that a query sees.
Above(r) == {id \in committed : id > cursor[r]}

\* Ids whose rows it does not see though it sees a higher one.
Passes(r) == {id \in 1 .. Max(Above(r)) : id \notin committed}

\* Mutant: the cursor moves when rows are read, not when they are handled.
QueryMoves(r, p) ==
    /\ rows[r][p] = {}
    /\ Above(r) # {}
    /\ cursor' = [cursor EXCEPT ![r] = Max(Above(r))]
    /\ rows' = [rows EXCEPT ![r][p] = Above(r)]
    /\ passed' = [passed EXCEPT ![r] = @ \cup Passes(r)]
    /\ excuses' = excuses \cup (IF Passes(r) = {} THEN {} ELSE {"passed"})
    /\ UNCHANGED <<events, committed, handled, Revision, Gateway, leader, faults>>

\* Mutant: the leader does not poll.
QueryFollows(r, p) ==
    /\ rows[r][p] = {}
    /\ Above(r) # {}
    /\ leader # r
    /\ rows' = [rows EXCEPT ![r][p] = Above(r)]
    /\ passed' = [passed EXCEPT ![r] = @ \cup Passes(r)]
    /\ excuses' = excuses \cup (IF Passes(r) = {} THEN {} ELSE {"passed"})
    /\ UNCHANGED <<events, committed, cursor, handled, Revision, Gateway, leader, faults>>

\* poll(): findAll().
Query(r, p) ==
    /\ rows[r][p] = {}
    /\ Above(r) # {}
    /\ rows' = [rows EXCEPT ![r][p] = Above(r)]
    /\ passed' = [passed EXCEPT ![r] = @ \cup Passes(r)]
    /\ excuses' = excuses \cup (IF Passes(r) = {} THEN {} ELSE {"passed"})
    /\ UNCHANGED <<events, committed, cursor, handled, Revision, Gateway, leader, faults>>

\* Rows of other replicas, of the kinds given.
Foreign(r, ids, kinds) == {id \in ids : events[id].source # r /\ events[id].kind \in kinds}

\* The loop of poll(): listeners are called row by row, without a pause.  The
\* handler of a revision sets it and goes on to save it; the others call
\* publishRoutesIfLeader(), which returns at once on a follower.
Handle(r, p) ==
    LET ids == rows[r][p]
        revisions == Foreign(r, ids, {"revision"})
        reloads == Foreign(r, ids, {"routes", "leader"})
    IN  /\ ids # {}
        /\ rows' = [rows EXCEPT ![r][p] = {}]
        /\ cursor' = [cursor EXCEPT ![r] = Max(ids \cup {@})]
        /\ handled' = [handled EXCEPT ![r] = @ \cup Foreign(r, ids, Kinds)]
        /\ rev' = [rev EXCEPT ![r] = IF revisions = {} THEN @ ELSE events[Max(revisions)].revision]
        /\ saves' = [saves EXCEPT ![r] = @ \cup {events[id].revision : id \in revisions}]
        /\ calls' = [calls EXCEPT ![r] = @ + IF leader = r THEN Cardinality(reloads) ELSE 0]
        /\ UNCHANGED <<events, committed, passed, counter, apply, value, increments,
                       routes, change, lists, listed, pushed, leader, faults, excuses>>

(* Revisions **************************************************************)

\* No event, apply or save is under way.
AppliesDone ==
    /\ committed = Ids
    /\ \A r \in Replicas :
        /\ apply[r] = "idle"
        /\ saves[r] = {}
        /\ Above(r) = {}
        /\ \A p \in Polls : rows[r][p] = {}

\* incrementRevision() up to the statement that saves the counter.
Increment(r) ==
    /\ apply[r] = "idle"
    /\ MoreOperations
    /\ increments' = increments + 1
    /\ rev' = [rev EXCEPT ![r] = @ + 1]
    /\ value' = [value EXCEPT ![r] = rev[r] + 1]
    /\ apply' = [apply EXCEPT ![r] = "saving"]
    /\ excuses' = excuses \cup (IF AppliesDone THEN {} ELSE {"concurrent"})
    /\ UNCHANGED <<events, committed, Bus, counter, saves, Gateway, leader, faults>>

SaveCounter(r) ==
    /\ apply[r] = "saving"
    /\ counter' = value[r]
    /\ apply' = [apply EXCEPT ![r] = "saved"]
    /\ UNCHANGED <<events, committed, Bus, rev, value, saves, increments, Gateway, leader, faults, excuses>>

\* The event carries the revision that is in memory by now.
PublishRevision(r) ==
    /\ apply[r] = "saved"
    /\ Publish(r, "revision", rev[r])
    /\ apply' = [apply EXCEPT ![r] = "idle"]
    /\ value' = [value EXCEPT ![r] = 0]
    /\ UNCHANGED <<committed, Bus, rev, counter, saves, increments, Gateway, leader, faults, excuses>>

\* The statement of the counter is rejected, whether or not it took effect:
\* the revision stays in memory and no event tells of it.
SaveCounterRejected(r) ==
    /\ apply[r] = "saving"
    /\ counter' \in {counter, value[r]}
    /\ apply' = [apply EXCEPT ![r] = "idle"]
    /\ value' = [value EXCEPT ![r] = 0]
    /\ excuses' = excuses \cup {"revision lost"}
    /\ UNCHANGED <<events, committed, Bus, rev, saves, increments, Gateway, leader, faults>>

\* The insert of the event is rejected, with the revision saved.
PublishRevisionRejected(r) ==
    /\ apply[r] = "saved"
    /\ apply' = [apply EXCEPT ![r] = "idle"]
    /\ value' = [value EXCEPT ![r] = 0]
    /\ excuses' = excuses \cup {"revision lost"}
    /\ UNCHANGED <<events, committed, Bus, rev, counter, saves, increments, Gateway, leader, faults>>

\* Mutant: what is saved is the revision in memory plus one.
SaveHandledNext(r) ==
    \E v \in saves[r] :
        /\ counter' = v + 1
        /\ saves' = [saves EXCEPT ![r] = @ \ {v}]
        /\ UNCHANGED <<events, committed, Bus, rev, apply, value, increments, Gateway, leader, faults, excuses>>

\* The save of a handler; several of them may be in flight.
SaveHandled(r) ==
    \E v \in saves[r] :
        /\ counter' = v
        /\ saves' = [saves EXCEPT ![r] = @ \ {v}]
        /\ UNCHANGED <<events, committed, Bus, rev, apply, value, increments, Gateway, leader, faults, excuses>>

\* A save of a handler that is rejected is swallowed.
SaveHandledRejected(r) ==
    \E v \in saves[r] :
        /\ counter' \in {counter, v}
        /\ saves' = [saves EXCEPT ![r] = @ \ {v}]
        /\ UNCHANGED <<events, committed, Bus, rev, apply, value, increments, Gateway, leader, faults, excuses>>

(* Routes *****************************************************************)

\* What r does for k goes from one stage to the next.
Goes(r, k, from, to) ==
    /\ change[r][k] = from
    /\ change' = [change EXCEPT ![r][k] = to]

\* Mutant: a follower that changes the routes tells nobody.
ChangeRoutesUntold(r) ==
    /\ MoreOperations
    /\ routes' = routes + 1
    /\ Goes(r, "routes", "idle", IF leader = r THEN "listing" ELSE "idle")
    /\ UNCHANGED <<events, committed, Bus, Revision, calls, lists, listed, pushed, leader, faults, excuses>>

\* The statement that changes the routes, and the test for the leader.
ChangeRoutes(r) ==
    /\ MoreOperations
    /\ routes' = routes + 1
    /\ Goes(r, "routes", "idle", IF leader = r THEN "listing" ELSE "publishing")
    /\ UNCHANGED <<events, committed, Bus, Revision, calls, lists, listed, pushed, leader, faults, excuses>>

List(r, k) ==
    /\ Goes(r, k, "listing", "pushing")
    /\ listed' = [listed EXCEPT ![r][k] = routes]
    /\ UNCHANGED <<events, committed, Bus, Revision, routes, calls, lists, pushed, leader, faults, excuses>>

\* syncRoutes() replaces what Traefik has by what was listed.
Push(v) ==
    /\ pushed' = v
    /\ excuses' = excuses \cup (IF v < pushed THEN {"overtaken"} ELSE {})

PushList(r, k) ==
    /\ Goes(r, k, "pushing", "publishing")
    /\ Push(listed[r][k])
    /\ listed' = [listed EXCEPT ![r][k] = 0]
    /\ UNCHANGED <<events, committed, Bus, Revision, routes, calls, lists, leader, faults>>

\* A push (or the list before it) that fails rejects the whole change: no
\* event is published.
PushFails(r, k) ==
    /\ MoreOperations
    /\ faults' = faults + 1
    /\ Goes(r, k, "pushing", "idle")
    /\ listed' = [listed EXCEPT ![r][k] = 0]
    /\ excuses' = excuses \cup {"push failed"}
    /\ UNCHANGED <<events, committed, Bus, Revision, routes, calls, lists, pushed, leader>>

PublishChange(r, k) ==
    /\ Goes(r, k, "publishing", "idle")
    /\ Publish(r, k, 0)
    /\ UNCHANGED <<committed, Bus, Revision, routes, calls, lists, listed, pushed, leader, faults, excuses>>

\* The insert of the event is rejected: the routes stay changed, nobody hears.
PublishChangeRejected(r, k) ==
    /\ Goes(r, k, "publishing", "idle")
    /\ excuses' = excuses \cup (IF k = "routes" THEN {"change untold"} ELSE {})
    /\ UNCHANGED <<events, committed, Bus, Revision, routes, calls, lists, listed, pushed, leader, faults>>

\* publishRoutesIfLeader() of an event handler lists the routes...
ListForEvent(r) ==
    /\ calls[r] > 0
    /\ calls' = [calls EXCEPT ![r] = @ - 1]
    /\ lists' = [lists EXCEPT ![r] = @ \cup {routes}]
    /\ UNCHANGED <<events, committed, Bus, Revision, routes, change, listed, pushed, leader, faults, excuses>>

\* ...and pushes them.
PushForEvent(r) ==
    \E v \in lists[r] :
        /\ Push(v)
        /\ lists' = [lists EXCEPT ![r] = @ \ {v}]
        /\ UNCHANGED <<events, committed, Bus, Revision, routes, change, calls, listed, leader, faults>>

\* A push that fails there is swallowed.
PushForEventFails(r) ==
    \E v \in lists[r] :
        /\ MoreOperations
        /\ faults' = faults + 1
        /\ lists' = [lists EXCEPT ![r] = @ \ {v}]
        /\ excuses' = excuses \cup {"push failed"}
        /\ UNCHANGED <<events, committed, Bus, Revision, routes, change, calls, listed, pushed, leader>>

(* Faults *****************************************************************)

\* The leader finds its lease run out or taken, and follows: nobody leads until
\* a replica finds that it does.
StepDown(r) ==
    /\ leader = r
    /\ leader' = NoReplica
    /\ UNCHANGED <<events, committed, Bus, Revision, Gateway, faults, excuses>>

\* Another replica leads from now on, and its onBecameLeader() starts.
BecomeLeader(r) ==
    /\ leader # r
    /\ MoreOperations
    /\ faults' = faults + 1
    /\ leader' = r
    /\ Goes(r, "leader", "idle", "listing")
    /\ UNCHANGED <<events, committed, Bus, Revision, routes, calls, lists, listed, pushed, excuses>>

\* It does not run when the replica takes the lease by its own write.
BecomeLeaderUnnoticed(r) ==
    /\ leader # r
    /\ MoreOperations
    /\ faults' = faults + 1
    /\ leader' = r
    /\ excuses' = excuses \cup {"unnoticed"}
    /\ UNCHANGED <<events, committed, Bus, Revision, Gateway>>

\* A process ends and another starts under the same id: it loads the counter,
\* begins to read events from the first one, and does not lead yet.
Restart(r) ==
    /\ MoreOperations
    /\ faults' = faults + 1
    /\ cursor' = [cursor EXCEPT ![r] = 0]
    /\ rows' = [rows EXCEPT ![r] = [p \in Polls |-> {}]]
    /\ handled' = [handled EXCEPT ![r] = {}]
    /\ passed' = [passed EXCEPT ![r] = {}]
    /\ rev' = [rev EXCEPT ![r] = counter]
    /\ apply' = [apply EXCEPT ![r] = "idle"]
    /\ saves' = [saves EXCEPT ![r] = {}]
    /\ leader' = IF leader = r THEN NoReplica ELSE leader
    /\ change' = [change EXCEPT ![r] = [k \in Changes |-> "idle"]]
    /\ listed' = [listed EXCEPT ![r] = [k \in Changes |-> 0]]
    /\ value' = [value EXCEPT ![r] = 0]
    /\ calls' = [calls EXCEPT ![r] = 0]
    /\ lists' = [lists EXCEPT ![r] = {}]
    /\ excuses' = excuses \cup {"restart"}
    /\ UNCHANGED <<events, committed, counter, increments, routes, pushed>>

Progress(r) ==
    \/ \E p \in Polls : Query(r, p) \/ Handle(r, p)
    \/ SaveCounter(r) \/ PublishRevision(r) \/ SaveHandled(r)
    \/ \E k \in Changes : List(r, k) \/ PushList(r, k) \/ PublishChange(r, k)
    \/ ListForEvent(r) \/ PushForEvent(r)

\* Statements whose promise is rejected.
Rejected(r) ==
    \/ SaveCounterRejected(r) \/ PublishRevisionRejected(r) \/ SaveHandledRejected(r)
    \/ \E k \in Changes : PublishChangeRejected(r, k)

Next ==
    \/ \E id \in Ids : Commit(id)
    \/ \E r \in Replicas :
        \/ Progress(r) \/ Rejected(r)
        \/ Increment(r) \/ ChangeRoutes(r)
        \/ PushForEventFails(r) \/ \E k \in Changes : PushFails(r, k)
        \/ StepDown(r) \/ BecomeLeader(r) \/ BecomeLeaderUnnoticed(r) \/ Restart(r)

Spec == Init /\ [][Next]_vars

(***************************************************************************)
(* Fairness: inserts commit, timers fire and every call that waits for an  *)
(* answer gets it.                                                         *)
(***************************************************************************)
Fairness ==
    /\ WF_vars(\E id \in Ids : Commit(id))
    /\ \A r \in Replicas :
        /\ \A p \in Polls : WF_vars(Query(r, p)) /\ WF_vars(Handle(r, p))
        /\ WF_vars(\/ SaveCounter(r) \/ SaveCounterRejected(r)
                   \/ PublishRevision(r) \/ PublishRevisionRejected(r))

FairSpec == Spec /\ Fairness

(***************************************************************************)
(* Properties                                                              *)
(***************************************************************************)

\* The values that the variables range over.
TypeOK ==
    /\ \A id \in Ids : events[id].kind \in Kinds /\ events[id].source \in Replicas
    /\ committed \subseteq Ids
    /\ cursor \in [Replicas -> Ids \cup {0}]
    /\ \A r \in Replicas : \A p \in Polls : rows[r][p] \subseteq committed
    /\ rev \in [Replicas -> Nat]
    /\ counter \in Nat
    /\ apply \in [Replicas -> {"idle", "saving", "saved"}]
    /\ leader \in Replicas \cup {NoReplica}
    /\ routes \in Nat
    /\ pushed \in 0 .. routes
    /\ change \in [Replicas -> [Changes -> {"idle", "listing", "pushing", "publishing"}]]
    /\ calls \in [Replicas -> Nat]
    /\ increments + routes + faults <= MaxOperations

\* A replica that has read past an event of another one has handled it, unless
\* the event's insert was still uncommitted when it read a higher id: the
\* cursor loses nothing else, however polls overlap (ControlPlaneSync.ts:157).
NothingSkipped ==
    \A r \in Replicas : \A id \in Foreign(r, committed, Kinds) :
        id <= cursor[r] => id \in handled[r] \cup passed[r]

\* With every event handled, the replicas and the saved counter agree on the
\* number of applies, provided no apply began before the others had heard of
\* the one before, no replica restarted, and neither the save nor the event of
\* an apply was rejected after its increment in memory
\* (ControlPlaneService.ts:1067, ControlPlaneSyncSubscribers.ts:54).
RevisionsAgree ==
    AppliesDone /\ excuses \cap {"passed", "concurrent", "restart", "revision lost"} = {} =>
        counter = increments /\ \A r \in Replicas : rev[r] = increments

\* With nothing under way and a leader, Traefik has the routes of the database,
\* whoever changed them, whoever leads and however long nobody did, unless a
\* push failed or was overtaken by a newer one, the event of a change was
\* rejected or passed over, a replica restarted, or the leader was not told
\* that it leads (GatewayRouteService.ts:192).
GatewayAgrees ==
    (/\ AppliesDone
     /\ \A r \in Replicas : change[r] = [k \in Changes |-> "idle"] /\ calls[r] = 0 /\ lists[r] = {}
     /\ leader # NoReplica
     /\ excuses \subseteq {"concurrent", "revision lost"}) => pushed = routes

\* Again and again a replica has handled every committed event of the others,
\* also after a restart, but for those it passed over.
EventsDelivered ==
    []<>(\A r \in Replicas : Foreign(r, committed, Kinds) \subseteq handled[r] \cup passed[r])
=============================================================================
