------------------------------- MODULE NodeLife -------------------------------
(***************************************************************************)
(* One provisioned node: its provision record, its machine in the cloud    *)
(* (the first one, of which alone the record keeps the id, if the launch   *)
(* asks for several) and its row among the nodes.  NodeProvisionService    *)
(* launches, polls and terminates the machine, POST /nodes/register writes *)
(* the row and may complete the record, heartbeats keep the row online,    *)
(* and the connectivity watchdog marks it offline.  Each of them saves a   *)
(* whole record that it has read some awaits before.                       *)
(***************************************************************************)
EXTENDS Integers, FiniteSets

CONSTANTS
    Launch,       \* the job that serves POST /nodes/provision
    Polls,        \* passes of pollActiveProvisions() that may overlap
    Terminations, \* requests that terminate the provision
    Requests,     \* requests of the node that may be in progress together
    Sweeps,       \* sweeps of the watchdog that may overlap
    MaxFaults,    \* bound on crashes, failed statements and failed machines
    MaxSteps      \* bound on polls, sweeps and requests that are started

ASSUME NodeAssumption ==
    /\ Launch \notin Polls \cup Terminations \cup Requests \cup Sweeps
    /\ Polls \cap (Terminations \cup Requests \cup Sweeps) = {}
    /\ Terminations \cap (Requests \cup Sweeps) = {}
    /\ Requests \cap Sweeps = {}
    /\ MaxFaults \in Nat
    /\ MaxSteps \in Nat

Writers == {Launch} \cup Polls \cup Terminations \cup Requests
Jobs == Writers \cup Sweeps

VARIABLES
    status,  \* status of the provision record
    known,   \* the record has the machine's cloudInstanceId
    machine, \* the machine in the cloud
    node,    \* status of the node's row
    stale,   \* the row's last heartbeat is older than the threshold
    pc,      \* pc[j]: where job j is
    copy,    \* copy[p]: the status in the record that poll p has read
    noId,    \* requests that have read a record without a cloudInstanceId
    seen,    \* seen[j]: the machine's state, or the row's status, that j was told
    faults,  \* number of faults so far
    steps,   \* number of polls, sweeps and requests started so far
    dated,   \* history: jobs whose copy of the record somebody has overwritten
    lost,    \* history: the last save was made from such a copy
    done,    \* history: a registration was recorded
    excuses  \* history: what may leave the record or the row behind

record == <<status, known>>
jobs == <<pc, copy, noId, seen>>
history == <<dated, lost, done, excuses>>
vars == <<record, machine, node, stale, jobs, faults, steps, history>>

Init ==
    /\ status = "none"
    /\ known = FALSE
    /\ machine = "none"
    /\ node = "none"
    /\ stale = FALSE
    /\ pc = [j \in Jobs |-> "idle"]
    /\ copy = [p \in Polls |-> "none"]
    /\ noId = {}
    /\ seen = [j \in Polls \cup Requests |-> "none"]
    /\ faults = 0
    /\ steps = 0
    /\ dated = {}
    /\ lost = FALSE
    /\ done = FALSE
    /\ excuses = {}

InFlight == {"pending", "launching", "bootstrapping"}

Start(j, to) ==
    /\ pc[j] = "idle"
    /\ steps < MaxSteps
    /\ steps' = steps + 1
    /\ pc' = [pc EXCEPT ![j] = to]

Go(j, from, to) ==
    /\ pc[j] = from
    /\ pc' = [pc EXCEPT ![j] = to]

\* Jobs that have a record in hand to save.
Holders ==
    {j \in Writers : pc[j] \notin {"idle", "over"} /\ (j \in Requests => pc[j] = "read")}

\* saveNodeProvision(): an upsert of every field of the record in hand.
Save(j, to, id) ==
    /\ status' = to
    /\ known' = id
    /\ lost' = (j \in dated)
    /\ dated' = Holders \ {j}
    /\ excuses' = IF j \in dated THEN excuses \cup {"lost update"} ELSE excuses

Fault(excuse) ==
    /\ faults < MaxFaults
    /\ faults' = faults + 1
    /\ excuses' = excuses \cup {excuse}

(* Launching **************************************************************)

Provision ==
    /\ status = "none"
    /\ Go(Launch, "idle", "calling")
    /\ Save(Launch, "pending", FALSE)
    /\ UNCHANGED <<machine, node, stale, copy, noId, seen, faults, steps, done>>

Launched ==
    /\ Go(Launch, "calling", "launched")
    /\ machine' = "pending"
    /\ UNCHANGED <<record, node, stale, copy, noId, seen, faults, steps, history>>

\* There may be a machine all the same: the answer was lost, or names none.
LaunchFails ==
    /\ Go(Launch, "calling", "failing")
    /\ Fault("launch")
    /\ machine' \in {machine, "pending"}
    /\ UNCHANGED <<record, node, stale, copy, noId, seen, steps, dated, lost, done>>

SaveLaunching ==
    /\ Go(Launch, "launched", "launching")
    /\ Save(Launch, "launching", TRUE)
    /\ UNCHANGED <<machine, node, stale, copy, noId, seen, faults, steps, done>>

\* Mutant: the record that is saved last is built from the first one.
SaveBootstrappingFromFirst ==
    /\ Go(Launch, "launching", "over")
    /\ Save(Launch, "bootstrapping", FALSE)
    /\ UNCHANGED <<machine, node, stale, copy, noId, seen, faults, steps, done>>

SaveBootstrapping ==
    /\ Go(Launch, "launching", "over")
    /\ Save(Launch, "bootstrapping", TRUE)
    /\ UNCHANGED <<machine, node, stale, copy, noId, seen, faults, steps, done>>

\* A save that fails is caught like a launch that fails, ...
SaveFails ==
    /\ pc[Launch] \in {"launched", "launching"}
    /\ pc' = [pc EXCEPT ![Launch] = "failing"]
    /\ Fault("database")
    /\ UNCHANGED <<record, machine, node, stale, copy, noId, seen, steps, dated, lost, done>>

\* ... and the record that is saved then is the first one, without an id.
SaveFailed ==
    /\ Go(Launch, "failing", "over")
    /\ Save(Launch, "failed", FALSE)
    /\ UNCHANGED <<machine, node, stale, copy, noId, seen, faults, steps, done>>

(* Polling ****************************************************************)

Poll(p) ==
    /\ Start(p, "asking")
    /\ status \in InFlight
    /\ known
    /\ copy' = [copy EXCEPT ![p] = status]
    /\ UNCHANGED <<record, machine, node, stale, noId, seen, faults, history>>

Ask(p) ==
    /\ Go(p, "asking", "answered")
    /\ seen' = [seen EXCEPT ![p] = machine]
    /\ UNCHANGED <<record, machine, node, stale, copy, noId, faults, steps, history>>

\* Mutant: the state of the machine decides alone.
MappedAnew(s, state) ==
    CASE state \in {"failed", "terminated", "stopped"} -> "failed"
      [] state = "pending" -> "launching"
      [] OTHER -> "bootstrapping"

\* mapMachineStatusToProvisionStatus().
Mapped(s, state) ==
    CASE state = "failed" -> "failed"
      [] state \in {"terminated", "stopped"} -> IF s = "registered" THEN s ELSE "failed"
      [] state = "pending" -> IF s = "pending" THEN "launching" ELSE s
      [] OTHER -> IF s \in {"pending", "launching"} THEN "bootstrapping" ELSE s

PollSaves(p) ==
    LET next == Mapped(copy[p], seen[p])
    IN  /\ Go(p, "answered", "idle")
        /\ copy' = [copy EXCEPT ![p] = "none"]
        /\ seen' = [seen EXCEPT ![p] = "none"]
        /\ IF next # copy[p] THEN Save(p, next, TRUE)
                             ELSE dated' = dated \ {p} /\ UNCHANGED <<record, lost, excuses>>
        /\ UNCHANGED <<machine, node, stale, noId, faults, steps, done>>

(* Terminating ************************************************************)

\* Without an id the request is refused.
Terminate(t) ==
    /\ Start(t, "terminating")
    /\ known
    /\ UNCHANGED <<record, machine, node, stale, copy, noId, seen, faults, history>>

TerminateCall(t) ==
    /\ Go(t, "terminating", "terminated")
    /\ machine' = "terminated"
    /\ UNCHANGED <<record, node, stale, copy, noId, seen, faults, steps, history>>

TerminateSaves(t) ==
    /\ Go(t, "terminated", "idle")
    /\ Save(t, "terminated", TRUE)
    /\ UNCHANGED <<machine, node, stale, copy, noId, seen, faults, steps, done>>

(* Registration and heartbeats ********************************************)

\* Other requests of the node's row that are in progress.
Meets(j) ==
    IF \E other \in (Requests \cup Sweeps) \ {j} : pc[other] # "idle"
    THEN excuses \cup {"overlap"} ELSE excuses

\* A registration reads whether there is a row; one with a provisionId, which
\* the route takes and the agent does not send, goes on to the record.
Register(q, to) ==
    /\ machine = "running"
    /\ Start(q, to)
    /\ seen' = [seen EXCEPT ![q] = node]
    /\ excuses' = Meets(q)
    /\ UNCHANGED <<record, machine, node, stale, copy, noId, faults, dated, lost, done>>

SaveNode(q) ==
    /\ node' = IF seen[q] = "none" THEN "registering" ELSE "online"
    /\ stale' = FALSE
    /\ \/ Go(q, "registering", "idle")
       \/ Go(q, "correlating", "completing")
    /\ seen' = [seen EXCEPT ![q] = "none"]
    /\ UNCHANGED <<record, machine, copy, noId, faults, steps, history>>

ReadProvision(q) ==
    /\ Go(q, "completing", "read")
    /\ noId' = IF known THEN noId ELSE noId \cup {q}
    /\ UNCHANGED <<record, machine, node, stale, copy, seen, faults, steps, history>>

\* Mutant: a registration only ends the launch.
SaveRegisteredBooted(q) ==
    /\ Go(q, "read", "idle")
    /\ Save(q, "bootstrapping", q \notin noId)
    /\ noId' = noId \ {q}
    /\ done' = TRUE
    /\ UNCHANGED <<machine, node, stale, copy, seen, faults, steps>>

SaveRegistered(q) ==
    /\ Go(q, "read", "idle")
    /\ Save(q, "registered", q \notin noId)
    /\ noId' = noId \ {q}
    /\ done' = TRUE
    /\ UNCHANGED <<machine, node, stale, copy, seen, faults, steps>>

\* updateNodeHeartbeat() reads the row, and writes the fields that changed.  The
\* route takes any status; the agent sends "online" (cp_client.zig:163).
Heartbeat(q) ==
    /\ machine = "running"
    /\ node # "none"
    /\ Start(q, "beating")
    /\ seen' = [seen EXCEPT ![q] = node]
    /\ excuses' = Meets(q)
    /\ UNCHANGED <<record, machine, node, stale, copy, noId, faults, dated, lost, done>>

SaveHeartbeat(q) ==
    /\ Go(q, "beating", "idle")
    /\ node' = IF seen[q] = "online" THEN node ELSE "online"
    /\ stale' = FALSE
    /\ seen' = [seen EXCEPT ![q] = "none"]
    /\ UNCHANGED <<record, machine, copy, noId, faults, steps, history>>

Silence ==
    /\ node # "none"
    /\ ~stale
    /\ stale' = TRUE
    /\ UNCHANGED <<record, machine, node, jobs, faults, steps, history>>

(* The watchdog ***********************************************************)

\* Mutant: a node is swept whether its heartbeat is stale or not.
SweptAlways == node = "online"

Swept == node = "online" /\ stale

Sweep(w) ==
    /\ Swept
    /\ Start(w, "listed")
    /\ excuses' = Meets(w)
    /\ UNCHANGED <<record, machine, node, stale, copy, noId, seen, faults, dated, lost, done>>

\* markOfflineWhenAgentUnreachable(): the row is read again, but not the time of
\* its last heartbeat.
MarkOffline(w) ==
    /\ Go(w, "listed", "idle")
    /\ node' = IF node = "registering" THEN node ELSE "offline"
    /\ UNCHANGED <<record, machine, stale, copy, noId, seen, faults, steps, history>>

(***************************************************************************)

\* The machine boots, or stops or fails on its own.
Boot ==
    /\ machine = "pending"
    /\ machine' = "running"
    /\ UNCHANGED <<record, node, stale, jobs, faults, steps, history>>

Break(state) ==
    /\ machine \in {"pending", "running"}
    /\ machine' = state
    /\ Fault("machine")
    /\ UNCHANGED <<record, node, stale, jobs, steps, dated, lost, done>>

\* A job is cut off: its replica ends, or a call or statement of it fails.
Crash(j) ==
    /\ pc[j] \notin {"idle", "over"}
    /\ pc' = [pc EXCEPT ![j] = IF j = Launch THEN "over" ELSE "idle"]
    /\ Fault("crash")
    /\ copy' = [p \in Polls |-> IF p = j THEN "none" ELSE copy[p]]
    /\ seen' = [k \in Polls \cup Requests |-> IF k = j THEN "none" ELSE seen[k]]
    /\ noId' = noId \ {j}
    /\ dated' = dated \ {j}
    /\ UNCHANGED <<record, machine, node, stale, steps, lost, done>>

Next ==
    \/ Provision \/ Launched \/ LaunchFails \/ SaveLaunching \/ SaveBootstrapping
    \/ SaveFails \/ SaveFailed
    \/ \E p \in Polls : Poll(p) \/ Ask(p) \/ PollSaves(p)
    \/ \E t \in Terminations : Terminate(t) \/ TerminateCall(t) \/ TerminateSaves(t)
    \/ \E q \in Requests :
        \/ Register(q, "registering") \/ Register(q, "correlating") \/ SaveNode(q)
        \/ ReadProvision(q) \/ SaveRegistered(q) \/ Heartbeat(q) \/ SaveHeartbeat(q)
    \/ \E w \in Sweeps : Sweep(w) \/ MarkOffline(w)
    \/ Silence \/ Boot
    \/ \E state \in {"stopped", "failed"} : Break(state)
    \/ \E j \in Jobs : Crash(j)

Spec == Init /\ [][Next]_vars

(***************************************************************************)
(* Properties                                                              *)
(***************************************************************************)

\* The values that the variables range over.
TypeOK ==
    /\ status \in InFlight \cup {"none", "registered", "failed", "terminated"}
    /\ machine \in {"none", "pending", "running", "stopped", "failed", "terminated"}
    /\ node \in {"none", "registering", "online", "offline"}
    /\ known => machine # "none"
    /\ status = "none" => pc[Launch] = "idle" /\ ~known
    /\ dated \subseteq Writers
    /\ faults \in 0 .. MaxFaults
    /\ steps \in 0 .. MaxSteps

AtRest == \A j \in Jobs : pc[j] \in {"idle", "over"}

Rank(s) ==
    CASE s = "none" -> 0 [] s = "pending" -> 1 [] s = "launching" -> 2 [] s = "bootstrapping" -> 3
      [] s = "registered" -> 4 [] s = "failed" -> 5 [] s = "terminated" -> 6

\* The status of a record only goes back when a save overwrites one that its
\* writer has not seen, or when a node registers after all
\* (NodeProvisionService.ts:120-129, 195-207, 294-300, 323-330).
NeverBack ==
    [][Rank(status') < Rank(status) =>
        lost' \/ (status' = "registered" /\ status \in {"failed", "terminated"})]_vars

\* The machine of a launch of one can be found through its record while it may
\* be running, at rest and unless a save was lost, failed or never made, or the
\* launch failed and left a machine nevertheless
\* (NodeProvisionService.ts:178-209, 235-244, 286).
MachineKnown ==
    AtRest /\ excuses \cap {"lost update", "database", "launch", "crash"} = {}
        /\ machine \in {"pending", "running"} => known

\* A record is not in flight any more once a registration has been recorded,
\* unless a save was lost: no poll would move it on
\* (NodeProvisionService.ts:323, 408-411).
RegisteredSettles == done /\ status \in InFlight => "lost update" \in excuses

\* At rest, a node with a fresh heartbeat is not offline, unless requests that
\* write its row overlapped
\* (NodeAgentConnectivityWatchdog.ts:118-129, ControlPlaneStore.ts:108-140).
FreshIsOnline == AtRest /\ ~stale /\ "overlap" \notin excuses => node # "offline"
==============================================================================
