# Naulite: TLA+ models and proofs

Naulite deploys services to a set of nodes.  Control-plane replicas share a
PostgreSQL database, one of them leads, and an agent on every node turns plans
into containers.  This directory holds TLA+ modules of the parts where the
order of events matters, the TLC configurations that check them, and TLAPS
proofs.  Every definition is translated from the source; `PROJECT.json` gives
the lines (`map`), the runs, a mutant for each property, the hazards and the
findings.  Paths below are relative to `src/packages/control-plane/src/` unless
they say otherwise.

    tlc -workers 2 -config RolloutRun.cfg MCRolloutRun
    tlapm LeaderLeaseProofs.tla

## 1. The system

| Component | State | Operations | Talks to |
|---|---|---|---|
| Leader election (`services/LeaderElection.ts`, `auth/LeaderPreHandlers.ts`) | one row of `control_plane_leaders`; in each replica `isCurrentLeader`, `leaderInstanceId`, `wasLeader` | `renewLease()` on a timer, `isLeader()`, `stop()`, `requireLeader()` | database; everything that is leader-only |
| Pipeline runs (`services/PipelineRunService.ts`) | rows with status, gate and pending plan; steps, logs, events | create, `markRunning`, `updateRunFields`, `completeRun`, `emitEvent` | written by applies, watches, requests |
| Playbook (`services/ApplyPlaybookRunner.ts`, `ApplyStageRunner.ts`) | the plan of a loop, in memory; stored in the run at a gate | `executePlan`, `continueRun`, `abortRun` | agents, runs |
| Apply (`services/ApplyService.ts`) | services, instances, volumes, revisions | `execute`, `enqueue`, `applyDispatchResults` | planner, scheduler, dispatcher, watch |
| Planner, scheduler (`orchestration/`) | none | differences, operations, placement | apply, reconciler |
| Rollout watch (`services/RolloutWatcher.ts`) | timers in memory by run | `watch`, `poll` | instances, runs |
| Reconciler (`services/InstanceReconcilerService.ts`) | `dispatchAttempts`, `nextDispatchAt`, `status` of instances | poll on the leader, node registration, by hand | dispatcher, placement |
| Lifecycle routes (`services/InstanceLifecycleService.ts`) | instance rows | stop, start, restart, remove | dispatcher |
| Dispatcher (`services/AgentDispatcher.ts`) | none | one POST per node, bounded in time | agents |
| Agent (`src/packages/agent/src`) | containers of its node | `applyPlan`, status reports, tasks | Docker; `routes/instances/[id]/status.ts` |
| Service status (`services/ServiceStatusService.ts`) | status of services | `syncFromInstances`, `syncAll` | instances |
| Nodes (`routes/nodes/`, `services/NodeAgentConnectivity*.ts`, `NodeHealthWatcher.ts`) | node rows, health maps in memory | register, heartbeat, sweep | reconciler, provisioning |
| Provisioning (`services/NodeProvisionService.ts`) | a record per provision, machines in a cloud | provision, poll, terminate, complete | cloud, registration |
| Sandboxes (`services/Sandbox*.ts`, `src/packages/agent/src/sandbox_executor.zig`) | templates, rows of clones, clones in Incus | build, resize, bake, replenish | agents |
| Revision and events (`services/ControlPlaneSync*.ts`, `ClusterStateService.ts`) | `control_plane_events`, a cursor and `applyRevision` in each replica | publish, poll, subscribers | all replicas |
| Gateway routes (`services/GatewayRouteService.ts`) | `gateway_routes`, what Traefik was sent | change, push, reload | event bus, election |
| Migrations and start-up (`database/MigrationRunner.ts`, `Server.ts`) | `schema_migrations`, an advisory lock | run, wait | election |
| Schedulers (`modules/backup/BackupScheduler.ts`, `modules/log-rotation/LogRotationScheduler.ts`, `modules/functions/FunctionScheduler.ts`) | runs in the database; in each replica the minute a function was last dispatched for | `tick()` once a minute on the leader; `completeRun()`, `invoke()` | agents, destinations, election |
| Builds and artifacts, GitOps, notifications, secrets, tenants, admin, registry, overlay network | rows of their own | see `components` in `PROJECT.json` | external services |

How they interact.  Replicas share only the database and call agents over HTTP;
a replica's handlers, timers and background jobs are threads that interleave at
every `await`.  Few statements are conditional on what they overwrite, there are
hardly any transactions, and a `row.update()` of Sequelize writes only the
fields that differ from what was read.  Agents report to the control plane
*while* they carry out a plan, and answer the request that carried it only at
the end.

What is hard, and what makes each part correct:

- *Election*: statements of several replicas interleave, replies are lost,
  clocks differ, the flag is cached.  Correct: leaders of different tenures
  only, and not two for long; a punctual leader is kept; a dead one is replaced.
- *Runs*: requests and jobs update a row they read earlier; replicas crash; a
  rescue block changes a plan that a gate stores.  Correct: gates hold, success
  is earned, runs end.
- *Rollout*: polls overlap, instances change or vanish, statements fail.
  Correct: success means readiness, and the time-out bounds the watch.
- *Instances*: the reconciler acts on lists that are old when it gets to their
  end; reports overtake answers; requests give up while the agent goes on.
  Correct: `running` is true, stuck instances get tried, not for ever.
- *Service status*: derived from old reads.  Correct: it converges.
- *Apply*: single statements without a transaction, computed from one read;
  applies overlap and are cut off.  Correct: applies of one manifest end with its
  replicas, also after one was cut off, and containers follow the rows.
- *Revision, routes*: events are read out of the order in which they commit; a
  counter lives in every replica's memory; only the leader pushes.  Correct: no
  event is lost but in one way, replicas and Traefik agree once all is handled.
- *Start-up*: the lease lapses, replicas crash and are of different versions.
  Correct: nobody serves an unmigrated database, one replica migrates at a time.
- *Nodes, provisions*: every job saves the whole record that it read some awaits
  before.  Correct: a record moves forward, no machine is lost, a node that sends
  heartbeats is online.
- *Sandboxes*: a warm clone is found and later marked as taken; the pool is
  filled by a count that was taken before.  Correct: a clone is there when it is
  found and nobody uses it, none is left behind, the pool is neither short nor
  too large.
- *Schedulers*: a tick checks, inserts and dispatches one job after the other and
  may last longer than the minute until the next; leaders change; agents work on
  after the control plane gave up.  Correct: a job runs once a minute, no job keeps
  another from its run, a run's status says what became of it.

`PROJECT.json` lists the hazards line by line, also those nothing covers yet.

## 2. The modules

| Module | What it is | Extends |
|---|---|---|
| `LeaderLease` | election, guard, drain, crash, restart | |
| `TimedLeaderLease` | the same under a renewal schedule | `LeaderLease` |
| `LeaderLeaseProofs` | theorems of both | `TimedLeaderLease`, `TLAPS` |
| `PipelineRun` | the row of a run and its writers' two statements | |
| `PlaybookRun` | apply with a playbook: job, gates, requests, crashes | `PipelineRun` |
| `PlaybookRunProofs` | theorems of `PlaybookRun` and `SerialPlaybookRun` | `SerialPlaybookRun`, `TLAPS` |
| `GatedPlan` | abstract: a sequential plan with gates and rescue blocks | |
| `SerialPlaybookRun` | `PlaybookRun` with operators who wait, shown to implement `GatedPlan`, or who race | `PlaybookRun` |
| `RolloutRun` | apply without one: dispatch results, polls, time-out | `PipelineRun` |
| `RolloutRunProofs` | theorems of `RolloutRun` | `RolloutRun`, `TLAPS` |
| `InstanceLife`, `InstanceLifeProofs` | one instance: requests, plans, agents, reports, faults; theorems | `TLAPS` |
| `ServiceStatus` | the status of one service and its syncs | |
| `ApplyState` | applies: planner, scheduler, statements, dispatch, crashes | |
| `EventBus`, `EventBusProofs` | events, cursors, the revision, routes and pushes, restarts; theorems | `TLAPS` |
| `StartUp` | start-up and migrations of replicas of two versions | |
| `DatabaseProofs` | theorems of `ApplyState` and `StartUp` | both, `TLAPS` |
| `NodeLife` | a provision record, its machine, the node's row | |
| `SandboxPool` | builds and the warm pool of a template | |
| `BackgroundProofs` | theorems of `NodeLife` and `SandboxPool` | both, `TLAPS` |
| `CronRuns`, `CronRunsProofs` | ticks of the cron schedulers and their runs; theorems | `TLAPS` |
| `MC...` | constants for TLC; `MCBackgroundParts` and `MCEventsAndStatus` run two modules that share no state, `NodeLife` and `SandboxPool`, `EventBus` and `ServiceStatus`, as one behaviour or the other, with the fairness of each | |

### Leader election

`renewLease()` is cut at its statements: `FindByPk`, then `Create`, `TakeOver` or
`Extend`, then `Granted` (the reply to a write that took effect) or `Reread` and
`Observe`.  `Reject` is a rejected statement, *or* one that took effect and whose
reply is lost: a write and the arrival of its reply are separate steps.  Only the
insert is inside a `try`; any other rejection ends the call in silence, which is
why the flag can outlive the row.  `now` is taken once, at the start.  `Admit` and
`Respond` are a request behind `requireLeader()`.  `holders`, `basis` and
`beliefTerm` are history: in which tenure of the row a reply was computed, and
with it the flag.

`TimedLeaderLease` adds a schedule that only restricts `Tick`: a renewal takes at
most `Latency`, and a running replica completes one that it began less than `Gap`
ago.  In the code a renewal starts every 5 s and a lease lives 15 s.

### Runs

`PipelineRun` models an update as `findByPk` (`FindRow`) and `row.update()`
(`UpdateRow`), the second leaving alone every field that the first found equal to
the new value (`Updated`).  `PlaybookRun` has the loop of `executePlan()` task by
task; the outcome of conditions and commands is open.  A plan is stored with the
registers of its tasks, which are left out: two plans that look the same may
differ in them, so `PauseAt` may write the plan also where it looks unchanged.
`AnnounceFails` is the event insert in front of the executor: it is inside the `try`,
so its rejection is a failure of the task that was not started, and is rescued or
ignored like any other (`unannounced` remembers that).
`Crash` ends the threads of a replica; the row is all that is left.  A thread that
ends without a verdict is `"cut off"`.  Two event inserts have no action of their
own: the one after a pause (`deploy.gate.awaiting`) and the one at the end of
`execute()` (`ApplyService.ts:405`).  When they are rejected, `enqueue()` completes
the run as failed, which is what an abort does to it.  `overlapped` is history: some pause was
approved by a request while another one that had found the run paused had not yet
written that it resumes it.

`RolloutRun` starts at the dispatch: `applyDispatchResults()` updates one instance
after the other (again in two statements), then the timer fires polls that may
overlap.  An instance is failed, ready, pending or gone, as the watch sees it;
`Report` and `DeleteInstance` are everything others do to it (whether a later apply or
a removal deletes a row makes no difference to the watch).  `Throw` is any statement of
the job that rejects, also in its own `completeRun()` and in the event after the watch
has begun (`Finish`); `caught` says that `enqueue()` has already caught one, since
nobody catches what its catch throws.  `Crash` ends a replica's threads and, with the
replica of the job, the timer, which lives in its memory only.

### Instances

`InstanceLife` follows one instance.  A request reads the row, decides, sends a
plan to the node it read, waits, and writes the row when it has the answer.  An
agent serves one connection at a time (`inbox`), performs the operations of a plan
in order, and posts a report after each that needs one (`report`).  Faults: a lost
report, a request that gives up (its plan stays with the agent), an agent or a
replica that restarts, a node whose heartbeats stop.  `FaultSets` says which may
happen together in a behaviour.

`updateInstance()` is a read and a write as well.  For each field it comes to one
write: when nothing differs, the statement is the read, and otherwise the write;
`Record` is that.

`ServiceStatus` has instances change under any number of syncs, each of which
reads the service, lists the instances, derives, and writes if the result differs
from what it read.

### Applies

`ApplyState` has what `execute()` does to services, rows and containers.  `Begin`
reads services and rows once and computes the diff as `Planner` does: services
gone, new, recreated because their image changed, and scaled, with the instances
to retire (`Retired`) and the ids to add (`Built`).  Rows are deleted one by one,
rows of a service are inserted in the order of their indexes (`NextInsert`) and the
service is upserted, then services are deleted and each node is sent a plan of the instances that *the map of nodes built
at the start* places there: an instance that moves with its recreation is stopped
on the new node.  `Manifests` are the versions of one manifest: the planner finds
stored services by their bare name over all manifests (`Planner.ts:50`), so the module
and its theorems are about services that no other manifest names.  `RoundRobin` is the scheduler's choice.  `Fail` is an apply that
ends anywhere: its replica ends, or an error leaves `execute()`.  The history says
which manifests were applied since all applies of one had ended (`tried`,
`settled`).

### Events, revision and routes

`EventBus` gives an event its id before its insert commits (`Publish`, `Commit`).
A poll's query (`Query`) and the handling of its rows (`Handle`, one step: the
loop has no await that anything else could change the cursor in) are apart, and
polls overlap.  `incrementRevision()` is an increment in memory, a save, and an
event; `SaveCounterRejected`, `PublishRevisionRejected` and `SaveHandledRejected` are
those statements when they are rejected, the first and the last whether or not they
took effect.  A change of routes and `onBecameLeader()` are `List`, `Push`,
`PublishChange` (or `PublishChangeRejected`: the rows are changed, nobody hears of it);
a handler lists and pushes on its own.  `PushFails` stands for the list as well as for
the push.  `StepDown` is a leader that finds its lease run out or taken, after which
nobody leads until a replica finds that it does: `BecomeLeader` is a promotion that
runs `onBecameLeader()`, `BecomeLeaderUnnoticed` one by `renewLease()`'s own write,
which calls nobody.

### Start-up

`StartUp` has `runMigrationsWithLeaderGate()` and `MigrationRunner` file by file:
look up, execute, record, under a lock of the session.  The election is reduced to
its row and flag.  `Unlock` may reach another session of the pool, which leaves
the lock where it was.  Versions are numbers of migration files.

### Nodes and provisions

`NodeLife` has each job of `NodeProvisionService` and each request of the node in
the steps between its awaits: what it reads, the call of the cloud, the save of
the whole record (`Save`).  `dated` is the set of jobs whose copy somebody has
overwritten, `lost` a save from such a copy.  A poll keeps the status that it read
(`copy`), and `Mapped` is `mapMachineStatusToProvisionStatus()`.  `LaunchFails` may
leave a machine: the answer of the cloud is lost, or names no id.  The module follows
the first machine of a launch; of a launch of several only that one has its id in the
record, so that the others are known to nobody from the start
(`NodeProvisionService.ts:205`), and no property speaks of them.  `Heartbeat` sends
"online", as the agent does (`src/packages/agent/src/cp_client.zig:163`), where the
route takes any status.  `MarkOffline` is three statements in one step (`getNode`,
`findByPk`, `update`); what an overlap with a heartbeat does there is excluded from
`FreshIsOnline` in any case.

### Sandboxes

`SandboxPool` has the builds, admins and replenishments of one template.  A warm
clone's row goes cloning, idle, running, collecting, destroyed; its clone in Incus
is separate, and is `stopped`, because the pool's clones are made with
`start: false`.  A build of a run without a warm clone makes one under a name
derived from the run (`NameOf`).  Every node has an Incus of its own: a build talks to
the node of the template (`Pinned`) or, when that is not capable, to one of its own
target (`host`), while a warm clone stays where it was made (`home`), which its row
does not say; `astray` collects the clones found from another node.  `TakeFails` is a
build that cannot save that it took a clone: its `finally` destroys the clone while
the row still says idle (`spoiled`).  `excuses` collects what else may leave things
out of order, so that properties can say exactly what keeps them in order.  Names are
taken to be distinct: the code cuts them to 63 characters, so that the warm clones of
a template with a very long id would lose the part that tells them apart.  A
replenishment that finds no agent's address returns without a word; in the model that
is a worker which is cut off.

### Schedulers

`CronRuns` has the three schedulers that work alike, one of them in each behaviour
(`kind`).  `Tick` is an interval that fires on a replica that leads; any may, since
the flag is cached, and nothing keeps it from firing while an older tick lasts.
`Skip` and `Take` come to one due job: `HasRecentRun` asks the database for a run
that is as young as the tick's minute, `Remembers` asks the map in the replica's
memory, which is written at once.  `Insert`, `Dispatch`, `Answer` and what follows
are the awaits of one run; `GiveUp` is the agent's time-out, after which the agent
goes on (`AgentWorks`).  A function is invoked by its name, and `invoke()` takes the
first row that has it: `named` says which functions share a name (two manifests may
use the same), `Insert` takes any row of the name, since nothing orders the list, and
`NotInvocable` is a first row that is no function with a schedule.  `ran` is the job
whose row the run was inserted for.  `Throw` ends a tick: an error of a backup or rotation after
its insert is caught and recorded, one of a function is recorded and thrown on.
Due jobs are due every minute, which is the hard case for "once".  `met`, `reset`,
`reasons` and `unserved` are history: which ticks overlapped, who was restarted,
what ended a tick early.  The fourth scheduler, which bakes sandboxes, keeps the same
kind of map; what a bake does is in `SandboxPool`.

## 3. Runs and what they show

| Run | Bounds | Shows |
|---|---|---|
| `leader_lease_timed` | 2 replicas, one of them mortal; TTL 3, gap 2, latency 1, 7 units of time, equal clocks | `AtMostOneLeaderPerTerm`, `StaleLeaderBounded`, `PunctualLeaderKept`, `FailoverBounded` |
| `playbook_run` | 3 gates, a rescue block, a condition, an ignored failure; 2 replicas; 3 requests that race, or 4 that wait | `GatesHold`, `GatesAreResumable`, `SuccessMeansStarted`, `RunSettles`; of operators who wait, `KeepsPromise` (implements `GatedPlan`) |
| `rollout_run` | 2 instances, 2 overlapping polls, 1 abort; 2 replicas, one of which serves the abort, either may crash | `SuccessMeansReadyTogether`, `FailedDispatchBlocksSuccess` |
| `rollout_settles` | the same with 1 instance | `RolloutSettles` |
| `instance_life` | 1 node, 2 requests of any kind at a time; 1 fault, lost reports without limit | `RunningIsTrue` |
| `instance_life_settles` | 2 nodes, an instance that may move, a poll and a handler; 1 fault | `RetriesEnd`, `StuckGetsDeployed` |
| `start_up` | 3 replicas, 1 with 1 migration file and 2 with 2, empty database, 2 crashes | `ServesMigrated`, `OneMigrator`, `NeverReruns`, `StartUpEnds` |
| `events_and_status` | 2 replicas with 2 overlapping polls each; 2 increments, changes of routes or faults together; or a service with 2 instances, a writer's sync and the poll, 3 changes | `NothingSkipped`, `RevisionsAgree`, `GatewayAgrees`, `EventsDelivered`; `StatusConverges` |
| `apply_state` | 2 services, 2 nodes, 3 versions of the manifest, 3 applies of which 2 may overlap, 1 fault | `AppliedAgree`, `ContainersAgree`, `RejectedWithReason` |
| `apply_failover` (violation) | the same, one apply at a time, 2 applies | section 4 |
| `cron_runs` | 2 replicas; 1 job and 3 ticks within 2 minutes, or 2 jobs (functions: of one name or two) and 2 ticks within one; 1 fault | `RunsOnce`, `DueServed`, `RunsTell` |
| `background_parts` | a node: 2 polls, a termination, 2 requests, a sweep, 4 of them started; a pool: 2 builds, 2 admins, 2 runs, 2 nodes, 3 clones; 1 fault | `MachineKnown`, `RegisteredSettles`, `FreshIsOnline`, `NeverBack`; `CloneKept`, `IdleIsFree`, `PoolBounded`, `PoolFilled`, `NothingLeft` |

Each module has a type invariant, and it is a theorem of every module that has a
module of proofs.  Only the run of the election checks it; the other runs keep to
properties that say more.

Why the bounds are enough to mean something:

- *Election.* Seven units are two TTLs and a unit: long enough for a lease to be
  granted, to lapse, to be taken over and for the deposed replica to find out.
  Requests (which no renewal reads) are followed in the first unit of time only
  (`EarlyRequests`).  Arbitrary interleavings, any number of replicas and any
  clocks are in the proofs.
- *Playbook.* Each of the three gates can be approved once by each of three
  requests, so approvals of an earlier gate race with the later ones.  More tasks
  add no interleaving: a task is executed by one thread.
- *Rollout.* Two instances are needed for one to be ready while the other is not,
  two polls for one to decide while another does.  Whether a run ends does not depend
  on how many instances it watches (a poll makes one outcome of all), so
  `rollout_settles` has one.  Runs that are settled and that
  no thread can touch any more are not followed further (`Unsettled`): nothing
  that the properties speak of changes there, so that also the liveness result
  stands.
- *Instances.* Two attempts let one be overwritten by another; a fault is
  repeated by restarting the argument, since each leaves a state the model
  reaches otherwise, but that is an expectation, not a result.  Forced
  reconciliations are cut at one over the limit (`ForceCap`).
- *Applies.* Two applies with one before or after them: what an apply does depends
  on the rows that it read, and two versions before it leave every kind of
  difference to the third.  Two nodes suffice for an instance to move, two
  replicas for a service to shrink.
- *Events.* An id that commits late needs one event on each side of it; two polls
  per replica overlap; a third operation repeats the first two.  Rejected statements
  and leaders that step down are not counted among the operations.
- *Start-up.* Two versions and two replicas of the newer one: one leads, one
  waits, the old one serves.  A crash may hit each of them, or one twice.
- *Background.* Two copies of one record suffice to lose an update, and four
  starts let a poll, a termination, a registration and a heartbeat meet.  Two
  builds share a run or do not; with two admins the pool is resized while it is
  filled, three clones let it outgrow a size of one.  A second node is one that
  does not have the clone.
- *Schedulers.* Three ticks are needed for a memory that an older tick changes: two
  of one minute and one of the other between them.  Two jobs leave one behind the
  one that fails, within a minute (`OneMinute`): what a job leaves to the next minute
  does not depend on the others.  Functions of one name are followed when both are due
  (`FewerInit`).  The theorem says the same of any number.
- *Service.* After three changes a sync may be two writes behind.

Fairness.  Statements are answered and threads of a replica that is up go on
(weak fairness of every thread's steps); the timer fires and the time-out passes;
the leader polls; agents answer; a node whose heartbeats stopped is heard from
again (in `InstanceLife`: without it a pinned instance cannot be deployed at all).
`RolloutRun` needs one strong fairness: the database does not reject the listing
of every poll from some time on.  It is fair to the threads of a replica that is up; a
crash ends them.  In `StartUp` replicas go
on and are restarted after a crash, and elections renew; in `EventBus` commits,
polls, handlers and saves go on (the timers of `ControlPlaneSync.start()`), each save
with an answer that may be a rejection.  The
runs without liveness properties have none.  Nothing is assumed of operators, of
faults or of the outcome of a command.

What the properties say about the code, in the places where it is subtle:

- *Two leaders.*  They do occur: a deposed replica keeps its flag until its next
  completed renewal.  But never on the strength of the same tenure, and, on
  schedule, for at most one gap.  A late take-over can depose a leader that has
  just been elected (its `update` has no condition on the row); it cannot depose
  one that has kept to its schedule longer than one `Latency`.
- *Gates.*  No race of a continue with aborts, no crash and no failure lets a task
  start before its gate was approved, as long as no two requests approve the same
  pause; then, too, a run that awaits approval can be resumed.  Two requests that do
  approve it (section 4) execute the plan twice, and there gates are passed that
  nobody approved.  `playbook_run` has too few requests to reach that, the proof did
  not go through without the exclusion (`overlapped`).  `SuccessMeansStarted` holds
  even then.  It has one exception: a task whose announcing event was rejected and
  whose failure is rescued or ignored was never started, and the run may succeed.
- *Settling.*  A run stays `running` for ever in exactly one kind of case: what
  worked on it was cut off, by a crash of the replica (which takes the job, a poll or
  just the timer of the watch with it), an error that no caller of `execute()` but
  `enqueue()` catches, one in that catch itself, or a rejected statement after the
  timer was cleared.  `RunSettles` and `RolloutSettles` say that there is no other.
- *RunningIsTrue.*  The order in which the agent reports and the control plane
  writes its own status never leaves `running` over a stopped container, as long
  as not both the report of a stop and the request that waits for it are lost.
  (It is stated for an instance that does not move.)
- *NothingSkipped.*  The cursor of a replica loses an event in one way only: the
  row was not committed when a poll read a higher id.  Overlapping polls and
  restarts lose nothing (a restart handles everything again).
- *RevisionsAgree, GatewayAgrees.*  Both name what breaks them.  A revision whose save
  or event is rejected after the increment is never made up for: memory, counter and
  the other replicas differ for good.  Applies that overlap on two replicas are
  excluded (section 4 has what they do).  Routes follow while there is a leader: after
  a time without one it is the promotion that catches up, by listing them all, and
  where the promotion goes unnoticed nothing does.  A change whose event was rejected
  waits for the next change.
- *AppliedAgree.*  Applies of one manifest end with its rows even when they overlap
  or are cut off one at a time, because ids are numbered from what is there and
  the last apply that runs to its end repairs what the others left.  It does not
  hold when one is cut off *and* they overlap.
- *ContainersAgree* is about plans that all got through; what a failed dispatch
  leaves behind is repaired by nobody until the reconciler gets to the row.
- *RejectedWithReason.*  `insertInstance()` rejects an id that is there.  Ids are
  used again (a service that is recreated starts at 1), so it matters that the rows
  go before the new ones come; a crash, an overlap or a schedule that fails can
  leave such a row (section 4 has the crash), a failed dispatch cannot.
- *NeverBack, MachineKnown.*  Whole-record saves lose updates; `NeverBack` says that a
  save from a copy that was overtaken, or a registration of a machine that was given
  up, is the *only* thing that can take a record back.  `MachineKnown` says that the
  machine of a launch of one is lost only by a lost update, a failed statement, a
  crash, or a launch that failed and left its machine.
- *RunsOnce.*  Two ticks run a backup or rotation twice in a minute only when one
  began before the other was over, however leaders change and crash: the row is what
  they share.  A function's minute is kept in memory, so a restart or another leader
  runs it again, and so does an older tick of the same replica that is late enough
  to set the map back.  And of two functions of one name, both due, the first row of
  the name may run twice in one tick.
- *DueServed.*  What keeps a backup or a rotation from running is its own (its node
  has no agent) or the whole tick's (a crash, a rejected statement), never another
  job that failed.  For functions there is more: a tick that was ended by a function
  before it, or one still under way, and another function of the same name that was
  run in its place.
- *OneMigrator.*  The lock is taken to be held until it is given up or its holder
  crashes; one that is lost because the session breaks is not in the model.
- *IdleIsFree.*  Two builds may find one clone, but no build uses a clone that is
  in the pool: the row is written as taken before the command runs.  Where that write
  is rejected, the clone is destroyed behind its row (`spoiled`).
- *NothingLeft.*  A build on another node than the clone's destroys nothing there: the
  agent answers that the clone is destroyed, the row says so, and the clone stays
  (`astray`).

## 4. Where code and text disagree

Kept as a run that must fail: `apply_failover`.  "Killing the leader mid-apply
should allow a surviving replica to complete the revision once it acquires the
lease" (`failover.md:75`); but `insertInstance()` runs before `upsertService()`
without a transaction, so a crash between the two makes every later apply of the
manifest fail on the primary key (`database/ControlPlaneStore.ts:571`).

Met while modelling, in the models' behaviours, without a run of their own.

Election, runs and instances:

- a callback is "invoked when this instance becomes the elected leader", but a
  replica that creates or takes over the row returns before the promotion check
  (`services/LeaderElection.ts:193`): `BecomeLeaderUnnoticed`;
- abort "fails a running or gated pipeline run", but the loop, or a poll of the
  watch, goes on and overwrites the status (`RolloutWatcher.ts:116`);
- an approval "moves the plan cursor past the confirm task that paused the run": in
  fact past the first gate of that name, so with two of them tasks run twice;
- the reconciler "re-dispatches workload instances stuck in pending or failed", and
  writes `pending` over the agent's `running`: a healthy instance is redispatched
  until its attempts are used up (`InstanceReconcilerService.ts:307`);
- a removal "removes an instance from its node", but a deployment decided before
  it runs after it;
- two replicas serve requests behind `requireLeader()` at once
  (`docs/.../operations/failover.md:21`): the guard reads the flag once;
- after a crash of the leader no survivor completes the apply (`failover.md:75`
  says one should);
- two continue requests admitted while a run is paused both resume it
  (`ApplyStageRunner.ts:73`), and from there a gate can be passed without its
  approval.  The two executions pause at different gates, say *test* and *release*.
  Each writes the fields that differ from what it had read (Sequelize), so that the
  row may end with the plan of the one that stands at *release* under the name of
  the gate *test*, or the other way round.  The next continue looks for the gate of
  the row's name in the row's plan, goes on behind it, and what it passes is not
  what its operator saw.  It takes five requests and is found by none of the runs;
- a gate of a rescue block that has the name of a later gate of the playbook lets an
  approval of the one jump over the tasks in front of the other, and the run
  succeeds without them (`ApplyStageRunner.ts:302`);
- a final status is overwritten by a poll in flight (`PipelineRunService.ts:203`),
  and instances deleted during a watch drop out of what must be ready
  (`RolloutWatcher.ts:92`);
- an instance whose attempts are used up stays `pending`
  (`InstanceReconcilerService.ts:30` says it is marked failed);
- the poll moves an instance that was reported running after it was listed
  (`InstanceReconcilerService.ts:423`);
- `stopping` and `starting` are written after the dispatch, over what the agent
  reported (`InstanceLifecycleService.ts:203` against the comment at 153);
- two overlapping syncs leave a service's status wrong until the next poll
  (`ServiceStatusService.ts:32`).

Applies (`ApplyState`; most of it is what its `excuses` exclude):

- a service recreated on another node: `stop` and `remove` of the old container go
  to the *new* node, where they fail, and with them the plan; the old container
  stays.  A scale-down of an instance that was never started fails likewise;
- a crash after rows were deleted, and then an apply of the *previous* manifest:
  the planner sees no difference, and the service stays without instances;
- two overlapping applies of which one is cut off after its deletions leave rows
  missing under a service that is up to date;
- a container left over is taken for a new one (`create` answers 409, which counts
  as success), with its old image.

Start-up (what `StartUpEnds` names):

- a follower waits for migrations and goes on waiting when it acquires the lease
  (`Server.ts:69`); two new replicas can hand the lease to each other while nobody
  migrates;
- a new replica that follows a leader of an older version waits for files that
  leader does not have, times out and restarts for ever
  (`docs/.../operations/migrations.md:36`, `:42`);
- the advisory unlock goes to any session of the pool: the lock may stay taken.

Events and routes (`EventBus`):

- ids are given out before their transactions commit, so a poll can pass one over
  for good (`ControlPlaneSync.ts:157`);
- counters of two replicas overwrite each other (`ControlPlaneService.ts:1069`), and
  where the save or the event after the increment is rejected they differ for good;
- of two pushes that overlap the older list may arrive last, and after a failed
  push the event is not published (`GatewayRouteService.ts:201`); an event that is
  rejected leaves the rows changed and the leader uninformed (`:111`, `:140`).

Nodes and provisions (`NodeLife`):

- the agent never sends `provisionId`, so that a provision is never completed in
  practice (`docs/.../aws-provisioner.md:52` says it is); the model has the
  registrations that do send one;
- a launch of several machines records only the first one;
- a save that fails after the launch, a crash, or an answer of the cloud that is
  lost or has no id (`NodeProvisionService.ts:205`) leaves a machine that nothing
  points to, and a record that cannot be terminated (400);
- registration, poll and launch overwrite each other's records;
- a node whose status is `registering` is never marked offline, and is scheduled
  on; a heartbeat that read `online` before the sweep's mark leaves it offline
  (Sequelize writes only changed fields).

Sandboxes (`SandboxPool`):

- warm clones are made with `start: false` and nobody starts them, so the command
  of a build that takes one fails (`Execute` asks for a running clone);
- builds of one run share one clone name (`CloneKept` excludes them);
- a build that cannot save that it took a warm clone destroys it while its row says
  idle, and the next build may find that row (`SandboxService.ts:115`, `:181`);
- `resolveSandboxNode()` may fall back to another node than the warm clone's: the build
  fails there, and its DELETE is answered "destroyed" where no such clone is, so that
  the clone stays (`SandboxService.ts:246`, `sandbox_executor.zig:166`);
- a replenishment that fails throws out of `finally` and leaves a row `cloning`;
- a bake writes back the pool size that it read before the bake, and clones above
  a reduced size are not removed.

Schedulers (`CronRuns`):

- a function whose dispatch fails throws out of the tick
  (`modules/functions/FunctionScheduler.ts:87`): those after it are not run in this
  minute, and the one that failed is not tried again;
- functions of two manifests may share a name, and a tick invokes by name
  (`services/FunctionInvokeService.ts:33`): the first row runs, twice if both are due,
  the second never, and if the first is no function with a schedule the tick ends;
- secrets are resolved after the insert and outside the `try`
  (`services/FunctionInvokeService.ts:69`): when that fails the run stays `running`;
- a rotation's run stays `running` for ever: nobody records its end, and the agent's
  executor rotates nothing;
- an agent that needs longer than the time-out of a request (15 s by default) has its
  run recorded as failed while it goes on;
- an interval that drifts past a minute skips the jobs of that minute, and no later
  tick makes up for it;
- the manual route creates a run without the node and volume that its row must have
  (`routes/backups/[volumeName]/run.ts:50`), so it fails.

## 5. What is proved

For every value of the constants: any sets of replicas, jobs, builds, nodes and manifests,
any number of overlapping calls, all clocks, times, versions and schedules.

| Module | Theorem | Says |
|---|---|---|
| `LeaderLeaseProofs` | `TypeCorrect` | `Spec => []TypeOK` |
| | `LeadersDifferInTerm` | `Spec => []AtMostOneLeaderPerTerm` |
| | `StaleLeadersStepDown` | `TimedSpec => []StaleLeaderBounded` |
| | `PunctualLeadersStay` | `TimedSpec => PunctualLeaderKept`, if `Gap + Spread < TTL` |
| | `FailoverEnds` | `TimedSpec => []FailoverBounded`, if `Latency < TTL` and a replica never goes down |
| `PlaybookRunProofs` | `GatesAreKept` | `Spec => []GatesHold` |
| | `PausesAreResumable` | `Spec => []GatesAreResumable` |
| | `SuccessNeedsTasks` | `Spec => []SuccessMeansStarted`, if `RescueGatesNamedApart` |
| | `PromiseIsKept` | `SpecOfBoth => KeepsPromise`, if `BlocksApart` and `GatesNamedApart` |
| `RolloutRunProofs` | `RolloutSucceedsReady` | `Spec => []SuccessMeansReadyTogether` |
| | `RolloutSucceedsDelivered` | `Spec => []FailedDispatchBlocksSuccess` |
| `EventBusProofs` | `NoEventSkipped` | `Spec => []NothingSkipped` |
| | `RevisionsMeet` | `Spec => []RevisionsAgree` |
| | `GatewayFollows` | `Spec => []GatewayAgrees` |
| `DatabaseProofs` | `ApplyTyped` | `ApplySpec => []ApplyTypeOK` |
| | `AppliedRows` | `ApplySpec => []AppliedAgree` |
| | `AppliedContainers` | `ApplySpec => []ContainersAgree` |
| | `RejectionsHaveReasons` | `ApplySpec => []RejectedWithReason` |
| | `StartUpTyped` | `Spec => []TypeOK` |
| | `MigratorsAreAlone` | `Spec => []OneMigrator` |
| | `ServingIsMigrated` | `Spec => []ServesMigrated` |
| | `RecordedNotRerun` | `Spec => NeverReruns` |
| `BackgroundProofs` | `NodeTyped` | `Spec => []TypeOK` |
| | `RegistrationsSettle` | `Spec => []RegisteredSettles` |
| | `RecordsGoForward` | `Spec => NeverBack` |
| | `MachinesKnown` | `Spec => []MachineKnown` |
| | `FreshAreOnline` | `Spec => []FreshIsOnline` |
| | `IdleClonesAreFree` | `PoolSpec => []IdleIsFree` |
| | `ClonesAreKept` | `PoolSpec => []CloneKept` |
| | `NothingIsLeft` | `PoolSpec => []NothingLeft` |
| | `PoolsAreBounded` | `PoolSpec => []PoolBounded` |
| | `PoolsAreFilled` | `PoolSpec => []PoolFilled` |
| `InstanceLifeProofs` | `InstanceTyped` | `Spec => []TypeOK` |
| | `RunningRowsAreTrue` | `Spec => []RunningIsTrue`, if `~Movable` and `OneTells` |
| `CronRunsProofs` | `JobsRunOnce` | `Spec => []RunsOnce` |
| | `DueJobsServed` | `Spec => []DueServed` |
| | `RunsAreTrue` | `Spec => []RunsTell` |

*LeadersDifferInTerm.*  The property is not inductive: it says nothing of replies
that are still under way.  `Grounded` is: the row's holder is the last of its
history; a write that took effect, or a second read that found the replica's own
lease, names a term that belongs to the replica (`GroundedReply`); so does the
flag (`GroundedBelief`).  A term has one owner, so two believers differ in theirs.
History only grows (`OwnsStable`), which carries `GroundedReply` over the writes of
others.  The proof uses that a reply is grounded when it is computed, never how
long it travels.

*StaleLeadersStepDown.*  `TimedInv` strengthens it with: a running replica's last
completed renewal began at most `Gap` ago, and one in flight at most `Latency`
(`OnSchedule`); a replica that does not hold the row began its last successful
renewal, and any that is about to succeed, before it lost the row
(`StaleSinceLoss`).  Together: since the loss no more time than `Gap` can have
passed.

*PunctualLeadersStay.*  `KeptInv` says why the row of a leader on schedule is safe.
`Covers(i)`: while `i` holds the row uninterrupted, the row lasts at least `TTL`
less the spread of the clocks from the start of its last renewal that took effect,
so that at every moment until the next one it lasts on (`NotLapsed`; here
`Gap + Spread < TTL` is used).  `LateTakeOver(i)`: a renewal that is about to take
the row over found it expired, so it read it before the last change, and being
shorter than `Latency` it writes within `Latency` of that change.

*FailoverEnds.*  `ServedInv` follows the survivor's renewals: the expiry in the row
is at most `TTL` after the last time that somebody was served (`RowEnds`), and what
the survivor has read of the row is no later than what is there (`SeesRow`,
`Informed`).  A renewal of it that begins after the row has lapsed takes it, and one
ends within each `Gap`; `Latency < TTL` lets no renewal find its own write lapsed.

*Playbook.*  Three layers.  `Shape`: every plan, stored or in a thread's hand, is the
playbook with rescue blocks spliced in, in order (`Whole`, `InOrder`); this is where
the lemmas on concatenated sequences are needed.  `Progressed`: what lies before the
cursor of a plan was started (or announced in vain, and its failure tolerated), and a
gate whose name is in the row was reached (`Worked`, `Reached`); that gives `SuccessMeansStarted` however many threads execute
the plan.  Its hypothesis is needed: a gate of a rescue block with the name of one
in the playbook breaks `Reached`.  `Single`: while no pause was approved twice, at
most one thread works on the run; what it has read of the row is what is there in
the fields it writes; and a paused row pairs a gate with the plan that stands at it,
whose earlier gates were approved (`Paired`, `GatesBefore`).  `GatesHold` and
`GatesAreResumable` follow from that.

*The promise of a playbook.*  `PromiseIsKept` is about operators who wait and
replicas that stay up: the refinement maps a run to the tasks that are still to come and to a phase.  `Serial`
adds to the three layers that with such operators one thread at most is at work, that
what it has read is the row, and that every plan is `Grown`: without repetition, of
the playbook and of the blocks of tasks that lie before its cursor.  Without that last
part a rescue block could be spliced in twice, or a gate found by its name could lie
behind the cursor.  The actions then fall into phases (`Phases`): one that is at work
hands over the next task, splices in a block, pauses or ends (`ExecutionPromised`); every other step leaves plan and phase as they were
(`NothingHappens`).

*Rollout.*  A poll that is to declare success, a verdict under way and the row itself
all count as claims.  `ClaimsWereReady`: with a claim there was an instant at which
all instances were ready; the poll listed them in one statement.  `ClaimsAreTouched`:
with a claim, every instance whose plan did not arrive was touched since, because its
failure was recorded before the first poll (`Roles`, `WatchedLater`), and a recorded
failure is found `failed` until somebody writes the row (`UndeliveredFailed`).

*EventBus.*  `ReadsOn(r)`: up to the last row that a poll of `r` has read or that it
has handled, every event was read, handled or passed over; rows in flight reach from
an older cursor, so that the cursor may move under them.  This is `NothingSkipped`.
`RevisionInv`: while applies come one after the other and no save or event of a
revision is lost (`Calm`), each replica has the
number of applies or has an event before it that says so (`FollowsRevision`), and so
has the counter or somebody about to save it (`FollowsCounter`).  `GatewayInv`: as
long as none of the excuses has occurred and while somebody leads, Traefik has the
routes, or someone is about to push them (`Brings`), or the leader has an event to
handle upon which it will (`Told`).  Without a leader nothing is claimed: the next
one to notice that it leads lists the routes anew.  That `Max` of a finite set exists is `MaxOf`, from
well-founded induction on subsets.

*Applies.*  `ApplyInv` has six parts, one of them `AppliedAgree`.  `Known`: what an apply in progress holds is
about its manifest; it turns to one service at a time, and only after its deletions
(`Planned`, `InTurn`).  `Alone`: applies that never overlapped came one at a time,
and have yet to change each service they are still to write.  `Agreeing` is for
`AppliedRows`.  As long as all applies since the last settled state are of one
manifest `m`, each service is on its way to `m` (`Converges`) in one of two ways.  It
is rebuilt (`Rebuilds`): each apply that is to write it creates the same ids, every
row of it is one of those or is deleted by all of them, and each of those ids has a
row or somebody who is still to insert it.  Or it is scaled (`Scales`): whatever the
others did meanwhile, what is left of *each* apply's difference is the difference of
the rows and `m`.  That is why overlapping applies of one manifest end well, and it
needs the planner's arithmetic: how many of a set of indexes `Retired` takes, what
remains of them when one is deleted, and that `Scaled` begins above the largest.
`Mirrored` is for `AppliedContainers`: while nothing has failed, every container is
that of its row (`Good`) or is about to be removed by the plan of its node, and every
row has a container or is about to have one made (`Mirrors`).  `Orderly` is for
`RejectionsHaveReasons`, and `Mirrored` uses it: while only dispatches have failed,
the one apply in progress still has to delete every row whose id it is still to
insert, and every row has a service, stored or about to be (`Ordered`).  TLC found
each part to be an invariant before it was proved inductive.

*StartUp.*  The inductive invariant (`MigrationsAreGuarded`) adds to the
properties that a replica which migrates holds the lock, has recorded all files
before its cursor, and is at work on one that nobody has recorded (`Guarded`), and
that no file is recorded before it was executed (`RecordedExecuted`).  Two
migrators would both hold the lock.  That a replica believes to lead plays no part:
the lock alone guards.

*NodeLife.*  `CopiesAreFresh`: a job whose copy of the record nobody has
overwritten has what is there (`CopiesFresh`, `LaunchFresh`), and works for a
machine that exists (`MachineThere`).  So its save moves the record on from what
is there, and `Mapped` and the fixed targets of the launch never go back.
`MachinesKnown`, for launches that are answered with the machine's id, adds where that
identifier is: with the launch
that is still to save it, in the copies that are about to be saved, or in the record.
`FreshAreOnline` adds that, without overlap, a request that writes the row is the
only one and reads what it overwrites.

*SandboxPool.*  `ClonesAreHandedOut`: a warm clone is never started, is on the node
that made it and on no other, and is there while its row is idle, but for rows whose
clone was destroyed after a failed save (`spoiled`) (`CloneThere`); a clone that a build found is not in the pool
once the build has gone on (`TakenOnce`); a clone that is being added is not in it
yet, and one worker adds it (`AddedOnce`), so no worker can put back into the pool
what a build has.  A build destroys what it has on the node it talks to; a warm clone of
another node stays where it is (`astray`).  The other theorems count: `Owned` gives every clone and every row
that says "in use" a build on its way to destroy it (`NothingIsLeft`); `FillsUpTo`
bounds the idle clones and those still to add by the largest size asked for
(`PoolsAreBounded`); `Refilled` says that the pool is full, or some worker has still
to count, or will add what the count found missing (`PoolsAreFilled`).

*InstanceLife.*  While a plan is under way a stopped container may well have a row
that says "running" (`Stale`); `Told` says who will correct that.  Where reports
arrive it is the report that the agent is posting: it does nothing else until that is
through.  Where requests stay it is the request: every plan in an inbox has one of its
own that waits for it (`Owned`), a plan that stops or removes is not an apply's, and
whatever a request other than a successful apply's writes, it is not "running"
(`Corrects`).  A report of "running" is about a container that runs (`Reporting`), and
all plans go to the one node (`AtHome`).

*CronRuns.*  A run in the database is not enough to exclude the next one: between its
check and its insert a tick has nothing to show.  `IInv` speaks of claims instead
(`Claimed`: taken, or inserted), and of the order of ticks (`Ordered`: they begin in
the order of their numbers, and those that have not met lie one after the other).  A
tick that takes a job later than another of its minute sees that one's claim as a
row (`RowClaims`).  For functions the memory holds the minute of a claim until a tick
of another minute overwrites it (`Remembered`), and that tick is one that every tick
of the claim's minute still in progress meets; so a second claim of the minute has
such a tick to point at (`MemoryClaims`).  For `RunsAreTrue` and `DueJobsServed` the
invariant says of each step of a tick what its run's status and the agent's work can
be, and of a tick that has gone past a job why it did.  `Namesakes`: jobs of one name
have the same namesakes, so a run inserted for a due function is of its name, though
perhaps not its own.

Assumptions: those of the modules, in particular that ids are distinct (the code
gives every replica without `CP_INSTANCE_ID` the same) and, in the timed theorems,
that renewals of one replica do not overlap (`NoOverlapAssumption`).  Five theorems
have hypotheses of their own, shown in the table.  The code's values, TTL 15 s and
a renewal every 5 s, fulfil `Gap + Spread < TTL` for clocks that differ by less than
the rest, and `Latency < TTL` for a database that answers; a cluster whose replicas
all go down has nobody to fail over to.  `RescueGatesNamedApart` and
`GatesNamedApart` are about the playbook that an operator writes, and needed: the code
finds a gate by its name.  `BlocksApart` says that the tasks of a manifest, as its
author nested them, are a tree, which is what parsing YAML gives; the model numbers
them so that two equal tasks are two members of `Tasks`.  `OneTells` is what the runs
check as well: no behaviour has both lost reports or agents that restart and requests
that give up or are cut off, since a stop that nobody tells of stays unknown.
`~Movable` excludes an instance whose manifest allows several nodes: the report of the
node that it has left is taken for the one that it is on.

Every safety and action property that a passing run checks is proved.  Only
model-checked: every liveness property (under fairness, which the prover does not
treat), and the violation of `SurvivorCompletes`.

## 6. Plan

The modules of the first plan are written.  What is left, by what it would add:

1. Catalogues (`services/AppOfAppsService.ts`): several applies under one run, whose
   watches replace each other.  `RolloutRun` has one watch per run.
2. Restores of backups, and what a run of the manual route is missing.
3. The backoff between attempts of the reconciler, health events of nodes, the
   machines of one launch.

## 7. What is not modelled

Pure translation of data (compose files, exposure, manifests), I/O against
external services (clouds, overlay network, secret stores, registries, mail and
chat), clients (CLI, UI, SDK), single-statement CRUD (users, tenants, API keys,
admin), logs and metrics.  The reasons are with the components in
`PROJECT.json`.  Inside the modelled parts these are left out: SQLite (one process,
always leader), steps, logs and events of a run, relaunching a run, tasks with
invalid fields, the backoff between attempts (any delay), containers that change
by themselves, and the agent's other tasks.
