-------------------------------- MODULE CronRuns --------------------------------
(***************************************************************************)
(* The schedulers that read cron expressions once a minute.  A tick of a   *)
(* replica that leads goes through the jobs that are due, one await after  *)
(* the other: BackupScheduler and LogRotationScheduler look for a run of   *)
(* this minute in the database, FunctionScheduler in its own memory.  Each *)
(* then inserts a run, has the agent do the work and records how it ended. *)
(* Ticks overlap with later ticks and with those of other replicas.        *)
(***************************************************************************)
EXTENDS Integers, FiniteSets

CONSTANTS
    Replicas,
    MaxTicks,   \* bound on the ticks of a behaviour, whoever makes them
    Jobs,       \* the volumes, instances or functions with a schedule
    LastMinute, \* bound on the clock
    MaxRuns,    \* bound on the runs that the ticks may insert
    MaxFaults   \* bound on crashes, rejected statements, agents that fail or do not answer

ASSUME CronAssumption ==
    /\ MaxTicks \in Nat
    /\ LastMinute \in Nat \ {0}
    /\ MaxRuns \in Nat
    /\ MaxFaults \in Nat

\* Ticks in the order in which they begin.
Ticks == 1 .. MaxTicks

VARIABLES
    kind,    \* the scheduler this behaviour is about
    clock,   \* the minute it is
    due,     \* the jobs whose cron is due, every minute
    named,   \* named[j]: the jobs that have the name of j, itself among them
    pc,      \* pc[t]: where tick t is
    owner,   \* owner[t]: the replica that makes tick t
    began,   \* began[t]: the minute of its `now', 0 before it begins
    left,    \* left[t]: the due jobs it has not come to
    job,     \* job[t]: the job it is at
    last,    \* last[r]: lastDispatchedByService of replica r, 0 for none
    status,  \* status[t]: the runs that tick t has inserted, by the due job
    ran,     \* ran[t]: the jobs whose rows they have been inserted for
    work,    \* work[t]: what the agent made of them
    stored,  \* runs whose archive is at its destination
    faults,  \* number of faults so far
    met,     \* history: met[t], ticks in progress together with tick t
    reset,   \* history: replicas that have crashed
    reasons, \* history: reasons[t], what has ended tick t before its last job
    unserved \* history: jobs that a tick found without an agent

tick == <<pc, owner, began, left, job>>
cron == <<kind, due, named>>
runs == <<status, ran, work, stored>>
history == <<met, reset, reasons, unserved>>
vars == <<cron, clock, tick, last, runs, faults, history>>

Kinds == {"backup", "rotation", "function"}
Statuses == {"none", "pending", "running", "succeeded", "completed", "failed"}
Steps == {"idle", "next", "taken", "inserted", "sent", "answered", "writing", "written", "failing",
          "over"}
Reasons == {"crash", "statement", "update", "secrets", "agentless", "namesake", "dispatch"}

Init ==
    /\ kind \in Kinds
    /\ clock = 1
    /\ due \in SUBSET Jobs
    /\ named \in {of \in [Jobs -> SUBSET Jobs] : \A i, j \in Jobs : i \in of[i] /\ (j \in of[i] => of[j] = of[i])}
    /\ kind # "function" => \A j \in Jobs : named[j] = {j}
    /\ pc = [t \in Ticks |-> "idle"]
    /\ owner \in {[t \in Ticks |-> r] : r \in Replicas}
    /\ began = [t \in Ticks |-> 0]
    /\ left = [t \in Ticks |-> {}]
    /\ job \in {[t \in Ticks |-> j] : j \in Jobs}
    /\ last = [r \in Replicas |-> [j \in Jobs |-> 0]]
    /\ status = [t \in Ticks |-> [j \in Jobs |-> "none"]]
    /\ ran = [t \in Ticks |-> [j \in Jobs |-> j]]
    /\ work = [t \in Ticks |-> [j \in Jobs |-> "none"]]
    /\ stored = {}
    /\ faults = 0
    /\ met = [t \in Ticks |-> {}]
    /\ reset = {}
    /\ reasons = [t \in Ticks |-> {}]
    /\ unserved = {}

InProgress == {t \in Ticks : pc[t] \notin {"idle", "over"}}

Go(t, from, to) ==
    /\ pc[t] = from
    /\ pc' = [pc EXCEPT ![t] = to]

Fault ==
    /\ faults < MaxFaults
    /\ faults' = faults + 1

\* What a tick does when the code it awaits throws: an error after the insert
\* is written to the run, any other ends the tick.
Throw(t, reason) ==
    /\ pc' = [pc EXCEPT ![t] = "over"]
    /\ reasons' = [reasons EXCEPT ![t] = @ \cup {reason}]

(* When *******************************************************************)

NextMinute ==
    /\ clock < LastMinute
    /\ clock' = clock + 1
    /\ UNCHANGED <<cron, tick, last, runs, faults, history>>

\* Any replica may lead when its interval fires; one that does not returns.
Tick(t, r) ==
    /\ Cardinality(due) * t <= MaxRuns
    /\ \A u \in 1 .. t - 1 : pc[u] # "idle"
    /\ Go(t, "idle", "next")
    /\ owner' = [owner EXCEPT ![t] = r]
    /\ began' = [began EXCEPT ![t] = clock]
    /\ left' = [left EXCEPT ![t] = due]
    /\ met' = [u \in Ticks |->
                 IF u = t THEN InProgress
                 ELSE IF u \in InProgress THEN met[u] \cup {t} ELSE met[u]]
    /\ UNCHANGED <<cron, clock, job, last, runs, faults, reset, reasons, unserved>>

(* From one job to the next ***********************************************)

\* Mutant: runs since the tick's own `now', not since its minute began.
HasLaterRun(t, j) == \E u \in Ticks : status[u][j] # "none" /\ began[u] > began[t]

\* hasRecentRun(): a run of the job since the minute of the tick began.
HasRecentRun(t, j) == \E u \in Ticks : status[u][j] # "none" /\ began[u] >= began[t]

\* The functions' scheduler remembers the minute it last dispatched a job for.
Remembers(t, j) == last[owner[t]][j] = began[t]

Done(t, j) == IF kind = "function" THEN Remembers(t, j) ELSE HasRecentRun(t, j)

Skip(t, j) ==
    /\ pc[t] = "next"
    /\ j \in left[t]
    /\ Done(t, j)
    /\ left' = [left EXCEPT ![t] = @ \ {j}]
    /\ UNCHANGED <<cron, clock, pc, owner, began, job, last, runs, faults, history>>

Take(t, j) ==
    /\ j \in left[t]
    /\ ~Done(t, j)
    /\ Go(t, "next", "taken")
    /\ left' = [left EXCEPT ![t] = @ \ {j}]
    /\ job' = [job EXCEPT ![t] = j]
    /\ last' = IF kind = "function" THEN [last EXCEPT ![owner[t]][j] = began[t]] ELSE last
    /\ UNCHANGED <<cron, clock, owner, began, runs, faults, history>>

End(t) ==
    /\ left[t] = {}
    /\ Go(t, "next", "over")
    /\ UNCHANGED <<cron, clock, owner, began, left, job, last, runs, faults, history>>

\* No node, or a node without an agent's address.
NoAgent(t) ==
    /\ Fault
    /\ unserved' = unserved \cup {<<t, job[t]>>}
    /\ \/ kind # "function" /\ Go(t, "taken", "next") /\ UNCHANGED reasons
       \/ kind = "function" /\ pc[t] = "taken" /\ Throw(t, "agentless")
    /\ UNCHANGED <<cron, clock, owner, began, left, job, last, runs, met, reset>>

(* One run ****************************************************************)

SetStatus(t, to) == status' = [status EXCEPT ![t][job[t]] = to]

\* A function is invoked by its name, which functions of two manifests may
\* share: the run is one of the first row that has it, in whatever order the
\* database lists them.
Insert(t) ==
    /\ Go(t, "taken", "inserted")
    /\ SetStatus(t, IF kind = "function" THEN "running" ELSE "pending")
    /\ \E i \in named[job[t]] : ran' = [ran EXCEPT ![t][job[t]] = i]
    /\ UNCHANGED <<cron, clock, owner, began, left, job, last, work, stored, faults, history>>

\* The first row of the name is no function, or none with a schedule, or gone.
NotInvocable(t) ==
    /\ kind = "function"
    /\ pc[t] = "taken"
    /\ Fault
    /\ Throw(t, "namesake")
    /\ UNCHANGED <<cron, clock, owner, began, left, job, last, runs, met, reset, unserved>>

\* Secrets are resolved after the insert and before the try.
NoSecrets(t) ==
    /\ kind = "function"
    /\ pc[t] = "inserted"
    /\ Fault
    /\ Throw(t, "secrets")
    /\ UNCHANGED <<cron, clock, owner, began, left, job, last, runs, met, reset, unserved>>

Dispatch(t) ==
    /\ Go(t, "inserted", "sent")
    /\ work' = [work EXCEPT ![t][job[t]] = "asked"]
    /\ UNCHANGED <<cron, clock, owner, began, left, job, last, status, ran, stored, faults, history>>

\* The agent works whether or not the control plane still waits.
AgentWorks(t, j) ==
    /\ work[t][j] = "asked"
    /\ \/ /\ work' = [work EXCEPT ![t][j] = "done"]
          /\ UNCHANGED faults
       \/ /\ kind # "rotation"
          /\ Fault
          /\ work' = [work EXCEPT ![t][j] = "broken"]
    /\ UNCHANGED <<cron, clock, tick, last, status, ran, stored, history>>

\* Mutant: a time-out is not an error.
GiveUpQuietly(t) ==
    /\ Fault
    /\ Go(t, "sent", "next")
    /\ UNCHANGED <<cron, clock, owner, began, left, job, last, runs, history>>

\* fetchAgent() gives up after its time-out, or the connection breaks.
GiveUp(t) ==
    /\ Fault
    /\ Go(t, "sent", "failing")
    /\ UNCHANGED <<cron, clock, owner, began, left, job, last, runs, history>>

\* A backup that broke is an HTTP error; a function that broke is an answer.
Answer(t) ==
    /\ work[t][job[t]] \in {"done", "broken"}
    /\ Go(t, "sent", IF kind = "backup" /\ work[t][job[t]] = "broken" THEN "failing" ELSE "answered")
    /\ UNCHANGED <<cron, clock, owner, began, left, job, last, runs, faults, history>>

RecordRunning(t) ==
    /\ kind # "function"
    /\ Go(t, "answered", IF kind = "backup" THEN "writing" ELSE "next")
    /\ SetStatus(t, "running")
    /\ UNCHANGED <<cron, clock, owner, began, left, job, last, ran, work, stored, faults, history>>

\* A function that ran out of its own time ("timed_out") counts as failed.
RecordAnswer(t) ==
    /\ kind = "function"
    /\ Go(t, "answered", "next")
    /\ SetStatus(t, IF work[t][job[t]] = "done" THEN "completed" ELSE "failed")
    /\ UNCHANGED <<cron, clock, owner, began, left, job, last, ran, work, stored, faults, history>>

Write(t) ==
    /\ \/ Go(t, "writing", "written") /\ stored' = stored \cup {<<t, job[t]>>} /\ UNCHANGED faults
       \/ Fault /\ Go(t, "writing", "failing") /\ UNCHANGED stored
    /\ UNCHANGED <<cron, clock, owner, began, left, job, last, status, ran, work, history>>

Succeed(t) ==
    /\ Go(t, "written", "next")
    /\ SetStatus(t, "succeeded")
    /\ UNCHANGED <<cron, clock, owner, began, left, job, last, ran, work, stored, faults, history>>

\* Mutant: every failure is thrown on.
FailThrows(t) ==
    /\ pc[t] = "failing"
    /\ SetStatus(t, "failed")
    /\ Throw(t, "dispatch")
    /\ UNCHANGED <<cron, clock, owner, began, left, job, last, ran, work, stored, faults, met, reset,
                   unserved>>

\* The error is recorded; a function's is thrown on, out of the tick.
Fail(t) ==
    /\ pc[t] = "failing"
    /\ SetStatus(t, "failed")
    /\ \/ kind # "function" /\ Go(t, "failing", "next") /\ UNCHANGED reasons
       \/ kind = "function" /\ Throw(t, "dispatch")
    /\ UNCHANGED <<cron, clock, owner, began, left, job, last, ran, work, stored, faults, met, reset,
                   unserved>>

(* Faults *****************************************************************)

\* A statement is rejected: inside the try the run fails, outside it the tick ends.
Reject(t) ==
    /\ Fault
    /\ \/ /\ pc[t] \in {"next", "taken", "failing"}
          /\ pc[t] = "next" /\ kind = "function" => left[t] = due  \* it only lists the services
          /\ Throw(t, "statement")
       \/ \E at \in {"answered", "written"} :
            /\ Go(t, at, "failing")
            /\ reasons' = [reasons EXCEPT ![t] = @ \cup {"update"}]
    /\ UNCHANGED <<cron, clock, owner, began, left, job, last, runs, met, reset, unserved>>

Crash(r) ==
    /\ Fault
    /\ reset' = reset \cup {r}
    /\ last' = [last EXCEPT ![r] = [j \in Jobs |-> 0]]
    /\ LET cut == {t \in InProgress : owner[t] = r} IN
         /\ pc' = [t \in Ticks |-> IF t \in cut THEN "over" ELSE pc[t]]
         /\ left' = [t \in Ticks |-> IF t \in cut THEN {} ELSE left[t]]
         /\ reasons' = [t \in Ticks |-> IF t \in cut THEN reasons[t] \cup {"crash"} ELSE reasons[t]]
    /\ UNCHANGED <<cron, clock, owner, began, job, runs, met, unserved>>

Next ==
    \/ \E r \in Replicas : Crash(r)
    \/ NextMinute
    \/ \E t \in Ticks :
         \/ \E r \in Replicas : Tick(t, r)
         \/ End(t) \/ NoAgent(t)
         \/ Insert(t) \/ NotInvocable(t) \/ NoSecrets(t) \/ Dispatch(t) \/ GiveUp(t) \/ Answer(t)
         \/ RecordRunning(t) \/ RecordAnswer(t) \/ Write(t) \/ Succeed(t)
         \/ Fail(t) \/ Reject(t)
         \/ \E j \in Jobs : Skip(t, j) \/ Take(t, j) \/ AgentWorks(t, j)

Spec == Init /\ [][Next]_vars

(* Properties *************************************************************)

\* Every variable has its type.
TypeOK ==
    /\ kind \in Kinds
    /\ clock \in 1 .. LastMinute
    /\ due \subseteq Jobs
    /\ named \in [Jobs -> SUBSET Jobs]
    /\ pc \in [Ticks -> Steps]
    /\ owner \in [Ticks -> Replicas]
    /\ began \in [Ticks -> 0 .. LastMinute]
    /\ left \in [Ticks -> SUBSET Jobs]
    /\ job \in [Ticks -> Jobs]
    /\ last \in [Replicas -> [Jobs -> 0 .. LastMinute]]
    /\ status \in [Ticks -> [Jobs -> Statuses]]
    /\ ran \in [Ticks -> [Jobs -> Jobs]]
    /\ work \in [Ticks -> [Jobs -> {"none", "asked", "done", "broken"}]]
    /\ stored \subseteq Ticks \X Jobs
    /\ faults \in 0 .. MaxFaults
    /\ met \in [Ticks -> SUBSET Ticks]
    /\ reset \subseteq Replicas
    /\ reasons \in [Ticks -> SUBSET Reasons]
    /\ unserved \subseteq Ticks \X Jobs

\* Two ticks whose checks and inserts could not interleave do not both run a
\* job of the database's schedulers in one minute.
RowsOnce ==
    kind # "function" =>
        \A t, u \in Ticks : t # u /\ began[t] = began[u] /\ u \notin met[t] =>
            \A j \in Jobs : "none" \in {status[t][j], status[u][j]}

\* The runs of job i that tick t has inserted, by the jobs that were due.
RunsOf(t, i) == {j \in Jobs : status[t][j] # "none" /\ ran[t][j] = i}

\* A replica that was not restarted dispatches a function once a minute,
\* unless its tick of another minute, still in progress, dispatched it too, or
\* the other run was due to a function of the same name.
MemoryOnce ==
    kind = "function" =>
        \A t, u \in Ticks : began[t] = began[u] /\ owner[t] = owner[u] =>
            \A i \in Jobs : \A j \in RunsOf(t, i), k \in RunsOf(u, i) :
                \/ t = u /\ j = k
                \/ owner[t] \in reset
                \/ \E v \in met[t] \cup met[u] : owner[v] = owner[t] /\ began[v] # began[t]
                \/ j # k /\ k \in named[j]

\* A job runs once a minute, through failovers, crashes and ticks that last
\* longer than a minute, except where the code leaves room for a second run:
\* checks of the database that race, a memory that a restart, a failover or an
\* older tick has changed, or two functions of one name.
RunsOnce == RowsOnce /\ MemoryOnce

\* What keeps a job from running belongs to the tick: a crash or a rejected
\* statement, or this job had no agent.  A backup or rotation that fails never
\* keeps another from its run; a function that fails takes the rest of the
\* tick with it, and whoever of the same minute trusted the memory; and a
\* function may be run in the place of another of its name.
DueServed ==
    \A t \in Ticks : pc[t] = "over" => \A j \in due :
        \/ \E u \in Ticks : RunsOf(u, j) # {} /\ began[u] >= began[t]
        \/ \E u \in Ticks, i \in named[j] \ {j} : j \in RunsOf(u, i) /\ began[u] >= began[t]
        \/ reasons[t] \cap {"crash", "statement"} # {}
        \/ <<t, j>> \in unserved
        \/ kind = "function" /\ \E u \in Ticks :
              owner[u] = owner[t] /\ began[u] = began[t] /\ (reasons[u] # {} \/ u \in InProgress)

\* What a run says is so: success means that the archive is stored, or that
\* the function ended; a failed run with an archive is one whose success could
\* not be written; and a run stays open only where its tick was cut off, or is
\* a rotation, whose end nobody records.
RunsTell ==
    \A t \in Ticks, j \in Jobs :
        LET s == status[t][j] IN
        /\ s = "succeeded" => <<t, j>> \in stored
        /\ s = "completed" => work[t][j] = "done"
        /\ s = "failed" /\ <<t, j>> \in stored => "update" \in reasons[t]
        /\ s \in {"pending", "running"} =>
              \/ job[t] = j /\ pc[t] \notin {"next", "over"}
              \/ job[t] = j /\ reasons[t] \cap {"crash", "statement", "secrets"} # {}
              \/ kind = "rotation" /\ s = "running"
================================================================================
