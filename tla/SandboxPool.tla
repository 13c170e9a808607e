----------------------------- MODULE SandboxPool -----------------------------
(***************************************************************************)
(* Builds in Incus sandboxes and the pool of warm clones of one template:  *)
(* SandboxService.executeBuild() and replenishWarmPool(), the resizing and *)
(* baking of SandboxTemplateService, and the agent's tasks on clones.  A   *)
(* build takes an idle warm clone or makes one named for its run, runs its *)
(* command, destroys the clone, and counts and fills the pool.  Nothing is *)
(* locked: a warm clone is found and then saved as taken.  An agent serves *)
(* one request at a time, so a request it is still working on when the     *)
(* caller gives up is over before the next one.  Clones are on the node    *)
(* that made them, which their rows do not tell; a build uses the node of  *)
(* the template, or one of its own target when that node is not capable.   *)
(***************************************************************************)
EXTENDS Integers, FiniteSets

CONSTANTS
    Builds,
    Admins,       \* requests that resize the pool or bake the template
    Runs,         \* runs that builds belong to
    Nodes,        \* nodes that sandboxes can run on
    Pinned,       \* the node of the template
    Sizes,        \* sizes of the pool that are asked for
    MaxWarm,      \* bound on warm clones
    MaxPoolFaults \* bound on crashes and failed calls of the agent

ASSUME PoolAssumption ==
    /\ Builds \cap Admins = {}
    /\ Pinned \in Nodes
    /\ Sizes \subseteq Nat
    /\ MaxWarm \in Nat
    /\ MaxPoolFaults \in Nat

Workers == Builds \cup Admins

VARIABLES
    size,        \* warmPoolSize of the template
    warm,        \* rows of warm clones: warm[w] is the status, in order of creation
    job,         \* job[b]: status of the row of a clone that build b makes
    home,        \* home[w]: the node where warm clone w was made
    clones,      \* clones[n]: what the Incus of node n[3] has under that name
    at,          \* at[p]: where worker p is
    run,         \* run[b]: the run of build b
    host,        \* host[p]: the node that worker p talks to
    taken,       \* taken[b]: the warm clone of its instanceRow, 0 for a job clone
    want,        \* want[p]: warmPoolSize in its copy of the template
    left,        \* left[p]: warm clones that p is still to add
    adding,      \* adding[p]: the warm clone that p is adding, or 0
    poolFaults,  \* number of faults so far
    asked,       \* history: the size that was asked for last
    largest,     \* history: the largest size that was ever asked for
    spoiled,     \* history: warm clones whose build could not save that it took them
    astray,      \* history: warm clones found by a build that talks to another node
    poolExcuses  \* history: what may leave the pool or the clones out of order

given == <<run, host>>
procs == <<at, given, taken, want, left, adding>>
poolSizes == <<asked, largest>>
poolMarks == <<spoiled, astray>>
poolHistory == <<poolSizes, poolMarks, poolExcuses>>
poolVars == <<size, warm, job, home, clones, procs, poolFaults, poolHistory>>

Warm == 1 .. MaxWarm

\* The names of clones: sanitizeIncusName() of the run's id or of a new one.
NameOf(b) == IF taken[b] = 0 THEN <<"build", run[b], host[b]>> ELSE <<"warm", taken[b], host[b]>>
Names == {"build"} \X Runs \X Nodes \cup {"warm"} \X Warm \X Nodes

PoolInit ==
    /\ size = 0
    /\ warm = [w \in Warm |-> "none"]
    /\ job = [b \in Builds |-> "none"]
    /\ home = [w \in Warm |-> Pinned]
    /\ clones = [n \in Names |-> "none"]
    /\ at = [p \in Workers |-> "new"]
    /\ run \in [Builds -> Runs]
    /\ host \in [Workers -> Nodes]
    /\ \A a \in Admins : host[a] = Pinned
    /\ taken = [b \in Builds |-> 0]
    /\ want = [p \in Workers |-> 0]
    /\ left = [p \in Workers |-> 0]
    /\ adding = [p \in Workers |-> 0]
    /\ poolFaults = 0
    /\ asked = 0
    /\ largest = 0
    /\ spoiled = {}
    /\ astray = {}
    /\ poolExcuses = {}

Goes(p, to) == at' = [at EXCEPT ![p] = to]
Working(p) == at[p] \notin {"new", "done"}
Idle == {w \in Warm : warm[w] = "idle"}

\* The first of warm clones ws, if there is one.
First(ws) == {w \in ws : \A other \in ws : w <= other}

\* A call of the agent fails, or its replica ends.
PoolFault(excuse) ==
    /\ poolFaults < MaxPoolFaults
    /\ poolFaults' = poolFaults + 1
    /\ poolExcuses' = poolExcuses \cup {excuse}

(* Builds *****************************************************************)

\* The reads: the template, the node, and the oldest idle warm clone, which
\* may be on another node.
Find(b) ==
    /\ at[b] = "new"
    /\ want' = [want EXCEPT ![b] = size]
    /\ \/ /\ \E w \in First(Idle) :
              /\ taken' = [taken EXCEPT ![b] = w]
              /\ astray' = IF home[w] = host[b] THEN astray ELSE astray \cup {w}
          /\ Goes(b, "taking")
          /\ UNCHANGED job
       \/ /\ Idle = {}
          /\ job' = [job EXCEPT ![b] = "cloning"]
          /\ Goes(b, "cloning")
          /\ UNCHANGED <<taken, astray>>
    /\ UNCHANGED <<size, warm, home, clones, given, left, adding, poolFaults, poolSizes, spoiled, poolExcuses>>

Take(b) ==
    /\ at[b] = "taking"
    /\ warm' = [warm EXCEPT ![taken[b]] = "running"]
    /\ Goes(b, "executing")
    /\ UNCHANGED <<size, job, home, clones, given, taken, want, left, adding, poolFaults, poolHistory>>

\* The clone that the finally block destroys then still is idle in its row.
TakeFails(b) ==
    /\ at[b] = "taking"
    /\ PoolFault("take")
    /\ spoiled' = spoiled \cup {taken[b]}
    /\ Goes(b, "destroying")
    /\ UNCHANGED <<size, warm, job, home, clones, given, taken, want, left, adding, poolSizes, astray>>

\* executeCloneTask(): incus copy refuses a name that exists.
Clone(b) ==
    /\ at[b] = "cloning"
    /\ clones[NameOf(b)] = "none"
    /\ clones' = [clones EXCEPT ![NameOf(b)] = "running"]
    /\ Goes(b, "executing")
    /\ UNCHANGED <<size, warm, job, home, given, taken, want, left, adding, poolFaults, poolHistory>>

\* Mutant: the clone is made before the try block.
CloneFailsBeforeTry(b) ==
    /\ at[b] = "cloning"
    /\ \/ clones[NameOf(b)] # "none" /\ UNCHANGED <<clones, poolFaults, poolExcuses>>
       \/ /\ clones[NameOf(b)] = "none"
          /\ PoolFault("clone")
          /\ \E made \in {"none", "stopped", "running"} : clones' = [clones EXCEPT ![NameOf(b)] = made]
    /\ Goes(b, "done")
    /\ UNCHANGED <<size, warm, job, home, given, taken, want, left, adding, poolSizes, poolMarks>>

CloneFails(b) ==
    /\ at[b] = "cloning"
    /\ \/ clones[NameOf(b)] # "none" /\ UNCHANGED <<clones, poolFaults, poolExcuses>>
       \/ /\ clones[NameOf(b)] = "none"
          /\ PoolFault("clone")
          /\ \E made \in {"none", "stopped", "running"} : clones' = [clones EXCEPT ![NameOf(b)] = made]
    /\ Goes(b, "destroying")
    /\ UNCHANGED <<size, warm, job, home, given, taken, want, left, adding, poolSizes, poolMarks>>

SaveRow(b, status) ==
    IF taken[b] = 0
    THEN job' = [job EXCEPT ![b] = status] /\ UNCHANGED warm
    ELSE warm' = [warm EXCEPT ![taken[b]] = status] /\ UNCHANGED job

\* checkout, exec, and the row that is saved in between.
Execute(b) ==
    /\ at[b] = "executing"
    /\ clones[NameOf(b)] = "running"
    /\ SaveRow(b, "collecting")
    /\ Goes(b, "collecting")
    /\ UNCHANGED <<size, home, clones, given, taken, want, left, adding, poolFaults, poolHistory>>

\* A command may fail for reasons of its own; it does in a clone that is not
\* there or not running.
ExecuteFails(b) ==
    /\ at[b] = "executing"
    /\ Goes(b, "destroying")
    /\ UNCHANGED <<size, warm, job, home, clones, given, taken, want, left, adding, poolFaults, poolHistory>>

Collect(b) ==
    /\ at[b] = "collecting"
    /\ Goes(b, "destroying")
    /\ UNCHANGED <<size, warm, job, home, clones, given, taken, want, left, adding, poolFaults, poolHistory>>

\* Mutant: every clone that a build made is destroyed.
DestroyByPrefix(b) ==
    /\ at[b] = "destroying"
    /\ clones' = [n \in Names |-> IF n = NameOf(b) \/ n[1] = "build" THEN "none" ELSE clones[n]]
    /\ Goes(b, "destroyed")
    /\ UNCHANGED <<size, warm, job, home, given, taken, want, left, adding, poolFaults, poolHistory>>

\* The finally block.  The agent answers that the clone is destroyed, and the
\* row says so, even if it could not be stopped or deleted.
Destroy(b) ==
    /\ at[b] = "destroying"
    /\ \/ clones' = [clones EXCEPT ![NameOf(b)] = "none"] /\ UNCHANGED <<poolFaults, poolExcuses>>
       \/ PoolFault("destroy") /\ UNCHANGED clones
    /\ Goes(b, "destroyed")
    /\ UNCHANGED <<size, warm, job, home, given, taken, want, left, adding, poolSizes, poolMarks>>

SaveDestroyed(b) ==
    /\ at[b] = "destroyed"
    /\ SaveRow(b, "destroyed")
    /\ Goes(b, "counting")
    /\ UNCHANGED <<size, home, clones, given, taken, want, left, adding, poolFaults, poolHistory>>

(* The pool ***************************************************************)

\* create() and update(): the size is saved, and then the pool is filled.
Resize(a, n) ==
    /\ at[a] = "new"
    /\ size' = n
    /\ want' = [want EXCEPT ![a] = n]
    /\ Goes(a, "counting")
    /\ asked' = n
    /\ largest' = IF n > largest THEN n ELSE largest
    /\ poolExcuses' = IF \E p \in Workers : Working(p) THEN poolExcuses \cup {"resized"} ELSE poolExcuses
    /\ UNCHANGED <<warm, job, home, clones, given, taken, left, adding, poolFaults, poolMarks>>

\* triggerBake(): the template is read before the bake, and saved after it.
Bake(a) ==
    /\ at[a] = "new"
    /\ want' = [want EXCEPT ![a] = size]
    /\ Goes(a, "baking")
    /\ UNCHANGED <<size, warm, job, home, clones, given, taken, left, adding, poolFaults, poolHistory>>

BakeEnds(a) ==
    /\ at[a] = "baking"
    /\ size' = want[a]
    /\ Goes(a, "counting")
    /\ UNCHANGED <<warm, job, home, clones, given, taken, want, left, adding, poolFaults, poolHistory>>

\* Worker p is over.
Finish(p) ==
    /\ Goes(p, "done")
    /\ taken' = [b \in Builds |-> IF b = p THEN 0 ELSE taken[b]]
    /\ want' = [want EXCEPT ![p] = 0]
    /\ left' = [left EXCEPT ![p] = 0]
    /\ adding' = [adding EXCEPT ![p] = 0]

\* Mutant: rows of clones that are destroyed count.
MissingAll(p) == want[p] - Cardinality({w \in Warm : warm[w] # "none"})

\* Mutant: the clones that are there do not count.
MissingAny(p) == want[p]

\* What the pool is short of, by the count at this moment.
Missing(p) == want[p] - Cardinality(Idle)

Filling == {p \in Workers : at[p] = "filling"}

\* Mutant: the difference is taken as it is.
CountSigned(p) ==
    /\ at[p] = "counting"
    /\ left' = [left EXCEPT ![p] = Missing(p)]
    /\ Goes(p, "filling")
    /\ UNCHANGED <<size, warm, job, home, clones, given, taken, want, adding, poolFaults, poolHistory>>

Count(p) ==
    /\ at[p] = "counting"
    /\ IF Missing(p) > 0
       THEN /\ left' = [left EXCEPT ![p] = Missing(p)]
            /\ Goes(p, "filling")
            /\ poolExcuses' = IF Filling # {} THEN poolExcuses \cup {"overlap"} ELSE poolExcuses
            /\ UNCHANGED <<taken, want, adding>>
       ELSE Finish(p) /\ UNCHANGED poolExcuses
    /\ UNCHANGED <<size, warm, job, home, clones, given, poolFaults, poolSizes, poolMarks>>

\* The row that is created next.
New == First({w \in Warm : warm[w] = "none"})

\* Mutant: the row says idle before the clone is made.
SaveWarmIdle(p) ==
    /\ at[p] = "filling"
    /\ left[p] > 0
    /\ adding[p] = 0
    /\ \E w \in New :
        /\ warm' = [warm EXCEPT ![w] = "idle"]
        /\ adding' = [adding EXCEPT ![p] = w]
        /\ home' = [home EXCEPT ![w] = host[p]]
    /\ UNCHANGED <<size, job, clones, at, given, taken, want, left, poolFaults, poolHistory>>

SaveWarm(p) ==
    /\ at[p] = "filling"
    /\ left[p] > 0
    /\ adding[p] = 0
    /\ \E w \in New :
        /\ warm' = [warm EXCEPT ![w] = "cloning"]
        /\ adding' = [adding EXCEPT ![p] = w]
        /\ home' = [home EXCEPT ![w] = host[p]]
    /\ UNCHANGED <<size, job, clones, at, given, taken, want, left, poolFaults, poolHistory>>

WarmName(p) == <<"warm", adding[p], host[p]>>

\* A warm clone is not started.
CloneWarm(p) ==
    /\ adding[p] # 0
    /\ clones[WarmName(p)] = "none"
    /\ clones' = [clones EXCEPT ![WarmName(p)] = "stopped"]
    /\ UNCHANGED <<size, warm, job, home, procs, poolFaults, poolHistory>>

SaveIdle(p) ==
    /\ adding[p] # 0
    /\ clones[WarmName(p)] # "none"
    /\ warm' = [warm EXCEPT ![adding[p]] = "idle"]
    /\ IF left[p] = 1
       THEN Finish(p)
       ELSE /\ adding' = [adding EXCEPT ![p] = 0]
            /\ left' = [left EXCEPT ![p] = @ - 1]
            /\ UNCHANGED <<at, taken, want>>
    /\ UNCHANGED <<size, job, home, clones, given, poolFaults, poolHistory>>

\* The call that fails ends the filling, and the row stays as it is.
CloneWarmFails(p) ==
    /\ adding[p] # 0
    /\ PoolFault("pool")
    /\ clones[WarmName(p)] = "none"
    /\ \E made \in {"none", "stopped"} : clones' = [clones EXCEPT ![WarmName(p)] = made]
    /\ Finish(p)
    /\ UNCHANGED <<size, warm, job, home, given, poolSizes, poolMarks>>

\* A worker is cut off: its replica ends, a statement of it fails, or an admin's
\* request finds its node gone and fills nothing.
CrashWorker(p) ==
    /\ Working(p)
    /\ PoolFault("crash")
    /\ Finish(p)
    /\ UNCHANGED <<size, warm, job, home, clones, given, poolSizes, poolMarks>>

Build(b) ==
    \/ Find(b) \/ Take(b) \/ TakeFails(b) \/ Clone(b) \/ CloneFails(b) \/ Execute(b) \/ ExecuteFails(b)
    \/ Collect(b) \/ Destroy(b) \/ SaveDestroyed(b)

Fill(p) == Count(p) \/ SaveWarm(p) \/ CloneWarm(p) \/ SaveIdle(p) \/ CloneWarmFails(p)

PoolNext ==
    \/ \E b \in Builds : Build(b)
    \/ \E a \in Admins : Bake(a) \/ BakeEnds(a) \/ \E n \in Sizes : Resize(a, n)
    \/ \E p \in Workers : Fill(p) \/ CrashWorker(p)

PoolSpec == PoolInit /\ [][PoolNext]_poolVars

(***************************************************************************)
(* Properties                                                              *)
(***************************************************************************)

Statuses == {"none", "cloning", "idle", "running", "collecting", "destroyed"}

\* The values that the variables range over.
PoolTypeOK ==
    /\ warm \in [Warm -> Statuses]
    /\ job \in [Builds -> Statuses \ {"idle", "running"}]
    /\ clones \in [Names -> {"none", "stopped", "running"}]
    /\ \A b \in Builds : taken[b] \in 0 .. MaxWarm
    /\ \A p \in Workers : left[p] \in 0 .. want[p] /\ (adding[p] # 0 => at[p] = "filling" /\ left[p] > 0)
    /\ poolFaults \in 0 .. MaxPoolFaults

\* A build that is collecting has its clone until it destroys it itself, unless
\* another build is of the same run and so uses the same name
\* (SandboxService.ts:96, 184-188).
CloneKept ==
    \A b \in Builds :
        at[b] = "collecting" /\ (\A other \in Builds \ {b} : run[other] # run[b]) =>
            clones[NameOf(b)] = "running"

\* A warm clone that a build can find exists, and only builds that found it too
\* and have not taken it yet will use it, except a clone that a build could not
\* save as taken: it destroys that one behind its row
\* (SandboxService.ts:105-115, 181-188, 224-238).
IdleIsFree ==
    \A w \in Idle \ spoiled :
        /\ clones[<<"warm", w, home[w]>>] = "stopped"
        /\ \A b \in Builds : taken[b] = w => at[b] = "taking"

\* Replenishments one at a time never fill the pool over the largest size that
\* was asked for (SandboxService.ts:219-226).
PoolBounded == "overlap" \notin poolExcuses => Cardinality(Idle) <= largest

PoolAtRest == \A p \in Workers : ~Working(p)

\* At rest the pool is full, whatever happened to builds, unless filling it
\* failed, a request was cut off, or a resize met another request
\* (SandboxService.ts:203, 226).
PoolFilled ==
    PoolAtRest /\ poolExcuses \cap {"resized", "pool", "crash"} = {} =>
        Cardinality(Idle) >= asked

\* Whatever fails in the build itself, at rest no clone is left but those of the
\* pool and the ones that a build on another node has used up in their rows, and
\* no row of a build says that it is in use
\* (SandboxService.ts:184-203, 246-260; sandbox_executor.zig:166-176).
NothingLeft ==
    PoolAtRest /\ poolExcuses \cap {"destroy", "crash"} = {} =>
        /\ \A n \in Names :
              clones[n] # "none" =>
                  n[1] = "warm" /\ (warm[n[2]] \in {"idle", "cloning"} \/ n[2] \in astray)
        /\ \A b \in Builds : job[b] \in {"none", "destroyed"}
        /\ \A w \in Warm : warm[w] \notin {"running", "collecting"}
==============================================================================
