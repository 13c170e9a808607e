------------------------------ MODULE StartUp --------------------------------
(***************************************************************************)
(* Start-up of control-plane replicas on PostgreSQL (Server.ts) and the    *)
(* migrations it waits for (MigrationRunner).  A replica that finds no     *)
(* leader table migrates at once; otherwise a leader election of its own   *)
(* decides whether it migrates or waits for the leader.  Migrations run    *)
(* under a session lock of PostgreSQL.  Replicas crash, are restarted, and *)
(* may be of different versions, later ones with more migration files.     *)
(* The election is abstracted to its row and flag (module LeaderLease has  *)
(* it statement by statement): a row lapses only when its holder does not  *)
(* renew it.                                                               *)
(***************************************************************************)
EXTENDS Naturals

CONSTANTS
    Replicas,    \* control-plane replicas
    NoOne,       \* nobody holds the row or the lock
    Expected,    \* Expected[r]: number of migration files in r's version
    LeaderTable, \* the file that creates control_plane_leaders
    MaxCrashes   \* bound on crashes

ASSUME StartUpAssumption ==
    /\ NoOne \notin Replicas
    /\ Expected \in [Replicas -> Nat]
    /\ LeaderTable \in Nat \ {0}
    /\ \A r \in Replicas : LeaderTable <= Expected[r]
    /\ MaxCrashes \in Nat

VARIABLES
    phase,    \* phase[r]: how far start-up of r has come
    gate,     \* gate[r]: r's bootstrapLeader is running
    flag,     \* flag[r]: isLeader() of the election r runs
    row,      \* holder of an unexpired lease, or NoOne
    lock,     \* replica whose session holds the advisory lock, or NoOne
    cursor,   \* cursor[r]: the file r has come to
    step,     \* step[r]: what applySqlMigrations() does next with that file
    executed, \* executed[m]: how often the SQL of file m was executed
    recorded, \* rows of schema_migrations
    crashes   \* crashes so far

vars == <<phase, gate, flag, row, lock, cursor, step, executed, recorded, crashes>>

Phases == {"down", "probing", "electing", "locking", "migrating", "waiting", "booting", "serving"}
Files(r) == 1 .. Expected[r]
AllFiles == UNION {Files(r) : r \in Replicas}

Init ==
    /\ phase = [r \in Replicas |-> "down"]
    /\ gate = [r \in Replicas |-> FALSE]
    /\ flag = [r \in Replicas |-> FALSE]
    /\ row = NoOne
    /\ lock = NoOne
    /\ cursor = [r \in Replicas |-> 0]
    /\ step = [r \in Replicas |-> "look"]
    /\ executed = [m \in AllFiles |-> 0]
    /\ recorded = {}
    /\ crashes = 0

GoTo(r, p) == phase' = [phase EXCEPT ![r] = p]
Gate(r, on) == gate' = [gate EXCEPT ![r] = on] /\ flag' = [flag EXCEPT ![r] = FALSE]
Database == <<lock, executed, recorded>>
Runner == <<cursor, step>>

(* Election ***************************************************************)

\* Replicas that renew a lease they hold: bootstrapLeader until it is
\* stopped, the election of the context from the end of start-up.
Renewing(r) == gate[r] \/ phase[r] = "serving"

\* Mutant: a replica that finds its own lease does not believe that it leads.
RenewAnew(r) ==
    /\ Renewing(r)
    /\ row' = IF row = NoOne THEN r ELSE row
    /\ flag' = [flag EXCEPT ![r] = row = NoOne]
    /\ UNCHANGED <<phase, gate, Database, Runner, crashes>>

\* A completed renewal.
Renew(r) ==
    /\ Renewing(r)
    /\ row' = IF row = NoOne THEN r ELSE row
    /\ flag' = [flag EXCEPT ![r] = row' = r]
    /\ UNCHANGED <<phase, gate, Database, Runner, crashes>>

\* The lease of a replica that does not renew expires.
Lapse ==
    /\ row # NoOne
    /\ ~Renewing(row)
    /\ row' = NoOne
    /\ UNCHANGED <<phase, gate, flag, Database, Runner, crashes>>

(* Gate *******************************************************************)

Start(r) ==
    /\ phase[r] = "down"
    /\ GoTo(r, "probing")
    /\ UNCHANGED <<gate, flag, row, Database, Runner, crashes>>

\* hasLeaderElectionTable() answers TRUE: start an election first.
ProbeTable(r) ==
    /\ phase[r] = "probing"
    /\ executed[LeaderTable] > 0
    /\ GoTo(r, "electing")
    /\ Gate(r, TRUE)
    /\ UNCHANGED <<row, Database, Runner, crashes>>

\* It answers FALSE, which it also does when the listing is rejected.
ProbeNoTable(r) ==
    /\ phase[r] = "probing"
    /\ GoTo(r, "locking")
    /\ UNCHANGED <<gate, flag, row, Database, Runner, crashes>>

\* waitForLeaderElectionReady() returns as soon as the replica leads.
Lead(r) ==
    /\ phase[r] = "electing"
    /\ flag[r]
    /\ GoTo(r, "locking")
    /\ UNCHANGED <<gate, flag, row, Database, Runner, crashes>>

\* Its time is up, which is four renewals: another replica holds the lease.
Follow(r) ==
    /\ phase[r] = "electing"
    /\ ~flag[r]
    /\ row \notin {NoOne, r}
    /\ GoTo(r, "waiting")
    /\ UNCHANGED <<gate, flag, row, Database, Runner, crashes>>

(* Migrations *************************************************************)

\* Mutant: no lock is taken.
LockNothing(r) ==
    /\ phase[r] = "locking"
    /\ cursor' = [cursor EXCEPT ![r] = 1]
    /\ step' = [step EXCEPT ![r] = "look"]
    /\ GoTo(r, "migrating")
    /\ UNCHANGED <<gate, flag, row, lock, executed, recorded, crashes>>

\* pg_advisory_lock() waits until no session holds the lock.
Lock(r) ==
    /\ phase[r] = "locking"
    /\ lock = NoOne
    /\ lock' = r
    /\ cursor' = [cursor EXCEPT ![r] = 1]
    /\ step' = [step EXCEPT ![r] = "look"]
    /\ GoTo(r, "migrating")
    /\ UNCHANGED <<gate, flag, row, executed, recorded, crashes>>

\* Is the file recorded in schema_migrations?
LookUp(r) ==
    /\ phase[r] = "migrating"
    /\ step[r] = "look"
    /\ cursor[r] <= Expected[r]
    /\ IF cursor[r] \in recorded
       THEN /\ cursor' = [cursor EXCEPT ![r] = @ + 1]
            /\ UNCHANGED step
       ELSE /\ step' = [step EXCEPT ![r] = "execute"]
            /\ UNCHANGED cursor
    /\ UNCHANGED <<phase, gate, flag, row, Database, crashes>>

\* Its statements are sent as one query, which PostgreSQL executes as one
\* transaction.
Execute(r) ==
    /\ phase[r] = "migrating"
    /\ step[r] = "execute"
    /\ executed' = [executed EXCEPT ![cursor[r]] = @ + 1]
    /\ step' = [step EXCEPT ![r] = "record"]
    /\ UNCHANGED <<phase, gate, flag, row, lock, cursor, recorded, crashes>>

Record(r) ==
    /\ phase[r] = "migrating"
    /\ step[r] = "record"
    /\ recorded' = recorded \cup {cursor[r]}
    /\ cursor' = [cursor EXCEPT ![r] = @ + 1]
    /\ step' = [step EXCEPT ![r] = "look"]
    /\ UNCHANGED <<phase, gate, flag, row, lock, executed, crashes>>

\* Unlock(r) ends run().  The unlock is sent on a session of the pool.  Without
\* an election the pool has the one session that took the lock; beside an
\* election's statements it may be another, and then the session that has the
\* lock keeps it.
Unlock(r) ==
    /\ phase[r] = "migrating"
    /\ step[r] = "look"
    /\ cursor[r] > Expected[r]
    /\ lock' \in {NoOne} \cup {l \in {lock} : gate[r]}
    /\ GoTo(r, "booting")
    /\ Gate(r, FALSE)
    /\ UNCHANGED <<row, Runner, executed, recorded, crashes>>

\* Mutant: the wait ends with the first file that is recorded.
PendingAll(r) == \A m \in Files(r) : m \notin recorded

Pending(r) == \E m \in Files(r) : m \notin recorded

\* The wait of a follower ends, and with it bootstrapLeader.
SeeApplied(r) ==
    /\ phase[r] = "waiting"
    /\ ~Pending(r)
    /\ GoTo(r, "booting")
    /\ Gate(r, FALSE)
    /\ UNCHANGED <<row, Database, Runner, crashes>>

\* It takes too long: startServer() throws and the process ends.
TimeOut(r) ==
    /\ phase[r] = "waiting"
    /\ Pending(r)
    /\ GoTo(r, "down")
    /\ Gate(r, FALSE)
    /\ UNCHANGED <<row, Database, Runner, crashes>>

\* The rest of start-up, after which the context's election runs.
Serve(r) ==
    /\ phase[r] = "booting"
    /\ GoTo(r, "serving")
    /\ UNCHANGED <<gate, flag, row, Database, Runner, crashes>>

\* The process ends: it is stopped, dies, or a rejected statement makes
\* startServer() throw.  Its sessions end with it.
Crash(r) ==
    /\ phase[r] # "down"
    /\ crashes < MaxCrashes
    /\ crashes' = crashes + 1
    /\ GoTo(r, "down")
    /\ Gate(r, FALSE)
    /\ lock' = IF lock = r THEN NoOne ELSE lock
    /\ step' = [step EXCEPT ![r] = "look"]
    /\ UNCHANGED <<row, cursor, executed, recorded>>

Progress(r) ==
    \/ Start(r) \/ ProbeTable(r) \/ ProbeNoTable(r) \/ Lead(r) \/ Follow(r)
    \/ Lock(r) \/ LookUp(r) \/ Execute(r) \/ Record(r) \/ Unlock(r)
    \/ SeeApplied(r) \/ TimeOut(r) \/ Serve(r)

Next ==
    \/ Lapse
    \/ \E r \in Replicas : Progress(r) \/ Renew(r) \/ Crash(r)

Spec == Init /\ [][Next]_vars

(***************************************************************************)
(* Fairness: leases expire, timers fire, statements are answered, and a    *)
(* replica that went down is started again.                                *)
(***************************************************************************)
Fairness ==
    /\ WF_vars(Lapse)
    /\ \A r \in Replicas : WF_vars(Progress(r)) /\ WF_vars(Renew(r))

FairSpec == Spec /\ Fairness

(***************************************************************************)
(* Properties                                                              *)
(***************************************************************************)

\* The values that the variables range over.
TypeOK ==
    /\ phase \in [Replicas -> Phases]
    /\ gate \in [Replicas -> BOOLEAN]
    /\ flag \in [Replicas -> BOOLEAN]
    /\ row \in Replicas \cup {NoOne}
    /\ lock \in Replicas \cup {NoOne}
    /\ cursor \in [Replicas -> Nat]
    /\ step \in [Replicas -> {"look", "execute", "record"}]
    /\ executed \in [AllFiles -> Nat]
    /\ recorded \subseteq AllFiles
    /\ crashes \in 0 .. MaxCrashes

\* However replicas of two versions start, crash and follow each other, one
\* that goes on with its start-up finds every migration of its version
\* executed and recorded (Server.ts:68).
ServesMigrated ==
    \A r \in Replicas : phase[r] \in {"booting", "serving"} =>
        \A m \in Files(r) : m \in recorded /\ executed[m] > 0

\* Two replicas never apply migrations at the same time, also when both
\* found no leader table or both believe they lead (MigrationRunner.ts:87).
OneMigrator ==
    \A r, s \in Replicas : phase[r] = "migrating" /\ phase[s] = "migrating" => r = s

\* The SQL of a migration that is recorded is never executed again: the row
\* is looked up under the lock (MigrationRunner.ts:147).
NeverReruns ==
    [][\A m \in AllFiles : executed'[m] > executed[m] => m \notin recorded]_vars

\* What keeps start-up from ending: a session lock that a serving replica
\* has leaked, a leader of an older version, which has no file to apply, or a
\* replica that took the lease while it waited and goes on waiting.
LeakedLock == lock # NoOne /\ phase[lock] \in {"booting", "serving"}
OlderLeads == row # NoOne /\ phase[row] = "serving" /\ \E r \in Replicas : Expected[row] < Expected[r]
WaiterLeads == row # NoOne /\ phase[row] \in {"waiting", "down"}

\* With nothing of that kind in its way every replica gets to serve, and
\* again after a crash (Server.ts:50, MigrationRunner.ts:64).
StartUpEnds ==
    []<>(\/ \A r \in Replicas : phase[r] = "serving"
         \/ LeakedLock \/ OlderLeads \/ WaiterLeads)
=============================================================================
