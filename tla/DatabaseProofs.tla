---------------------------- MODULE DatabaseProofs ----------------------------
(***************************************************************************)
(* Proofs about what the control plane writes in its database: about       *)
(* StartUp, the migrations, and about ApplyState, services and rows.       *)
(*                                                                         *)
(* An apply is one statement after another, of a difference that is as old *)
(* as its reads.  That applies of one manifest agree in the end rests on   *)
(* what is left of the difference of each of them being, at every step,    *)
(* the difference of the state and the manifest (Scales), or the instances *)
(* being built under the same ids by each of them (Rebuilds).              *)
(***************************************************************************)
EXTENDS ApplyState, StartUp, FiniteSetTheorems, TLAPS

(***************************************************************************)
(* Start-up, for every number of replicas, any versions, any number of     *)
(* crashes and every schedule.                                             *)
(***************************************************************************)

\* A replica that migrates holds the lock, has recorded the files before its
\* cursor, and is at work on one that nobody has recorded.
Guarded ==
    \A r \in Replicas : phase[r] = "migrating" =>
        /\ lock = r
        /\ cursor[r] > 0
        /\ \A m \in Files(r) : m < cursor[r] => m \in recorded
        /\ step[r] \in {"execute", "record"} => cursor[r] \in Files(r) /\ cursor[r] \notin recorded
        /\ step[r] = "record" => executed[cursor[r]] > 0

\* The row of a migration is never there without its effect.
RecordedExecuted == \A m \in recorded : executed[m] > 0

Sound == TypeOK /\ Guarded /\ RecordedExecuted /\ ServesMigrated

-----------------------------------------------------------------------------
\* The files of a replica are numbers and among all files.
LEMMA FilesKnown ==
    ASSUME NEW r \in Replicas
    PROVE  /\ Files(r) \subseteq AllFiles
           /\ \A m : m \in Files(r) <=> m \in Nat /\ 1 <= m /\ m <= Expected[r]
<1>1. Expected[r] \in Nat
  BY StartUpAssumption
<1> QED
  BY <1>1 DEF Files, AllFiles

LEMMA AllFilesNat == AllFiles \subseteq Nat
BY FilesKnown DEF AllFiles

\* What a step leaves alone stays sound when only the phases of replicas that
\* neither start to migrate nor come to boot change.
LEMMA PhaseStep ==
    ASSUME Sound, TypeOK', UNCHANGED <<lock, cursor, step, executed, recorded>>,
           \A r \in Replicas : phase'[r] # phase[r] => phase'[r] \notin {"migrating", "booting"},
           \A r \in Replicas : phase'[r] = "serving" => phase[r] \in {"booting", "serving"}
    PROVE  Sound'
<1>1. Guarded'
  BY DEF Sound, Guarded, Files
<1>2. RecordedExecuted'
  BY DEF Sound, RecordedExecuted
<1>3. ServesMigrated'
  BY DEF Sound, ServesMigrated, Files
<1> QED
  BY <1>1, <1>2, <1>3 DEF Sound

-----------------------------------------------------------------------------
\* Every step keeps the variables in their types; that a file which is
\* recorded exists takes the guard of the migration, not only its type.
LEMMA TypeStep == Sound /\ [Next]_vars => TypeOK'
<1> SUFFICES ASSUME Sound, [Next]_vars PROVE TypeOK'
  OBVIOUS
<1> USE DEF Sound, TypeOK
<1>1. CASE Lapse
  BY <1>1 DEF Lapse, Database, Runner
<1>2. ASSUME NEW r \in Replicas, Progress(r) PROVE TypeOK'
  <2>1. CASE Start(r) \/ ProbeNoTable(r) \/ Lead(r) \/ Follow(r) \/ Serve(r)
    BY <2>1 DEF Start, ProbeNoTable, Lead, Follow, Serve, GoTo, Database, Runner, Phases
  <2>2. CASE ProbeTable(r) \/ SeeApplied(r) \/ TimeOut(r)
    BY <2>2 DEF ProbeTable, SeeApplied, TimeOut, GoTo, Gate, Database, Runner, Phases
  <2>3. CASE Lock(r)
    BY <2>3 DEF Lock, GoTo, Phases
  <2>4. CASE LookUp(r)
    BY <2>4 DEF LookUp, Database
  <2>5. CASE Execute(r)
    <3>1. cursor[r] \in AllFiles
      BY <2>5, FilesKnown DEF Execute, Guarded
    <3>2. executed' \in [AllFiles -> Nat]
      BY <2>5, <3>1 DEF Execute
    <3> QED
      BY <2>5, <3>2 DEF Execute
  <2>6. CASE Record(r)
    <3>1. cursor[r] \in AllFiles
      BY <2>6, FilesKnown DEF Record, Guarded
    <3> QED
      BY <2>6, <3>1 DEF Record
  <2>7. CASE Unlock(r)
    BY <2>7 DEF Unlock, GoTo, Gate, Runner, Phases
  <2> QED
    BY <1>2, <2>1, <2>2, <2>3, <2>4, <2>5, <2>6, <2>7 DEF Progress
<1>3. ASSUME NEW r \in Replicas, Renew(r) PROVE TypeOK'
  BY <1>3 DEF Renew, Database, Runner
<1>4. ASSUME NEW r \in Replicas, Crash(r) PROVE TypeOK'
  BY <1>4, StartUpAssumption DEF Crash, GoTo, Gate, Phases
<1>5. CASE UNCHANGED vars
  BY <1>5 DEF vars
<1> QED
  BY <1>1, <1>2, <1>3, <1>4, <1>5 DEF Next

-----------------------------------------------------------------------------
LEMMA LockStep ==
    ASSUME Sound, TypeOK', NEW r \in Replicas, Lock(r) PROVE Sound'
<1>1. Guarded'
  <2> SUFFICES ASSUME NEW s \in Replicas, phase'[s] = "migrating"
               PROVE  s = r
    BY FilesKnown DEF Guarded, Lock, GoTo, Sound, TypeOK, Files
  <2> QED
    BY StartUpAssumption DEF Guarded, Lock, GoTo, Sound, TypeOK
<1>2. RecordedExecuted'
  BY DEF Sound, RecordedExecuted, Lock
<1>3. ServesMigrated'
  BY DEF Sound, ServesMigrated, Files, Lock, GoTo, TypeOK
<1> QED
  BY <1>1, <1>2, <1>3 DEF Sound

LEMMA LookUpStep ==
    ASSUME Sound, TypeOK', NEW r \in Replicas, LookUp(r) PROVE Sound'
<1>1. \A s \in Replicas : phase[s] = "migrating" => s = r
  BY DEF Sound, Guarded, LookUp
<1>2. Guarded'
  <2>1. cursor[r] \in Files(r)
    BY FilesKnown DEF LookUp, Sound, Guarded, TypeOK
  <2>2. CASE cursor[r] \in recorded
    BY <1>1, <2>1, <2>2, FilesKnown DEF LookUp, Sound, Guarded, TypeOK, Files, Database
  <2>3. CASE cursor[r] \notin recorded
    BY <1>1, <2>1, <2>3, FilesKnown DEF LookUp, Sound, Guarded, TypeOK, Files, Database
  <2> QED
    BY <2>2, <2>3
<1>3. RecordedExecuted' /\ ServesMigrated'
  BY DEF Sound, RecordedExecuted, ServesMigrated, Files, LookUp, Database
<1> QED
  BY <1>2, <1>3 DEF Sound

LEMMA ExecuteStep ==
    ASSUME Sound, TypeOK', NEW r \in Replicas, Execute(r) PROVE Sound'
<1>1. \A s \in Replicas : phase[s] = "migrating" => s = r
  BY DEF Sound, Guarded, Execute
<1>2. cursor[r] \in AllFiles
  BY FilesKnown DEF Sound, Guarded, Execute
<1>3. /\ executed'[cursor[r]] > 0
      /\ \A m \in AllFiles : executed[m] > 0 => executed'[m] > 0
  BY <1>2 DEF Sound, TypeOK, Execute
<1>4. Guarded'
  BY <1>1, <1>3 DEF Sound, Guarded, Execute, Files, TypeOK
<1>5. RecordedExecuted'
  BY <1>3 DEF Sound, RecordedExecuted, Execute, TypeOK
<1>6. ServesMigrated'
  BY <1>3, FilesKnown DEF Sound, ServesMigrated, Execute, Files
<1> QED
  BY <1>4, <1>5, <1>6 DEF Sound

LEMMA RecordStep ==
    ASSUME Sound, TypeOK', NEW r \in Replicas, Record(r) PROVE Sound'
<1>1. \A s \in Replicas : phase[s] = "migrating" => s = r
  BY DEF Sound, Guarded, Record
<1>2. Guarded'
  BY <1>1, FilesKnown DEF Sound, Guarded, Record, Files, TypeOK
<1>3. RecordedExecuted'
  BY DEF Sound, Guarded, RecordedExecuted, Record
<1>4. ServesMigrated'
  BY DEF Sound, ServesMigrated, Record, Files
<1> QED
  BY <1>2, <1>3, <1>4 DEF Sound

LEMMA UnlockStep ==
    ASSUME Sound, TypeOK', NEW r \in Replicas, Unlock(r) PROVE Sound'
<1>1. \A s \in Replicas : phase[s] = "migrating" => s = r
  BY DEF Sound, Guarded, Unlock
<1>2. Guarded'
  BY <1>1 DEF Sound, Guarded, Unlock, GoTo, TypeOK
<1>3. RecordedExecuted'
  BY DEF Sound, RecordedExecuted, Unlock
<1>4. \A m \in Files(r) : m \in recorded
  BY FilesKnown, StartUpAssumption DEF Sound, Guarded, Unlock, TypeOK
<1>5. ServesMigrated'
  BY <1>4 DEF Sound, ServesMigrated, RecordedExecuted, Unlock, GoTo, Files, TypeOK
<1> QED
  BY <1>2, <1>3, <1>5 DEF Sound

LEMMA SeeAppliedStep ==
    ASSUME Sound, TypeOK', NEW r \in Replicas, SeeApplied(r) PROVE Sound'
<1>1. Guarded'
  BY DEF Sound, Guarded, SeeApplied, GoTo, Database, Runner, Files, TypeOK
<1>2. RecordedExecuted'
  BY DEF Sound, RecordedExecuted, SeeApplied, Database
<1>3. ServesMigrated'
  BY DEF Sound, ServesMigrated, RecordedExecuted, SeeApplied, Pending, GoTo, Database, Files, TypeOK
<1> QED
  BY <1>1, <1>2, <1>3 DEF Sound

\* The lock that a crash gives back is its own: nobody else migrates under it.
LEMMA CrashStep ==
    ASSUME Sound, TypeOK', NEW r \in Replicas, Crash(r) PROVE Sound'
<1>1. Guarded'
  BY StartUpAssumption DEF Sound, Guarded, Crash, GoTo, Files, TypeOK
<1>2. RecordedExecuted'
  BY DEF Sound, RecordedExecuted, Crash
<1>3. ServesMigrated'
  BY DEF Sound, ServesMigrated, Crash, GoTo, Files, TypeOK
<1> QED
  BY <1>1, <1>2, <1>3 DEF Sound

-----------------------------------------------------------------------------
\* However replicas start, migrate, wait and crash, migrations are guarded by
\* the lock and go on only when they are complete.
THEOREM MigrationsAreGuarded == Spec => []Sound
<1>1. Init => Sound
  <2> SUFFICES ASSUME Init PROVE Sound
    OBVIOUS
  <2>1. TypeOK
    BY StartUpAssumption DEF Init, TypeOK, Phases
  <2>2. Guarded /\ RecordedExecuted /\ ServesMigrated
    BY DEF Init, Guarded, RecordedExecuted, ServesMigrated
  <2> QED
    BY <2>1, <2>2 DEF Sound
<1>2. Sound /\ [Next]_vars => Sound'
  <2> SUFFICES ASSUME Sound, [Next]_vars PROVE Sound'
    OBVIOUS
  <2>0. TypeOK /\ TypeOK'
    BY TypeStep DEF Sound
  <2>1. CASE Lapse
    BY <2>0, <2>1, PhaseStep DEF Lapse, Database, Runner
  <2>2. ASSUME NEW r \in Replicas, Progress(r) PROVE Sound'
    <3>1. CASE Start(r) \/ ProbeNoTable(r) \/ Lead(r) \/ Follow(r) \/ Serve(r)
      BY <2>0, <3>1, PhaseStep
      DEF Start, ProbeNoTable, Lead, Follow, Serve, GoTo, Database, Runner, TypeOK
    <3>2. CASE ProbeTable(r) \/ TimeOut(r)
      BY <2>0, <3>2, PhaseStep DEF ProbeTable, TimeOut, GoTo, Database, Runner, TypeOK
    <3> QED
      BY <2>0, <2>2, <3>1, <3>2, LockStep, LookUpStep, ExecuteStep, RecordStep, UnlockStep,
         SeeAppliedStep DEF Progress
  <2>3. ASSUME NEW r \in Replicas, Renew(r) PROVE Sound'
    BY <2>0, <2>3, PhaseStep DEF Renew, Database, Runner
  <2>4. ASSUME NEW r \in Replicas, Crash(r) PROVE Sound'
    BY <2>0, <2>4, CrashStep
  <2>5. CASE UNCHANGED vars
    BY <2>0, <2>5, PhaseStep DEF vars
  <2> QED
    BY <2>1, <2>2, <2>3, <2>4, <2>5 DEF Next
<1> QED
  BY <1>1, <1>2, PTL DEF Spec

\* The variables keep their types; of the records of migrations this takes the
\* lock.
THEOREM StartUpTyped == Spec => []TypeOK
<1>1. Sound => TypeOK
  BY DEF Sound
<1> QED
  BY <1>1, MigrationsAreGuarded, PTL

\* Two replicas never apply migrations at the same time: both would hold the
\* one lock.
THEOREM MigratorsAreAlone == Spec => []OneMigrator
<1>1. Sound => OneMigrator
  BY DEF Sound, Guarded, OneMigrator
<1> QED
  BY <1>1, MigrationsAreGuarded, PTL

\* A replica that goes on with its start-up finds its migrations done.
THEOREM ServingIsMigrated == Spec => []ServesMigrated
<1>1. Sound => ServesMigrated
  BY DEF Sound
<1> QED
  BY <1>1, MigrationsAreGuarded, PTL

\* The SQL of a recorded migration is not executed again: what was read of
\* the record still holds when the SQL is sent, since the lock was kept.
THEOREM RecordedNotRerun == Spec => NeverReruns
<1>1. Sound /\ [Next]_vars
          => [\A m \in AllFiles : executed'[m] > executed[m] => m \notin recorded]_vars
  <2> SUFFICES ASSUME Sound, [Next]_vars, NEW m \in AllFiles, executed'[m] > executed[m]
               PROVE  m \notin recorded
    BY DEF vars
  <2>1. executed' # executed
    BY DEF Sound, TypeOK
  <2>2. PICK r \in Replicas : Execute(r)
    BY <2>1 DEF Next, Progress, Lapse, Start, ProbeTable, ProbeNoTable, Lead, Follow, Lock, LookUp,
       Record, Unlock, SeeApplied, TimeOut, Serve, Renew, Crash, Database, vars
  <2>3. m = cursor[r]
    BY <2>2 DEF Execute, Sound, TypeOK
  <2> QED
    BY <2>2, <2>3 DEF Execute, Sound, Guarded
<1> QED
  BY <1>1, MigrationsAreGuarded, PTL DEF Spec, NeverReruns

(***************************************************************************)
(* Applies, for any services, nodes, versions of a manifest and appliers.  *)
(***************************************************************************)

Ids == Services \X (Nat \ {0})

\* The ids that apply a has not inserted yet of the services it has to do.
Uninserted(a) ==
    {id \in diff[a].create : id[1] \in todo[a] /\ (place[a][id] = Unscheduled \/ id \in inserts[a])}

\* The services, the rows and the containers.
Stored ==
    /\ IsFiniteSet(DOMAIN rows)
    /\ DOMAIN rows \subseteq Ids
    /\ \A id \in DOMAIN rows : rows[id].node \in Nodes
    /\ \A id \in DOMAIN rows : DOMAIN rows[id] = {"node", "image", "status"}
    /\ services = [s \in DOMAIN services |-> services[s]]
    /\ DOMAIN services \subseteq Services
    /\ \A c \in DOMAIN containers : c \in Nodes \X Ids

\* What there is of every apply.
Tables ==
    /\ stage \in [Appliers -> {"idle", "updating", "dispatching"}]
    /\ DOMAIN wanted = Appliers
    /\ DOMAIN diff = Appliers
    /\ DOMAIN deletes = Appliers
    /\ DOMAIN todo = Appliers
    /\ DOMAIN inserts = Appliers
    /\ DOMAIN place = Appliers
    /\ DOMAIN unsent = Appliers
    /\ DOMAIN reached = Appliers

\* An apply that is not in progress holds nothing.
Resting(a) ==
    /\ diff[a] = NoDiff
    /\ deletes[a] = {}
    /\ todo[a] = {}
    /\ inserts[a] = {}

\* What an apply in progress knows is about its manifest.
Planned(a) ==
    /\ wanted[a] \in Manifests \cap tried
    /\ todo[a] \subseteq DOMAIN wanted[a]
    /\ diff[a].gone \cap DOMAIN wanted[a] = {}
    /\ deletes[a] \subseteq diff[a].remove
    /\ diff[a].remove \cup diff[a].create \cup diff[a].redeploy \subseteq Ids \cap DOMAIN place[a]
    /\ \A id \in diff[a].create :
        id[1] \in DOMAIN wanted[a] /\ diff[a].images[id] = wanted[a][id[1]].image
    /\ \A s \in Services : IsFiniteSet(Creates(a, s))
    /\ \A id \in deletes[a] : id[1] \in todo[a] \cup diff[a].gone
    /\ \A id \in DOMAIN place[a] : place[a][id] \in Nodes \cup (IF id \in diff[a].create THEN {Unscheduled} ELSE {})
    /\ stage[a] = "dispatching" => deletes[a] \cup todo[a] = {}

\* Services are scheduled one at a time, each with all its instances, once the
\* rows are deleted, and before it is upserted.
InTurn(a) ==
    /\ deletes[a] # {} => \A id \in diff[a].create : place[a][id] = Unscheduled
    /\ inserts[a] \subseteq diff[a].create
    /\ \A id \in inserts[a] : id[1] \in todo[a] /\ place[a][id] # Unscheduled
    /\ \A id, other \in diff[a].create :
        id[1] = other[1] /\ place[a][id] = Unscheduled => place[a][other] = Unscheduled
    /\ \A id \in diff[a].create : id[1] \notin todo[a] => place[a][id] # Unscheduled
    /\ \A s, t \in InHand(a) : s = t

One(a) == IF stage[a] = "idle" THEN Resting(a) ELSE Planned(a) /\ InTurn(a)
Known == Stored /\ Tables /\ \A a \in Appliers : One(a)

\* Applies that never met: one at a time, which still has to change what it has to do.
Alone ==
    "concurrent" \notin excuses =>
        /\ \A a, b \in Appliers : stage[a] # "idle" /\ stage[b] # "idle" => a = b
        /\ \A a \in Appliers : \A s \in todo[a] \cap DOMAIN services : services[s] # wanted[a][s]

(* Applies of one manifest *)

\* Service s is built anew for m.
Rebuilds(m, s) ==
    LET target == Built(s, m[s].replicas)
        done == s \in DOMAIN services /\ services[s] = m[s]
    IN  /\ s \in DOMAIN services => done \/ services[s].image # m[s].image
        /\ \A a \in Appliers : s \in todo[a] => Creates(a, s) = target
        /\ \A id \in RowsOf(s) :
            \/ rows[id].image = m[s].image /\ id \in target
            \/ s \in DOMAIN services /\ ~done /\ \A a \in Appliers : s \in todo[a] => id \in deletes[a]
        /\ \A id \in target :
            done \/ (\E a \in Appliers : s \in todo[a] /\ id \notin Uninserted(a)) =>
                id \in RowsOf(s) \/ \E a \in Appliers : id \in Uninserted(a)

\* Service s keeps its instances and is scaled to m: what is left of each
\* apply's difference is the difference.
Scales(m, s) ==
    /\ s \in DOMAIN services
    /\ services[s].image = m[s].image
    /\ \A id \in RowsOf(s) : rows[id].image = m[s].image
    /\ services[s] = m[s] => Cardinality(RowsOf(s)) = m[s].replicas
    /\ \A a \in Appliers : s \in todo[a] =>
        /\ deletes[a] \cap RowsOf(s) = Retired(s, Surplus(m, s))
        /\ Creates(a, s) \ RowsOf(s) = Scaled(s, Shortage(m, s))
        /\ Creates(a, s) \ Uninserted(a) \subseteq RowsOf(s)
        /\ Creates(a, s) # {} => Surplus(m, s) = 0
        /\ (\E id \in deletes[a] : id[1] = s) => Shortage(m, s) = 0

Converges(m) ==
    /\ \A a \in Appliers : stage[a] # "idle" =>
        /\ wanted[a] = m
        /\ \A s \in DOMAIN m \ todo[a] : s \in DOMAIN services /\ services[s] = m[s]
        /\ DOMAIN services \ DOMAIN m \subseteq IF stage[a] = "updating" THEN diff[a].gone ELSE {}
    /\ \A id \in DOMAIN rows : id[1] \in DOMAIN services \cup DOMAIN m
    /\ \A s \in DOMAIN m : Rebuilds(m, s) \/ Scales(m, s)

\* The rows are those of the services.
Clean ==
    /\ \A id \in DOMAIN rows : id[1] \in DOMAIN services /\ rows[id].image = services[id[1]].image
    /\ \A s \in DOMAIN services : Cardinality(RowsOf(s)) = services[s].replicas

Agreeing ==
    /\ tried = {} => Idle /\ Clean
    /\ settled # {} => tried = {}
    /\ ~(cut /\ "concurrent" \in excuses) => \A m \in Manifests : tried = {m} => Converges(m)

(* Rows and services *)

\* No row has an id that apply a is to insert, unless it is to delete that row;
\* no row stays of a service that is gone, and every other has a service.
Ordered(a) ==
    /\ \A id \in DOMAIN rows : id[1] \in diff[a].gone => id \in deletes[a]
    /\ Uninserted(a) \cap DOMAIN rows \subseteq deletes[a]
    /\ \A id \in DOMAIN rows : id[1] \in DOMAIN services \cup todo[a]

\* Applies that ran to their ends, one at a time.
Orderly ==
    excuses \subseteq {"dispatch"} =>
        /\ ~rejected
        /\ Idle => \A id \in DOMAIN rows : id[1] \in DOMAIN services
        /\ \A a \in Appliers : stage[a] # "idle" => Ordered(a)

(* Containers *)

Good(c) ==
    /\ c[2] \in DOMAIN rows
    /\ rows[c[2]].node = c[1]
    /\ rows[c[2]].image = containers[c]

\* Of apply a while nothing has failed.
Mirrors(a) ==
    /\ \A id \in diff[a].create :
        \/ id \in Uninserted(a)
        \/ id \in DOMAIN rows /\ rows[id].node = place[a][id] /\ rows[id].image = diff[a].images[id]
    /\ \A id \in diff[a].redeploy :
        /\ id \notin diff[a].remove \cup diff[a].create
        /\ id \in DOMAIN rows /\ rows[id].node = place[a][id] /\ rows[id].image = diff[a].images[id]
    /\ \A id \in DOMAIN rows \cap diff[a].remove : id \in deletes[a] \/ id \in diff[a].create
    /\ LET Ahead(id) == stage[a] = "dispatching" => place[a][id] \in unsent[a]
       IN  /\ \A c \in DOMAIN containers : Good(c) \/ (c[2] \in diff[a].remove /\ Ahead(c[2]))
           /\ \A id \in DOMAIN rows :
                \/ <<rows[id].node, id>> \in DOMAIN containers
                \/ id \in diff[a].create /\ rows[id].node = place[a][id] /\ Ahead(id)

\* An instance has one container at most.
Single == \A c, d \in DOMAIN containers : c[2] = d[2] => c = d

Mirrored ==
    excuses = {} =>
        /\ Single
        /\ Idle =>
            /\ \A c \in DOMAIN containers : Good(c)
            /\ \A id \in DOMAIN rows : <<rows[id].node, id>> \in DOMAIN containers
        /\ \A a \in Appliers : stage[a] # "idle" => Mirrors(a)

ApplyInv == Known /\ Alone /\ Agreeing /\ AppliedAgree /\ Orderly /\ Mirrored

-----------------------------------------------------------------------------
\* A non-empty finite set of numbers has a largest element: of the sets of
\* numbers above an element, one has no strict subset among them.
LEMMA MaxOfFinite ==
    ASSUME NEW S, S \subseteq Int, IsFiniteSet(S), S # {}
    PROVE  Max(S) \in S /\ \A y \in S : y <= Max(S)
<1> DEFINE Higher(x) == {z \in S : z > x}
           T == {Higher(x) : x \in S}
<1>1. IsWellFoundedOn(StrictSubsetOrdering(S), FiniteSubsetsOf(S))
  BY FS_StrictSubsetOrderingWellFounded
<1>2. FiniteSubsetsOf(S) = SUBSET S
  BY FS_FiniteSubsetsOfFinite
<1>3. T \subseteq SUBSET S /\ T # {}
  OBVIOUS
<1>4. \E t \in T : \A u \in T : <<u, t>> \notin StrictSubsetOrdering(S)
  <2> DEFINE R == StrictSubsetOrdering(S)
             All == FiniteSubsetsOf(S)
  <2>1. IsWellFoundedOn(R, All) /\ T \subseteq All /\ T # {}
    BY <1>1, <1>2, <1>3
  <2> HIDE DEF T, R, All
  <2>2. \E t \in T : \A u \in T : <<u, t>> \notin R
    BY <2>1, WFMin
  <2> QED
    BY <2>2 DEF R
<1>5. PICK x \in S : \A u \in T : <<u, Higher(x)>> \notin StrictSubsetOrdering(S)
  BY <1>4
<1>6. ASSUME NEW y \in S, y > x PROVE FALSE
  <2>1. Higher(y) \subseteq Higher(x) /\ Higher(y) # Higher(x)
    <3>1. y \in Higher(x) /\ y \notin Higher(y)
      BY <1>6
    <3>2. Higher(y) \subseteq Higher(x)
      <4>1. x \in Int /\ \A z \in S : z \in Int
        OBVIOUS
      <4>2. \A z \in S : z > y => z > x
        BY <1>6, <4>1
      <4> QED
        BY <4>2
    <3> QED
      BY <3>1, <3>2
  <2>2. <<Higher(y), Higher(x)>> \in StrictSubsetOrdering(S)
    <3>1. Higher(y) \in SUBSET S /\ Higher(x) \in SUBSET S
      OBVIOUS
    <3> HIDE DEF Higher
    <3> QED
      BY <2>1, <3>1 DEF StrictSubsetOrdering
  <2>3. Higher(y) \in T
    BY <1>6
  <2> QED
    BY <1>5, <2>2, <2>3
<1>7. \E z \in S : \A y \in S : z >= y
  BY <1>6
<1> QED
  BY <1>7 DEF Max

LEMMA MaxWithZero ==
    ASSUME NEW n \in Int
    PROVE  Max({n, 0}) = IF n > 0 THEN n ELSE 0
<1>1. IsFiniteSet({n} \cup {0}) /\ {n} \cup {0} = {n, 0}
  BY FS_Singleton, FS_AddElement
<1>2. Max({n, 0}) \in {n, 0} /\ \A y \in {n, 0} : y <= Max({n, 0})
  BY <1>1, MaxOfFinite
<1> QED
  BY <1>2

LEMMA Gaps ==
    ASSUME NEW count \in Nat, NEW wish \in Nat
    PROVE  /\ Max({count - wish, 0}) = IF count > wish THEN count - wish ELSE 0
           /\ Max({wish - count, 0}) = IF wish > count THEN wish - count ELSE 0
BY MaxWithZero

\* The instances that are built for a service are as many as asked for.
LEMMA BuiltCount ==
    ASSUME NEW s, NEW n \in Nat
    PROVE  IsFiniteSet(Built(s, n)) /\ Cardinality(Built(s, n)) = n
<1> DEFINE f == [i \in 1 .. n |-> <<s, i>>]
<1>1. f \in Bijection(1 .. n, Built(s, n))
  <2>1. f \in [1 .. n -> Built(s, n)]
    BY DEF Built
  <2>2. f \in Injection(1 .. n, Built(s, n))
    BY <2>1 DEF Injection, IsInjective
  <2>3. f \in Surjection(1 .. n, Built(s, n))
    <3>1. \A id \in Built(s, n) : \E i \in 1 .. n : f[i] = id
      BY DEF Built
    <3> HIDE DEF f
    <3> QED
      BY <2>1, <3>1 DEF Surjection
  <2> QED
    BY <2>2, <2>3 DEF Bijection
<1>2. ExistsBijection(1 .. n, Built(s, n))
  BY <1>1 DEF ExistsBijection
<1>3. IsFiniteSet(1 .. n) /\ Cardinality(1 .. n) = n
  BY FS_Interval
<1> QED
  BY <1>2, <1>3, FS_Bijection

-----------------------------------------------------------------------------
\* Retired() and Scaled() of a set of instances of one service.
Above(ids, id) == {other \in ids : other[2] > id[2]}
Upper(ids, count) == {id \in ids : Cardinality(Above(ids, id)) < count}
OfOne(s, ids) == IsFiniteSet(ids) /\ ids \subseteq {s} \X (Nat \ {0})
Top(ids) == Max(Indexes(ids) \cup {0})

LEMMA AboveCount ==
    ASSUME NEW s, NEW ids, OfOne(s, ids), NEW id
    PROVE  IsFiniteSet(Above(ids, id)) /\ Cardinality(Above(ids, id)) \in Nat
BY FS_Subset, FS_CardinalityType DEF Above, OfOne

LEMMA TopOf ==
    ASSUME NEW s, NEW ids, OfOne(s, ids)
    PROVE  /\ Top(ids) \in Nat
           /\ \A id \in ids : id[2] <= Top(ids)
           /\ Top(ids) = 0 \/ <<s, Top(ids)>> \in ids
<1> DEFINE f == [id \in ids |-> id[2]]
<1>1. f \in Surjection(ids, Indexes(ids))
  BY DEF Surjection, Indexes
<1>2. IsFiniteSet(Indexes(ids))
  BY <1>1, FS_Surjection DEF OfOne
<1>3. IsFiniteSet(Indexes(ids) \cup {0})
  BY <1>2, FS_AddElement
<1>4. Indexes(ids) \subseteq Nat
  BY DEF Indexes, OfOne
<1>5. Top(ids) \in Indexes(ids) \cup {0} /\ \A y \in Indexes(ids) \cup {0} : y <= Top(ids)
  BY <1>3, <1>4, MaxOfFinite DEF Top
<1> QED
  BY <1>4, <1>5 DEF Indexes, OfOne

\* Nobody is above the one with the largest index.
LEMMA UpperEmpty ==
    ASSUME NEW s, NEW ids, OfOne(s, ids), NEW count \in Nat
    PROVE  /\ count = 0 => Upper(ids, count) = {}
           /\ Upper(ids, count) = {} => count = 0 \/ ids = {}
<1>1. count = 0 => Upper(ids, count) = {}
  BY AboveCount DEF Upper
<1>2. ASSUME count # 0, ids # {} PROVE Upper(ids, count) # {}
  <2>1. <<s, Top(ids)>> \in ids
    BY <1>2, TopOf DEF OfOne
  <2>2. Above(ids, <<s, Top(ids)>>) = {}
    <3>1. \A other \in ids : other[2] \in Nat /\ other[2] <= Top(ids)
      BY TopOf DEF OfOne
    <3>2. <<s, Top(ids)>>[2] = Top(ids) /\ Top(ids) \in Nat
      BY TopOf
    <3> HIDE DEF Top
    <3> QED
      BY <3>1, <3>2 DEF Above
  <2> QED
    BY <1>2, <2>1, <2>2, FS_EmptySet DEF Upper
<1> QED
  BY <1>1, <1>2

\* When one of them is gone, the others are still those to retire.
LEMMA UpperShrinks ==
    ASSUME NEW s, NEW ids, OfOne(s, ids), NEW count \in Nat,
           NEW gone \in Upper(ids, count)
    PROVE  Upper(ids \ {gone}, count - 1) = Upper(ids, count) \ {gone}
<1> DEFINE rest == ids \ {gone}
<1>1. gone \in ids /\ Cardinality(Above(ids, gone)) < count
  BY DEF Upper
<1>2. ASSUME NEW id \in rest
      PROVE  Cardinality(Above(rest, id)) < count - 1 <=> Cardinality(Above(ids, id)) < count
  <2>1. id[2] \in Nat /\ gone[2] \in Nat /\ id[2] # gone[2]
    BY <1>1, <1>2 DEF OfOne
  <2>2. CASE id[2] < gone[2]
    <3>1. Above(rest, id) = Above(ids, id) \ {gone} /\ gone \in Above(ids, id)
      BY <1>1, <2>1, <2>2 DEF Above
    <3>2. IsFiniteSet(Above(ids, id)) /\ Cardinality(Above(ids, id)) \in Nat
      BY AboveCount
    <3>3. Cardinality(Above(rest, id)) = Cardinality(Above(ids, id)) - 1
      BY <3>1, <3>2, FS_RemoveElement
    <3> QED
      BY <3>2, <3>3, AboveCount
  <2>3. CASE id[2] > gone[2]
    <3>1. Above(rest, id) = Above(ids, id)
      BY <2>1, <2>3 DEF Above
    <3>2. Above(ids, id) \subseteq Above(ids, gone) /\ id \in Above(ids, gone) /\ id \notin Above(ids, id)
      BY <1>2, <2>1, <2>3 DEF Above, OfOne
    <3>3. Cardinality(Above(ids, id)) < Cardinality(Above(ids, gone))
      BY <3>2, AboveCount, FS_Subset
    <3> QED
      BY <1>1, <3>1, <3>3, AboveCount
  <2> QED
    BY <2>1, <2>2, <2>3
<1> QED
  BY <1>2 DEF Upper

-----------------------------------------------------------------------------
(* The difference that the planner computes *)

LEMMA ManifestOf ==
    ASSUME NEW m \in Manifests
    PROVE  /\ m = [s \in DOMAIN m |-> m[s]]
           /\ DOMAIN m \subseteq Services
           /\ \A s \in DOMAIN m : m[s].replicas \in Nat
BY ApplyAssumption

LEMMA RowsOfOne ==
    ASSUME Stored, NEW s
    PROVE  /\ OfOne(s, RowsOf(s))
           /\ Cardinality(RowsOf(s)) \in Nat
           /\ \A id \in RowsOf(s) : id = <<s, id[2]>> /\ s \in Services
<1>1. IsFiniteSet(RowsOf(s)) /\ Cardinality(RowsOf(s)) \in Nat
  BY FS_Subset, FS_CardinalityType DEF Stored, RowsOf
<1>2. \A id \in RowsOf(s) : id = <<s, id[2]>> /\ s \in Services /\ id[2] \in Nat \ {0}
  BY DEF Stored, RowsOf, Ids
<1> QED
  BY <1>1, <1>2 DEF OfOne

LEMMA CountsOf ==
    ASSUME Stored, NEW m \in Manifests, NEW s \in DOMAIN m
    PROVE  LET count == Cardinality(RowsOf(s))
               wish == m[s].replicas
           IN  /\ count \in Nat /\ wish \in Nat
               /\ Surplus(m, s) = IF count > wish THEN count - wish ELSE 0
               /\ Shortage(m, s) = IF wish > count THEN wish - count ELSE 0
               /\ Surplus(m, s) \in Nat /\ Shortage(m, s) \in Nat
<1> DEFINE count == Cardinality(RowsOf(s))
           wish == m[s].replicas
<1>1. count \in Nat /\ wish \in Nat
  BY RowsOfOne, ManifestOf
<1> HIDE DEF count, wish
<1>2. /\ Max({count - wish, 0}) = IF count > wish THEN count - wish ELSE 0
      /\ Max({wish - count, 0}) = IF wish > count THEN wish - count ELSE 0
  BY <1>1, MaxWithZero
<1> QED
  BY <1>1, <1>2 DEF Surplus, Shortage, count, wish

\* What Scaled() gives lies above every row of the service.
LEMMA ScaledAbove ==
    ASSUME Stored, NEW s, NEW count \in Nat
    PROVE  /\ Top(RowsOf(s)) \in Nat
           /\ Scaled(s, count) = {<<s, Top(RowsOf(s)) + i>> : i \in 1 .. count}
           /\ Scaled(s, count) \cap DOMAIN rows = {}
<1>1. Top(RowsOf(s)) \in Nat /\ \A id \in RowsOf(s) : id[2] <= Top(RowsOf(s))
  BY RowsOfOne, TopOf
<1>2. Scaled(s, count) = {<<s, Top(RowsOf(s)) + i>> : i \in 1 .. count}
  BY DEF Scaled, Top
<1>3. ASSUME NEW i \in 1 .. count, <<s, Top(RowsOf(s)) + i>> \in DOMAIN rows PROVE FALSE
  <2>1. <<s, Top(RowsOf(s)) + i>> \in RowsOf(s)
    BY <1>3 DEF RowsOf
  <2> QED
    BY <1>1, <2>1
<1> QED
  BY <1>1, <1>2, <1>3

LEMMA RetiredIsUpper ==
    ASSUME NEW s, NEW count
    PROVE  Retired(s, count) = Upper(RowsOf(s), count)
BY DEF Retired, Upper, Above

\* The ids to create and to remove, by service.
LEMMA Difference ==
    ASSUME Stored, NEW m \in Manifests
    PROVE  /\ \A id \in ToCreate(m) :
                /\ id \in Ids
                /\ id[1] \in DOMAIN m
                /\ IF id[1] \in New(m) \cup Recreated(m)
                   THEN id \in Built(id[1], m[id[1]].replicas)
                   ELSE id[1] \in Updated(m) /\ id \in Scaled(id[1], Shortage(m, id[1]))
           /\ \A s \in New(m) \cup Recreated(m) : Built(s, m[s].replicas) \subseteq ToCreate(m)
           /\ \A s \in Updated(m) \ Recreated(m) : Scaled(s, Shortage(m, s)) \subseteq ToCreate(m)
           /\ \A id \in ToRemove(m) :
                /\ id \in DOMAIN rows
                /\ id[1] \in Gone(m) \cup Updated(m)
                /\ id[1] \in Updated(m) \ Recreated(m) => id \in Retired(id[1], Surplus(m, id[1]))
           /\ \A s \in Gone(m) \cup Recreated(m) : RowsOf(s) \subseteq ToRemove(m)
           /\ \A s \in Updated(m) \ Recreated(m) : Retired(s, Surplus(m, s)) \subseteq ToRemove(m)
           /\ \A s : IsFiniteSet({id \in ToCreate(m) : id[1] = s})
<1>1. Recreated(m) \subseteq Updated(m) /\ Updated(m) \subseteq DOMAIN m /\ New(m) \subseteq DOMAIN m
  BY DEF Recreated, Updated, New
<1>2. DOMAIN m \subseteq Services /\ \A s \in DOMAIN m : m[s].replicas \in Nat /\ Shortage(m, s) \in Nat
  BY ManifestOf, CountsOf
<1>3. ASSUME NEW s, NEW n, NEW id \in Built(s, n) PROVE id[1] = s /\ id[2] \in Nat \ {0} /\ id = <<s, id[2]>>
  BY <1>3 DEF Built
<1>4. ASSUME NEW s \in DOMAIN m, NEW id \in Scaled(s, Shortage(m, s))
      PROVE  id[1] = s /\ id[2] \in Nat \ {0} /\ id = <<s, id[2]>>
  <2>1. Top(RowsOf(s)) \in Nat /\ Scaled(s, Shortage(m, s)) = {<<s, Top(RowsOf(s)) + i>> : i \in 1 .. Shortage(m, s)}
    BY <1>2, ScaledAbove
  <2>2. PICK i \in 1 .. Shortage(m, s) : id = <<s, Top(RowsOf(s)) + i>>
    BY <2>1
  <2> QED
    BY <1>2, <2>1, <2>2
<1>5. /\ ToCreate(m) = (UNION {Built(s, m[s].replicas) : s \in New(m) \cup Recreated(m)})
                        \cup (UNION {Scaled(s, Shortage(m, s)) : s \in Updated(m) \ Recreated(m)})
      /\ ToRemove(m) = (UNION {RowsOf(s) : s \in Gone(m) \cup Recreated(m)})
                        \cup (UNION {Retired(s, Surplus(m, s)) : s \in Updated(m) \ Recreated(m)})
  BY DEF ToCreate, ToRemove
<1>6. New(m) \cap Updated(m) = {} /\ Gone(m) \cap Updated(m) = {}
  BY DEF New, Updated, Gone
<1>7. ASSUME NEW id \in ToCreate(m)
      PROVE  /\ id \in Ids
             /\ id[1] \in DOMAIN m
             /\ IF id[1] \in New(m) \cup Recreated(m)
                THEN id \in Built(id[1], m[id[1]].replicas)
                ELSE id[1] \in Updated(m) /\ id \in Scaled(id[1], Shortage(m, id[1]))
  <2>1. CASE \E s \in New(m) \cup Recreated(m) : id \in Built(s, m[s].replicas)
    BY <2>1, <1>1, <1>2, <1>3 DEF Ids
  <2>2. CASE \E s \in Updated(m) \ Recreated(m) : id \in Scaled(s, Shortage(m, s))
    BY <2>2, <1>1, <1>2, <1>4, <1>6 DEF Ids
  <2>3. CASE id \in UNION {Built(s, m[s].replicas) : s \in New(m) \cup Recreated(m)}
    BY <2>1, <2>3
  <2>4. CASE id \in UNION {Scaled(s, Shortage(m, s)) : s \in Updated(m) \ Recreated(m)}
    BY <2>2, <2>4
  <2> QED
    BY <1>5, <2>3, <2>4
<1>8. ASSUME NEW id \in ToRemove(m)
      PROVE  /\ id \in DOMAIN rows
             /\ id[1] \in Gone(m) \cup Updated(m)
             /\ id[1] \in Updated(m) \ Recreated(m) => id \in Retired(id[1], Surplus(m, id[1]))
  <2>1. CASE \E s \in Gone(m) \cup Recreated(m) : id \in RowsOf(s)
    BY <2>1, <1>1, <1>6 DEF RowsOf
  <2>2. CASE \E s \in Updated(m) \ Recreated(m) : id \in Retired(s, Surplus(m, s))
    BY <2>2, <1>1 DEF Retired, RowsOf
  <2>3. CASE id \in UNION {RowsOf(s) : s \in Gone(m) \cup Recreated(m)}
    BY <2>1, <2>3
  <2>4. CASE id \in UNION {Retired(s, Surplus(m, s)) : s \in Updated(m) \ Recreated(m)}
    BY <2>2, <2>4
  <2> QED
    BY <1>5, <2>3, <2>4
<1>9. /\ \A s \in New(m) \cup Recreated(m) : Built(s, m[s].replicas) \subseteq ToCreate(m)
      /\ \A s \in Updated(m) \ Recreated(m) : Scaled(s, Shortage(m, s)) \subseteq ToCreate(m)
  <2>1. ASSUME NEW s \in New(m) \cup Recreated(m) PROVE Built(s, m[s].replicas) \subseteq ToCreate(m)
    BY <1>5
  <2>2. ASSUME NEW s \in Updated(m) \ Recreated(m) PROVE Scaled(s, Shortage(m, s)) \subseteq ToCreate(m)
    BY <1>5
  <2> QED
    BY <2>1, <2>2
<1>10. /\ \A s \in Gone(m) \cup Recreated(m) : RowsOf(s) \subseteq ToRemove(m)
       /\ \A s \in Updated(m) \ Recreated(m) : Retired(s, Surplus(m, s)) \subseteq ToRemove(m)
  <2>1. ASSUME NEW s \in Gone(m) \cup Recreated(m) PROVE RowsOf(s) \subseteq ToRemove(m)
    BY <1>5
  <2>2. ASSUME NEW s \in Updated(m) \ Recreated(m) PROVE Retired(s, Surplus(m, s)) \subseteq ToRemove(m)
    BY <1>5
  <2> QED
    BY <2>1, <2>2
<1>11. ASSUME NEW s PROVE IsFiniteSet({id \in ToCreate(m) : id[1] = s})
  <2> DEFINE ids == {id \in ToCreate(m) : id[1] = s}
  <2>1. CASE s \in New(m) \cup Recreated(m)
    <3>1. ids \subseteq Built(s, m[s].replicas) /\ s \in DOMAIN m
      BY <2>1, <1>1, <1>7
    <3> QED
      BY <3>1, <1>2, BuiltCount, FS_Subset
  <2>2. CASE s \in DOMAIN m \ (New(m) \cup Recreated(m))
    <3> DEFINE top == Top(RowsOf(s))
               all == top + Shortage(m, s)
    <3>1. top \in Nat /\ Scaled(s, Shortage(m, s)) = {<<s, top + i>> : i \in 1 .. Shortage(m, s)}
      BY <2>2, <1>2, ScaledAbove
    <3>2. ids \subseteq Scaled(s, Shortage(m, s))
      BY <2>2, <1>7
    <3> HIDE DEF top
    <3>3. all \in Nat /\ \A i \in 1 .. Shortage(m, s) : top + i \in 1 .. all
      BY <2>2, <1>2, <3>1
    <3>4. ids \subseteq Built(s, all)
      BY <3>1, <3>2, <3>3 DEF Built
    <3> QED
      BY <3>3, <3>4, BuiltCount, FS_Subset
  <2>3. CASE s \notin DOMAIN m
    <3>1. ids = {}
      BY <2>3, <1>7
    <3> QED
      BY <3>1, FS_EmptySet
  <2> QED
    BY <1>1, <2>1, <2>2, <2>3
<1> QED
  BY <1>7, <1>8, <1>9, <1>10, <1>11

-----------------------------------------------------------------------------
(* What a step leaves alone *)

\* The step changes nothing of apply b.
Same(b) ==
    /\ stage'[b] = stage[b]
    /\ wanted'[b] = wanted[b]
    /\ diff'[b] = diff[b]
    /\ deletes'[b] = deletes[b]
    /\ todo'[b] = todo[b]
    /\ inserts'[b] = inserts[b]
    /\ place'[b] = place[b]
    /\ unsent'[b] = unsent[b]
    /\ reached'[b] = reached[b]

Others(a) == \A b \in Appliers \ {a} : Same(b)

LEMMA SameOne ==
    ASSUME NEW b \in Appliers, Same(b), One(b), tried \subseteq tried' \/ stage[b] = "idle"
    PROVE  One(b)' /\ Uninserted(b)' = Uninserted(b) /\ \A s : Creates(b, s)' = Creates(b, s)
<1>1. Uninserted(b)' = Uninserted(b) /\ \A s : Creates(b, s)' = Creates(b, s)
  BY DEF Uninserted, Creates, Same
<1>2. InHand(b)' = InHand(b)
  BY DEF InHand, Creates, Same
<1>3. stage[b] = "idle" => Resting(b)'
  BY DEF One, Resting, Same
<1>4. stage[b] # "idle" => Planned(b)' /\ InTurn(b)'
  <2> SUFFICES ASSUME stage[b] # "idle" PROVE Planned(b)' /\ InTurn(b)'
    OBVIOUS
  <2>1. Planned(b)'
    BY <1>1 DEF One, Planned, Same
  <2>2. InTurn(b)'
    BY <1>2 DEF One, InTurn, Same
  <2> QED
    BY <2>1, <2>2
<1> QED
  BY <1>1, <1>3, <1>4 DEF One, Same

\* A step of one apply: what it changes of that apply remains to be shown.
LEMMA KnownStep ==
    ASSUME Known, NEW a \in Appliers, Others(a), Tables', Stored', One(a)',
           tried \subseteq tried' \/ \A b \in Appliers \ {a} : stage[b] = "idle"
    PROVE  /\ Known'
           /\ \A b \in Appliers \ {a} : Uninserted(b)' = Uninserted(b) /\ \A s : Creates(b, s)' = Creates(b, s)
<1>1. ASSUME NEW b \in Appliers \ {a}
      PROVE  One(b)' /\ Uninserted(b)' = Uninserted(b) /\ \A s : Creates(b, s)' = Creates(b, s)
  BY <1>1, SameOne DEF Known, Others, One
<1> QED
  BY <1>1 DEF Known, One

LEMMA ResetStep ==
    ASSUME Known, NEW a \in Appliers, Reset(a)
    PROVE  Tables' /\ Others(a) /\ One(a)' /\ stage'[a] = "idle" /\ Uninserted(a)' = {} /\ \A s : Creates(a, s)' = {}
<1>1. Tables' /\ Others(a)
  BY DEF Reset, Known, Tables, Others, Same
<1>2. stage'[a] = "idle" /\ diff'[a] = NoDiff /\ deletes'[a] = {} /\ todo'[a] = {} /\ inserts'[a] = {}
  BY DEF Reset, Known, Tables
<1> QED
  BY <1>1, <1>2 DEF One, Resting, Uninserted, Creates, NoDiff

-----------------------------------------------------------------------------
(* Known is kept *)

LEMMA InitKnown == ApplyInit => Known
<1> SUFFICES ASSUME ApplyInit PROVE Known
  OBVIOUS
<1>1. Stored
  BY FS_EmptySet DEF ApplyInit, Stored
<1>2. Tables
  BY DEF ApplyInit, Tables
<1>3. \A a \in Appliers : One(a)
  BY DEF ApplyInit, One, Resting
<1> QED
  BY <1>1, <1>2, <1>3 DEF Known

LEMMA BeginKnown ==
    ASSUME Known, NEW a \in Appliers, NEW m \in Manifests, Begin(a, m)
    PROVE  /\ Known' /\ Others(a)
           /\ \A b \in Appliers \ {a} : Uninserted(b)' = Uninserted(b) /\ \A s : Creates(b, s)' = Creates(b, s)
           /\ stage'[a] = "updating" /\ wanted'[a] = m
           /\ diff'[a] = [remove |-> ToRemove(m), create |-> ToCreate(m), redeploy |-> ToRedeploy(m),
                          gone |-> Gone(m), images |-> Images(m)]
           /\ deletes'[a] = ToRemove(m)
           /\ todo'[a] = New(m) \cup Updated(m)
           /\ inserts'[a] = {}
           /\ place'[a] = [id \in DOMAIN rows \cup ToCreate(m) |-> IF id \in ToCreate(m) THEN Unscheduled ELSE rows[id].node]
           /\ Uninserted(a)' = ToCreate(m)
<1>1. Stored'
  BY DEF Begin, database, Known, Stored
<1>2. Tables' /\ Others(a)
  BY DEF Begin, Known, Tables, Others, Same
<1>3. /\ stage'[a] = "updating" /\ wanted'[a] = m
      /\ diff'[a] = [remove |-> ToRemove(m), create |-> ToCreate(m), redeploy |-> ToRedeploy(m),
                     gone |-> Gone(m), images |-> Images(m)]
      /\ deletes'[a] = ToRemove(m)
      /\ todo'[a] = New(m) \cup Updated(m)
      /\ inserts'[a] = {}
      /\ place'[a] = [id \in DOMAIN rows \cup ToCreate(m) |-> IF id \in ToCreate(m) THEN Unscheduled ELSE rows[id].node]
      /\ tried' = tried \cup {m}
  BY DEF Begin, Known, Tables, One, Resting
<1>4. /\ \A id \in ToCreate(m) : id \in Ids /\ id[1] \in DOMAIN m /\ id[1] \in New(m) \cup Updated(m)
      /\ \A id \in ToRemove(m) : id \in DOMAIN rows /\ id[1] \in Gone(m) \cup Updated(m)
  BY Difference DEF Known, Recreated, Updated
<1>5. ToRedeploy(m) \subseteq DOMAIN rows
  BY DEF ToRedeploy
<1>6. Planned(a)'
  <2>1. wanted'[a] \in Manifests \cap tried'
    BY <1>3
  <2>2. todo'[a] \subseteq DOMAIN wanted'[a] /\ diff'[a].gone \cap DOMAIN wanted'[a] = {}
    BY <1>3 DEF New, Updated, Gone
  <2>3. /\ deletes'[a] \subseteq diff'[a].remove
        /\ diff'[a].remove \cup diff'[a].create \cup diff'[a].redeploy \subseteq Ids \cap DOMAIN place'[a]
    BY <1>3, <1>4, <1>5 DEF Known, Stored
  <2>4. \A id \in diff'[a].create : id[1] \in DOMAIN wanted'[a] /\ diff'[a].images[id] = wanted'[a][id[1]].image
    BY <1>3, <1>4 DEF Images
  <2>5. \A id \in deletes'[a] : id[1] \in todo'[a] \cup diff'[a].gone
    BY <1>3, <1>4
  <2>6. \A id \in DOMAIN place'[a] : place'[a][id] \in Nodes \cup (IF id \in diff'[a].create THEN {Unscheduled} ELSE {})
    BY <1>3 DEF Known, Stored
  <2>7. \A s : IsFiniteSet(Creates(a, s)')
    <3>1. ASSUME NEW s PROVE IsFiniteSet(Creates(a, s)')
      <4>1. Creates(a, s)' = {id \in ToCreate(m) : id[1] = s}
        BY <1>3 DEF Creates
      <4>2. IsFiniteSet({id \in ToCreate(m) : id[1] = s})
        BY Difference DEF Known
      <4> QED
        BY <4>1, <4>2
    <3> QED
      BY <3>1
  <2> QED
    BY <1>3, <2>1, <2>2, <2>3, <2>4, <2>5, <2>6, <2>7 DEF Planned
<1>7. InTurn(a)'
  BY <1>3, <1>4 DEF InTurn, InHand, Creates
<1>8. Uninserted(a)' = ToCreate(m)
  BY <1>3, <1>4 DEF Uninserted
<1>9. One(a)'
  BY <1>3, <1>6, <1>7 DEF One
<1> QED
  BY <1>1, <1>2, <1>3, <1>8, <1>9, KnownStep

\* A step of an apply that goes on with its manifest.
Goes(a) ==
    /\ stage[a] # "idle"
    /\ wanted'[a] = wanted[a]
    /\ diff'[a] = diff[a]
    /\ tried' = tried

LEMMA DeleteRowKnown ==
    ASSUME Known, NEW a \in Appliers, DeleteRow(a)
    PROVE  /\ Known' /\ Others(a) /\ Goes(a)
           /\ \A b \in Appliers : Uninserted(b)' = Uninserted(b) /\ \A s : Creates(b, s)' = Creates(b, s)
           /\ \A id \in diff[a].create : id[1] \in todo[a] => id \in Uninserted(a)
           /\ stage[a] = "updating"
           /\ stage' = stage /\ todo' = todo /\ inserts' = inserts /\ place' = place
           /\ \E id \in deletes[a] :
                /\ deletes'[a] = deletes[a] \ {id}
                /\ DOMAIN rows' = DOMAIN rows \ {id}
                /\ \A other \in DOMAIN rows' : rows'[other] = rows[other]
<1>1. PICK id \in deletes[a] :
        /\ rows' = Without(rows, {id})
        /\ deletes' = [deletes EXCEPT ![a] = @ \ {id}]
  BY DEF DeleteRow
<1>2. /\ DOMAIN rows' = DOMAIN rows \ {id}
      /\ \A other \in DOMAIN rows' : rows'[other] = rows[other]
  BY <1>1 DEF Without, Restrict
<1>3. UNCHANGED <<services, containers, stage, wanted, diff, todo, inserts, place, unsent, reached, tried>>
  BY DEF DeleteRow, history
<1>4. Stored'
  BY <1>2, <1>3, FS_RemoveElement DEF Known, Stored
<1>5. Tables' /\ Others(a) /\ deletes'[a] = deletes[a] \ {id}
  BY <1>1, <1>3 DEF Known, Tables, Others, Same
<1>6. stage[a] = "updating" /\ Planned(a) /\ InTurn(a)
  BY <1>1 DEF Known, One, Resting, Planned, Tables
<1>7. One(a)'
  <2>1. Planned(a)'
    BY <1>3, <1>5, <1>6 DEF Planned, Creates
  <2>2. InTurn(a)'
    BY <1>3, <1>5, <1>6 DEF InTurn, InHand, Creates
  <2> QED
    BY <1>3, <1>6, <2>1, <2>2 DEF One
<1>8. \A i \in diff[a].create : i[1] \in todo[a] => i \in Uninserted(a)
  BY <1>1, <1>6 DEF InTurn, Uninserted
<1>9. \A b \in Appliers : Uninserted(b)' = Uninserted(b) /\ \A s : Creates(b, s)' = Creates(b, s)
  BY <1>3 DEF Uninserted, Creates
<1> QED
  BY <1>1, <1>2, <1>3, <1>4, <1>5, <1>6, <1>7, <1>8, <1>9, KnownStep DEF Goes

LEMMA RoundRobinIn ==
    ASSUME NEW ids, ids \subseteq Ids, IsFiniteSet(ids),
           NEW nodes \in (SUBSET Nodes) \ {{}}, NEW ranked \in SetToSeqs(nodes)
    PROVE  DOMAIN RoundRobin(ids, ranked) = ids /\ \A id \in ids : RoundRobin(ids, ranked)[id] \in Nodes
<1>1. IsFiniteSet(nodes) /\ Cardinality(nodes) \in Nat /\ Cardinality(nodes) > 0
  BY ApplyAssumption, FS_Subset, FS_EmptySet, FS_CardinalityType
<1>2. ranked \in [1 .. Cardinality(nodes) -> nodes]
  BY DEF SetToSeqs
<1>3. Len(ranked) = Cardinality(nodes)
  BY <1>1, <1>2
<1>4. ASSUME NEW id \in ids PROVE RoundRobin(ids, ranked)[id] \in Nodes
  <2> DEFINE below == Cardinality({other \in ids : other[2] < id[2]})
  <2>1. below \in Nat
    BY FS_Subset, FS_CardinalityType
  <2> HIDE DEF below
  <2>2. (below % Len(ranked)) + 1 \in 1 .. Cardinality(nodes)
    BY <1>1, <1>3, <2>1
  <2>3. RoundRobin(ids, ranked)[id] = ranked[(below % Len(ranked)) + 1]
    BY DEF RoundRobin, below
  <2> QED
    BY <1>2, <2>2, <2>3
<1> QED
  BY <1>4 DEF RoundRobin

LEMMA ScheduleKnown ==
    ASSUME Known, NEW a \in Appliers, NEW s \in Services, Schedule(a, s)
    PROVE  /\ Known' /\ Others(a) /\ Goes(a)
           /\ \A b \in Appliers : Uninserted(b)' = Uninserted(b) /\ \A t : Creates(b, t)' = Creates(b, t)
           /\ stage[a] = "updating"
           /\ stage' = stage /\ deletes' = deletes /\ todo' = todo
           /\ \A id \in diff[a].create : id \notin Uninserted(a) => place'[a][id] = place[a][id]
           /\ \A id \in DOMAIN place[a] \ diff[a].create : place'[a][id] = place[a][id]
<1>1. /\ stage[a] = "updating" /\ deletes[a] = {} /\ InHand(a) = {} /\ s \in todo[a]
      /\ inserts' = [inserts EXCEPT ![a] = Creates(a, s)]
      /\ UNCHANGED <<services, rows, containers, stage, wanted, diff, deletes, todo, unsent, reached, tried>>
  BY DEF Schedule, Turns, database, history
<1>2. Planned(a) /\ InTurn(a)
  BY <1>1 DEF Known, One
<1>3. PICK nodes \in (SUBSET Nodes) \ {{}} : \E ranked \in SetToSeqs(nodes) :
        place' = [place EXCEPT ![a] = Over(RoundRobin(Creates(a, s), ranked), @)]
  BY DEF Schedule
<1>4. PICK ranked \in SetToSeqs(nodes) : place' = [place EXCEPT ![a] = Over(RoundRobin(Creates(a, s), ranked), @)]
  BY <1>3
<1>5. /\ Creates(a, s) \subseteq Ids /\ IsFiniteSet(Creates(a, s))
      /\ Creates(a, s) \subseteq DOMAIN place[a]
  <2>1. IsFiniteSet(Creates(a, s))
    BY <1>2 DEF Planned
  <2> QED
    BY <1>2, <2>1 DEF Planned, Creates
<1>6. /\ DOMAIN RoundRobin(Creates(a, s), ranked) = Creates(a, s)
      /\ \A id \in Creates(a, s) : RoundRobin(Creates(a, s), ranked)[id] \in Nodes
  BY <1>5, RoundRobinIn
<1>7. place'[a] = Over(RoundRobin(Creates(a, s), ranked), place[a])
  BY <1>4 DEF Known, Tables
<1>8. /\ DOMAIN place'[a] = DOMAIN place[a]
      /\ \A id \in Creates(a, s) : place'[a][id] \in Nodes
      /\ \A id \in DOMAIN place[a] \ Creates(a, s) : place'[a][id] = place[a][id]
  BY <1>5, <1>6, <1>7 DEF Over
<1>9. inserts'[a] = Creates(a, s)
  BY <1>1 DEF Known, Tables
<1>10. /\ \A id \in diff[a].create : id[1] \in todo[a] => place[a][id] = Unscheduled
       /\ inserts[a] = {}
  BY <1>1, <1>2 DEF InHand, Creates, InTurn
<1>11. Tables' /\ Others(a) /\ Stored'
  BY <1>1, <1>4 DEF Known, Tables, Others, Same, Stored
<1>12. Planned(a)'
  <2>1. \A id \in DOMAIN place'[a] : place'[a][id] \in Nodes \cup (IF id \in diff'[a].create THEN {Unscheduled} ELSE {})
    BY <1>1, <1>2, <1>8 DEF Planned
  <2> QED
    BY <1>1, <1>2, <1>8, <2>1 DEF Planned, Creates
<1>13. Unscheduled \notin Nodes
  BY ApplyAssumption
<1>14. InTurn(a)'
  <2>1. \A id \in diff[a].create : IF id[1] = s THEN id \in Creates(a, s) /\ place'[a][id] # Unscheduled
                                  ELSE place'[a][id] = place[a][id]
    BY <1>2, <1>8, <1>13 DEF Creates, Planned
  <2>2. InHand(a)' \subseteq {s}
    BY <1>1, <1>10, <2>1 DEF InHand, Creates
  <2>3. inserts'[a] \subseteq diff[a].create /\ \A id \in inserts'[a] : id[1] = s
    BY <1>9 DEF Creates
  <2>4. \A id \in diff[a].create : id[1] \notin todo[a] => place'[a][id] # Unscheduled
    BY <1>1, <1>2, <2>1 DEF InTurn
  <2>5. \A id, other \in diff[a].create :
            id[1] = other[1] /\ place'[a][id] = Unscheduled => place'[a][other] = Unscheduled
    BY <1>2, <2>1 DEF InTurn
  <2> QED
    BY <1>1, <2>1, <2>2, <2>3, <2>4, <2>5 DEF InTurn
<1>15. One(a)'
  BY <1>1, <1>12, <1>14 DEF One
<1>16. Uninserted(a)' = Uninserted(a) /\ \A t : Creates(a, t)' = Creates(a, t)
  <2>1. \A t : Creates(a, t)' = Creates(a, t)
    BY <1>1 DEF Creates
  <2>2. Uninserted(a) = {id \in diff[a].create : id[1] \in todo[a]}
    BY <1>10 DEF Uninserted
  <2>3. Uninserted(a)' = {id \in diff[a].create : id[1] \in todo[a]}
    BY <1>1, <1>2, <1>8, <1>9, <1>10 DEF Uninserted, Creates, Planned
  <2> QED
    BY <2>1, <2>2, <2>3
<1>17. \A id \in diff[a].create : id \notin Uninserted(a) => place'[a][id] = place[a][id]
  BY <1>1, <1>2, <1>8, <1>10 DEF Uninserted, Creates, Planned
<1>18. \A id \in DOMAIN place[a] \ diff[a].create : place'[a][id] = place[a][id]
  BY <1>8 DEF Creates
<1> QED
  BY <1>1, <1>11, <1>15, <1>16, <1>17, <1>18, KnownStep DEF Goes

\* An apply that is cut off, or rejected.
LEMMA CutKnown ==
    ASSUME Known, NEW a \in Appliers, Reset(a), UNCHANGED <<services, rows, containers>>,
           tried' = tried
    PROVE  /\ Known' /\ Others(a)
           /\ \A b \in Appliers \ {a} : Uninserted(b)' = Uninserted(b) /\ \A s : Creates(b, s)' = Creates(b, s)
           /\ stage'[a] = "idle" /\ todo'[a] = {} /\ deletes'[a] = {} /\ Uninserted(a)' = {}
<1>1. Stored'
  BY DEF Known, Stored
<1>2. todo'[a] = {} /\ deletes'[a] = {}
  BY DEF Reset, Known, Tables
<1> QED
  BY <1>1, <1>2, ResetStep, KnownStep

LEMMA InsertRowKnown ==
    ASSUME Known, NEW a \in Appliers, InsertRow(a)
    PROVE  /\ Known' /\ Others(a) /\ Goes(a)
           /\ \A b \in Appliers \ {a} : Uninserted(b)' = Uninserted(b)
           /\ \A b \in Appliers : \A s : Creates(b, s)' = Creates(b, s)
           /\ stage[a] = "updating" /\ deletes[a] = {}
           /\ stage' = stage /\ deletes' = deletes /\ todo' = todo /\ place' = place
           /\ \E id \in NextInsert(a) \ DOMAIN rows :
                /\ id \in Uninserted(a) /\ id \in Ids
                /\ \A other \in Uninserted(a) : other[1] = id[1] => id[2] <= other[2]
                /\ Uninserted(a)' = Uninserted(a) \ {id}
                /\ DOMAIN rows' = DOMAIN rows \cup {id}
                /\ rows'[id].node = place[a][id] /\ place[a][id] \in Nodes
                /\ rows'[id].image = diff[a].images[id] /\ rows'[id].image = wanted[a][id[1]].image
                /\ \A other \in DOMAIN rows : rows'[other] = rows[other]
<1>1. PICK id \in NextInsert(a) \ DOMAIN rows :
        /\ rows' = Put(rows, id, [node |-> place[a][id], image |-> diff[a].images[id], status |-> "pending"])
        /\ inserts' = [inserts EXCEPT ![a] = @ \ {id}]
  BY DEF InsertRow
<1>2. UNCHANGED <<services, containers, stage, wanted, diff, deletes, todo, place, unsent, reached, tried>>
  BY DEF InsertRow, history
<1>3. id \in inserts[a] /\ \A other \in inserts[a] : id[2] <= other[2]
  BY <1>1 DEF NextInsert
<1>4. stage[a] # "idle" /\ Planned(a) /\ InTurn(a)
  BY <1>3 DEF Known, One, Resting
<1>5. stage[a] = "updating"
  BY <1>3, <1>4 DEF Known, Tables, InTurn, Planned
<1>6. id \in diff[a].create /\ id[1] \in todo[a] /\ place[a][id] # Unscheduled /\ id \in Uninserted(a)
  BY <1>3, <1>4 DEF InTurn, Uninserted
<1>7. id \in Ids /\ place[a][id] \in Nodes /\ diff[a].images[id] = wanted[a][id[1]].image
  BY <1>4, <1>6 DEF Planned
<1>8. deletes[a] = {}
  BY <1>4, <1>6 DEF InTurn
<1>9. \A other \in Uninserted(a) : other[1] = id[1] => id[2] <= other[2]
  <2>1. ASSUME NEW other \in Uninserted(a), other[1] = id[1] PROVE other \in inserts[a]
    BY <1>4, <1>6, <2>1 DEF InTurn, Uninserted
  <2> QED
    BY <1>3, <2>1
<1>10. /\ DOMAIN rows' = DOMAIN rows \cup {id}
       /\ rows'[id] = [node |-> place[a][id], image |-> diff[a].images[id], status |-> "pending"]
       /\ \A other \in DOMAIN rows : rows'[other] = rows[other]
  BY <1>1 DEF Put
<1>11. Stored'
  BY <1>2, <1>7, <1>10, FS_AddElement DEF Known, Stored
<1>12. Tables' /\ Others(a) /\ inserts'[a] = inserts[a] \ {id}
  BY <1>1, <1>2 DEF Known, Tables, Others, Same
<1>13. One(a)'
  <2>1. Planned(a)'
    <3>1. \A s \in Services : IsFiniteSet(Creates(a, s)')
      <4>1. \A s : Creates(a, s)' = Creates(a, s)
        BY <1>2 DEF Creates
      <4> QED
        BY <1>4, <4>1 DEF Planned
    <3> QED
      BY <1>2, <1>4, <3>1 DEF Planned
  <2>2. InTurn(a)'
    BY <1>2, <1>4, <1>12 DEF InTurn, InHand, Creates
  <2> QED
    BY <1>2, <1>5, <2>1, <2>2 DEF One
<1>14. Uninserted(a)' = Uninserted(a) \ {id}
  BY <1>2, <1>6, <1>12 DEF Uninserted
<1>15. \A b \in Appliers : \A s : Creates(b, s)' = Creates(b, s)
  BY <1>2 DEF Creates
<1>16. /\ Known' /\ \A b \in Appliers \ {a} : Uninserted(b)' = Uninserted(b)
  BY <1>2, <1>11, <1>12, <1>13, KnownStep
<1>17. Goes(a)
  BY <1>2, <1>5 DEF Goes
<1>18. rows'[id].node = place[a][id] /\ rows'[id].image = diff[a].images[id]
  BY <1>10
<1> QED
  BY <1>1, <1>2, <1>5, <1>6, <1>7, <1>8, <1>9, <1>10, <1>12, <1>14, <1>15, <1>16, <1>17, <1>18

LEMMA UpsertKnown ==
    ASSUME Known, NEW a \in Appliers, NEW s \in Services, UpsertService(a, s)
    PROVE  /\ Known' /\ Others(a) /\ Goes(a)
           /\ \A b \in Appliers : Uninserted(b)' = Uninserted(b) /\ \A t : Creates(b, t)' = Creates(b, t)
           /\ stage[a] = "updating" /\ s \in todo[a] /\ deletes[a] = {}
           /\ \A id \in Uninserted(a) : id[1] # s
           /\ stage' = stage /\ deletes' = deletes /\ todo'[a] = todo[a] \ {s} /\ place' = place
           /\ DOMAIN services' = DOMAIN services \cup {s}
           /\ services'[s] = wanted[a][s]
           /\ \A t \in DOMAIN services \ {s} : services'[t] = services[t]
<1>1. /\ stage[a] = "updating" /\ deletes[a] = {} /\ inserts[a] = {} /\ s \in todo[a]
      /\ InHand(a) \subseteq {s}
      /\ \A id \in Creates(a, s) : place[a][id] # Unscheduled
      /\ services' = Put(services, s, wanted[a][s])
      /\ todo' = [todo EXCEPT ![a] = @ \ {s}]
      /\ UNCHANGED <<rows, containers, stage, wanted, diff, deletes, inserts, place, unsent, reached, tried>>
  BY DEF UpsertService, history
<1>2. Planned(a) /\ InTurn(a)
  BY <1>1 DEF Known, One
<1>3. /\ DOMAIN services' = DOMAIN services \cup {s}
      /\ services'[s] = wanted[a][s]
      /\ \A t \in DOMAIN services \ {s} : services'[t] = services[t]
      /\ services' = [t \in DOMAIN services' |-> services'[t]]
  BY <1>1 DEF Put
<1>4. Stored'
  BY <1>1, <1>3 DEF Known, Stored
<1>5. Tables' /\ Others(a) /\ todo'[a] = todo[a] \ {s}
  BY <1>1 DEF Known, Tables, Others, Same
<1>6. Planned(a)'
  BY <1>1, <1>2, <1>5 DEF Planned, Creates
<1>7. InTurn(a)'
  BY <1>1, <1>2, <1>5 DEF InTurn, InHand, Creates
<1>8. One(a)'
  BY <1>1, <1>6, <1>7 DEF One
<1>9. /\ \A id \in Uninserted(a) : id[1] # s
      /\ Uninserted(a)' = Uninserted(a)
  BY <1>1, <1>5 DEF Uninserted, Creates
<1>10. \A b \in Appliers : \A t : Creates(b, t)' = Creates(b, t)
  BY <1>1 DEF Creates
<1>11. Known' /\ \A b \in Appliers \ {a} : Uninserted(b)' = Uninserted(b)
  BY <1>1, <1>4, <1>5, <1>8, KnownStep
<1> QED
  BY <1>1, <1>3, <1>5, <1>9, <1>10, <1>11 DEF Goes

LEMMA DeleteServicesKnown ==
    ASSUME Known, NEW a \in Appliers, DeleteServices(a)
    PROVE  /\ Known' /\ Others(a) /\ Goes(a)
           /\ \A b \in Appliers : Uninserted(b)' = Uninserted(b) /\ \A t : Creates(b, t)' = Creates(b, t)
           /\ stage[a] = "updating" /\ stage'[a] = "dispatching"
           /\ todo[a] = {} /\ deletes[a] = {} /\ Uninserted(a) = {}
           /\ deletes' = deletes /\ todo' = todo /\ place' = place /\ unsent'[a] = Nodes
           /\ DOMAIN services' = DOMAIN services \ diff[a].gone
           /\ \A t \in DOMAIN services' : services'[t] = services[t]
           /\ DOMAIN rows' = {id \in DOMAIN rows : id[1] \notin diff[a].gone}
           /\ \A id \in DOMAIN rows' : rows'[id] = rows[id]
<1>1. /\ stage[a] = "updating" /\ deletes[a] = {} /\ todo[a] = {}
      /\ services' = Without(services, diff[a].gone)
      /\ rows' = Without(rows, {id \in DOMAIN rows : id[1] \in diff[a].gone})
      /\ stage' = [stage EXCEPT ![a] = "dispatching"]
      /\ unsent' = [unsent EXCEPT ![a] = Nodes]
      /\ UNCHANGED <<containers, wanted, diff, deletes, todo, inserts, place, reached, tried>>
  BY DEF DeleteServices, history
<1>2. /\ DOMAIN services' = DOMAIN services \ diff[a].gone
      /\ \A t \in DOMAIN services' : services'[t] = services[t]
      /\ services' = [t \in DOMAIN services' |-> services'[t]]
      /\ DOMAIN rows' = {id \in DOMAIN rows : id[1] \notin diff[a].gone}
      /\ \A id \in DOMAIN rows' : rows'[id] = rows[id]
  BY <1>1 DEF Without, Restrict
<1>3. IsFiniteSet(DOMAIN rows')
  <2>1. DOMAIN rows' \subseteq DOMAIN rows /\ IsFiniteSet(DOMAIN rows)
    BY <1>2 DEF Known, Stored
  <2> QED
    BY <2>1, FS_Subset
<1>4. Stored'
  BY <1>1, <1>2, <1>3 DEF Known, Stored
<1>5. Tables' /\ Others(a) /\ stage'[a] = "dispatching" /\ unsent'[a] = Nodes
  BY <1>1 DEF Known, Tables, Others, Same
<1>6. Planned(a) /\ InTurn(a)
  BY <1>1 DEF Known, One
<1>7. Planned(a)'
  BY <1>1, <1>5, <1>6 DEF Planned, Creates
<1>8. InTurn(a)'
  BY <1>1, <1>6 DEF InTurn, InHand, Creates
<1>9. One(a)'
  BY <1>5, <1>7, <1>8 DEF One
<1>10. \A b \in Appliers : Uninserted(b)' = Uninserted(b) /\ \A t : Creates(b, t)' = Creates(b, t)
  BY <1>1 DEF Uninserted, Creates
<1>11. Known' /\ Uninserted(a) = {}
  BY <1>1, <1>4, <1>5, <1>9, KnownStep DEF Uninserted
<1> QED
  BY <1>1, <1>2, <1>5, <1>10, <1>11 DEF Goes

\* What agents report changes the status of rows and nothing else of them.
LEMMA ReportedRows ==
    ASSUME Stored, NEW ids, NEW status, rows' = Reported(ids, status)
    PROVE  /\ DOMAIN rows' = DOMAIN rows
           /\ \A id \in DOMAIN rows :
                /\ rows'[id].node = rows[id].node
                /\ rows'[id].image = rows[id].image
                /\ DOMAIN rows'[id] = DOMAIN rows[id]
BY DEF Reported, Stored

LEMMA DispatchKnown ==
    ASSUME Known, NEW a \in Appliers, NEW n \in Nodes, Dispatch(a, n)
    PROVE  /\ Known' /\ Others(a) /\ Goes(a)
           /\ \A b \in Appliers : Uninserted(b)' = Uninserted(b) /\ \A t : Creates(b, t)' = Creates(b, t)
           /\ stage[a] = "dispatching" /\ n \in unsent[a] /\ Missing(a, n) = {}
           /\ services' = services /\ stage' = stage /\ deletes' = deletes /\ todo' = todo /\ place' = place
           /\ unsent'[a] = unsent[a] \ {n}
           /\ DOMAIN rows' = DOMAIN rows
           /\ \A id \in DOMAIN rows : rows'[id].node = rows[id].node /\ rows'[id].image = rows[id].image
           /\ LET left == DOMAIN containers \ ({n} \X Removes(a, n))
              IN  /\ DOMAIN containers' = left \cup ({n} \X Deploys(a, n))
                  /\ \A c \in left : containers'[c] = containers[c]
                  /\ \A c \in ({n} \X Deploys(a, n)) \ left : containers'[c] = diff[a].images[c[2]]
<1> DEFINE gone == {n} \X Removes(a, n)
           new == {n} \X Deploys(a, n)
           left == DOMAIN containers \ gone
<1>1. /\ stage[a] = "dispatching" /\ n \in unsent[a] /\ Missing(a, n) = {}
      /\ containers' = Over(Without(containers, gone), [c \in new |-> diff[a].images[c[2]]])
      /\ rows' = Reported(Deploys(a, n), "running")
      /\ unsent' = [unsent EXCEPT ![a] = @ \ {n}]
      /\ UNCHANGED <<services, stage, wanted, diff, deletes, todo, inserts, place, tried>>
  BY DEF Dispatch, history
<1>2. reached' = IF Removes(a, n) \cup Deploys(a, n) = {} THEN reached ELSE [reached EXCEPT ![a] = @ \cup {n}]
  BY DEF Dispatch
<1>3. /\ DOMAIN containers' = left \cup new
      /\ \A c \in left : containers'[c] = containers[c]
      /\ \A c \in new \ left : containers'[c] = diff[a].images[c[2]]
  <2> HIDE DEF gone, new
  <2>1. DOMAIN Without(containers, gone) = left /\ \A c \in left : Without(containers, gone)[c] = containers[c]
    BY DEF Without, Restrict
  <2> HIDE DEF left
  <2> QED
    BY <1>1, <2>1 DEF Over
<1>4. Planned(a) /\ InTurn(a)
  BY <1>1 DEF Known, One
<1>5. /\ DOMAIN rows' = DOMAIN rows
      /\ \A id \in DOMAIN rows : rows'[id].node = rows[id].node /\ rows'[id].image = rows[id].image
                                 /\ DOMAIN rows'[id] = DOMAIN rows[id]
  BY <1>1, ReportedRows DEF Known
<1>6. \A c \in DOMAIN containers' : c \in Nodes \X Ids
  <2>1. Deploys(a, n) \subseteq Ids
    BY <1>4 DEF Planned, Deploys, Here
  <2> QED
    BY <1>3, <2>1 DEF Known, Stored
<1>7. Stored'
  BY <1>1, <1>5, <1>6 DEF Known, Stored
<1>8. Tables' /\ Others(a) /\ unsent'[a] = unsent[a] \ {n}
  BY <1>1, <1>2 DEF Known, Tables, Others, Same
<1>9. One(a)'
  <2>1. Planned(a)'
    BY <1>1, <1>4 DEF Planned, Creates
  <2>2. InTurn(a)'
    BY <1>1, <1>4 DEF InTurn, InHand, Creates
  <2> QED
    BY <1>1, <2>1, <2>2 DEF One
<1>10. \A b \in Appliers : Uninserted(b)' = Uninserted(b) /\ \A t : Creates(b, t)' = Creates(b, t)
  BY <1>1 DEF Uninserted, Creates
<1>11. Known'
  BY <1>1, <1>7, <1>8, <1>9, KnownStep
<1> QED
  BY <1>1, <1>3, <1>5, <1>8, <1>10, <1>11 DEF Goes

LEMMA DispatchFailsKnown ==
    ASSUME Known, NEW a \in Appliers, NEW n \in Nodes, DispatchFails(a, n)
    PROVE  /\ Known' /\ Others(a) /\ Goes(a)
           /\ \A b \in Appliers : Uninserted(b)' = Uninserted(b) /\ \A t : Creates(b, t)' = Creates(b, t)
           /\ stage[a] = "dispatching"
           /\ services' = services /\ stage' = stage /\ deletes' = deletes /\ todo' = todo /\ place' = place
           /\ DOMAIN rows' = DOMAIN rows
           /\ \A id \in DOMAIN rows : rows'[id].node = rows[id].node /\ rows'[id].image = rows[id].image
<1>1. PICK removed \in SUBSET (Removes(a, n) \ Missing(a, n)) :
        /\ containers' = Without(containers, {n} \X removed)
        /\ rows' = Reported(removed, "stopped")
  BY DEF DispatchFails
<1>2. /\ stage[a] = "dispatching"
      /\ unsent' = [unsent EXCEPT ![a] = @ \ {n}]
      /\ UNCHANGED <<services, stage, wanted, diff, deletes, todo, inserts, place, reached, tried>>
  BY DEF DispatchFails
<1>3. Planned(a) /\ InTurn(a)
  BY <1>2 DEF Known, One
<1>4. /\ DOMAIN rows' = DOMAIN rows
      /\ \A id \in DOMAIN rows : rows'[id].node = rows[id].node /\ rows'[id].image = rows[id].image
                                 /\ DOMAIN rows'[id] = DOMAIN rows[id]
  BY <1>1, ReportedRows DEF Known
<1>5. DOMAIN containers' \subseteq DOMAIN containers
  BY <1>1 DEF Without, Restrict
<1>6. Stored'
  BY <1>2, <1>4, <1>5 DEF Known, Stored
<1>7. Tables' /\ Others(a)
  BY <1>2 DEF Known, Tables, Others, Same
<1>8. One(a)'
  <2>1. Planned(a)'
    BY <1>2, <1>3 DEF Planned, Creates
  <2>2. InTurn(a)'
    BY <1>2, <1>3 DEF InTurn, InHand, Creates
  <2> QED
    BY <1>2, <2>1, <2>2 DEF One
<1>9. \A b \in Appliers : Uninserted(b)' = Uninserted(b) /\ \A t : Creates(b, t)' = Creates(b, t)
  BY <1>2 DEF Uninserted, Creates
<1>10. Known'
  BY <1>2, <1>6, <1>7, <1>8, KnownStep
<1> QED
  BY <1>2, <1>4, <1>7, <1>9, <1>10 DEF Goes

LEMMA FinishKnown ==
    ASSUME Known, NEW a \in Appliers, Finish(a)
    PROVE  /\ Known' /\ Others(a)
           /\ \A b \in Appliers \ {a} : Uninserted(b)' = Uninserted(b) /\ \A s : Creates(b, s)' = Creates(b, s)
           /\ stage[a] = "dispatching" /\ todo[a] = {} /\ deletes[a] = {} /\ Uninserted(a) = {} /\ unsent[a] = {}
           /\ stage'[a] = "idle" /\ todo'[a] = {} /\ deletes'[a] = {} /\ Uninserted(a)' = {}
           /\ services' = services /\ containers' = containers
           /\ DOMAIN rows' = DOMAIN rows
           /\ \A id \in DOMAIN rows : rows'[id].node = rows[id].node /\ rows'[id].image = rows[id].image
<1>1. PICK lost : rows' = Reported(lost, "failed")
  BY DEF Finish
<1>2. /\ stage[a] = "dispatching" /\ unsent[a] = {}
      /\ tried' = IF Settles(a) THEN {} ELSE tried
      /\ Reset(a)
      /\ UNCHANGED <<services, containers>>
  BY DEF Finish
<1>3. /\ DOMAIN rows' = DOMAIN rows
      /\ \A id \in DOMAIN rows : rows'[id].node = rows[id].node /\ rows'[id].image = rows[id].image
                                 /\ DOMAIN rows'[id] = DOMAIN rows[id]
  BY <1>1, ReportedRows DEF Known
<1>4. Stored'
  BY <1>2, <1>3 DEF Known, Stored
<1>5. tried \subseteq tried' \/ \A b \in Appliers \ {a} : stage[b] = "idle"
  BY <1>2 DEF Settles
<1>6. todo[a] = {} /\ deletes[a] = {} /\ Uninserted(a) = {}
  BY <1>2 DEF Known, One, Planned, Uninserted
<1>7. todo'[a] = {} /\ deletes'[a] = {}
  BY <1>2 DEF Reset, Known, Tables
<1> QED
  BY <1>2, <1>3, <1>4, <1>5, <1>6, <1>7, ResetStep, KnownStep

-----------------------------------------------------------------------------
(* Alone is kept *)

LEMMA AloneBegin ==
    ASSUME Known, Alone, NEW a \in Appliers, NEW m \in Manifests, Begin(a, m)
    PROVE  Alone'
<1> SUFFICES ASSUME "concurrent" \notin excuses' PROVE Alone'
  BY DEF Alone
<1>1. Idle /\ services' = services
  BY DEF Begin, database
<1>2. Others(a) /\ wanted'[a] = m /\ todo'[a] = New(m) \cup Updated(m) /\ Known'
  BY BeginKnown
<1>3. ASSUME NEW b \in Appliers \ {a} PROVE stage'[b] = "idle" /\ todo'[b] = {}
  BY <1>1, <1>2 DEF Others, Same, Idle, Known, One, Resting
<1>4. \A s \in todo'[a] \cap DOMAIN services : services[s] # m[s]
  BY <1>2 DEF New, Updated
<1> QED
  BY <1>1, <1>2, <1>3, <1>4 DEF Alone

\* No other step starts an apply or gives one more to do.
LEMMA AloneLater ==
    ASSUME Known, Alone, NEW a \in Appliers, Others(a), excuses \subseteq excuses',
           stage[a] # "idle",
           stage'[a] # "idle" => wanted'[a] = wanted[a],
           todo'[a] \subseteq IF stage'[a] = "idle" THEN {} ELSE todo[a],
           \A s \in todo'[a] \cap DOMAIN services' : s \in DOMAIN services /\ services'[s] = services[s]
    PROVE  Alone'
<1> SUFFICES ASSUME "concurrent" \notin excuses' PROVE Alone'
  BY DEF Alone
<1>1. \A b \in Appliers \ {a} : stage[b] = "idle"
  BY DEF Alone
<1>2. \A b \in Appliers \ {a} : stage'[b] = "idle" /\ todo'[b] = {}
  BY <1>1 DEF Others, Same, Known, One, Resting
<1>3. \A s \in todo'[a] \cap DOMAIN services' : services'[s] # wanted'[a][s]
  BY DEF Alone
<1> QED
  BY <1>2, <1>3 DEF Alone

LEMMA AloneStep ==
    ASSUME Known, Alone, NEW a \in Appliers, ApplyCrash(a) \/ Step(a)
    PROVE  Alone'
<1>1. CASE DeleteRow(a)
  <2>1. services' = services /\ excuses' = excuses
    BY <1>1 DEF DeleteRow, history
  <2> QED
    BY <1>1, <2>1, DeleteRowKnown, AloneLater DEF Goes
<1>2. CASE InsertRow(a)
  <2>1. services' = services /\ excuses' = excuses
    BY <1>2 DEF InsertRow, history
  <2> QED
    BY <1>2, <2>1, InsertRowKnown, AloneLater DEF Goes
<1>3. ASSUME Reset(a), UNCHANGED <<services, rows, containers, tried>>, excuses \subseteq excuses', stage[a] # "idle"
      PROVE  Alone'
  BY <1>3, CutKnown, AloneLater
<1>4. CASE InsertRejected(a)
  <2>1. stage[a] # "idle"
    BY <1>4 DEF InsertRejected, NextInsert, Known, One, Resting
  <2> QED
    BY <1>3, <1>4, <2>1 DEF InsertRejected, database
<1>5. CASE \E s \in Services : Unschedulable(a, s)
  BY <1>3, <1>5 DEF Unschedulable, Turns, Fail, database
<1>6. CASE ApplyCrash(a)
  BY <1>3, <1>6 DEF ApplyCrash, Fail, database
<1>7. CASE DeleteServices(a)
  <2>1. excuses' = excuses
    BY <1>7 DEF DeleteServices, history
  <2> QED
    BY <1>7, <2>1, DeleteServicesKnown, AloneLater DEF Goes
<1>8. CASE Finish(a)
  <2>1. excuses' = excuses
    BY <1>8 DEF Finish
  <2> QED
    BY <1>8, <2>1, FinishKnown, AloneLater
<1>9. ASSUME NEW s \in Services, Schedule(a, s) PROVE Alone'
  <2>1. services' = services /\ excuses' = excuses
    BY <1>9 DEF Schedule, database, history
  <2> QED
    BY <1>9, <2>1, ScheduleKnown, AloneLater DEF Goes
<1>10. ASSUME NEW s \in Services, UpsertService(a, s) PROVE Alone'
  <2>1. excuses' = excuses
    BY <1>10 DEF UpsertService, history
  <2>2. /\ Others(a) /\ stage[a] # "idle" /\ wanted'[a] = wanted[a] /\ stage' = stage
        /\ todo'[a] \subseteq todo[a] \ {s}
    <3>1. Others(a) /\ Goes(a) /\ stage[a] = "updating" /\ stage' = stage /\ todo'[a] = todo[a] \ {s}
      BY <1>10, UpsertKnown
    <3> QED
      BY <3>1 DEF Goes
  <2>3. /\ DOMAIN services' = DOMAIN services \cup {s}
        /\ \A t \in DOMAIN services \ {s} : services'[t] = services[t]
    BY <1>10, UpsertKnown
  <2> QED
    BY <2>1, <2>2, <2>3, AloneLater
<1>11. ASSUME NEW n \in Nodes, Dispatch(a, n) PROVE Alone'
  <2>1. excuses' = excuses
    BY <1>11 DEF Dispatch, history
  <2> QED
    BY <1>11, <2>1, DispatchKnown, AloneLater DEF Goes
<1>12. ASSUME NEW n \in Nodes, DispatchFails(a, n) PROVE Alone'
  <2>1. excuses \subseteq excuses'
    BY <1>12 DEF DispatchFails
  <2> QED
    BY <1>12, <2>1, DispatchFailsKnown, AloneLater DEF Goes
<1> QED
  BY <1>1, <1>2, <1>4, <1>5, <1>6, <1>7, <1>8, <1>9, <1>10, <1>11, <1>12 DEF Step

-----------------------------------------------------------------------------
(* Applies of one manifest *)

\* What Rebuilds() and Scales() say of service s does not change.
LEMMA ModesFrame ==
    ASSUME NEW m, NEW s,
           RowsOf(s)' = RowsOf(s),
           \A id \in RowsOf(s) : rows'[id].image = rows[id].image,
           s \in DOMAIN services' <=> s \in DOMAIN services,
           s \in DOMAIN services => services'[s] = services[s],
           \A b \in Appliers :
              /\ s \in todo'[b] <=> s \in todo[b]
              /\ s \in todo[b] => Creates(b, s)' = Creates(b, s)
              /\ s \in todo[b] => \A id : id[1] = s => (id \in deletes'[b] <=> id \in deletes[b])
              /\ \A id : id[1] = s => (id \in Uninserted(b)' <=> id \in Uninserted(b)),
           Rebuilds(m, s) \/ Scales(m, s)
    PROVE  Rebuilds(m, s)' \/ Scales(m, s)'
<1>1. /\ Surplus(m, s)' = Surplus(m, s)
      /\ Shortage(m, s)' = Shortage(m, s)
  BY DEF Surplus, Shortage
<1>2. /\ Retired(s, Surplus(m, s))' = Retired(s, Surplus(m, s))
      /\ Scaled(s, Shortage(m, s))' = Scaled(s, Shortage(m, s))
  BY <1>1 DEF Retired, Scaled
<1>3. \A id \in Built(s, m[s].replicas) : id[1] = s
  BY DEF Built
<1>4. \A id \in RowsOf(s) : id[1] = s
  BY DEF RowsOf
<1>5. CASE Rebuilds(m, s)
  BY <1>3, <1>4, <1>5 DEF Rebuilds
<1>6. CASE Scales(m, s)
  <2>1. \A b \in Appliers : s \in todo'[b] =>
            /\ deletes'[b] \cap RowsOf(s) = deletes[b] \cap RowsOf(s)
            /\ Creates(b, s)' = Creates(b, s)
            /\ Creates(b, s) \ Uninserted(b)' = Creates(b, s) \ Uninserted(b)
            /\ (\E id \in deletes'[b] : id[1] = s) <=> (\E id \in deletes[b] : id[1] = s)
    <3>1. \A b : \A id \in Creates(b, s) : id[1] = s
      BY DEF Creates
    <3> QED
      BY <1>4, <3>1
  <2> QED
    BY <1>1, <1>2, <1>6, <2>1 DEF Scales
<1> QED
  BY <1>5, <1>6

LEMMA ScaledNone == ASSUME NEW s PROVE Scaled(s, 0) = {}
BY DEF Scaled

\* A service whose replicas are to be retired has too many, and conversely.
LEMMA RetiredSome ==
    ASSUME Stored, NEW m \in Manifests, NEW s \in DOMAIN m
    PROVE  Retired(s, Surplus(m, s)) = {} <=> Surplus(m, s) = 0
<1>1. /\ Surplus(m, s) \in Nat
      /\ Surplus(m, s) # 0 => Cardinality(RowsOf(s)) # 0
  BY CountsOf
<1>2. Surplus(m, s) # 0 => RowsOf(s) # {}
  BY <1>1, FS_EmptySet
<1> QED
  BY <1>1, <1>2, RowsOfOne, UpperEmpty, RetiredIsUpper

\* The deletion of a row.
LEMMA RebuildsDelete ==
    ASSUME NEW m, NEW a \in Appliers, NEW d, NEW s, s = d[1], s \in todo[a],
           Rebuilds(m, s),
           services' = services, todo' = todo,
           deletes'[a] = deletes[a] \ {d},
           \A b \in Appliers \ {a} : deletes'[b] = deletes[b],
           DOMAIN rows' = DOMAIN rows \ {d},
           \A id \in DOMAIN rows' : rows'[id] = rows[id],
           \A b \in Appliers : Uninserted(b)' = Uninserted(b) /\ Creates(b, s)' = Creates(b, s),
           \A id \in Creates(a, s) : id \in Uninserted(a)
    PROVE  Rebuilds(m, s)'
<1>1. RowsOf(s)' = RowsOf(s) \ {d}
  BY DEF RowsOf
<1>2. \A id \in RowsOf(s)' : rows'[id] = rows[id] /\ id # d
  BY <1>1 DEF RowsOf
<1>3. d \in Built(s, m[s].replicas) => d \in Uninserted(a)
  BY DEF Rebuilds
<1>4. \A b \in Appliers : \A id : id # d => (id \in deletes'[b] <=> id \in deletes[b])
  OBVIOUS
<1> QED
  BY <1>1, <1>2, <1>3, <1>4 DEF Rebuilds

LEMMA ScalesDelete ==
    ASSUME Stored, Stored', NEW m \in Manifests, NEW a \in Appliers, NEW d \in deletes[a], NEW s \in DOMAIN m,
           s = d[1], s \in todo[a],
           Scales(m, s),
           services' = services, todo' = todo,
           deletes'[a] = deletes[a] \ {d},
           \A b \in Appliers \ {a} : deletes'[b] = deletes[b],
           DOMAIN rows' = DOMAIN rows \ {d},
           \A id \in DOMAIN rows' : rows'[id] = rows[id],
           \A b \in Appliers : Uninserted(b)' = Uninserted(b) /\ Creates(b, s)' = Creates(b, s)
    PROVE  Scales(m, s)'
<1>1. RowsOf(s)' = RowsOf(s) \ {d}
  BY DEF RowsOf
<1>2. \A id \in RowsOf(s)' : rows'[id] = rows[id]
  BY DEF RowsOf
<1>3. CASE d \notin RowsOf(s)
  <2>1. RowsOf(s)' = RowsOf(s)
    BY <1>1, <1>3
  <2>2. Surplus(m, s)' = Surplus(m, s) /\ Shortage(m, s)' = Shortage(m, s)
    BY <2>1 DEF Surplus, Shortage
  <2>3. /\ Retired(s, Surplus(m, s))' = Retired(s, Surplus(m, s))
        /\ Scaled(s, Shortage(m, s))' = Scaled(s, Shortage(m, s))
    BY <2>1, <2>2 DEF Retired, Scaled
  <2>4. \A b \in Appliers : deletes'[b] \cap RowsOf(s) = deletes[b] \cap RowsOf(s) /\ deletes'[b] \subseteq deletes[b]
    BY <1>3
  <2> QED
    BY <1>2, <2>1, <2>2, <2>3, <2>4 DEF Scales
<1>4. CASE d \in RowsOf(s)
  <2>1. d \in Retired(s, Surplus(m, s))
    BY <1>4 DEF Scales
  <2> DEFINE count == Cardinality(RowsOf(s))
             wish == m[s].replicas
  <2>2. /\ count \in Nat /\ wish \in Nat
        /\ Surplus(m, s) = IF count > wish THEN count - wish ELSE 0
        /\ Shortage(m, s) = IF wish > count THEN wish - count ELSE 0
    BY CountsOf
  <2>3. Surplus(m, s) # 0
    BY <2>1, RetiredSome
  <2>4. Cardinality(RowsOf(s)') = count - 1
    <3>1. IsFiniteSet(RowsOf(s))
      BY RowsOfOne DEF OfOne
    <3>2. Cardinality(RowsOf(s) \ {d}) = Cardinality(RowsOf(s)) - 1
      BY ONLY <1>4, <3>1, FS_RemoveElement
    <3> QED
      BY <1>1, <3>2
  <2>5. /\ Surplus(m, s)' = IF count - 1 > wish THEN count - 1 - wish ELSE 0
        /\ Shortage(m, s)' = IF wish > count - 1 THEN wish - (count - 1) ELSE 0
    <3>1. Surplus(m, s)' = Max({count - 1 - wish, 0}) /\ Shortage(m, s)' = Max({wish - (count - 1), 0})
      BY <2>4 DEF Surplus, Shortage
    <3>2. count - 1 \in Nat
      BY <1>4, <2>2, RowsOfOne, FS_EmptySet DEF OfOne
    <3> HIDE DEF count, wish
    <3> QED
      BY <2>2, <3>1, <3>2, Gaps
  <2> HIDE DEF count, wish
  <2>6. /\ count > wish /\ Surplus(m, s) \in Nat
        /\ Surplus(m, s)' = Surplus(m, s) - 1 /\ Shortage(m, s)' = 0
    BY <2>2, <2>3, <2>5
  <2>7. Retired(s, Surplus(m, s))' = Retired(s, Surplus(m, s)) \ {d}
    <3>1. Retired(s, Surplus(m, s))' = Upper(RowsOf(s)', Surplus(m, s)')
      BY DEF Retired, Upper, Above
    <3>2. Upper(RowsOf(s) \ {d}, Surplus(m, s) - 1) = Upper(RowsOf(s), Surplus(m, s)) \ {d}
      BY <2>1, <2>6, RowsOfOne, UpperShrinks, RetiredIsUpper
    <3> QED
      BY <1>1, <2>6, <3>1, <3>2, RetiredIsUpper
  <2>8. Scaled(s, Shortage(m, s))' = {}
    BY <2>6 DEF Scaled
  <2>9. services[s] # m[s]
    BY <2>2, <2>6 DEF Scales, count, wish
  <2>10. ASSUME NEW b \in Appliers, s \in todo[b]
         PROVE  /\ deletes'[b] \cap RowsOf(s)' = Retired(s, Surplus(m, s))'
                /\ Creates(b, s)' = {}
    <3>1. deletes[b] \cap RowsOf(s) = Retired(s, Surplus(m, s)) /\ Creates(b, s) = {}
      BY <2>3, <2>10 DEF Scales
    <3> QED
      BY <1>1, <2>7, <3>1
  <2> QED
    BY <1>1, <1>2, <2>6, <2>8, <2>9, <2>10 DEF Scales
<1> QED
  BY <1>3, <1>4

\* The insert of a row.
LEMMA RebuildsInsert ==
    ASSUME NEW m, NEW a \in Appliers, NEW d \in Uninserted(a), NEW s, s = d[1],
           Rebuilds(m, s),
           services' = services, todo' = todo, deletes' = deletes,
           DOMAIN rows' = DOMAIN rows \cup {d},
           rows'[d].image = m[s].image,
           d \notin DOMAIN rows,
           \A id \in DOMAIN rows : rows'[id] = rows[id],
           \A b \in Appliers : Creates(b, s)' = Creates(b, s),
           Uninserted(a)' = Uninserted(a) \ {d},
           \A b \in Appliers \ {a} : Uninserted(b)' = Uninserted(b)
    PROVE  Rebuilds(m, s)'
<1>1. RowsOf(s)' = RowsOf(s) \cup {d}
  BY DEF RowsOf
<1>2. d \in Creates(a, s) /\ s \in todo[a]
  BY DEF Uninserted, Creates
<1>3. d \in Built(s, m[s].replicas)
  BY <1>2 DEF Rebuilds
<1>4. \A id \in RowsOf(s) : rows'[id] = rows[id]
  BY DEF RowsOf
<1>5. \A b \in Appliers : \A id : id # d => (id \in Uninserted(b)' <=> id \in Uninserted(b))
  OBVIOUS
<1> QED
  BY <1>1, <1>3, <1>4, <1>5 DEF Rebuilds

LEMMA TopPlusOne ==
    ASSUME NEW s, NEW ids, OfOne(s, ids)
    PROVE  Top(ids \cup {<<s, Top(ids) + 1>>}) = Top(ids) + 1
<1> DEFINE d == <<s, Top(ids) + 1>>
<1>1. Top(ids) \in Nat /\ \A id \in ids : id[2] <= Top(ids)
  BY TopOf
<1>2. OfOne(s, ids \cup {d})
  <2>1. Top(ids) + 1 \in Nat \ {0}
    BY <1>1
  <2>2. IsFiniteSet(ids \cup {d})
    BY FS_AddElement DEF OfOne
  <2> QED
    BY <2>1, <2>2 DEF OfOne
<1>3. /\ Top(ids \cup {d}) \in Nat
      /\ d[2] <= Top(ids \cup {d})
      /\ Top(ids \cup {d}) = 0 \/ <<s, Top(ids \cup {d})>> \in ids \cup {d}
  BY <1>2, TopOf
<1>4. d[2] = Top(ids) + 1
  OBVIOUS
<1>5. <<s, Top(ids \cup {d})>> \in ids => Top(ids \cup {d}) <= Top(ids)
  BY <1>1
<1>6. <<s, Top(ids \cup {d})>> = d => Top(ids \cup {d}) = Top(ids) + 1
  OBVIOUS
<1> HIDE DEF d
<1> QED
  BY <1>1, <1>3, <1>4, <1>5, <1>6 DEF d

LEMMA ScalesInsert ==
    ASSUME Stored, Stored', NEW m \in Manifests, NEW a \in Appliers, NEW d \in Uninserted(a), NEW s \in DOMAIN m,
           s = d[1],
           Scales(m, s),
           services' = services, todo' = todo, deletes' = deletes,
           DOMAIN rows' = DOMAIN rows \cup {d},
           rows'[d].image = m[s].image,
           d \notin DOMAIN rows,
           \A id \in DOMAIN rows : rows'[id] = rows[id],
           \A b \in Appliers : Creates(b, s)' = Creates(b, s),
           Uninserted(a)' = Uninserted(a) \ {d},
           \A b \in Appliers \ {a} : Uninserted(b)' = Uninserted(b),
           \A other \in Uninserted(a) : other[1] = d[1] => d[2] <= other[2]
    PROVE  Scales(m, s)'
<1> DEFINE top == Top(RowsOf(s))
           count == Cardinality(RowsOf(s))
           wish == m[s].replicas
           short == Shortage(m, s)
<1> HIDE DEF top, count, wish, short
<1>1. RowsOf(s)' = RowsOf(s) \cup {d} /\ d \notin RowsOf(s)
  BY DEF RowsOf
<1>2. \A id \in RowsOf(s) : rows'[id] = rows[id]
  BY DEF RowsOf
<1>3. d \in Creates(a, s) /\ s \in todo[a]
  BY DEF Uninserted, Creates
<1>4. Creates(a, s) \ RowsOf(s) = Scaled(s, short) /\ Creates(a, s) \ Uninserted(a) \subseteq RowsOf(s)
  BY <1>3 DEF Scales, short
<1>5. /\ count \in Nat /\ wish \in Nat /\ short \in Nat
      /\ Surplus(m, s) = IF count > wish THEN count - wish ELSE 0
      /\ short = IF wish > count THEN wish - count ELSE 0
  BY CountsOf DEF count, wish, short
<1>6. top \in Nat /\ Scaled(s, short) = {<<s, top + i>> : i \in 1 .. short}
  BY <1>5, ScaledAbove DEF top, short
<1>7. OfOne(s, RowsOf(s))
  BY RowsOfOne
<1>8. Cardinality(RowsOf(s)') = count + 1
  BY <1>1, <1>7, FS_AddElement DEF OfOne, count
<1>9. /\ Surplus(m, s)' = IF count + 1 > wish THEN count + 1 - wish ELSE 0
      /\ Shortage(m, s)' = IF wish > count + 1 THEN wish - (count + 1) ELSE 0
  <2> DEFINE size == Cardinality(RowsOf(s)')
  <2>1. Surplus(m, s)' = Max({size - wish, 0}) /\ Shortage(m, s)' = Max({wish - size, 0})
    BY DEF Surplus, Shortage, wish
  <2>2. size = count + 1
    BY <1>8
  <2> HIDE DEF size
  <2>3. size \in Nat
    BY <1>5, <2>2
  <2>4. /\ Max({size - wish, 0}) = IF size > wish THEN size - wish ELSE 0
        /\ Max({wish - size, 0}) = IF wish > size THEN wish - size ELSE 0
    BY <1>5, <2>3, Gaps
  <2> QED
    BY <1>5, <2>1, <2>2, <2>3, <2>4
<1>10. Top(RowsOf(s) \cup {<<s, top + 1>>}) = top + 1
  BY <1>7, TopPlusOne DEF top
<1>11. Scaled(s, Shortage(m, s))' = {<<s, Top(RowsOf(s)') + i>> : i \in 1 .. Shortage(m, s)'}
  BY DEF Scaled, Top
<1>12. services[s] = m[s] => count = wish
  BY DEF Scales, count, wish
<1>13. PICK k \in 1 .. short : d = <<s, top + k>>
  BY <1>1, <1>3, <1>4, <1>6
<1>14. short > 0 /\ short = wish - count /\ Surplus(m, s) = 0
  BY <1>5, <1>13
<1>15. <<s, top + 1>> \in Uninserted(a)
  BY <1>4, <1>5, <1>6, <1>14
<1>16. d = <<s, top + 1>>
  <2>1. d[2] <= top + 1 /\ d[2] = top + k
    BY <1>13, <1>15
  <2> QED
    BY <1>5, <1>6, <1>13, <2>1
<1>17. Surplus(m, s)' = 0 /\ Shortage(m, s)' = short - 1
  BY <1>5, <1>9, <1>14
<1>18. Top(RowsOf(s)') = top + 1
  BY <1>1, <1>10, <1>16
<1>19. Scaled(s, Shortage(m, s))' = Scaled(s, short) \ {d}
  <2>1. Scaled(s, Shortage(m, s))' = {<<s, top + 1 + i>> : i \in 1 .. short - 1}
    BY <1>11, <1>17, <1>18
  <2>2. ASSUME NEW id \in Scaled(s, short) \ {d} PROVE id \in Scaled(s, Shortage(m, s))'
    <3>1. PICK i \in 1 .. short : id = <<s, top + i>>
      BY <1>6, <2>2
    <3>2. i # 1
      BY <1>16, <2>2, <3>1
    <3>3. i - 1 \in 1 .. short - 1 /\ top + 1 + (i - 1) = top + i
      BY <1>5, <1>6, <3>1, <3>2
    <3> QED
      BY <2>1, <3>1, <3>3
  <2>3. ASSUME NEW id \in Scaled(s, Shortage(m, s))' PROVE id \in Scaled(s, short) \ {d}
    <3>1. PICK i \in 1 .. short - 1 : id = <<s, top + 1 + i>>
      BY <2>1, <2>3
    <3>2. i + 1 \in 1 .. short /\ top + 1 + i = top + (i + 1) /\ top + 1 + i # top + 1
      BY <1>5, <1>6, <3>1
    <3>3. id \in Scaled(s, short)
      BY <1>6, <3>1, <3>2
    <3>4. id # d
      BY <1>16, <3>1, <3>2
    <3> QED
      BY <3>3, <3>4
  <2> QED
    BY <2>2, <2>3
<1>20. ASSUME NEW b \in Appliers, s \in todo[b]
       PROVE  /\ deletes[b] \cap RowsOf(s)' = {}
              /\ Creates(b, s) \ RowsOf(s)' = Scaled(s, Shortage(m, s))'
              /\ Creates(b, s) \ Uninserted(b)' \subseteq RowsOf(s)'
              /\ ~ \E id \in deletes[b] : id[1] = s
  <2>1. ~ \E id \in deletes[b] : id[1] = s
    BY <1>14, <1>20 DEF Scales, short
  <2>2. deletes[b] \cap RowsOf(s)' = {}
    BY <1>1, <2>1 DEF RowsOf
  <2>3. Creates(b, s) \ RowsOf(s) = Scaled(s, short) /\ Creates(b, s) \ Uninserted(b) \subseteq RowsOf(s)
    BY <1>20 DEF Scales, short
  <2>4. Creates(b, s) \ Uninserted(b)' \subseteq RowsOf(s)'
    BY <1>1, <2>3
  <2> QED
    BY <1>1, <1>19, <2>1, <2>2, <2>3, <2>4
<1>21. Retired(s, Surplus(m, s))' = {}
  <2>1. Retired(s, Surplus(m, s))' = Upper(RowsOf(s) \cup {d}, 0)
    BY <1>1, <1>17 DEF Retired, Upper, Above
  <2>2. OfOne(s, RowsOf(s) \cup {d})
    <3>1. IsFiniteSet(RowsOf(s) \cup {d})
      BY <1>7, FS_AddElement DEF OfOne
    <3>2. top + 1 \in Nat \ {0}
      BY <1>6
    <3> QED
      BY <1>7, <1>16, <3>1, <3>2 DEF OfOne
  <2> QED
    BY <2>1, <2>2, UpperEmpty
<1>22. services[s] # m[s]
  BY <1>5, <1>12, <1>14
<1>23. \A id \in RowsOf(s)' : rows'[id].image = m[s].image
  BY <1>1, <1>2 DEF Scales
<1>24. s \in DOMAIN services' /\ services'[s].image = m[s].image /\ services'[s] # m[s]
  BY <1>22 DEF Scales
<1> QED
  BY <1>17, <1>20, <1>21, <1>23, <1>24 DEF Scales

LEMMA ScaledSome ==
    ASSUME Stored, NEW s, NEW count \in Nat, Scaled(s, count) = {}
    PROVE  count = 0
<1> SUFFICES ASSUME count # 0 PROVE FALSE
  OBVIOUS
<1>1. Scaled(s, count) = {<<s, Top(RowsOf(s)) + i>> : i \in 1 .. count}
  BY ScaledAbove
<1>2. 1 \in 1 .. count
  OBVIOUS
<1> QED
  BY <1>1, <1>2

\* The update of a service that has its instances.
LEMMA RebuildsUpsert ==
    ASSUME NEW m, NEW a \in Appliers, NEW s, s \in todo[a], deletes[a] = {},
           Rebuilds(m, s),
           \A id \in Uninserted(a) : id[1] # s,
           s \in DOMAIN services', services'[s] = m[s], rows' = rows, deletes' = deletes,
           \A b \in Appliers : todo'[b] \subseteq todo[b],
           \A b \in Appliers : Uninserted(b)' = Uninserted(b) /\ Creates(b, s)' = Creates(b, s)
    PROVE  Rebuilds(m, s)'
<1>1. RowsOf(s)' = RowsOf(s)
  BY DEF RowsOf
<1>2. \A id \in Built(s, m[s].replicas) : id[1] = s
  BY DEF Built
<1>3. \A id \in RowsOf(s) : rows[id].image = m[s].image /\ id \in Built(s, m[s].replicas)
  BY DEF Rebuilds
<1>4. \A id \in Built(s, m[s].replicas) : id \in RowsOf(s) \/ \E b \in Appliers : id \in Uninserted(b)
  BY <1>2 DEF Rebuilds
<1>5. \A b \in Appliers : s \in todo[b] => Creates(b, s) = Built(s, m[s].replicas)
  BY DEF Rebuilds
<1> QED
  BY <1>1, <1>3, <1>4, <1>5 DEF Rebuilds

LEMMA ScalesUpsert ==
    ASSUME Stored, NEW m \in Manifests, NEW a \in Appliers, NEW s \in DOMAIN m, s \in todo[a], deletes[a] = {},
           Scales(m, s),
           \A id \in Uninserted(a) : id[1] # s,
           s \in DOMAIN services', services'[s] = m[s], rows' = rows, deletes' = deletes,
           \A b \in Appliers : todo'[b] \subseteq todo[b],
           \A b \in Appliers : Uninserted(b)' = Uninserted(b) /\ Creates(b, s)' = Creates(b, s)
    PROVE  Scales(m, s)'
<1>1. RowsOf(s)' = RowsOf(s)
  BY DEF RowsOf
<1>2. /\ Surplus(m, s)' = Surplus(m, s)
      /\ Shortage(m, s)' = Shortage(m, s)
  BY <1>1 DEF Surplus, Shortage
<1>3. /\ Retired(s, Surplus(m, s))' = Retired(s, Surplus(m, s))
      /\ Scaled(s, Shortage(m, s))' = Scaled(s, Shortage(m, s))
  BY <1>1, <1>2 DEF Retired, Scaled
<1>4. Retired(s, Surplus(m, s)) = {}
  BY DEF Scales
<1>5. Scaled(s, Shortage(m, s)) = {}
  <2>1. Creates(a, s) \ Uninserted(a) = Creates(a, s)
    BY DEF Creates
  <2> QED
    BY <2>1 DEF Scales
<1>6. Cardinality(RowsOf(s)) = m[s].replicas
  <2>1. Surplus(m, s) = 0
    BY <1>4, RetiredSome
  <2>2. Shortage(m, s) = 0
    BY <1>5, ScaledSome, CountsOf
  <2> QED
    BY <2>1, <2>2, CountsOf
<1> QED
  BY <1>1, <1>2, <1>3, <1>6 DEF Scales

\* An apply that ends, or is cut off, when no other is in progress.
LEMMA RebuildsCut ==
    ASSUME NEW m, NEW s, Rebuilds(m, s), services' = services, rows' = rows,
           \A b \in Appliers : todo'[b] = {} /\ Uninserted(b)' = {},
           s \in DOMAIN services /\ services[s] = m[s] => \A b \in Appliers : \A id \in Uninserted(b) : id[1] # s
    PROVE  Rebuilds(m, s)'
<1>1. RowsOf(s)' = RowsOf(s)
  BY DEF RowsOf
<1>2. \A id \in Built(s, m[s].replicas) : id[1] = s
  BY DEF Built
<1> QED
  BY <1>1, <1>2 DEF Rebuilds

LEMMA ScalesCut ==
    ASSUME NEW m, NEW s, Scales(m, s), services' = services, rows' = rows,
           \A b \in Appliers : todo'[b] = {}
    PROVE  Scales(m, s)'
<1>1. RowsOf(s)' = RowsOf(s)
  BY DEF RowsOf
<1> QED
  BY <1>1 DEF Scales

\* Another apply of the manifest.
LEMMA RebuildsBegin ==
    ASSUME Known, NEW a \in Appliers, NEW m \in Manifests, Begin(a, m), NEW s \in New(m) \cup Recreated(m),
           Rebuilds(m, s)
    PROVE  Rebuilds(m, s)'
<1>1. services' = services /\ rows' = rows
  BY DEF Begin, database
<1>2. RowsOf(s)' = RowsOf(s)
  BY <1>1 DEF RowsOf
<1>3. /\ Others(a)
      /\ \A b \in Appliers \ {a} : Uninserted(b)' = Uninserted(b) /\ Creates(b, s)' = Creates(b, s)
      /\ diff'[a].create = ToCreate(m)
      /\ deletes'[a] = ToRemove(m)
      /\ Uninserted(a)' = ToCreate(m)
  <2>1. /\ Others(a)
        /\ \A b \in Appliers \ {a} : Uninserted(b)' = Uninserted(b) /\ \A t : Creates(b, t)' = Creates(b, t)
        /\ diff'[a] = [remove |-> ToRemove(m), create |-> ToCreate(m), redeploy |-> ToRedeploy(m),
                       gone |-> Gone(m), images |-> Images(m)]
        /\ deletes'[a] = ToRemove(m)
        /\ Uninserted(a)' = ToCreate(m)
    BY BeginKnown
  <2> QED
    BY <2>1
<1>4. Creates(a, s)' = Built(s, m[s].replicas) /\ Built(s, m[s].replicas) \subseteq ToCreate(m)
  <2>1. Creates(a, s)' = {id \in ToCreate(m) : id[1] = s}
    BY <1>3 DEF Creates
  <2>2. \A id \in Built(s, m[s].replicas) : id[1] = s
    BY DEF Built
  <2> QED
    BY <2>1, <2>2, Difference DEF Known
<1>5. s \in DOMAIN services => RowsOf(s) \subseteq ToRemove(m)
  <2>1. s \in DOMAIN services => s \in Recreated(m)
    BY DEF New, Recreated
  <2> QED
    BY <2>1, Difference DEF Known
<1>6. \A b \in Appliers \ {a} : todo'[b] = todo[b] /\ deletes'[b] = deletes[b]
  BY <1>3 DEF Others, Same
<1>7. \A b \in Appliers : s \in todo'[b] => Creates(b, s)' = Built(s, m[s].replicas)
  BY <1>3, <1>4, <1>6 DEF Rebuilds
<1>8. \A id \in RowsOf(s) : s \in DOMAIN services /\ (\A b \in Appliers : s \in todo[b] => id \in deletes[b])
                             => \A b \in Appliers : s \in todo'[b] => id \in deletes'[b]
  BY <1>3, <1>5, <1>6
<1>9. \A id \in Built(s, m[s].replicas) : \E b \in Appliers : id \in Uninserted(b)'
  BY <1>3, <1>4
<1> QED
  BY <1>1, <1>2, <1>7, <1>8, <1>9 DEF Rebuilds

LEMMA ScalesBegin ==
    ASSUME Known, NEW a \in Appliers, NEW m \in Manifests, Begin(a, m), NEW s \in Updated(m),
           Scales(m, s)
    PROVE  Scales(m, s)'
<1>1. services' = services /\ rows' = rows
  BY DEF Begin, database
<1>2. RowsOf(s)' = RowsOf(s)
  BY <1>1 DEF RowsOf
<1>3. /\ Others(a)
      /\ \A b \in Appliers \ {a} : Uninserted(b)' = Uninserted(b) /\ Creates(b, s)' = Creates(b, s)
      /\ diff'[a].create = ToCreate(m)
      /\ deletes'[a] = ToRemove(m)
      /\ Uninserted(a)' = ToCreate(m)
  <2>1. /\ Others(a)
        /\ \A b \in Appliers \ {a} : Uninserted(b)' = Uninserted(b) /\ \A t : Creates(b, t)' = Creates(b, t)
        /\ diff'[a] = [remove |-> ToRemove(m), create |-> ToCreate(m), redeploy |-> ToRedeploy(m),
                       gone |-> Gone(m), images |-> Images(m)]
        /\ deletes'[a] = ToRemove(m)
        /\ Uninserted(a)' = ToCreate(m)
    BY BeginKnown
  <2> QED
    BY <2>1
<1>4. /\ Surplus(m, s)' = Surplus(m, s)
      /\ Shortage(m, s)' = Shortage(m, s)
  BY <1>2 DEF Surplus, Shortage
<1>5. /\ Retired(s, Surplus(m, s))' = Retired(s, Surplus(m, s))
      /\ Scaled(s, Shortage(m, s))' = Scaled(s, Shortage(m, s))
  BY <1>2, <1>4 DEF Retired, Scaled
<1>6. s \in DOMAIN m /\ s \in Updated(m) \ Recreated(m) /\ s \notin New(m) /\ s \notin Gone(m)
  BY DEF Updated, Recreated, Scales, New, Gone
<1>7. ToRemove(m) \cap RowsOf(s) = Retired(s, Surplus(m, s))
      /\ \A id \in ToRemove(m) : id[1] = s => id \in Retired(s, Surplus(m, s))
  <2>1. Retired(s, Surplus(m, s)) \subseteq RowsOf(s)
    BY DEF Retired
  <2>2. \A id \in RowsOf(s) : id[1] = s
    BY DEF RowsOf
  <2>3. Retired(s, Surplus(m, s)) \subseteq ToRemove(m)
    BY <1>6, Difference DEF Known
  <2>4. \A id \in ToRemove(m) : id[1] = s => id \in Retired(s, Surplus(m, s))
    BY <1>6, Difference DEF Known
  <2> QED
    BY <2>1, <2>2, <2>3, <2>4
<1>8. Creates(a, s)' = Scaled(s, Shortage(m, s))
  <2>1. Creates(a, s)' = {id \in ToCreate(m) : id[1] = s}
    BY <1>3 DEF Creates
  <2>2. \A id \in Scaled(s, Shortage(m, s)) : id[1] = s
    BY DEF Scaled
  <2>3. Scaled(s, Shortage(m, s)) \subseteq ToCreate(m)
    BY <1>6, Difference DEF Known
  <2>4. \A id \in ToCreate(m) : id[1] = s => id \in Scaled(s, Shortage(m, s))
    BY <1>6, Difference DEF Known
  <2> QED
    BY <2>1, <2>2, <2>3, <2>4
<1>9. /\ Surplus(m, s) \in Nat /\ Shortage(m, s) \in Nat
      /\ Surplus(m, s) = 0 \/ Shortage(m, s) = 0
  BY <1>6, CountsOf DEF Known
<1>10. Scaled(s, Shortage(m, s)) \cap RowsOf(s) = {}
  BY <1>9, ScaledAbove DEF Known, RowsOf
<1>11. Creates(a, s)' \subseteq Uninserted(a)'
  <2>1. Creates(a, s)' \subseteq diff'[a].create
    BY DEF Creates
  <2> QED
    BY <1>3, <2>1
<1>12. /\ deletes'[a] \cap RowsOf(s) = Retired(s, Surplus(m, s))
       /\ Creates(a, s)' \ RowsOf(s) = Scaled(s, Shortage(m, s))
       /\ Creates(a, s)' \ Uninserted(a)' \subseteq RowsOf(s)
       /\ Creates(a, s)' # {} => Surplus(m, s) = 0
       /\ (\E id \in deletes'[a] : id[1] = s) => Shortage(m, s) = 0
  <2>1. Creates(a, s)' # {} => Surplus(m, s) = 0
    BY <1>8, <1>9, ScaledNone
  <2>2. (\E id \in deletes'[a] : id[1] = s) => Shortage(m, s) = 0
    BY <1>3, <1>6, <1>7, <1>9, RetiredSome DEF Known
  <2> QED
    BY <1>3, <1>7, <1>8, <1>10, <1>11, <2>1, <2>2
<1>13. \A b \in Appliers \ {a} : todo'[b] = todo[b] /\ deletes'[b] = deletes[b]
  BY <1>3 DEF Others, Same
<1> QED
  BY <1>1, <1>2, <1>3, <1>4, <1>5, <1>12, <1>13 DEF Scales

-----------------------------------------------------------------------------
(* Agreeing is kept *)

\* A step that changes rows only of services that an apply has to do, or none.
LEMMA ConvergesRows ==
    ASSUME Known, NEW a \in Appliers, NEW m \in Manifests, Others(a), Converges(m),
           services' = services, stage' = stage, todo' = todo,
           wanted'[a] = wanted[a], diff'[a] = diff[a],
           \A id \in DOMAIN rows' : id \in DOMAIN rows \/ id[1] \in DOMAIN m,
           \A s \in DOMAIN m : Rebuilds(m, s)' \/ Scales(m, s)'
    PROVE  Converges(m)'
<1>1. \A b \in Appliers : wanted'[b] = wanted[b] /\ diff'[b] = diff[b]
  BY DEF Others, Same
<1> QED
  BY <1>1 DEF Converges

\* A step that changes nothing of the rows but their status.
LEMMA ConvergesReported ==
    ASSUME Known, NEW a \in Appliers, NEW m \in Manifests, Others(a), Converges(m),
           services' = services, stage' = stage, todo' = todo, deletes' = deletes,
           wanted'[a] = wanted[a], diff'[a] = diff[a],
           DOMAIN rows' = DOMAIN rows,
           \A id \in DOMAIN rows : rows'[id].image = rows[id].image,
           \A b \in Appliers : Uninserted(b)' = Uninserted(b) /\ \A t : Creates(b, t)' = Creates(b, t)
    PROVE  Converges(m)'
<1>1. ASSUME NEW s \in DOMAIN m PROVE Rebuilds(m, s)' \/ Scales(m, s)'
  <2>1. RowsOf(s)' = RowsOf(s) /\ \A id \in RowsOf(s) : rows'[id].image = rows[id].image
    BY DEF RowsOf
  <2>2. Rebuilds(m, s) \/ Scales(m, s)
    BY DEF Converges
  <2> QED
    BY <2>1, <2>2, ModesFrame
<1> QED
  BY <1>1, ConvergesRows

LEMMA ConvergesDelete ==
    ASSUME Known, NEW a \in Appliers, NEW m \in Manifests, Converges(m), DeleteRow(a)
    PROVE  Converges(m)'
<1>1. /\ Known' /\ Others(a) /\ Goes(a)
      /\ \A b \in Appliers : Uninserted(b)' = Uninserted(b) /\ \A s : Creates(b, s)' = Creates(b, s)
      /\ \A id \in diff[a].create : id[1] \in todo[a] => id \in Uninserted(a)
      /\ stage' = stage /\ todo' = todo
  BY DeleteRowKnown
<1>2. services' = services
  BY DEF DeleteRow
<1>3. PICK d \in deletes[a] :
        /\ deletes'[a] = deletes[a] \ {d}
        /\ DOMAIN rows' = DOMAIN rows \ {d}
        /\ \A other \in DOMAIN rows' : rows'[other] = rows[other]
  BY DeleteRowKnown
<1>4. wanted[a] = m /\ Planned(a)
  BY <1>1 DEF Converges, Known, One, Goes
<1>5. \A b \in Appliers \ {a} : deletes'[b] = deletes[b]
  BY <1>1 DEF Others, Same
<1>6. ASSUME NEW s \in DOMAIN m PROVE Rebuilds(m, s)' \/ Scales(m, s)'
  <2>1. Rebuilds(m, s) \/ Scales(m, s)
    BY DEF Converges
  <2>2. CASE s = d[1]
    <3>1. s \in todo[a]
      BY <1>3, <1>4, <2>2 DEF Planned
    <3>2. CASE Rebuilds(m, s)
      <4>1. \A id \in Creates(a, s) : id \in Uninserted(a)
        BY <1>1, <3>1 DEF Creates
      <4> QED
        BY <1>1, <1>2, <1>3, <1>5, <2>2, <3>1, <3>2, <4>1, RebuildsDelete
    <3>3. CASE Scales(m, s)
      BY <1>1, <1>2, <1>3, <1>5, <2>2, <3>1, <3>3, ScalesDelete DEF Known
    <3> QED
      BY <2>1, <3>2, <3>3
  <2>3. CASE s # d[1]
    <3>1. RowsOf(s)' = RowsOf(s) /\ \A id \in RowsOf(s) : rows'[id].image = rows[id].image
      BY <1>3, <2>3 DEF RowsOf
    <3>2. \A b \in Appliers : \A id : id[1] = s => (id \in deletes'[b] <=> id \in deletes[b])
      BY <1>3, <1>5, <2>3
    <3> QED
      BY <1>1, <1>2, <2>1, <3>1, <3>2, ModesFrame
  <2> QED
    BY <2>2, <2>3
<1> QED
  BY <1>1, <1>2, <1>3, <1>6, ConvergesRows DEF Goes

LEMMA ConvergesInsert ==
    ASSUME Known, NEW a \in Appliers, NEW m \in Manifests, Converges(m), InsertRow(a)
    PROVE  Converges(m)'
<1>1. /\ Known' /\ Others(a) /\ Goes(a)
      /\ \A b \in Appliers \ {a} : Uninserted(b)' = Uninserted(b)
      /\ \A b \in Appliers : \A s : Creates(b, s)' = Creates(b, s)
      /\ stage' = stage /\ deletes' = deletes /\ todo' = todo
  BY InsertRowKnown
<1>2. services' = services
  BY DEF InsertRow
<1>3. PICK d \in NextInsert(a) \ DOMAIN rows :
        /\ d \in Uninserted(a)
        /\ \A other \in Uninserted(a) : other[1] = d[1] => d[2] <= other[2]
        /\ Uninserted(a)' = Uninserted(a) \ {d}
        /\ DOMAIN rows' = DOMAIN rows \cup {d}
        /\ rows'[d].image = wanted[a][d[1]].image
        /\ \A other \in DOMAIN rows : rows'[other] = rows[other]
  BY InsertRowKnown
<1>4. wanted[a] = m /\ Planned(a) /\ d[1] \in DOMAIN m
  BY <1>1, <1>3 DEF Converges, Known, One, Goes, Planned, Uninserted
<1>5. ASSUME NEW s \in DOMAIN m PROVE Rebuilds(m, s)' \/ Scales(m, s)'
  <2>1. Rebuilds(m, s) \/ Scales(m, s)
    BY DEF Converges
  <2>2. CASE s = d[1]
    <3>1. rows'[d].image = m[s].image /\ d \notin DOMAIN rows
      BY <1>3, <1>4, <2>2
    <3>2. CASE Rebuilds(m, s)
      BY <1>1, <1>2, <1>3, <2>2, <3>1, <3>2, RebuildsInsert
    <3>3. CASE Scales(m, s)
      BY <1>1, <1>2, <1>3, <2>2, <3>1, <3>3, ScalesInsert DEF Known
    <3> QED
      BY <2>1, <3>2, <3>3
  <2>3. CASE s # d[1]
    <3>1. RowsOf(s)' = RowsOf(s) /\ \A id \in RowsOf(s) : rows'[id].image = rows[id].image
      BY <1>3, <2>3 DEF RowsOf
    <3>2. \A b \in Appliers : \A id : id[1] = s => (id \in Uninserted(b)' <=> id \in Uninserted(b))
      BY <1>1, <1>3, <2>3
    <3> QED
      BY <1>1, <1>2, <2>1, <3>1, <3>2, ModesFrame
  <2> QED
    BY <2>2, <2>3
<1> QED
  BY <1>1, <1>2, <1>3, <1>4, <1>5, ConvergesRows DEF Goes

LEMMA ConvergesUpsert ==
    ASSUME Known, NEW a \in Appliers, NEW m \in Manifests, Converges(m), NEW s \in Services, UpsertService(a, s)
    PROVE  Converges(m)'
<1>1. /\ Known' /\ Others(a) /\ Goes(a)
      /\ \A b \in Appliers : Uninserted(b)' = Uninserted(b) /\ \A t : Creates(b, t)' = Creates(b, t)
      /\ s \in todo[a] /\ deletes[a] = {}
      /\ \A id \in Uninserted(a) : id[1] # s
      /\ stage' = stage /\ deletes' = deletes /\ todo'[a] = todo[a] \ {s}
      /\ DOMAIN services' = DOMAIN services \cup {s}
      /\ services'[s] = wanted[a][s]
      /\ \A t \in DOMAIN services \ {s} : services'[t] = services[t]
  BY UpsertKnown
<1>2. rows' = rows
  BY DEF UpsertService
<1>3. wanted[a] = m /\ Planned(a) /\ s \in DOMAIN m /\ services'[s] = m[s]
  BY <1>1 DEF Converges, Known, One, Goes, Planned
<1>4. \A b \in Appliers \ {a} : todo'[b] = todo[b]
  BY <1>1 DEF Others, Same
<1>5. \A b \in Appliers : stage'[b] = stage[b] /\ wanted'[b] = wanted[b] /\ diff'[b] = diff[b]
  BY <1>1 DEF Others, Same, Goes
<1>6. ASSUME NEW t \in DOMAIN m PROVE Rebuilds(m, t)' \/ Scales(m, t)'
  <2>1. Rebuilds(m, t) \/ Scales(m, t)
    BY DEF Converges
  <2>2. CASE t = s
    <3>1. \A b \in Appliers : todo'[b] \subseteq todo[b]
      BY <1>1, <1>4
    <3>2. CASE Rebuilds(m, t)
      BY <1>1, <1>2, <1>3, <2>2, <3>1, <3>2, RebuildsUpsert
    <3>3. CASE Scales(m, t)
      BY <1>1, <1>2, <1>3, <2>2, <3>1, <3>3, ScalesUpsert DEF Known
    <3> QED
      BY <2>1, <3>2, <3>3
  <2>3. CASE t # s
    <3>1. RowsOf(t)' = RowsOf(t) /\ \A id \in RowsOf(t) : rows'[id].image = rows[id].image
      BY <1>2 DEF RowsOf
    <3>2. \A b \in Appliers : t \in todo'[b] <=> t \in todo[b]
      BY <1>1, <1>4, <2>3
    <3>3. (t \in DOMAIN services' <=> t \in DOMAIN services) /\ (t \in DOMAIN services => services'[t] = services[t])
      BY <1>1, <2>3
    <3> QED
      BY <1>1, <2>1, <3>1, <3>2, <3>3, ModesFrame
  <2> QED
    BY <2>2, <2>3
<1>7. ASSUME NEW b \in Appliers, stage'[b] # "idle"
      PROVE  /\ wanted'[b] = m
             /\ \A t \in DOMAIN m \ todo'[b] : t \in DOMAIN services' /\ services'[t] = m[t]
             /\ DOMAIN services' \ DOMAIN m \subseteq IF stage'[b] = "updating" THEN diff'[b].gone ELSE {}
  <2>1. wanted'[b] = m
    BY <1>5, <1>7 DEF Converges
  <2>2. \A t \in DOMAIN m \ todo'[b] : t \in DOMAIN services' /\ services'[t] = m[t]
    BY <1>1, <1>3, <1>4, <1>5, <1>7 DEF Converges
  <2>3. DOMAIN services' \ DOMAIN m = DOMAIN services \ DOMAIN m
    BY <1>1, <1>3
  <2>4. DOMAIN services \ DOMAIN m \subseteq IF stage'[b] = "updating" THEN diff'[b].gone ELSE {}
    BY <1>5, <1>7 DEF Converges
  <2> QED
    BY <2>1, <2>2, <2>3, <2>4
<1>8. \A id \in DOMAIN rows' : id[1] \in DOMAIN services' \cup DOMAIN m
  BY <1>1, <1>2 DEF Converges
<1> QED
  BY <1>6, <1>7, <1>8 DEF Converges

LEMMA ConvergesDeleteServices ==
    ASSUME Known, NEW a \in Appliers, NEW m \in Manifests, Converges(m), DeleteServices(a)
    PROVE  Converges(m)'
<1>1. /\ Known' /\ Others(a) /\ Goes(a)
      /\ \A b \in Appliers : Uninserted(b)' = Uninserted(b) /\ \A t : Creates(b, t)' = Creates(b, t)
      /\ stage[a] = "updating" /\ stage'[a] = "dispatching"
      /\ deletes' = deletes /\ todo' = todo
      /\ DOMAIN services' = DOMAIN services \ diff[a].gone
      /\ \A t \in DOMAIN services' : services'[t] = services[t]
      /\ DOMAIN rows' = {id \in DOMAIN rows : id[1] \notin diff[a].gone}
      /\ \A id \in DOMAIN rows' : rows'[id] = rows[id]
  BY DeleteServicesKnown
<1>2. wanted[a] = m /\ diff[a].gone \cap DOMAIN m = {}
  BY <1>1 DEF Converges, Known, One, Goes, Planned
<1>3. DOMAIN services \ DOMAIN m \subseteq diff[a].gone
  BY <1>1 DEF Converges
<1>4. ASSUME NEW s \in DOMAIN m PROVE Rebuilds(m, s)' \/ Scales(m, s)'
  <2>1. RowsOf(s)' = RowsOf(s) /\ \A id \in RowsOf(s) : rows'[id].image = rows[id].image
    BY <1>1, <1>2 DEF RowsOf
  <2>2. Rebuilds(m, s) \/ Scales(m, s)
    BY DEF Converges
  <2>3. (s \in DOMAIN services' <=> s \in DOMAIN services) /\ (s \in DOMAIN services => services'[s] = services[s])
    BY <1>1, <1>2
  <2> QED
    BY <1>1, <2>1, <2>2, <2>3, ModesFrame
<1>5. ASSUME NEW b \in Appliers, stage'[b] # "idle"
      PROVE  /\ wanted'[b] = m
             /\ \A t \in DOMAIN m \ todo'[b] : t \in DOMAIN services' /\ services'[t] = m[t]
             /\ DOMAIN services' \ DOMAIN m = {}
  <2>1. stage[b] # "idle" /\ wanted'[b] = wanted[b]
    BY <1>1, <1>5 DEF Others, Same, Goes
  <2> QED
    BY <1>1, <1>2, <1>3, <2>1 DEF Converges
<1>6. \A id \in DOMAIN rows' : id[1] \in DOMAIN services' \cup DOMAIN m
  BY <1>1 DEF Converges
<1> QED
  BY <1>4, <1>5, <1>6 DEF Converges

\* An apply that is cut off, and met no other.
LEMMA ConvergesCut ==
    ASSUME Known, Alone, NEW a \in Appliers, NEW m \in Manifests, Converges(m), Reset(a),
           UNCHANGED <<services, rows, containers, tried>>, "concurrent" \notin excuses, stage[a] # "idle"
    PROVE  Converges(m)'
<1>1. /\ Others(a) /\ stage'[a] = "idle" /\ todo'[a] = {} /\ Uninserted(a)' = {}
      /\ \A b \in Appliers \ {a} : Uninserted(b)' = Uninserted(b)
  BY CutKnown
<1>2. \A b \in Appliers \ {a} : stage[b] = "idle"
  BY DEF Alone
<1>3. \A b \in Appliers \ {a} : todo[b] = {} /\ Uninserted(b) = {}
  BY <1>2 DEF Known, One, Resting, NoDiff, Uninserted
<1>4. \A b \in Appliers : stage'[b] = "idle" /\ todo'[b] = {} /\ Uninserted(b)' = {}
  BY <1>1, <1>2, <1>3 DEF Others, Same
<1>5. wanted[a] = m
  BY DEF Converges
<1>6. ASSUME NEW s \in DOMAIN m, s \in DOMAIN services, services[s] = m[s]
      PROVE  \A b \in Appliers : \A id \in Uninserted(b) : id[1] # s
  <2>1. s \notin todo[a]
    BY <1>5, <1>6 DEF Alone
  <2>2. \A id \in Uninserted(a) : id[1] \in todo[a]
    BY DEF Uninserted
  <2> QED
    BY <1>3, <2>1, <2>2
<1>7. ASSUME NEW s \in DOMAIN m PROVE Rebuilds(m, s)' \/ Scales(m, s)'
  <2>1. Rebuilds(m, s) \/ Scales(m, s)
    BY DEF Converges
  <2>2. CASE Rebuilds(m, s)
    BY <1>4, <1>6, <2>2, RebuildsCut
  <2>3. CASE Scales(m, s)
    BY <1>4, <2>3, ScalesCut
  <2> QED
    BY <2>1, <2>2, <2>3
<1>8. \A id \in DOMAIN rows' : id[1] \in DOMAIN services' \cup DOMAIN m
  BY DEF Converges
<1> QED
  BY <1>4, <1>7, <1>8 DEF Converges

\* A settled state has settled for any manifest that is applied next.
LEMMA ConvergesClean ==
    ASSUME Known, Idle, Clean, NEW m \in Manifests
    PROVE  Converges(m)
<1>1. \A b \in Appliers : stage[b] = "idle" /\ todo[b] = {}
  BY DEF Idle, Known, One, Resting
<1>2. ASSUME NEW s \in DOMAIN m PROVE Rebuilds(m, s) \/ Scales(m, s)
  <2>1. \A id \in RowsOf(s) : s \in DOMAIN services /\ rows[id].image = services[s].image
    BY DEF RowsOf, Clean
  <2>2. CASE s \in DOMAIN services /\ services[s].image = m[s].image
    <3>1. services[s] = m[s] => Cardinality(RowsOf(s)) = m[s].replicas
      BY <2>2 DEF Clean
    <3> QED
      BY <1>1, <2>1, <2>2, <3>1 DEF Scales
  <2>3. CASE ~(s \in DOMAIN services /\ services[s].image = m[s].image)
    <3>1. s \in DOMAIN services => services[s] # m[s]
      BY <2>3
    <3> QED
      BY <1>1, <2>1, <2>3, <3>1 DEF Rebuilds
  <2> QED
    BY <2>2, <2>3
<1> QED
  BY <1>1, <1>2 DEF Converges, Clean

LEMMA ConvergesBegin ==
    ASSUME Known, NEW a \in Appliers, NEW m \in Manifests, Converges(m), Begin(a, m)
    PROVE  Converges(m)'
<1>1. services' = services /\ rows' = rows
  BY DEF Begin, database
<1>2. /\ Others(a)
      /\ \A b \in Appliers \ {a} : Uninserted(b)' = Uninserted(b) /\ \A t : Creates(b, t)' = Creates(b, t)
      /\ stage'[a] = "updating" /\ wanted'[a] = m
      /\ diff'[a].create = ToCreate(m) /\ diff'[a].gone = Gone(m)
      /\ deletes'[a] = ToRemove(m)
      /\ todo'[a] = New(m) \cup Updated(m)
      /\ Uninserted(a)' = ToCreate(m)
  <2>1. /\ Others(a)
        /\ \A b \in Appliers \ {a} : Uninserted(b)' = Uninserted(b) /\ \A t : Creates(b, t)' = Creates(b, t)
        /\ stage'[a] = "updating" /\ wanted'[a] = m
        /\ diff'[a] = [remove |-> ToRemove(m), create |-> ToCreate(m), redeploy |-> ToRedeploy(m),
                       gone |-> Gone(m), images |-> Images(m)]
        /\ deletes'[a] = ToRemove(m)
        /\ todo'[a] = New(m) \cup Updated(m)
        /\ Uninserted(a)' = ToCreate(m)
    BY BeginKnown
  <2> QED
    BY <2>1
<1>3. stage[a] = "idle" /\ todo[a] = {} /\ deletes[a] = {} /\ Uninserted(a) = {}
  BY DEF Begin, Known, One, Resting, NoDiff, Uninserted
<1>4. \A b \in Appliers \ {a} : /\ stage'[b] = stage[b] /\ wanted'[b] = wanted[b] /\ diff'[b] = diff[b]
                                /\ todo'[b] = todo[b] /\ deletes'[b] = deletes[b]
  BY <1>2 DEF Others, Same
<1>5. ASSUME NEW s \in DOMAIN m PROVE Rebuilds(m, s)' \/ Scales(m, s)'
  <2>1. Rebuilds(m, s) \/ Scales(m, s)
    BY DEF Converges
  <2>2. CASE s \notin New(m) \cup Updated(m)
    <3>1. s \notin Gone(m) /\ s \notin Recreated(m)
      BY <2>2 DEF Gone, Recreated, Updated
    <3>2. /\ \A id \in ToCreate(m) : id[1] # s
          /\ \A id \in ToRemove(m) : id[1] # s
      BY <2>2, <3>1, Difference DEF Known
    <3>3. RowsOf(s)' = RowsOf(s) /\ \A id \in RowsOf(s) : rows'[id].image = rows[id].image
      BY <1>1 DEF RowsOf
    <3>4. \A b \in Appliers :
              /\ s \in todo'[b] <=> s \in todo[b]
              /\ s \in todo[b] => Creates(b, s)' = Creates(b, s)
              /\ \A id : id[1] = s => (id \in deletes'[b] <=> id \in deletes[b])
              /\ \A id : id[1] = s => (id \in Uninserted(b)' <=> id \in Uninserted(b))
      BY <1>2, <1>3, <1>4, <2>2, <3>2
    <3> QED
      BY <1>1, <2>1, <3>3, <3>4, ModesFrame
  <2>3. CASE s \in New(m) \cup Updated(m) /\ Rebuilds(m, s)
    <3>1. s \in New(m) \cup Recreated(m)
      BY <2>3 DEF New, Recreated, Updated, Rebuilds
    <3> QED
      BY <2>3, <3>1, RebuildsBegin
  <2>4. CASE s \in New(m) \cup Updated(m) /\ Scales(m, s)
    <3>1. s \in Updated(m)
      BY <2>4 DEF New, Scales
    <3> QED
      BY <2>4, <3>1, ScalesBegin
  <2> QED
    BY <2>1, <2>2, <2>3, <2>4
<1>6. ASSUME NEW b \in Appliers, stage'[b] # "idle"
      PROVE  /\ wanted'[b] = m
             /\ \A t \in DOMAIN m \ todo'[b] : t \in DOMAIN services' /\ services'[t] = m[t]
             /\ DOMAIN services' \ DOMAIN m \subseteq IF stage'[b] = "updating" THEN diff'[b].gone ELSE {}
  <2>1. CASE b = a
    <3>1. \A t \in DOMAIN m \ todo'[a] : t \in DOMAIN services' /\ services'[t] = m[t]
      BY <1>1, <1>2 DEF New, Updated
    <3> QED
      BY <1>1, <1>2, <2>1, <3>1 DEF Gone
  <2>2. CASE b # a
    BY <1>1, <1>4, <1>6, <2>2 DEF Converges
  <2> QED
    BY <2>1, <2>2
<1>7. \A id \in DOMAIN rows' : id[1] \in DOMAIN services' \cup DOMAIN m
  BY <1>1 DEF Converges
<1> QED
  BY <1>5, <1>6, <1>7 DEF Converges

\* The end of an apply, and the rows of the last one.
LEMMA ConvergesFinish ==
    ASSUME Known, NEW a \in Appliers, NEW m \in Manifests, Converges(m), Finish(a)
    PROVE  Converges(m)'
<1>1. /\ Others(a)
      /\ \A b \in Appliers \ {a} : Uninserted(b)' = Uninserted(b) /\ \A s : Creates(b, s)' = Creates(b, s)
      /\ todo[a] = {} /\ deletes[a] = {} /\ Uninserted(a) = {}
      /\ stage'[a] = "idle" /\ todo'[a] = {} /\ deletes'[a] = {} /\ Uninserted(a)' = {}
      /\ services' = services
      /\ DOMAIN rows' = DOMAIN rows
      /\ \A id \in DOMAIN rows : rows'[id].image = rows[id].image
  BY FinishKnown
<1>2. \A b \in Appliers \ {a} : /\ stage'[b] = stage[b] /\ wanted'[b] = wanted[b] /\ diff'[b] = diff[b]
                                /\ todo'[b] = todo[b] /\ deletes'[b] = deletes[b]
  BY <1>1 DEF Others, Same
<1>3. ASSUME NEW s \in DOMAIN m PROVE Rebuilds(m, s)' \/ Scales(m, s)'
  <2>1. RowsOf(s)' = RowsOf(s) /\ \A id \in RowsOf(s) : rows'[id].image = rows[id].image
    BY <1>1 DEF RowsOf
  <2>2. Rebuilds(m, s) \/ Scales(m, s)
    BY DEF Converges
  <2>3. \A b \in Appliers :
              /\ s \in todo'[b] <=> s \in todo[b]
              /\ s \in todo[b] => Creates(b, s)' = Creates(b, s)
              /\ \A id : id[1] = s => (id \in deletes'[b] <=> id \in deletes[b])
              /\ \A id : id[1] = s => (id \in Uninserted(b)' <=> id \in Uninserted(b))
    BY <1>1, <1>2
  <2> QED
    BY <1>1, <2>1, <2>2, <2>3, ModesFrame
<1>4. ASSUME NEW b \in Appliers, stage'[b] # "idle"
      PROVE  /\ wanted'[b] = m
             /\ \A t \in DOMAIN m \ todo'[b] : t \in DOMAIN services' /\ services'[t] = m[t]
             /\ DOMAIN services' \ DOMAIN m \subseteq IF stage'[b] = "updating" THEN diff'[b].gone ELSE {}
  BY <1>1, <1>2, <1>4 DEF Converges
<1>5. \A id \in DOMAIN rows' : id[1] \in DOMAIN services' \cup DOMAIN m
  BY <1>1 DEF Converges
<1> QED
  BY <1>3, <1>4, <1>5 DEF Converges

LEMMA AgreesAtLast ==
    ASSUME Known, NEW a \in Appliers, NEW m \in Manifests, Converges(m),
           stage[a] = "dispatching", \A b \in Appliers \ {a} : stage[b] = "idle"
    PROVE  RowsAgree(m)
<1>1. todo[a] = {} /\ Uninserted(a) = {} /\ wanted[a] = m
  BY DEF Known, One, Planned, Uninserted, Converges
<1>2. \A b \in Appliers \ {a} : Uninserted(b) = {}
  BY DEF Known, One, Resting, NoDiff, Uninserted
<1>3. /\ \A s \in DOMAIN m : s \in DOMAIN services /\ services[s] = m[s]
      /\ DOMAIN services \ DOMAIN m = {}
  BY <1>1 DEF Converges
<1>4. services = m
  <2>1. services = [s \in DOMAIN services |-> services[s]] /\ m = [s \in DOMAIN m |-> m[s]]
    BY ManifestOf DEF Known, Stored
  <2>2. DOMAIN services = DOMAIN m
    BY <1>3
  <2> QED
    BY <1>3, <2>1, <2>2
<1>5. \A id \in DOMAIN rows : id[1] \in DOMAIN m
  BY <1>3 DEF Converges
<1>6. ASSUME NEW s \in DOMAIN m
      PROVE  /\ \A id \in RowsOf(s) : rows[id].image = m[s].image
             /\ Cardinality(RowsOf(s)) = m[s].replicas
  <2>1. CASE Scales(m, s)
    BY <1>3, <2>1 DEF Scales
  <2>2. CASE Rebuilds(m, s)
    <3>1. \A id \in RowsOf(s) : rows[id].image = m[s].image /\ id \in Built(s, m[s].replicas)
      BY <1>3, <2>2 DEF Rebuilds
    <3>2. \A id \in Built(s, m[s].replicas) : id \in RowsOf(s)
      BY <1>1, <1>2, <1>3, <2>2 DEF Rebuilds
    <3>3. RowsOf(s) = Built(s, m[s].replicas)
      BY <3>1, <3>2
    <3> QED
      BY <3>1, <3>3, BuiltCount, ManifestOf
  <2> QED
    BY <2>1, <2>2 DEF Converges
<1> QED
  BY <1>4, <1>5, <1>6 DEF RowsAgree, RowsOf

LEMMA AgreeingLater ==
    ASSUME Known, Agreeing, NEW a \in Appliers, stage[a] # "idle",
           tried' = tried, settled' = settled, cut => cut', excuses \subseteq excuses',
           ASSUME NEW m \in Manifests, Converges(m), ~(cut' /\ "concurrent" \in excuses')
           PROVE  Converges(m)'
    PROVE  Agreeing' /\ AppliedAgree'
<1>1. tried # {}
  BY DEF Known, One, Planned
<1>2. settled' = {}
  BY <1>1 DEF Agreeing
<1>3. ASSUME ~(cut' /\ "concurrent" \in excuses'), NEW m \in Manifests, tried' = {m} PROVE Converges(m)'
  <2>1. Converges(m)
    BY <1>3 DEF Agreeing
  <2> QED
    BY <1>3, <2>1
<1> QED
  BY <1>1, <1>2, <1>3 DEF Agreeing, AppliedAgree

LEMMA AgreeingBegin ==
    ASSUME Known, Agreeing, NEW a \in Appliers, NEW n \in Manifests, Begin(a, n)
    PROVE  Agreeing' /\ AppliedAgree'
<1>1. tried' = tried \cup {n} /\ settled' = {} /\ cut' = cut /\ excuses \subseteq excuses'
  BY DEF Begin
<1>2. ASSUME ~(cut' /\ "concurrent" \in excuses'), NEW m \in Manifests, tried' = {m} PROVE Converges(m)'
  <2>1. m = n
    BY <1>1, <1>2
  <2>2. Converges(n)
    <3>1. CASE tried = {}
      BY <3>1, ConvergesClean DEF Agreeing
    <3>2. CASE tried # {}
      <4>1. tried = {n}
        BY <1>1, <1>2, <2>1, <3>2
      <4> QED
        BY <1>1, <1>2, <4>1 DEF Agreeing
    <3> QED
      BY <3>1, <3>2
  <2> QED
    BY <2>1, <2>2, ConvergesBegin
<1> QED
  BY <1>1, <1>2 DEF Agreeing, AppliedAgree

LEMMA AgreeingFinish ==
    ASSUME Known, Agreeing, NEW a \in Appliers, Finish(a)
    PROVE  Agreeing' /\ AppliedAgree'
<1>1. /\ Others(a) /\ stage[a] = "dispatching" /\ stage'[a] = "idle"
      /\ services' = services
      /\ DOMAIN rows' = DOMAIN rows
      /\ \A id \in DOMAIN rows : rows'[id].image = rows[id].image
  BY FinishKnown
<1>2. /\ settled' = IF Settles(a) THEN {wanted[a]} ELSE {}
      /\ tried' = IF Settles(a) THEN {} ELSE tried
      /\ cut' = IF Settles(a) THEN FALSE ELSE cut
      /\ excuses' = excuses
  BY DEF Finish
<1>3. wanted[a] \in Manifests \cap tried
  BY <1>1 DEF Known, One, Planned
<1>4. CASE ~Settles(a)
  <2>1. tried' = tried /\ settled' = {} /\ cut' = cut
    BY <1>2, <1>4
  <2>2. ASSUME ~(cut' /\ "concurrent" \in excuses'), NEW m \in Manifests, tried' = {m} PROVE Converges(m)'
    <3>1. Converges(m)
      BY <1>2, <2>1, <2>2 DEF Agreeing
    <3> QED
      BY <3>1, ConvergesFinish
  <2> QED
    BY <1>3, <2>1, <2>2 DEF Agreeing, AppliedAgree
<1>5. CASE Settles(a)
  <2> PICK m \in Manifests : m = wanted[a]
    BY <1>3
  <2>1. /\ \A b \in Appliers \ {a} : stage[b] = "idle"
        /\ tried = {m} /\ ~(cut /\ "concurrent" \in excuses)
    BY <1>5 DEF Settles
  <2>2. RowsAgree(m)
    <3>1. Converges(m)
      BY <1>3, <2>1 DEF Agreeing
    <3> QED
      BY <1>1, <2>1, <3>1, AgreesAtLast
  <2>3. settled' = {m} /\ tried' = {}
    BY <1>2, <1>5
  <2>4. \A s : RowsOf(s)' = RowsOf(s)
    BY <1>1 DEF RowsOf
  <2>5. RowsAgree(m)'
    BY <1>1, <2>2, <2>4 DEF RowsAgree
  <2>6. Idle'
    BY <1>1, <2>1 DEF Idle, Others, Same
  <2>7. Clean'
    BY <1>1, <2>2, <2>4 DEF RowsAgree, Clean
  <2>8. Agreeing'
    BY <2>3, <2>6, <2>7 DEF Agreeing
  <2> QED
    BY <2>3, <2>5, <2>8 DEF AppliedAgree
<1> QED
  BY <1>4, <1>5

LEMMA AgreeingStep ==
    ASSUME Known, Alone, Agreeing, NEW a \in Appliers, ApplyCrash(a) \/ Step(a)
    PROVE  Agreeing' /\ AppliedAgree'
<1>1. CASE DeleteRow(a)
  <2>1. stage[a] # "idle"
    BY <1>1, DeleteRowKnown DEF Goes
  <2>2. UNCHANGED <<tried, settled, cut, excuses>>
    BY <1>1 DEF DeleteRow, history
  <2> QED
    BY <1>1, <2>1, <2>2, ConvergesDelete, AgreeingLater
<1>2. CASE InsertRow(a)
  <2>1. stage[a] # "idle"
    BY <1>2, InsertRowKnown DEF Goes
  <2>2. UNCHANGED <<tried, settled, cut, excuses>>
    BY <1>2 DEF InsertRow, history
  <2> QED
    BY <1>2, <2>1, <2>2, ConvergesInsert, AgreeingLater
<1>3. ASSUME Reset(a), UNCHANGED <<services, rows, containers, tried, settled>>, excuses \subseteq excuses', cut',
             stage[a] # "idle"
      PROVE  Agreeing' /\ AppliedAgree'
  <2>1. ASSUME NEW m \in Manifests, Converges(m), ~(cut' /\ "concurrent" \in excuses') PROVE Converges(m)'
    BY <1>3, <2>1, ConvergesCut
  <2> QED
    BY <1>3, <2>1, AgreeingLater
<1>4. CASE InsertRejected(a)
  <2>1. stage[a] # "idle"
    BY <1>4 DEF InsertRejected, NextInsert, Known, One, Resting
  <2> QED
    BY <1>3, <1>4, <2>1 DEF InsertRejected, database
<1>5. CASE \E s \in Services : Unschedulable(a, s)
  BY <1>3, <1>5 DEF Unschedulable, Turns, Fail, database
<1>6. CASE ApplyCrash(a)
  BY <1>3, <1>6 DEF ApplyCrash, Fail, database
<1>7. CASE DeleteServices(a)
  <2>1. stage[a] # "idle"
    BY <1>7, DeleteServicesKnown DEF Goes
  <2>2. UNCHANGED <<tried, settled, cut, excuses>>
    BY <1>7 DEF DeleteServices, history
  <2> QED
    BY <1>7, <2>1, <2>2, ConvergesDeleteServices, AgreeingLater
<1>8. CASE Finish(a)
  BY <1>8, AgreeingFinish
<1>9. ASSUME NEW s \in Services, Schedule(a, s) PROVE Agreeing' /\ AppliedAgree'
  <2>1. /\ Others(a) /\ Goes(a) /\ stage' = stage /\ deletes' = deletes /\ todo' = todo
        /\ \A b \in Appliers : Uninserted(b)' = Uninserted(b) /\ \A t : Creates(b, t)' = Creates(b, t)
    BY <1>9, ScheduleKnown
  <2>2. UNCHANGED <<services, rows, tried, settled, cut, excuses>>
    BY <1>9 DEF Schedule, history, database
  <2>3. ASSUME NEW m \in Manifests, Converges(m) PROVE Converges(m)'
    BY <2>1, <2>2, <2>3, ConvergesReported DEF Goes
  <2> QED
    BY <2>1, <2>2, <2>3, AgreeingLater DEF Goes
<1>10. ASSUME NEW s \in Services, UpsertService(a, s) PROVE Agreeing' /\ AppliedAgree'
  <2>1. stage[a] # "idle"
    BY <1>10, UpsertKnown DEF Goes
  <2>2. UNCHANGED <<tried, settled, cut, excuses>>
    BY <1>10 DEF UpsertService, history
  <2> QED
    BY <1>10, <2>1, <2>2, ConvergesUpsert, AgreeingLater
<1>11. ASSUME NEW n \in Nodes, Dispatch(a, n) PROVE Agreeing' /\ AppliedAgree'
  <2>1. /\ Others(a) /\ Goes(a) /\ stage' = stage /\ deletes' = deletes /\ todo' = todo /\ services' = services
        /\ DOMAIN rows' = DOMAIN rows
        /\ \A id \in DOMAIN rows : rows'[id].image = rows[id].image
        /\ \A b \in Appliers : Uninserted(b)' = Uninserted(b) /\ \A t : Creates(b, t)' = Creates(b, t)
    BY <1>11, DispatchKnown
  <2>2. UNCHANGED <<tried, settled, cut, excuses>>
    BY <1>11 DEF Dispatch, history
  <2>3. ASSUME NEW m \in Manifests, Converges(m) PROVE Converges(m)'
    <3>1. wanted'[a] = wanted[a] /\ diff'[a] = diff[a]
      BY <2>1 DEF Goes
    <3> QED
      BY <2>1, <2>3, <3>1, ConvergesReported
  <2> QED
    BY <2>1, <2>2, <2>3, AgreeingLater DEF Goes
<1>12. ASSUME NEW n \in Nodes, DispatchFails(a, n) PROVE Agreeing' /\ AppliedAgree'
  <2>1. /\ Others(a) /\ Goes(a) /\ stage' = stage /\ deletes' = deletes /\ todo' = todo /\ services' = services
        /\ DOMAIN rows' = DOMAIN rows
        /\ \A id \in DOMAIN rows : rows'[id].image = rows[id].image
        /\ \A b \in Appliers : Uninserted(b)' = Uninserted(b) /\ \A t : Creates(b, t)' = Creates(b, t)
    BY <1>12, DispatchFailsKnown
  <2>2. UNCHANGED <<tried, settled, cut>> /\ excuses \subseteq excuses'
    BY <1>12 DEF DispatchFails
  <2>3. ASSUME NEW m \in Manifests, Converges(m) PROVE Converges(m)'
    <3>1. wanted'[a] = wanted[a] /\ diff'[a] = diff[a]
      BY <2>1 DEF Goes
    <3> QED
      BY <2>1, <2>3, <3>1, ConvergesReported
  <2> QED
    BY <2>1, <2>2, <2>3, AgreeingLater DEF Goes
<1> QED
  BY <1>1, <1>2, <1>4, <1>5, <1>6, <1>7, <1>8, <1>9, <1>10, <1>11, <1>12 DEF Step

-----------------------------------------------------------------------------
(* Orderly is kept *)

\* A step of the one apply in progress, which goes on.
LEMMA OrderlyLater ==
    ASSUME Alone, Orderly, NEW a \in Appliers, Others(a), excuses \subseteq excuses', rejected' = rejected,
           stage[a] # "idle", stage'[a] # "idle",
           Ordered(a) => Ordered(a)'
    PROVE  Orderly'
<1> SUFFICES ASSUME excuses' \subseteq {"dispatch"} PROVE Orderly'
  BY DEF Orderly
<1>1. excuses \subseteq {"dispatch"} /\ "concurrent" \notin excuses
  OBVIOUS
<1>2. ~rejected' /\ Ordered(a)'
  BY <1>1 DEF Orderly
<1>3. \A b \in Appliers \ {a} : stage'[b] = "idle"
  BY <1>1 DEF Alone, Others, Same
<1>4. ~Idle'
  BY DEF Idle
<1>5. \A b \in Appliers : stage'[b] # "idle" => b = a
  BY <1>3
<1> QED
  BY <1>2, <1>4, <1>5 DEF Orderly

LEMMA OrderlyBegin ==
    ASSUME Known, Orderly, NEW a \in Appliers, NEW m \in Manifests, Begin(a, m)
    PROVE  Orderly'
<1> SUFFICES ASSUME excuses' \subseteq {"dispatch"} PROVE Orderly'
  BY DEF Orderly
<1>1. Idle /\ excuses' = excuses /\ services' = services /\ rows' = rows /\ rejected' = rejected
  BY DEF Begin, database
<1>2. /\ Others(a) /\ stage'[a] = "updating"
      /\ diff'[a].gone = Gone(m)
      /\ deletes'[a] = ToRemove(m)
      /\ Uninserted(a)' = ToCreate(m)
  <2>1. /\ Others(a) /\ stage'[a] = "updating"
        /\ diff'[a] = [remove |-> ToRemove(m), create |-> ToCreate(m), redeploy |-> ToRedeploy(m),
                       gone |-> Gone(m), images |-> Images(m)]
        /\ deletes'[a] = ToRemove(m)
        /\ Uninserted(a)' = ToCreate(m)
    BY BeginKnown
  <2> QED
    BY <2>1
<1>3. ~rejected' /\ \A id \in DOMAIN rows : id[1] \in DOMAIN services
  BY <1>1 DEF Orderly
<1>4. \A b \in Appliers : stage'[b] # "idle" => b = a
  BY <1>1, <1>2 DEF Idle, Others, Same
<1>5. \A id \in DOMAIN rows : id[1] \in Gone(m) => id \in ToRemove(m)
  BY Difference DEF Known, RowsOf
<1>6. ToCreate(m) \cap DOMAIN rows \subseteq ToRemove(m)
  <2>1. ASSUME NEW id \in ToCreate(m), id \in DOMAIN rows PROVE id \in ToRemove(m)
    <3>1. id[1] \notin New(m)
      BY <1>3, <2>1 DEF New
    <3>2. CASE id[1] \in Recreated(m)
      BY <2>1, <3>2, Difference DEF Known, RowsOf
    <3>3. CASE id[1] \notin Recreated(m)
      <4>1. id[1] \in DOMAIN m /\ id \in Scaled(id[1], Shortage(m, id[1]))
        BY <3>1, <3>3, Difference DEF Known
      <4>2. Shortage(m, id[1]) \in Nat
        BY <4>1, CountsOf DEF Known
      <4> QED
        BY <2>1, <4>1, <4>2, ScaledAbove DEF Known
    <3> QED
      BY <3>2, <3>3
  <2> QED
    BY <2>1
<1>7. Ordered(a)'
  <2>1. \A id \in DOMAIN rows' : id[1] \in diff'[a].gone => id \in deletes'[a]
    BY <1>1, <1>2, <1>5
  <2>2. Uninserted(a)' \cap DOMAIN rows' \subseteq deletes'[a]
    BY <1>1, <1>2, <1>6
  <2>3. \A id \in DOMAIN rows' : id[1] \in DOMAIN services' \cup todo'[a]
    BY <1>1, <1>3
  <2> QED
    BY <2>1, <2>2, <2>3 DEF Ordered
<1>8. ~Idle'
  BY <1>2 DEF Idle
<1> QED
  BY <1>3, <1>4, <1>7, <1>8 DEF Orderly

LEMMA OrderlyFinish ==
    ASSUME Known, Alone, Orderly, NEW a \in Appliers, Finish(a)
    PROVE  Orderly'
<1>1. /\ Others(a)
      /\ stage[a] = "dispatching" /\ todo[a] = {} /\ stage'[a] = "idle"
      /\ services' = services
      /\ DOMAIN rows' = DOMAIN rows
  BY FinishKnown
<1>2. excuses' = excuses /\ rejected' = rejected
  BY DEF Finish
<1> SUFFICES ASSUME excuses \subseteq {"dispatch"} PROVE Orderly'
  BY <1>2 DEF Orderly
<1>3. ~rejected /\ Ordered(a)
  BY <1>1 DEF Orderly
<1>4. \A b \in Appliers : stage'[b] = "idle"
  BY <1>1 DEF Alone, Others, Same
<1>5. \A id \in DOMAIN rows : id[1] \in DOMAIN services
  BY <1>1, <1>3 DEF Ordered
<1> QED
  BY <1>1, <1>2, <1>3, <1>4, <1>5 DEF Orderly

\* An insert is not rejected of an apply that met no other: the rows that have
\* the ids it creates are those that it has deleted.
LEMMA RejectedExcused ==
    ASSUME Known, Orderly, NEW a \in Appliers, InsertRejected(a)
    PROVE  ~(excuses \subseteq {"dispatch"})
<1> SUFFICES ASSUME excuses \subseteq {"dispatch"} PROVE FALSE
  OBVIOUS
<1>1. PICK id \in NextInsert(a) : id \in DOMAIN rows
  BY DEF InsertRejected
<1>2. id \in inserts[a]
  BY DEF NextInsert
<1>3. stage[a] # "idle" /\ InTurn(a)
  BY <1>2 DEF Known, One, Resting
<1>4. id \in Uninserted(a) /\ deletes[a] = {}
  BY <1>2, <1>3 DEF InTurn, Uninserted
<1> QED
  BY <1>1, <1>3, <1>4 DEF Orderly, Ordered

LEMMA OrderlyStep ==
    ASSUME Known, Alone, Orderly, NEW a \in Appliers, ApplyCrash(a) \/ Step(a)
    PROVE  Orderly'
<1>1. ASSUME ~(excuses' \subseteq {"dispatch"}) PROVE Orderly'
  BY <1>1 DEF Orderly
<1>2. CASE \E s \in Services : Unschedulable(a, s)
  <2>1. "unschedulable" \in excuses'
    BY <1>2 DEF Unschedulable, Fail
  <2> QED
    BY <1>1, <2>1
<1>3. CASE ApplyCrash(a)
  <2>1. "crash" \in excuses'
    BY <1>3 DEF ApplyCrash, Fail
  <2> QED
    BY <1>1, <2>1
<1>4. CASE InsertRejected(a)
  <2>1. excuses' = excuses
    BY <1>4 DEF InsertRejected
  <2> QED
    BY <1>1, <1>4, <2>1, RejectedExcused
<1>5. CASE DeleteRow(a)
  <2>1. /\ Others(a) /\ Goes(a)
        /\ Uninserted(a)' = Uninserted(a)
        /\ stage[a] = "updating" /\ stage' = stage /\ todo' = todo
    BY <1>5, DeleteRowKnown
  <2>2. PICK d \in deletes[a] : deletes'[a] = deletes[a] \ {d} /\ DOMAIN rows' = DOMAIN rows \ {d}
    BY <1>5, DeleteRowKnown
  <2>3. services' = services /\ excuses' = excuses /\ rejected' = rejected /\ diff'[a] = diff[a]
    BY <1>5, <2>1 DEF DeleteRow, history, Goes
  <2>4. Ordered(a) => Ordered(a)'
    BY <2>1, <2>2, <2>3 DEF Ordered
  <2> QED
    BY <2>1, <2>3, <2>4, OrderlyLater
<1>6. CASE InsertRow(a)
  <2>1. /\ Others(a) /\ Goes(a)
        /\ stage[a] = "updating" /\ deletes[a] = {}
        /\ stage' = stage /\ deletes' = deletes /\ todo' = todo
    BY <1>6, InsertRowKnown
  <2>2. PICK d \in NextInsert(a) \ DOMAIN rows :
            /\ d \in Uninserted(a)
            /\ Uninserted(a)' = Uninserted(a) \ {d}
            /\ DOMAIN rows' = DOMAIN rows \cup {d}
    BY <1>6, InsertRowKnown
  <2>3. services' = services /\ excuses' = excuses /\ rejected' = rejected /\ diff'[a] = diff[a]
    BY <1>6, <2>1 DEF InsertRow, history, Goes
  <2>4. Planned(a)
    BY <2>1 DEF Known, One
  <2>5. d[1] \in todo[a] /\ d[1] \notin diff[a].gone
    BY <2>2, <2>4 DEF Uninserted, Planned
  <2>6. Ordered(a) => Ordered(a)'
    BY <2>1, <2>2, <2>3, <2>5 DEF Ordered
  <2> QED
    BY <2>1, <2>3, <2>6, OrderlyLater
<1>7. ASSUME NEW s \in Services, Schedule(a, s) PROVE Orderly'
  <2>1. /\ Others(a) /\ Goes(a)
        /\ Uninserted(a)' = Uninserted(a)
        /\ stage[a] = "updating"
        /\ stage' = stage /\ deletes' = deletes /\ todo' = todo
    BY <1>7, ScheduleKnown
  <2>2. UNCHANGED <<services, rows, excuses, rejected>> /\ diff'[a] = diff[a]
    BY <1>7, <2>1 DEF Schedule, database, history, Goes
  <2>3. Ordered(a) => Ordered(a)'
    BY <2>1, <2>2 DEF Ordered
  <2> QED
    BY <2>1, <2>2, <2>3, OrderlyLater
<1>8. ASSUME NEW s \in Services, UpsertService(a, s) PROVE Orderly'
  <2>1. /\ Others(a) /\ Goes(a)
        /\ Uninserted(a)' = Uninserted(a)
        /\ stage[a] = "updating"
        /\ stage' = stage /\ deletes' = deletes /\ todo'[a] = todo[a] \ {s}
        /\ DOMAIN services' = DOMAIN services \cup {s}
    BY <1>8, UpsertKnown
  <2>2. UNCHANGED <<rows, excuses, rejected>> /\ diff'[a] = diff[a]
    BY <1>8, <2>1 DEF UpsertService, history, Goes
  <2>3. Ordered(a) => Ordered(a)'
    BY <2>1, <2>2 DEF Ordered
  <2> QED
    BY <2>1, <2>2, <2>3, OrderlyLater
<1>9. CASE DeleteServices(a)
  <2>1. /\ Others(a) /\ Goes(a)
        /\ Uninserted(a)' = Uninserted(a)
        /\ stage[a] = "updating" /\ stage'[a] = "dispatching"
        /\ todo[a] = {} /\ Uninserted(a) = {}
        /\ deletes' = deletes /\ todo' = todo
        /\ DOMAIN services' = DOMAIN services \ diff[a].gone
        /\ DOMAIN rows' = {id \in DOMAIN rows : id[1] \notin diff[a].gone}
    BY <1>9, DeleteServicesKnown
  <2>2. UNCHANGED <<excuses, rejected>> /\ diff'[a] = diff[a]
    BY <1>9, <2>1 DEF DeleteServices, history, Goes
  <2>3. Ordered(a) => Ordered(a)'
    BY <2>1, <2>2 DEF Ordered
  <2> QED
    BY <2>1, <2>2, <2>3, OrderlyLater
<1>10. CASE Finish(a)
  BY <1>10, OrderlyFinish
<1>11. ASSUME NEW n \in Nodes, Dispatch(a, n) \/ DispatchFails(a, n) PROVE Orderly'
  <2>1. /\ Others(a) /\ Goes(a)
        /\ Uninserted(a)' = Uninserted(a)
        /\ stage' = stage /\ deletes' = deletes /\ todo' = todo /\ services' = services
        /\ DOMAIN rows' = DOMAIN rows
    BY <1>11, DispatchKnown, DispatchFailsKnown
  <2>2. stage[a] = "dispatching" /\ excuses \subseteq excuses' /\ rejected' = rejected /\ diff'[a] = diff[a]
    BY <1>11, <2>1 DEF Dispatch, DispatchFails, history, Goes
  <2>3. Ordered(a) => Ordered(a)'
    BY <2>1, <2>2 DEF Ordered
  <2> QED
    BY <2>1, <2>2, <2>3, OrderlyLater
<1> QED
  BY <1>2, <1>3, <1>4, <1>5, <1>6, <1>7, <1>8, <1>9, <1>10, <1>11 DEF Step

-----------------------------------------------------------------------------
(* Mirrored is kept *)

\* A step of the one apply in progress, which goes on.
LEMMA MirroredLater ==
    ASSUME Alone, Orderly, Mirrored, NEW a \in Appliers, Others(a), excuses \subseteq excuses',
           stage[a] # "idle", stage'[a] # "idle",
           ASSUME Single, Ordered(a), Mirrors(a), excuses' = {}
           PROVE  Single' /\ Mirrors(a)'
    PROVE  Mirrored'
<1> SUFFICES ASSUME excuses' = {} PROVE Mirrored'
  BY DEF Mirrored
<1>1. excuses = {}
  OBVIOUS
<1>2. Single /\ Ordered(a) /\ Mirrors(a)
  BY <1>1 DEF Mirrored, Orderly
<1>3. Single' /\ Mirrors(a)'
  BY <1>2
<1>4. \A b \in Appliers \ {a} : stage'[b] = "idle"
  BY <1>1 DEF Alone, Others, Same
<1>5. ~Idle'
  BY DEF Idle
<1>6. \A b \in Appliers : stage'[b] # "idle" => b = a
  BY <1>4
<1> QED
  BY <1>3, <1>5, <1>6 DEF Mirrored

LEMMA MirroredDelete ==
    ASSUME Known, Alone, Orderly, Mirrored, NEW a \in Appliers, DeleteRow(a)
    PROVE  Mirrored'
<1>1. /\ Others(a) /\ Goes(a)
      /\ Uninserted(a)' = Uninserted(a)
      /\ \A id \in diff[a].create : id[1] \in todo[a] => id \in Uninserted(a)
      /\ stage[a] = "updating"
      /\ stage' = stage /\ todo' = todo /\ place' = place
  BY DeleteRowKnown
<1>2. PICK d \in deletes[a] :
        /\ deletes'[a] = deletes[a] \ {d}
        /\ DOMAIN rows' = DOMAIN rows \ {d}
        /\ \A other \in DOMAIN rows' : rows'[other] = rows[other]
  BY DeleteRowKnown
<1>3. services' = services /\ containers' = containers /\ excuses' = excuses /\ diff'[a] = diff[a]
  BY <1>1 DEF DeleteRow, history, Goes
<1>4. Planned(a)
  BY <1>1 DEF Known, One
<1>5. d \in diff[a].remove
  BY <1>2, <1>4 DEF Planned
<1>6. d \in diff[a].create => d \in Uninserted(a)
  BY <1>1, <1>2, <1>4 DEF Planned
<1>7. ASSUME Single, Ordered(a), Mirrors(a) PROVE Single' /\ Mirrors(a)'
  <2>1. Single'
    BY <1>3, <1>7 DEF Single
  <2>2. \A id \in diff[a].create :
            \/ id \in Uninserted(a)
            \/ id \in DOMAIN rows' /\ rows'[id].node = place[a][id] /\ rows'[id].image = diff[a].images[id]
    BY <1>2, <1>6, <1>7 DEF Mirrors
  <2>3. \A id \in diff[a].redeploy :
            /\ id \notin diff[a].remove \cup diff[a].create
            /\ id \in DOMAIN rows' /\ rows'[id].node = place[a][id] /\ rows'[id].image = diff[a].images[id]
    BY <1>2, <1>5, <1>7 DEF Mirrors
  <2>4. \A id \in DOMAIN rows' \cap diff[a].remove : id \in deletes'[a] \/ id \in diff[a].create
    BY <1>2, <1>7 DEF Mirrors
  <2>5. \A c \in DOMAIN containers : Good(c)' \/ c[2] \in diff[a].remove
    BY <1>2, <1>3, <1>5, <1>7 DEF Mirrors, Good
  <2>6. \A id \in DOMAIN rows' :
                \/ <<rows'[id].node, id>> \in DOMAIN containers
                \/ id \in diff[a].create /\ rows'[id].node = place[a][id]
    BY <1>2, <1>7 DEF Mirrors
  <2>7. stage'[a] # "dispatching"
    BY <1>1
  <2> QED
    BY <1>1, <1>3, <2>1, <2>2, <2>3, <2>4, <2>5, <2>6, <2>7 DEF Mirrors
<1> QED
  BY <1>1, <1>3, <1>7, MirroredLater

LEMMA MirroredInsert ==
    ASSUME Known, Alone, Orderly, Mirrored, NEW a \in Appliers, InsertRow(a)
    PROVE  Mirrored'
<1>1. /\ Others(a) /\ Goes(a)
      /\ stage[a] = "updating" /\ deletes[a] = {}
      /\ stage' = stage /\ deletes' = deletes /\ todo' = todo /\ place' = place
  BY InsertRowKnown
<1>2. PICK d \in NextInsert(a) \ DOMAIN rows :
        /\ d \in Uninserted(a)
        /\ Uninserted(a)' = Uninserted(a) \ {d}
        /\ DOMAIN rows' = DOMAIN rows \cup {d}
        /\ rows'[d].node = place[a][d]
        /\ rows'[d].image = diff[a].images[d]
        /\ \A other \in DOMAIN rows : rows'[other] = rows[other]
  BY InsertRowKnown
<1>3. services' = services /\ containers' = containers /\ excuses' = excuses /\ diff'[a] = diff[a]
  BY <1>1 DEF InsertRow, history, Goes
<1>4. Planned(a)
  BY <1>1 DEF Known, One
<1>5. d \in diff[a].create /\ d[1] \in todo[a] /\ d[1] \notin diff[a].gone /\ d \notin DOMAIN rows
  BY <1>2, <1>4 DEF Uninserted, Planned
<1>6. ASSUME Single, Ordered(a), Mirrors(a) PROVE Single' /\ Mirrors(a)'
  <2>1. Single'
    BY <1>3, <1>6 DEF Single
  <2>2. \A id \in diff[a].create :
            \/ id \in Uninserted(a)'
            \/ id \in DOMAIN rows' /\ rows'[id].node = place[a][id] /\ rows'[id].image = diff[a].images[id]
    BY <1>2, <1>6 DEF Mirrors
  <2>3. \A id \in diff[a].redeploy :
            /\ id \notin diff[a].remove \cup diff[a].create
            /\ id \in DOMAIN rows' /\ rows'[id].node = place[a][id] /\ rows'[id].image = diff[a].images[id]
    BY <1>2, <1>6 DEF Mirrors
  <2>4. \A id \in DOMAIN rows' \cap diff[a].remove : id \in deletes[a] \/ id \in diff[a].create
    BY <1>2, <1>5, <1>6 DEF Mirrors
  <2>5. \A c \in DOMAIN containers : Good(c)' \/ c[2] \in diff[a].remove
    BY <1>2, <1>3, <1>6 DEF Mirrors, Good
  <2>6. \A id \in DOMAIN rows' :
                \/ <<rows'[id].node, id>> \in DOMAIN containers
                \/ id \in diff[a].create /\ rows'[id].node = place[a][id]
    BY <1>2, <1>5, <1>6 DEF Mirrors
  <2>7. stage'[a] # "dispatching"
    BY <1>1
  <2> QED
    BY <1>1, <1>3, <2>1, <2>2, <2>3, <2>4, <2>5, <2>6, <2>7 DEF Mirrors
<1> QED
  BY <1>1, <1>3, <1>6, MirroredLater

LEMMA MirroredSchedule ==
    ASSUME Known, Alone, Orderly, Mirrored, NEW a \in Appliers, NEW s \in Services, Schedule(a, s)
    PROVE  Mirrored'
<1>1. /\ Others(a) /\ Goes(a)
      /\ Uninserted(a)' = Uninserted(a)
      /\ stage[a] = "updating"
      /\ stage' = stage /\ deletes' = deletes /\ todo' = todo
      /\ \A id \in diff[a].create : id \notin Uninserted(a) => place'[a][id] = place[a][id]
      /\ \A id \in DOMAIN place[a] \ diff[a].create : place'[a][id] = place[a][id]
  BY ScheduleKnown
<1>2. /\ services' = services /\ rows' = rows /\ containers' = containers /\ excuses' = excuses
      /\ diff'[a] = diff[a] /\ deletes[a] = {}
  BY <1>1 DEF Schedule, Turns, database, history, Goes
<1>3. Planned(a)
  BY <1>1 DEF Known, One
<1>4. ASSUME Single, Ordered(a), Mirrors(a) PROVE Single' /\ Mirrors(a)'
  <2>1. Single'
    BY <1>2, <1>4 DEF Single
  <2>2. \A id \in diff[a].create :
            \/ id \in Uninserted(a)
            \/ id \in DOMAIN rows /\ rows[id].node = place'[a][id] /\ rows[id].image = diff[a].images[id]
    BY <1>1, <1>4 DEF Mirrors
  <2>3. \A id \in diff[a].redeploy :
            /\ id \notin diff[a].remove \cup diff[a].create
            /\ id \in DOMAIN rows /\ rows[id].node = place'[a][id] /\ rows[id].image = diff[a].images[id]
    BY <1>1, <1>3, <1>4 DEF Mirrors, Planned
  <2>4. /\ \A id \in DOMAIN rows \cap diff[a].remove : id \in deletes[a] \/ id \in diff[a].create
        /\ Uninserted(a) \cap DOMAIN rows \subseteq deletes[a]
    BY <1>4 DEF Mirrors, Ordered
  <2>5. \A c \in DOMAIN containers : Good(c)' \/ c[2] \in diff[a].remove
    BY <1>2, <1>4 DEF Mirrors, Good
  <2>6. \A id \in DOMAIN rows :
                \/ <<rows[id].node, id>> \in DOMAIN containers
                \/ id \in diff[a].create /\ rows[id].node = place'[a][id]
    BY <1>1, <1>2, <1>4, <2>4 DEF Mirrors
  <2>7. stage'[a] # "dispatching"
    BY <1>1
  <2> QED
    BY <1>1, <1>2, <2>1, <2>2, <2>3, <2>4, <2>5, <2>6, <2>7 DEF Mirrors
<1> QED
  BY <1>1, <1>2, <1>4, MirroredLater

LEMMA MirroredUpsert ==
    ASSUME Known, Alone, Orderly, Mirrored, NEW a \in Appliers, NEW s \in Services, UpsertService(a, s)
    PROVE  Mirrored'
<1>1. /\ Others(a) /\ Goes(a)
      /\ Uninserted(a)' = Uninserted(a)
      /\ stage[a] = "updating"
      /\ stage' = stage /\ deletes' = deletes /\ todo'[a] = todo[a] \ {s} /\ place' = place
      /\ DOMAIN services' = DOMAIN services \cup {s}
  BY UpsertKnown
<1>2. rows' = rows /\ containers' = containers /\ excuses' = excuses /\ diff'[a] = diff[a]
  BY <1>1 DEF UpsertService, history, Goes
<1>3. ASSUME Single, Ordered(a), Mirrors(a) PROVE Single' /\ Mirrors(a)'
  <2>1. Single'
    BY <1>2, <1>3 DEF Single
  <2>2. \A c : Good(c)' <=> Good(c)
    BY <1>2 DEF Good
  <2>3. stage'[a] # "dispatching"
    BY <1>1
  <2> QED
    BY <1>1, <1>2, <1>3, <2>1, <2>2, <2>3 DEF Mirrors
<1> QED
  BY <1>1, <1>2, <1>3, MirroredLater

LEMMA MirroredDeleteServices ==
    ASSUME Known, Alone, Orderly, Mirrored, NEW a \in Appliers, DeleteServices(a)
    PROVE  Mirrored'
<1>1. /\ Others(a) /\ Goes(a)
      /\ Uninserted(a)' = Uninserted(a)
      /\ stage[a] = "updating" /\ stage'[a] = "dispatching"
      /\ todo[a] = {} /\ deletes[a] = {} /\ Uninserted(a) = {}
      /\ deletes' = deletes /\ todo' = todo /\ place' = place /\ unsent'[a] = Nodes
      /\ DOMAIN services' = DOMAIN services \ diff[a].gone
      /\ DOMAIN rows' = {id \in DOMAIN rows : id[1] \notin diff[a].gone}
      /\ \A id \in DOMAIN rows' : rows'[id] = rows[id]
  BY DeleteServicesKnown
<1>2. containers' = containers /\ excuses' = excuses /\ diff'[a] = diff[a]
  BY <1>1 DEF DeleteServices, history, Goes
<1>3. Planned(a) /\ InTurn(a)
  BY <1>1 DEF Known, One
<1>4. \A id \in diff[a].remove \cup diff[a].create : place[a][id] \in Nodes
  BY <1>1, <1>3 DEF Planned, InTurn
<1>5. ASSUME Single, Ordered(a), Mirrors(a) PROVE Single' /\ Mirrors(a)'
  <2>1. Single'
    BY <1>2, <1>5 DEF Single
  <2>2. DOMAIN rows' = DOMAIN rows
    BY <1>1, <1>5 DEF Ordered
  <2>3. \A c : Good(c)' <=> Good(c)
    BY <1>1, <1>2, <2>2 DEF Good
  <2>4. \A c \in DOMAIN containers : Good(c)' \/ (c[2] \in diff[a].remove /\ place[a][c[2]] \in Nodes)
    BY <1>4, <1>5, <2>3 DEF Mirrors
  <2>5. \A id \in DOMAIN rows :
                \/ <<rows'[id].node, id>> \in DOMAIN containers
                \/ id \in diff[a].create /\ rows'[id].node = place[a][id] /\ place[a][id] \in Nodes
    BY <1>1, <1>4, <1>5, <2>2 DEF Mirrors
  <2>6. /\ \A id \in diff[a].create :
            \/ id \in Uninserted(a)
            \/ id \in DOMAIN rows /\ rows'[id].node = place[a][id] /\ rows'[id].image = diff[a].images[id]
        /\ \A id \in diff[a].redeploy :
            /\ id \notin diff[a].remove \cup diff[a].create
            /\ id \in DOMAIN rows /\ rows'[id].node = place[a][id] /\ rows'[id].image = diff[a].images[id]
        /\ \A id \in DOMAIN rows \cap diff[a].remove : id \in deletes[a] \/ id \in diff[a].create
    BY <1>1, <1>5, <2>2 DEF Mirrors
  <2> QED
    BY <1>1, <1>2, <2>1, <2>2, <2>4, <2>5, <2>6 DEF Mirrors
<1> QED
  BY <1>1, <1>2, <1>5, MirroredLater

\* The plan of a node has got through: what it deploys is where its row says,
\* and what it removes was there.
LEMMA MirroredDispatch ==
    ASSUME Known, Alone, Orderly, Mirrored, NEW a \in Appliers, NEW n \in Nodes, Dispatch(a, n)
    PROVE  Mirrored'
<1> DEFINE left == DOMAIN containers \ ({n} \X Removes(a, n))
           new == {n} \X Deploys(a, n)
<1> HIDE DEF left, new
<1>1. /\ Others(a) /\ Goes(a)
      /\ Uninserted(a)' = Uninserted(a)
      /\ stage[a] = "dispatching" /\ n \in unsent[a] /\ Missing(a, n) = {}
      /\ services' = services /\ stage' = stage /\ deletes' = deletes /\ todo' = todo /\ place' = place
      /\ unsent'[a] = unsent[a] \ {n}
      /\ DOMAIN rows' = DOMAIN rows
      /\ \A id \in DOMAIN rows : rows'[id].node = rows[id].node /\ rows'[id].image = rows[id].image
      /\ DOMAIN containers' = left \cup new
      /\ \A c \in left : containers'[c] = containers[c]
      /\ \A c \in new \ left : containers'[c] = diff[a].images[c[2]]
  BY DispatchKnown DEF left, new
<1>2. excuses' = excuses /\ diff'[a] = diff[a]
  BY <1>1 DEF Dispatch, history, Goes
<1>3. Planned(a)
  BY <1>1 DEF Known, One
<1>4. deletes[a] = {} /\ Uninserted(a) = {}
  BY <1>1, <1>3 DEF Planned, Uninserted
<1>5. \A c \in DOMAIN containers : c = <<c[1], c[2]>>
  BY DEF Known, Stored
<1>6. /\ \A c \in left : c \in DOMAIN containers /\ ~(c[1] = n /\ c[2] \in Removes(a, n))
      /\ \A c \in DOMAIN containers : ~(c[1] = n /\ c[2] \in Removes(a, n)) => c \in left
      /\ \A c \in new : c = <<n, c[2]>> /\ c[2] \in Deploys(a, n)
      /\ \A id \in Deploys(a, n) : <<n, id>> \in new
  <2>1. \A c \in left : c \in DOMAIN containers /\ ~(c[1] = n /\ c[2] \in Removes(a, n))
    BY <1>5 DEF left
  <2>2. \A c \in DOMAIN containers : ~(c[1] = n /\ c[2] \in Removes(a, n)) => c \in left
    BY DEF left
  <2>3. \A c \in new : c = <<n, c[2]>> /\ c[2] \in Deploys(a, n)
    BY DEF new
  <2>4. \A id \in Deploys(a, n) : <<n, id>> \in new
    BY DEF new
  <2> QED
    BY <2>1, <2>2, <2>3, <2>4
<1>7. /\ \A id : id \in Removes(a, n) <=> id \in diff[a].remove /\ place[a][id] = n
      /\ \A id : id \in Deploys(a, n) <=> id \in diff[a].create \cup diff[a].redeploy /\ place[a][id] = n
      /\ \A id \in Removes(a, n) : <<n, id>> \in DOMAIN containers
  BY <1>1 DEF Removes, Deploys, Here, Missing
<1>8. ASSUME Single, Mirrors(a) PROVE Single' /\ Mirrors(a)'
  <2>1. \A id \in Deploys(a, n) :
            id \in DOMAIN rows /\ rows[id].node = n /\ rows[id].image = diff[a].images[id]
    BY <1>4, <1>7, <1>8 DEF Mirrors
  <2>2. \A c \in DOMAIN containers :
            Good(c) \/ (c[2] \in diff[a].remove /\ place[a][c[2]] \in unsent[a])
    BY <1>1, <1>8 DEF Mirrors
  <2>3. ASSUME NEW c \in DOMAIN containers, c[2] \in Removes(a, n) PROVE c[1] = n
    <3>1. <<n, c[2]>> \in DOMAIN containers
      BY <1>7, <2>3
    <3>2. c = <<n, c[2]>>
      BY <1>8, <3>1 DEF Single
    <3> QED
      BY <3>2
  <2>4. ASSUME NEW c \in left, c[2] \in Deploys(a, n) PROVE c = <<n, c[2]>>
    <3>1. c \in DOMAIN containers
      BY <1>6
    <3>2. CASE Good(c)
      BY <1>5, <2>1, <2>4, <3>1, <3>2 DEF Good
    <3>3. CASE c[2] \in diff[a].remove
      <4>1. c[2] \in Removes(a, n)
        BY <1>7, <2>4, <3>3
      <4> QED
        BY <1>5, <2>3, <3>1, <4>1
    <3> QED
      BY <2>2, <3>1, <3>2, <3>3
  <2>5. Single'
    <3>1. ASSUME NEW c \in left \cup new, NEW d \in left \cup new, c[2] = d[2] PROVE c = d
      <4>1. CASE c \in left /\ d \in left
        BY <1>6, <1>8, <3>1, <4>1 DEF Single
      <4>2. CASE c \in new
        <5>1. c = <<n, c[2]>> /\ d[2] \in Deploys(a, n)
          BY <1>6, <3>1, <4>2
        <5>2. d = <<n, d[2]>>
          BY <1>6, <2>4, <5>1
        <5> QED
          BY <3>1, <5>1, <5>2
      <4>3. CASE d \in new
        <5>1. d = <<n, d[2]>> /\ c[2] \in Deploys(a, n)
          BY <1>6, <3>1, <4>3
        <5>2. c = <<n, c[2]>>
          BY <1>6, <2>4, <5>1
        <5> QED
          BY <3>1, <5>1, <5>2
      <4> QED
        BY <4>1, <4>2, <4>3
    <3> QED
      BY <1>1, <3>1 DEF Single
  <2>6. ASSUME NEW c \in DOMAIN containers'
        PROVE  Good(c)' \/ (c[2] \in diff[a].remove /\ place[a][c[2]] \in unsent'[a])
    <3>1. CASE c \in left
      <4>1. CASE Good(c)
        BY <1>1, <3>1, <4>1 DEF Good
      <4>2. CASE c[2] \in diff[a].remove /\ place[a][c[2]] \in unsent[a]
        <5>1. place[a][c[2]] # n
          BY <1>6, <1>7, <2>3, <3>1, <4>2
        <5> QED
          BY <1>1, <4>2, <5>1
      <4> QED
        BY <1>6, <2>2, <3>1, <4>1, <4>2
    <3>2. CASE c \in new \ left
      <4>1. c[1] = n /\ c[2] \in Deploys(a, n) /\ containers'[c] = diff[a].images[c[2]]
        BY <1>1, <1>6, <3>2
      <4> QED
        BY <1>1, <2>1, <4>1 DEF Good
    <3> QED
      BY <1>1, <3>1, <3>2
  <2>7. ASSUME NEW id \in DOMAIN rows
        PROVE  \/ <<rows'[id].node, id>> \in DOMAIN containers'
               \/ id \in diff[a].create /\ rows'[id].node = place[a][id] /\ place[a][id] \in unsent'[a]
    <3>1. CASE id \in Deploys(a, n)
      BY <1>1, <1>6, <2>1, <3>1
    <3>2. CASE <<rows[id].node, id>> \in DOMAIN containers /\ id \notin Deploys(a, n)
      <4>1. ~(id \in Removes(a, n))
        BY <1>4, <1>7, <1>8, <3>2 DEF Mirrors
      <4>2. <<rows[id].node, id>> \in left
        BY <1>6, <3>2, <4>1
      <4> QED
        BY <1>1, <4>2
    <3>3. CASE id \in diff[a].create /\ rows[id].node = place[a][id] /\ place[a][id] \in unsent[a] /\ id \notin Deploys(a, n)
      <4>1. place[a][id] # n
        BY <1>7, <3>3
      <4> QED
        BY <1>1, <3>3, <4>1
    <3>4. \/ <<rows[id].node, id>> \in DOMAIN containers
          \/ id \in diff[a].create /\ rows[id].node = place[a][id] /\ place[a][id] \in unsent[a]
      BY <1>1, <1>8 DEF Mirrors
    <3> QED
      BY <3>1, <3>2, <3>3, <3>4
  <2>8. /\ \A id \in diff[a].create :
            \/ id \in Uninserted(a)
            \/ id \in DOMAIN rows /\ rows'[id].node = place[a][id] /\ rows'[id].image = diff[a].images[id]
        /\ \A id \in diff[a].redeploy :
            /\ id \notin diff[a].remove \cup diff[a].create
            /\ id \in DOMAIN rows /\ rows'[id].node = place[a][id] /\ rows'[id].image = diff[a].images[id]
        /\ \A id \in DOMAIN rows \cap diff[a].remove : id \in deletes[a] \/ id \in diff[a].create
    BY <1>1, <1>8 DEF Mirrors
  <2> QED
    BY <1>1, <1>2, <2>5, <2>6, <2>7, <2>8 DEF Mirrors
<1> QED
  BY <1>1, <1>2, <1>8, MirroredLater DEF Goes

LEMMA MirroredFinish ==
    ASSUME Known, Alone, Orderly, Mirrored, NEW a \in Appliers, Finish(a)
    PROVE  Mirrored'
<1>1. /\ Others(a)
      /\ stage[a] = "dispatching" /\ todo[a] = {} /\ unsent[a] = {}
      /\ stage'[a] = "idle"
      /\ services' = services /\ containers' = containers
      /\ DOMAIN rows' = DOMAIN rows
      /\ \A id \in DOMAIN rows : rows'[id].node = rows[id].node /\ rows'[id].image = rows[id].image
  BY FinishKnown
<1> SUFFICES ASSUME excuses = {} PROVE Mirrored'
  BY DEF Finish, Mirrored
<1>2. Single /\ Mirrors(a)
  BY <1>1 DEF Mirrored
<1>3. \A b \in Appliers : stage'[b] = "idle"
  BY <1>1 DEF Alone, Others, Same
<1>4. \A c \in DOMAIN containers : Good(c)'
  BY <1>1, <1>2 DEF Mirrors, Good
<1>5. \A id \in DOMAIN rows : <<rows'[id].node, id>> \in DOMAIN containers
  BY <1>1, <1>2 DEF Mirrors
<1>6. Single'
  BY <1>1, <1>2 DEF Single
<1> QED
  BY <1>1, <1>3, <1>4, <1>5, <1>6 DEF Mirrored

LEMMA MirroredBegin ==
    ASSUME Known, Mirrored, NEW a \in Appliers, NEW m \in Manifests, Begin(a, m)
    PROVE  Mirrored'
<1> SUFFICES ASSUME excuses' = {} PROVE Mirrored'
  BY DEF Mirrored
<1>1. Idle /\ excuses = {} /\ services' = services /\ rows' = rows /\ containers' = containers
  BY DEF Begin, database
<1>2. /\ Others(a) /\ stage'[a] = "updating"
      /\ diff'[a].remove = ToRemove(m) /\ diff'[a].create = ToCreate(m)
      /\ diff'[a].redeploy = ToRedeploy(m) /\ diff'[a].gone = Gone(m) /\ diff'[a].images = Images(m)
      /\ deletes'[a] = ToRemove(m)
      /\ place'[a] = [id \in DOMAIN rows \cup ToCreate(m) |-> IF id \in ToCreate(m) THEN Unscheduled ELSE rows[id].node]
      /\ Uninserted(a)' = ToCreate(m)
  <2>1. /\ Others(a) /\ stage'[a] = "updating"
        /\ diff'[a] = [remove |-> ToRemove(m), create |-> ToCreate(m), redeploy |-> ToRedeploy(m),
                       gone |-> Gone(m), images |-> Images(m)]
        /\ deletes'[a] = ToRemove(m)
        /\ place'[a] = [id \in DOMAIN rows \cup ToCreate(m) |-> IF id \in ToCreate(m) THEN Unscheduled ELSE rows[id].node]
        /\ Uninserted(a)' = ToCreate(m)
    BY BeginKnown
  <2> QED
    BY <2>1
<1>3. /\ Single
      /\ \A c \in DOMAIN containers : Good(c)
      /\ \A id \in DOMAIN rows : <<rows[id].node, id>> \in DOMAIN containers
  BY <1>1 DEF Mirrored
<1>4. \A id \in ToRedeploy(m) :
            /\ id \notin ToRemove(m) \cup ToCreate(m)
            /\ id \in DOMAIN rows /\ rows[id].node = place'[a][id] /\ rows[id].image = Images(m)[id]
  BY <1>2 DEF ToRedeploy, Images
<1>5. Mirrors(a)'
  <2>1. \A c \in DOMAIN containers : Good(c)'
    BY <1>1, <1>3 DEF Good
  <2>2. \A id \in diff'[a].redeploy :
            /\ id \notin diff'[a].remove \cup diff'[a].create
            /\ id \in DOMAIN rows' /\ rows'[id].node = place'[a][id] /\ rows'[id].image = diff'[a].images[id]
    <3>1. diff'[a].redeploy = ToRedeploy(m) /\ diff'[a].remove \cup diff'[a].create = ToRemove(m) \cup ToCreate(m)
      BY <1>2
    <3>2. diff'[a].images = Images(m) /\ rows' = rows
      BY <1>1, <1>2
    <3> QED
      BY <1>4, <3>1, <3>2
  <2>3. /\ \A id \in diff'[a].create : id \in Uninserted(a)'
        /\ \A id \in DOMAIN rows' \cap diff'[a].remove : id \in deletes'[a]
    BY <1>1, <1>2
  <2>4. /\ stage'[a] # "dispatching"
        /\ \A id \in DOMAIN rows' : <<rows'[id].node, id>> \in DOMAIN containers'
        /\ \A c \in DOMAIN containers' : Good(c)'
    BY <1>1, <1>2, <1>3, <2>1
  <2> QED
    BY <2>2, <2>3, <2>4 DEF Mirrors
<1>6. Single'
  BY <1>1, <1>3 DEF Single
<1>7. \A b \in Appliers \ {a} : stage'[b] = "idle"
  BY <1>1, <1>2 DEF Idle, Others, Same
<1>8. ~Idle'
  BY <1>2 DEF Idle
<1> QED
  BY <1>5, <1>6, <1>7, <1>8 DEF Mirrored

LEMMA MirroredStep ==
    ASSUME Known, Alone, Orderly, Mirrored, NEW a \in Appliers, ApplyCrash(a) \/ Step(a)
    PROVE  Mirrored'
<1>1. ASSUME excuses' # {} PROVE Mirrored'
  BY <1>1 DEF Mirrored
<1>2. ASSUME NEW x, Fail(a, x) PROVE Mirrored'
  BY <1>1, <1>2 DEF Fail
<1>3. CASE \E s \in Services : Unschedulable(a, s)
  BY <1>2, <1>3 DEF Unschedulable
<1>4. CASE ApplyCrash(a)
  BY <1>2, <1>4 DEF ApplyCrash
<1>5. CASE \E n \in Nodes : DispatchFails(a, n)
  BY <1>1, <1>5 DEF DispatchFails
<1>6. CASE InsertRejected(a)
  <2>1. excuses' = excuses
    BY <1>6 DEF InsertRejected
  <2>2. ~(excuses' \subseteq {"dispatch"})
    BY <1>6, <2>1, RejectedExcused
  <2> QED
    BY <1>1, <2>2
<1> QED
  BY <1>3, <1>4, <1>5, <1>6, MirroredDelete, MirroredInsert, MirroredSchedule, MirroredUpsert,
     MirroredDeleteServices, MirroredDispatch, MirroredFinish DEF Step

-----------------------------------------------------------------------------
(* The invariant *)

LEMMA ApplyInvInit == ApplyInit => ApplyInv
<1> SUFFICES ASSUME ApplyInit PROVE ApplyInv
  OBVIOUS
<1>1. Known
  BY InitKnown
<1>2. Idle /\ \A a \in Appliers : stage[a] = "idle"
  BY DEF ApplyInit, Idle
<1>3. DOMAIN services = {} /\ DOMAIN rows = {} /\ DOMAIN containers = {}
  BY DEF ApplyInit
<1>4. tried = {} /\ settled = {}
  BY DEF ApplyInit
<1>5. Alone
  <2>1. \A a \in Appliers : todo[a] = {}
    BY DEF ApplyInit
  <2> QED
    BY <1>2, <2>1 DEF Alone
<1>6. Agreeing /\ AppliedAgree
  BY <1>2, <1>3, <1>4 DEF Agreeing, Clean, AppliedAgree
<1>7. Mirrored
  BY <1>2, <1>3 DEF Mirrored, Single
<1>8. Orderly
  <2>1. ~rejected
    BY DEF ApplyInit
  <2> QED
    BY <1>2, <1>3, <2>1 DEF Orderly
<1> QED
  BY <1>1, <1>5, <1>6, <1>7, <1>8 DEF ApplyInv

LEMMA KnownNext ==
    ASSUME Known, NEW a \in Appliers, ApplyCrash(a) \/ Step(a)
    PROVE  Known'
<1>1. ASSUME Reset(a), UNCHANGED <<services, rows, containers, tried>> PROVE Known'
  BY <1>1, CutKnown
<1>2. CASE InsertRejected(a)
  BY <1>1, <1>2 DEF InsertRejected, database
<1>3. CASE \E s \in Services : Unschedulable(a, s)
  BY <1>1, <1>3 DEF Unschedulable, Fail, database
<1>4. CASE ApplyCrash(a)
  BY <1>1, <1>4 DEF ApplyCrash, Fail, database
<1> QED
  BY <1>2, <1>3, <1>4, DeleteRowKnown, InsertRowKnown, DeleteServicesKnown, FinishKnown, ScheduleKnown,
     UpsertKnown, DispatchKnown, DispatchFailsKnown DEF Step

\* Nothing that the invariant speaks of changes.
LEMMA ApplyInvStutters == ApplyInv /\ UNCHANGED applyVars => ApplyInv'
<1> SUFFICES ASSUME ApplyInv, UNCHANGED applyVars PROVE ApplyInv'
  OBVIOUS
<1>1. UNCHANGED <<services, rows, containers, stage, wanted, diff, deletes, todo, inserts, place, unsent, reached,
                  tried, settled, cut, rejected, excuses>>
  BY DEF applyVars, database, inProgress, bounds, history
<1>2. \A s : RowsOf(s)' = RowsOf(s)
  BY <1>1 DEF RowsOf
<1>3. \A b : Uninserted(b)' = Uninserted(b) /\ InHand(b)' = InHand(b) /\ \A s : Creates(b, s)' = Creates(b, s)
  BY <1>1 DEF Uninserted, InHand, Creates
<1>4. Known'
  <2>1. Stored' /\ Tables'
    BY <1>1 DEF ApplyInv, Known, Stored, Tables
  <2>2. ASSUME NEW b \in Appliers PROVE One(b)'
    <3>1. Same(b) /\ One(b) /\ tried \subseteq tried'
      BY <1>1 DEF Same, ApplyInv, Known
    <3> QED
      BY <3>1, SameOne
  <2> QED
    BY <2>1, <2>2 DEF Known
<1>5. Alone'
  BY <1>1 DEF ApplyInv, Alone
<1>6. Idle' = Idle
  BY <1>1 DEF Idle
<1>7. \A m \in Manifests : Converges(m) => Converges(m)'
  <2>1. ASSUME NEW m \in Manifests, Converges(m) PROVE Converges(m)'
    <3>1. ASSUME NEW s \in DOMAIN m PROVE Rebuilds(m, s)' \/ Scales(m, s)'
      <4>1. Rebuilds(m, s) \/ Scales(m, s)
        BY <2>1 DEF Converges
      <4> QED
        BY <1>1, <1>2, <1>3, <4>1, ModesFrame
    <3> QED
      BY <1>1, <2>1, <3>1 DEF Converges
  <2> QED
    BY <2>1
<1>8. Agreeing'
  <2>1. Clean' = Clean
    BY <1>1, <1>2 DEF Clean
  <2> QED
    BY <1>1, <1>6, <1>7, <2>1 DEF ApplyInv, Agreeing
<1>9. AppliedAgree'
  BY <1>1, <1>2 DEF ApplyInv, AppliedAgree, RowsAgree
<1>10. Mirrored'
  <2>1. \A b : Mirrors(b)' = Mirrors(b)
    BY <1>1, <1>3 DEF Mirrors, Good
  <2>2. Single' = Single /\ \A c : Good(c)' = Good(c)
    BY <1>1 DEF Single, Good
  <2> QED
    BY <1>1, <1>6, <2>1, <2>2 DEF ApplyInv, Mirrored
<1>11. Orderly'
  <2>1. \A b : Ordered(b)' = Ordered(b)
    BY <1>1, <1>3 DEF Ordered
  <2> QED
    BY <1>1, <1>6, <2>1 DEF ApplyInv, Orderly
<1> QED
  BY <1>4, <1>5, <1>8, <1>9, <1>10, <1>11 DEF ApplyInv

LEMMA ApplyInvStep == ApplyInv /\ [ApplyNext]_applyVars => ApplyInv'
<1> SUFFICES ASSUME ApplyInv, [ApplyNext]_applyVars PROVE ApplyInv'
  OBVIOUS
<1>1. ASSUME NEW a \in Appliers, ApplyCrash(a) \/ Step(a) PROVE ApplyInv'
  BY <1>1, KnownNext, AloneStep, AgreeingStep, OrderlyStep, MirroredStep DEF ApplyInv
<1>2. ASSUME NEW a \in Appliers, NEW m \in Manifests, Begin(a, m) PROVE ApplyInv'
  BY <1>2, BeginKnown, AloneBegin, AgreeingBegin, OrderlyBegin, MirroredBegin DEF ApplyInv
<1>3. CASE UNCHANGED applyVars
  BY <1>3, ApplyInvStutters
<1> QED
  BY <1>1, <1>2, <1>3 DEF ApplyNext

\* When the applies of one manifest have ended, also if they overlapped, or some
\* were cut off one at a time, there are exactly the replicas that it asks for,
\* of its image, for any services, manifests and number of applies
\* (ApplyService.ts:211-262, Planner.ts:49).
THEOREM AppliedRows == ApplySpec => []AppliedAgree
<1>1. ApplyInv => AppliedAgree
  BY DEF ApplyInv
<1> QED
  BY ApplyInvInit, ApplyInvStep, <1>1, PTL DEF ApplySpec

\* As long as every apply ran to its end before the next one began, no insert is
\* rejected, whatever became of its plans, for any services and manifests
\* (ApplyService.ts:213-255, Planner.ts:72-107, 411-446).
THEOREM RejectionsHaveReasons == ApplySpec => []RejectedWithReason
<1>1. ApplyInv => RejectedWithReason
  BY DEF ApplyInv, Orderly, RejectedWithReason
<1> QED
  BY ApplyInvInit, ApplyInvStep, <1>1, PTL DEF ApplySpec

LEMMA MirroredAgree == Known /\ Mirrored => ContainersAgree
<1> SUFFICES ASSUME Known, Mirrored, Idle, excuses = {}
             PROVE  /\ DOMAIN containers = {<<rows[id].node, id>> : id \in DOMAIN rows}
                    /\ \A id \in DOMAIN rows : containers[<<rows[id].node, id>>] = rows[id].image
  BY DEF ContainersAgree
<1>1. /\ \A c \in DOMAIN containers : Good(c)
      /\ \A id \in DOMAIN rows : <<rows[id].node, id>> \in DOMAIN containers
  BY DEF Mirrored
<1>2. \A c \in DOMAIN containers : c = <<c[1], c[2]>>
  BY DEF Known, Stored
<1> QED
  BY <1>1, <1>2 DEF Good

\* When every plan has got through, and no apply was cut off or overlapped
\* another, the containers are those of the rows, node by node and image by
\* image, for any cluster and any manifests (ApplyService.ts:299-329, 736-777).
THEOREM AppliedContainers == ApplySpec => []ContainersAgree
<1>1. ApplyInv => ContainersAgree
  BY MirroredAgree DEF ApplyInv
<1> QED
  BY ApplyInvInit, ApplyInvStep, <1>1, PTL DEF ApplySpec

-----------------------------------------------------------------------------
(* The types of the rest *)

Statuses == {"pending", "running", "stopped", "failed"}
RestTyped ==
    /\ \A id \in DOMAIN rows : rows[id].status \in Statuses
    /\ \A a \in Appliers :
        /\ stage[a] = "idle" => DOMAIN place[a] = {}
        /\ stage[a] # "dispatching" => reached[a] = {} /\ unsent[a] = {}
        /\ reached[a] \cap unsent[a] = {}
    /\ applies \in 0 .. MaxApplies
    /\ faults \in 0 .. MaxFaults

LEMMA ReportedTyped ==
    ASSUME Stored, RestTyped, NEW ids, NEW status \in Statuses, rows' = Reported(ids, status)
    PROVE  \A id \in DOMAIN rows' : rows'[id].status \in Statuses
<1> SUFFICES ASSUME NEW id \in DOMAIN rows PROVE rows'[id].status \in Statuses
  BY DEF Reported
<1>1. rows'[id] = IF id \in ids THEN [rows[id] EXCEPT !.status = status] ELSE rows[id]
  BY DEF Reported
<1>2. "status" \in DOMAIN rows[id] /\ rows[id].status \in Statuses
  BY DEF Stored, RestTyped
<1>3. [rows[id] EXCEPT !.status = status].status = status
  BY <1>2
<1> QED
  BY <1>1, <1>2, <1>3

\* A step that ends an apply.
LEMMA ResetTyped ==
    ASSUME Known, RestTyped, NEW a \in Appliers, Reset(a),
           \A id \in DOMAIN rows' : rows'[id].status \in Statuses,
           applies' = applies, faults' \in 0 .. MaxFaults
    PROVE  RestTyped'
<1>1. /\ stage'[a] = "idle" /\ place'[a] = <<>> /\ reached'[a] = {} /\ unsent'[a] = {}
      /\ \A b \in Appliers \ {a} : stage'[b] = stage[b] /\ place'[b] = place[b] /\ reached'[b] = reached[b]
                                   /\ unsent'[b] = unsent[b]
  BY DEF Reset, Known, Tables
<1> QED
  BY <1>1 DEF RestTyped

LEMMA RestStep ==
    ASSUME Known, RestTyped, NEW a \in Appliers, ApplyCrash(a) \/ Step(a)
    PROVE  RestTyped'
<1> USE DEF RestTyped
<1>1. CASE DeleteRow(a)
  <2>1. \A id \in DOMAIN rows' : id \in DOMAIN rows /\ rows'[id] = rows[id]
    BY <1>1, DeleteRowKnown
  <2> QED
    BY <1>1, <2>1 DEF DeleteRow, bounds
<1>2. CASE InsertRow(a)
  <2>1. PICK id \in NextInsert(a) \ DOMAIN rows :
          rows' = Put(rows, id, [node |-> place[a][id], image |-> diff[a].images[id], status |-> "pending"])
    BY <1>2 DEF InsertRow
  <2>2. \A i \in DOMAIN rows' : rows'[i].status \in Statuses
    BY <2>1 DEF Put, Statuses
  <2> QED
    BY <1>2, <2>2 DEF InsertRow, bounds
<1>3. CASE InsertRejected(a)
  BY <1>3, ResetTyped DEF InsertRejected, database, bounds
<1>4. ASSUME NEW x, Fail(a, x) PROVE RestTyped'
  <2>1. faults' \in 0 .. MaxFaults
    BY <1>4, ApplyAssumption DEF Fail
  <2> QED
    BY <1>4, <2>1, ResetTyped DEF Fail, database
<1>5. CASE \E s \in Services : Unschedulable(a, s)
  BY <1>4, <1>5 DEF Unschedulable
<1>6. CASE ApplyCrash(a)
  BY <1>4, <1>6 DEF ApplyCrash
<1>7. CASE DeleteServices(a)
  <2>1. /\ stage[a] = "updating" /\ stage'[a] = "dispatching"
        /\ \A b \in Appliers \ {a} : stage'[b] = stage[b] /\ unsent'[b] = unsent[b]
        /\ \A id \in DOMAIN rows' : id \in DOMAIN rows /\ rows'[id] = rows[id]
    BY <1>7, DeleteServicesKnown DEF Others, Same
  <2>2. UNCHANGED <<place, reached, applies, faults>>
    BY <1>7 DEF DeleteServices, bounds
  <2> QED
    BY <2>1, <2>2
<1>8. CASE Finish(a)
  <2>1. \A id \in DOMAIN rows' : rows'[id].status \in Statuses
    BY <1>8, ReportedTyped DEF Finish, Known, Statuses
  <2> QED
    BY <1>8, <2>1, ResetTyped DEF Finish, bounds
<1>9. ASSUME NEW s \in Services, Schedule(a, s) PROVE RestTyped'
  <2>1. /\ stage[a] = "updating" /\ stage' = stage
        /\ \A b \in Appliers \ {a} : place'[b] = place[b]
    BY <1>9, ScheduleKnown DEF Others, Same
  <2>2. UNCHANGED <<rows, reached, unsent, applies, faults>>
    BY <1>9 DEF Schedule, database, bounds
  <2> QED
    BY <2>1, <2>2
<1>10. ASSUME NEW s \in Services, UpsertService(a, s) PROVE RestTyped'
  BY <1>10 DEF UpsertService, bounds
<1>11. ASSUME NEW n \in Nodes, Dispatch(a, n) PROVE RestTyped'
  <2>1. \A id \in DOMAIN rows' : rows'[id].status \in Statuses
    <3>1. rows' = Reported(Deploys(a, n), "running")
      BY <1>11 DEF Dispatch
    <3> QED
      BY <3>1, ReportedTyped DEF Known, Statuses
  <2>2. /\ stage[a] = "dispatching"
        /\ unsent'[a] = unsent[a] \ {n} /\ reached'[a] \subseteq reached[a] \cup {n}
        /\ \A b \in Appliers \ {a} : unsent'[b] = unsent[b] /\ reached'[b] = reached[b]
    BY <1>11 DEF Dispatch, Known, Tables
  <2>3. UNCHANGED <<stage, place, applies, faults>>
    BY <1>11 DEF Dispatch, bounds
  <2> QED
    BY <2>1, <2>2, <2>3
<1>12. ASSUME NEW n \in Nodes, DispatchFails(a, n) PROVE RestTyped'
  <2>1. \A id \in DOMAIN rows' : rows'[id].status \in Statuses
    <3>1. PICK removed : rows' = Reported(removed, "stopped")
      BY <1>12 DEF DispatchFails
    <3> QED
      BY <3>1, ReportedTyped DEF Known, Statuses
  <2>2. /\ stage[a] = "dispatching"
        /\ unsent'[a] = unsent[a] \ {n}
        /\ \A b \in Appliers \ {a} : unsent'[b] = unsent[b]
    BY <1>12 DEF DispatchFails, Known, Tables
  <2>3. UNCHANGED <<stage, place, reached, applies>>
    BY <1>12 DEF DispatchFails
  <2>4. faults' \in 0 .. MaxFaults
    BY <1>12, ApplyAssumption DEF DispatchFails
  <2> QED
    BY <2>1, <2>2, <2>3, <2>4
<1> QED
  BY <1>1, <1>2, <1>3, <1>5, <1>6, <1>7, <1>8, <1>9, <1>10, <1>11, <1>12 DEF Step

LEMMA RestBegin ==
    ASSUME Known, RestTyped, NEW a \in Appliers, NEW m \in Manifests, Begin(a, m)
    PROVE  RestTyped'
<1>1. /\ stage[a] = "idle" /\ stage'[a] = "updating"
      /\ \A b \in Appliers \ {a} : stage'[b] = stage[b] /\ place'[b] = place[b]
  BY BeginKnown DEF Begin, Others, Same
<1>2. applies' \in 0 .. MaxApplies
  BY ApplyAssumption DEF Begin, RestTyped
<1>3. UNCHANGED <<rows, reached, unsent, faults>>
  BY DEF Begin, database
<1> QED
  BY <1>1, <1>2, <1>3 DEF RestTyped

LEMMA KnownTyped == Known /\ RestTyped => ApplyTypeOK
<1> SUFFICES ASSUME Known, RestTyped PROVE ApplyTypeOK
  OBVIOUS
<1>1. /\ DOMAIN services \subseteq Services
      /\ IdsOf(DOMAIN rows)
      /\ \A c \in DOMAIN containers : c[1] \in Nodes /\ IdsOf({c[2]})
  BY DEF Known, Stored, IdsOf, Ids
<1>2. ASSUME NEW a \in Appliers
      PROVE  /\ deletes[a] \subseteq diff[a].remove
             /\ todo[a] \subseteq DOMAIN wanted[a]
             /\ diff[a].remove \cup diff[a].create \cup diff[a].redeploy \subseteq DOMAIN place[a]
             /\ Range(place[a]) \subseteq Nodes \cup {Unscheduled}
  <2>1. CASE stage[a] = "idle"
    BY <2>1 DEF Known, One, Resting, NoDiff, RestTyped, Range
  <2>2. CASE stage[a] # "idle"
    BY <2>2 DEF Known, One, Planned, Range
  <2> QED
    BY <2>1, <2>2
<1> QED
  BY <1>1, <1>2 DEF ApplyTypeOK, RestTyped, Statuses, Known, Stored, Tables

\* The variables keep their types: an apply still has to do a part of what it
\* found, and its map of places has every instance of its plans.
THEOREM ApplyTyped == ApplySpec => []ApplyTypeOK
<1>1. ApplyInit => Known /\ RestTyped
  <2>1. ApplyInit => RestTyped
    BY ApplyAssumption DEF ApplyInit, RestTyped
  <2> QED
    BY <2>1, InitKnown
<1>2. ApplyInv /\ RestTyped /\ [ApplyNext]_applyVars => RestTyped'
  <2> SUFFICES ASSUME ApplyInv, RestTyped, [ApplyNext]_applyVars PROVE RestTyped'
    OBVIOUS
  <2>1. ASSUME NEW a \in Appliers, ApplyCrash(a) \/ Step(a) PROVE RestTyped'
    BY <2>1, RestStep DEF ApplyInv
  <2>2. ASSUME NEW a \in Appliers, NEW m \in Manifests, Begin(a, m) PROVE RestTyped'
    BY <2>2, RestBegin DEF ApplyInv
  <2>3. CASE UNCHANGED applyVars
    BY <2>3 DEF RestTyped, applyVars, database, inProgress, bounds
  <2> QED
    BY <2>1, <2>2, <2>3 DEF ApplyNext
<1>3. ApplyInv /\ RestTyped => ApplyTypeOK
  BY KnownTyped DEF ApplyInv
<1> QED
  BY ApplyInvInit, ApplyInvStep, <1>1, <1>2, <1>3, PTL DEF ApplySpec
===============================================================================
