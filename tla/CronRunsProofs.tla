----------------------------- MODULE CronRunsProofs -----------------------------
(***************************************************************************)
(* The schedulers for any number of replicas, jobs and overlapping ticks.  *)
(* What makes RunsOnce inductive: a tick lays a claim to a job when it has *)
(* taken it, before the run is in the database, and ticks that have not    *)
(* met lie one after the other.  For RunsTell, a tick is at an open run    *)
(* and comes to each job once (Told); for DueServed, it comes by a job     *)
(* only with a case (Covered), and what its replica remembers some tick    *)
(* has tried (Memory).                                                     *)
(***************************************************************************)
EXTENDS CronRuns, TLAPS

Claimed(t, j) == status[t][j] # "none" \/ (pc[t] = "taken" /\ job[t] = j)

\* Ticks begin in their order, and meet when one begins while another lasts.
Ordered ==
    /\ \A t \in Ticks : began[t] <= clock
    /\ \A t \in Ticks : began[t] = 0 <=> pc[t] = "idle"
    /\ \A t, u \in Ticks : t < u /\ began[u] # 0 => began[t] # 0 /\ began[t] <= began[u]
    /\ \A t, u \in Ticks : t < u /\ began[u] # 0 /\ t \in InProgress => t \in met[u] /\ u \in met[t]
    /\ \A t, u \in Ticks : u \in met[t] => began[t] # 0 /\ began[u] # 0

\* Runs belong to ticks that have begun.
RunsBegun == \A t \in Ticks, j \in Jobs : pc[t] = "idle" => status[t][j] = "none"

\* A tick past its insert is at a run.
RunInserted ==
    \A t \in Ticks :
        pc[t] \in {"inserted", "sent", "answered", "writing", "written", "failing"} =>
            status[t][job[t]] # "none"

RowClaims ==
    kind # "function" =>
        \A t, u \in Ticks : t # u /\ began[t] = began[u] /\ u \notin met[t] =>
            \A j \in Jobs : ~Claimed(t, j) \/ ~Claimed(u, j)

\* Tick v of the same replica is about another minute than t.
Other(v, t) == owner[v] = owner[t] /\ began[v] # 0 /\ began[v] # began[t]

MemoryClaims ==
    kind = "function" =>
        \A t, u \in Ticks : t # u /\ began[t] = began[u] /\ owner[t] = owner[u] /\ owner[t] \notin reset =>
            \A j \in Jobs : Claimed(t, j) /\ Claimed(u, j) =>
                \E v \in met[t] \cup met[u] : Other(v, t)

\* The memory holds the minute of a claim until a tick of another minute that
\* every tick of this minute meets has changed it.
Remembered ==
    kind = "function" =>
        \A t \in Ticks, j \in Jobs : Claimed(t, j) /\ owner[t] \notin reset =>
            \/ last[owner[t]][j] = began[t]
            \/ \E v \in Ticks :
                 /\ Other(v, t)
                 /\ \/ v \in met[t]
                    \/ /\ began[t] < began[v]
                       /\ \A u \in InProgress : began[u] = began[t] /\ owner[u] = owner[t] => v \in met[u]

Claims == Ordered /\ RunsBegun /\ RowClaims /\ MemoryClaims /\ Remembered

(* Types *******************************************************************)

\* The bound on faults is one.
LEMMA FaultTyped ==
    ASSUME faults \in 0 .. MaxFaults, Fault
    PROVE  faults' \in 0 .. MaxFaults
  BY CronAssumption DEF Fault

\* A reason more is still a set of reasons.
LEMMA ReasonTyped ==
    ASSUME reasons \in [Ticks -> SUBSET Reasons], NEW t \in Ticks, NEW x \in Reasons
    PROVE  [reasons EXCEPT ![t] = @ \cup {x}] \in [Ticks -> SUBSET Reasons]
  OBVIOUS

\* So is the bound on the clock.
LEMMA ClockTyped ==
    ASSUME clock \in 1 .. LastMinute, NextMinute
    PROVE  clock' \in 1 .. LastMinute
  BY CronAssumption DEF NextMinute

\* Each step keeps the types.
LEMMA TypeKept ==
    TypeOK /\ [Next]_vars => TypeOK'
  <1> SUFFICES ASSUME TypeOK, [Next]_vars PROVE TypeOK'
    OBVIOUS
  <1> USE DEF TypeOK, Steps, Reasons, tick, cron, runs, history
  <1>1. ASSUME NEW t \in Ticks, NEW r \in Replicas, Tick(t, r) PROVE TypeOK'
    <2>1. met' \in [Ticks -> SUBSET Ticks]
      BY <1>1 DEF Tick, InProgress
    <2>2. began' \in [Ticks -> 0 .. LastMinute]
      BY <1>1, CronAssumption DEF Tick
    <2>3. pc' \in [Ticks -> Steps] /\ owner' \in [Ticks -> Replicas] /\ left' \in [Ticks -> SUBSET Jobs]
      BY <1>1 DEF Tick, Go
    <2>4. QED
      BY <1>1, <2>1, <2>2, <2>3 DEF Tick
  <1>2. ASSUME NEW r \in Replicas, Crash(r) PROVE TypeOK'
    <2>1. last' \in [Replicas -> [Jobs -> 0 .. LastMinute]]
      BY <1>2, CronAssumption DEF Crash
    <2>2. pc' \in [Ticks -> Steps] /\ left' \in [Ticks -> SUBSET Jobs] /\ reasons' \in [Ticks -> SUBSET Reasons]
      BY <1>2 DEF Crash
    <2>3. QED
      BY <1>2, <2>1, <2>2, FaultTyped DEF Crash
  <1>3. CASE NextMinute
    BY <1>3, ClockTyped DEF NextMinute
  <1>4. ASSUME NEW t \in Ticks, NEW j \in Jobs, Skip(t, j) PROVE TypeOK'
    BY <1>4 DEF Skip
  <1>5. ASSUME NEW t \in Ticks, NEW j \in Jobs, Take(t, j) PROVE TypeOK'
    BY <1>5 DEF Take, Go
  <1>6. ASSUME NEW t \in Ticks, End(t) PROVE TypeOK'
    BY <1>6 DEF End, Go
  <1>7. ASSUME NEW t \in Ticks, NoAgent(t) PROVE TypeOK'
    <2>1. unserved' \subseteq Ticks \X Jobs
      BY <1>7 DEF NoAgent
    <2>2. pc' \in [Ticks -> Steps]
      BY <1>7 DEF NoAgent, Go, Throw
    <2>3. reasons' \in [Ticks -> SUBSET Reasons]
      <3>1. reasons' = reasons \/ reasons' = [reasons EXCEPT ![t] = reasons[t] \cup {"agentless"}]
        BY <1>7 DEF NoAgent, Throw
      <3>2. QED
        BY <3>1, ReasonTyped
    <2>4. QED
      BY <1>7, <2>1, <2>2, <2>3, FaultTyped DEF NoAgent
  <1>8. ASSUME NEW t \in Ticks, Insert(t) PROVE TypeOK'
    <2>1. ran' \in [Ticks -> [Jobs -> Jobs]]
      BY <1>8 DEF Insert
    <2>2. pc' \in [Ticks -> Steps] /\ status' \in [Ticks -> [Jobs -> Statuses]]
      BY <1>8 DEF Insert, Go, SetStatus, Statuses
    <2>3. QED
      BY <1>8, <2>1, <2>2 DEF Insert
  <1>9. ASSUME NEW t \in Ticks, NoSecrets(t) \/ NotInvocable(t) PROVE TypeOK'
    <2>1. reasons' = [reasons EXCEPT ![t] = @ \cup {"secrets"}] \/ reasons' = [reasons EXCEPT ![t] = @ \cup {"namesake"}]
      BY <1>9 DEF NoSecrets, NotInvocable, Throw
    <2>2. reasons' \in [Ticks -> SUBSET Reasons]
      <3>1. \A x \in Reasons : [reasons EXCEPT ![t] = @ \cup {x}] \in [Ticks -> SUBSET Reasons]
        BY ReasonTyped
      <3>2. QED
        BY <2>1, <3>1
    <2>3. pc' \in [Ticks -> Steps]
      BY <1>9 DEF NoSecrets, NotInvocable, Throw
    <2>4. QED
      BY <1>9, <2>2, <2>3, FaultTyped DEF NoSecrets, NotInvocable
  <1>10. ASSUME NEW t \in Ticks, Dispatch(t) PROVE TypeOK'
    BY <1>10 DEF Dispatch, Go
  <1>11. ASSUME NEW t \in Ticks, NEW j \in Jobs, AgentWorks(t, j) PROVE TypeOK'
    <2>1. work' \in [Ticks -> [Jobs -> {"none", "asked", "done", "broken"}]]
      <3>1. CASE work' = [work EXCEPT ![t][j] = "done"]
        BY <3>1
      <3>2. CASE work' = [work EXCEPT ![t][j] = "broken"]
        BY <3>2
      <3>3. QED
        BY <1>11, <3>1, <3>2 DEF AgentWorks
    <2>2. faults' \in 0 .. MaxFaults
      BY <1>11, FaultTyped DEF AgentWorks
    <2>3. QED
      BY <1>11, <2>1, <2>2 DEF AgentWorks
  <1>12. ASSUME NEW t \in Ticks, GiveUp(t) PROVE TypeOK'
    BY <1>12, FaultTyped DEF GiveUp, Go
  <1>13. ASSUME NEW t \in Ticks, Answer(t) PROVE TypeOK'
    BY <1>13 DEF Answer, Go
  <1>14. ASSUME NEW t \in Ticks, RecordRunning(t) PROVE TypeOK'
    BY <1>14 DEF RecordRunning, Go, SetStatus, Statuses
  <1>15. ASSUME NEW t \in Ticks, RecordAnswer(t) PROVE TypeOK'
    BY <1>15 DEF RecordAnswer, Go, SetStatus, Statuses
  <1>16. ASSUME NEW t \in Ticks, Write(t) PROVE TypeOK'
    <2>1. pc' \in [Ticks -> Steps]
      BY <1>16 DEF Write, Go
    <2>2. stored' \subseteq Ticks \X Jobs
      BY <1>16 DEF Write
    <2>3. faults' \in 0 .. MaxFaults
      BY <1>16, FaultTyped DEF Write
    <2>4. QED
      BY <1>16, <2>1, <2>2, <2>3 DEF Write
  <1>17. ASSUME NEW t \in Ticks, Succeed(t) PROVE TypeOK'
    BY <1>17 DEF Succeed, Go, SetStatus, Statuses
  <1>18. ASSUME NEW t \in Ticks, Fail(t) PROVE TypeOK'
    <2>1. pc' \in [Ticks -> Steps]
      BY <1>18 DEF Fail, Go, Throw
    <2>2. reasons' \in [Ticks -> SUBSET Reasons]
      <3>1. reasons' = reasons \/ reasons' = [reasons EXCEPT ![t] = reasons[t] \cup {"dispatch"}]
        BY <1>18 DEF Fail, Throw
      <3>2. QED
        BY <3>1, ReasonTyped
    <2>3. status' \in [Ticks -> [Jobs -> Statuses]]
      BY <1>18 DEF Fail, SetStatus, Statuses
    <2>4. QED
      BY <1>18, <2>1, <2>2, <2>3 DEF Fail
  <1>19. ASSUME NEW t \in Ticks, Reject(t) PROVE TypeOK'
    <2>1. pc' \in [Ticks -> Steps]
      BY <1>19 DEF Reject, Go, Throw
    <2>2. reasons' \in [Ticks -> SUBSET Reasons]
      <3>1. \/ reasons' = [reasons EXCEPT ![t] = reasons[t] \cup {"statement"}]
            \/ reasons' = [reasons EXCEPT ![t] = reasons[t] \cup {"update"}]
        BY <1>19 DEF Reject, Throw
      <3>2. CASE reasons' = [reasons EXCEPT ![t] = reasons[t] \cup {"statement"}]
        BY <3>2, ReasonTyped
      <3>3. CASE reasons' = [reasons EXCEPT ![t] = reasons[t] \cup {"update"}]
        BY <3>3, ReasonTyped
      <3>4. QED
        BY <3>1, <3>2, <3>3
    <2>3. QED
      BY <1>19, <2>1, <2>2, FaultTyped DEF Reject
  <1>20. CASE UNCHANGED vars
    BY <1>20 DEF vars
  <1>21. QED
    BY <1>1, <1>2, <1>3, <1>4, <1>5, <1>6, <1>7, <1>8, <1>9, <1>10, <1>11, <1>12, <1>13, <1>14, <1>15, <1>16, <1>17, <1>18, <1>19, <1>20 DEF Next

\* A tick only goes on with a run it has inserted.
LEMMA RunInsertedKept ==
    TypeOK /\ RunInserted /\ [Next]_vars => RunInserted'
  <1> SUFFICES ASSUME TypeOK, RunInserted, [Next]_vars PROVE RunInserted'
    OBVIOUS
  <1> USE DEF TypeOK, RunInserted, Steps, tick, cron, runs, history
  <1>1. ASSUME NEW t \in Ticks, NEW r \in Replicas, Tick(t, r) PROVE RunInserted'
    BY <1>1 DEF Tick, Go, InProgress
  <1>2. ASSUME NEW r \in Replicas, Crash(r) PROVE RunInserted'
    BY <1>2 DEF Crash, InProgress
  <1>3. CASE NextMinute
    BY <1>3 DEF NextMinute
  <1>4. ASSUME NEW t \in Ticks, NEW j \in Jobs, Skip(t, j) PROVE RunInserted'
    BY <1>4 DEF Skip
  <1>5. ASSUME NEW t \in Ticks, NEW j \in Jobs, Take(t, j) PROVE RunInserted'
    BY <1>5 DEF Take, Go
  <1>6. ASSUME NEW t \in Ticks, End(t) PROVE RunInserted'
    BY <1>6 DEF End, Go
  <1>7. ASSUME NEW t \in Ticks, NoAgent(t) PROVE RunInserted'
    BY <1>7 DEF NoAgent, Go, Throw
  <1>8. ASSUME NEW t \in Ticks, Insert(t) PROVE RunInserted'
    BY <1>8 DEF Insert, Go, SetStatus, Statuses
  <1>9. ASSUME NEW t \in Ticks, NoSecrets(t) \/ NotInvocable(t) PROVE RunInserted'
    BY <1>9 DEF NoSecrets, NotInvocable, Throw
  <1>10. ASSUME NEW t \in Ticks, Dispatch(t) PROVE RunInserted'
    BY <1>10 DEF Dispatch, Go
  <1>11. ASSUME NEW t \in Ticks, NEW j \in Jobs, AgentWorks(t, j) PROVE RunInserted'
    BY <1>11 DEF AgentWorks
  <1>12. ASSUME NEW t \in Ticks, GiveUp(t) PROVE RunInserted'
    BY <1>12 DEF GiveUp, Go
  <1>13. ASSUME NEW t \in Ticks, Answer(t) PROVE RunInserted'
    BY <1>13 DEF Answer, Go
  <1>14. ASSUME NEW t \in Ticks, RecordRunning(t) PROVE RunInserted'
    BY <1>14 DEF RecordRunning, Go, SetStatus, Statuses
  <1>15. ASSUME NEW t \in Ticks, RecordAnswer(t) PROVE RunInserted'
    BY <1>15 DEF RecordAnswer, Go, SetStatus, Statuses
  <1>16. ASSUME NEW t \in Ticks, Write(t) PROVE RunInserted'
    BY <1>16 DEF Write, Go
  <1>17. ASSUME NEW t \in Ticks, Succeed(t) PROVE RunInserted'
    BY <1>17 DEF Succeed, Go, SetStatus, Statuses
  <1>18. ASSUME NEW t \in Ticks, Fail(t) PROVE RunInserted'
    BY <1>18 DEF Fail, Go, SetStatus, Throw, Statuses
  <1>19. ASSUME NEW t \in Ticks, Reject(t) PROVE RunInserted'
    BY <1>19 DEF Reject, Go, Throw
  <1>20. CASE UNCHANGED vars
    BY <1>20 DEF vars
  <1>21. QED
    BY <1>1, <1>2, <1>3, <1>4, <1>5, <1>6, <1>7, <1>8, <1>9, <1>10, <1>11, <1>12, <1>13, <1>14, <1>15, <1>16, <1>17, <1>18, <1>19, <1>20 DEF Next

(* Claims ******************************************************************)

\* What most steps leave alone: who is in progress, what ticks remember, and
\* which claims there are.
Quiet ==
    /\ UNCHANGED <<kind, owner, began, met, reset, last>>
    /\ clock <= clock'
    /\ \A t \in Ticks : pc'[t] = "idle" <=> pc[t] = "idle"
    /\ InProgress' \subseteq InProgress
    /\ \A t \in Ticks, j \in Jobs : Claimed(t, j)' => Claimed(t, j)

\* Steps other than Tick, Take and Crash are quiet.
LEMMA QuietSteps ==
    ASSUME TypeOK, RunInserted, [Next]_vars,
           \A t \in Ticks, r \in Replicas : ~Tick(t, r),
           \A r \in Replicas : ~Crash(r),
           \A t \in Ticks, j \in Jobs : ~Take(t, j)
    PROVE  Quiet
  <1> USE DEF TypeOK, RunInserted, Quiet, Claimed, InProgress, Steps, tick, cron, runs, history
  <1>1. CASE NextMinute
    BY <1>1 DEF NextMinute
  <1>2. ASSUME NEW t \in Ticks, NEW j \in Jobs, Skip(t, j) PROVE Quiet
    BY <1>2 DEF Skip
  <1>3. ASSUME NEW t \in Ticks, End(t) PROVE Quiet
    BY <1>3 DEF End, Go
  <1>4. ASSUME NEW t \in Ticks, NoAgent(t) PROVE Quiet
    BY <1>4 DEF NoAgent, Go, Throw
  <1>5. ASSUME NEW t \in Ticks, Insert(t) PROVE Quiet
    BY <1>5 DEF Insert, Go, SetStatus
  <1>6. ASSUME NEW t \in Ticks, NoSecrets(t) \/ NotInvocable(t) PROVE Quiet
    BY <1>6 DEF NoSecrets, NotInvocable, Throw
  <1>7. ASSUME NEW t \in Ticks, Dispatch(t) PROVE Quiet
    BY <1>7 DEF Dispatch, Go
  <1>8. ASSUME NEW t \in Ticks, NEW j \in Jobs, AgentWorks(t, j) PROVE Quiet
    BY <1>8 DEF AgentWorks
  <1>9. ASSUME NEW t \in Ticks, GiveUp(t) PROVE Quiet
    BY <1>9 DEF GiveUp, Go
  <1>10. ASSUME NEW t \in Ticks, Answer(t) PROVE Quiet
    BY <1>10 DEF Answer, Go
  <1>11. ASSUME NEW t \in Ticks, RecordRunning(t) PROVE Quiet
    BY <1>11 DEF RecordRunning, Go, SetStatus
  <1>12. ASSUME NEW t \in Ticks, RecordAnswer(t) PROVE Quiet
    BY <1>12 DEF RecordAnswer, Go, SetStatus
  <1>13. ASSUME NEW t \in Ticks, Write(t) PROVE Quiet
    BY <1>13 DEF Write, Go
  <1>14. ASSUME NEW t \in Ticks, Succeed(t) PROVE Quiet
    BY <1>14 DEF Succeed, Go, SetStatus
  <1>15. ASSUME NEW t \in Ticks, Fail(t) PROVE Quiet
    BY <1>15 DEF Fail, Go, SetStatus, Throw
  <1>16. ASSUME NEW t \in Ticks, Reject(t) PROVE Quiet
    BY <1>16 DEF Reject, Go, Throw
  <1>17. CASE UNCHANGED vars
    BY <1>17 DEF vars
  <1>18. QED
    BY <1>1, <1>2, <1>3, <1>4, <1>5, <1>6, <1>7, <1>8, <1>9, <1>10, <1>11, <1>12, <1>13, <1>14, <1>15, <1>16, <1>17 DEF Next

\* Quiet steps keep the claims apart.
LEMMA QuietKeeps ==
    ASSUME TypeOK, TypeOK', Claims, Quiet PROVE Claims'
  <1> USE DEF Claims, Quiet
  <1>1. Ordered'
    BY DEF Ordered, TypeOK
  <1>2. RunsBegun'
    BY DEF RunsBegun, Claimed
  <1>3. RowClaims'
    BY DEF RowClaims
  <1>4. MemoryClaims'
    BY DEF MemoryClaims, Other
  <1>5. Remembered'
    BY DEF Remembered, Other
  <1>6. QED
    BY <1>1, <1>2, <1>3, <1>4, <1>5

\* A tick that begins has no claim, and those that begin after it do so later.
LEMMA TickKeeps ==
    ASSUME TypeOK, TypeOK', Claims, NEW t \in Ticks, NEW r \in Replicas, Tick(t, r) PROVE Claims'
  <1> USE DEF Claims
  <1>1. /\ pc[t] = "idle" /\ began[t] = 0 /\ clock \in 1 .. LastMinute
        /\ began'[t] = clock /\ pc'[t] = "next" /\ met'[t] = InProgress
        /\ UNCHANGED <<kind, clock, status, last, reset>>
    BY DEF Tick, Go, TypeOK, Ordered, runs, cron
  <1>2. \A u \in Ticks : u # t => /\ began'[u] = began[u] /\ pc'[u] = pc[u] /\ owner'[u] = owner[u]
                                  /\ met[u] \subseteq met'[u] /\ met'[u] \subseteq met[u] \cup {t}
                                  /\ u \in InProgress => t \in met'[u]
    BY DEF Tick, Go, TypeOK, InProgress
  <1>3. InProgress' = InProgress \cup {t} /\ t \notin InProgress
    BY <1>1, <1>2 DEF InProgress
  <1>4. \A u \in Ticks : (t < u => began[u] = 0) /\ (u < t => began[u] # 0)
    BY <1>1 DEF Ordered, Tick, Ticks
  <1>5. \A u \in Ticks, j \in Jobs : Claimed(u, j)' => Claimed(u, j) /\ u # t /\ began[u] # 0
    BY <1>1, <1>2 DEF Claimed, RunsBegun, Ordered, Tick
  <1>6. Ordered'
    <2>1. \A u \in Ticks : began'[u] <= clock' /\ (began'[u] = 0 <=> pc'[u] = "idle")
      <3>1. clock' = clock /\ clock <= clock /\ clock # 0
        BY <1>1, CronAssumption
      <3>2. ASSUME NEW u \in Ticks, u # t
            PROVE  began'[u] <= clock' /\ (began'[u] = 0 <=> pc'[u] = "idle")
        BY <1>2, <3>1, <3>2 DEF Ordered
      <3>3. began'[t] <= clock' /\ (began'[t] = 0 <=> pc'[t] = "idle")
        BY <1>1, <3>1
      <3>4. QED
        BY <3>2, <3>3
    <2>2. \A u, v \in Ticks : u < v /\ began'[v] # 0 => began'[u] # 0 /\ began'[u] <= began'[v]
      BY <1>1, <1>2, <1>4 DEF Ordered, TypeOK, Ticks
    <2>3. \A u, v \in Ticks :
             u < v /\ began'[v] # 0 /\ u \in InProgress' => u \in met'[v] /\ v \in met'[u]
      BY <1>1, <1>2, <1>3, <1>4 DEF Ordered, Ticks
    <2>4. \A u, v \in Ticks : v \in met'[u] => began'[u] # 0 /\ began'[v] # 0
      <3>1. \A u \in InProgress : began[u] # 0
        BY DEF Ordered, InProgress
      <3>2. ASSUME NEW u \in Ticks, u # t, t \in met'[u], u \notin InProgress PROVE FALSE
        BY <1>1, <3>2 DEF Tick, TypeOK, Ordered
      <3>3. QED
        BY <1>1, <1>2, <3>1, <3>2 DEF Ordered
    <2>5. QED
      BY <2>1, <2>2, <2>3, <2>4 DEF Ordered
  <1>7. RunsBegun'
    BY <1>1, <1>2 DEF RunsBegun
  <1>8. RowClaims'
    BY <1>1, <1>2, <1>5 DEF RowClaims
  <1>9. ASSUME NEW u \in Ticks, u # t, NEW v \in Ticks, Other(v, u) PROVE Other(v, u)'
    BY <1>1, <1>2, <1>9 DEF Other
  <1>10. MemoryClaims'
    <2>1. SUFFICES ASSUME kind = "function", NEW u \in Ticks, NEW v \in Ticks, u # v, NEW j \in Jobs,
                          began'[u] = began'[v], owner'[u] = owner'[v], owner'[u] \notin reset,
                          Claimed(u, j)', Claimed(v, j)'
                   PROVE  \E w \in met'[u] \cup met'[v] : Other(w, u)'
      BY <1>1 DEF MemoryClaims
    <2>2. PICK w \in met[u] \cup met[v] : Other(w, u)
      BY <1>2, <1>5, <2>1 DEF MemoryClaims
    <2>3. w \in Ticks
      BY DEF TypeOK
    <2>4. QED
      BY <1>2, <1>5, <1>9, <2>1, <2>2, <2>3
  <1>11. Remembered'
    <2>1. SUFFICES ASSUME kind = "function", NEW u \in Ticks, NEW j \in Jobs, Claimed(u, j)',
                          owner'[u] \notin reset, last[owner'[u]][j] # began'[u]
                   PROVE  \E v \in Ticks :
                             /\ Other(v, u)'
                             /\ \/ v \in met'[u]
                                \/ /\ began'[u] < began'[v]
                                   /\ \A w \in InProgress' :
                                        began'[w] = began'[u] /\ owner'[w] = owner'[u] => v \in met'[w]
      BY <1>1 DEF Remembered
    <2>2. Claimed(u, j) /\ u # t /\ began[u] # 0 /\ began'[u] = began[u] /\ owner'[u] = owner[u]
      BY <1>2, <1>5, <2>1
    <2>3. PICK v \in Ticks :
             /\ Other(v, u)
             /\ \/ v \in met[u]
                \/ /\ began[u] < began[v]
                   /\ \A w \in InProgress : began[w] = began[u] /\ owner[w] = owner[u] => v \in met[w]
      BY <2>1, <2>2 DEF Remembered
    <2>4. v # t /\ began'[v] = began[v]
      BY <1>1, <1>2, <2>3 DEF Other
    <2>5. Other(v, u)'
      BY <1>9, <2>2, <2>3
    <2>6. CASE v \in met[u]
      BY <1>2, <2>2, <2>5, <2>6
    <2>7. CASE began[u] < began[v] /\ \A w \in InProgress :
                  began[w] = began[u] /\ owner[w] = owner[u] => v \in met[w]
      <3>1. began[u] < clock
        BY <2>7 DEF Ordered, TypeOK
      <3>2. ASSUME NEW w \in InProgress', began'[w] = began'[u], owner'[w] = owner'[u]
            PROVE  v \in met'[w]
        <4>1. w # t /\ w \in InProgress
          BY <1>1, <1>3, <2>2, <3>1, <3>2 DEF TypeOK
        <4>2. w \in Ticks
          BY <4>1 DEF InProgress
        <4>3. QED
          BY <1>2, <2>2, <2>7, <3>2, <4>1, <4>2
      <3>3. QED
        BY <2>2, <2>4, <2>5, <2>7, <3>2
    <2>8. QED
      BY <2>3, <2>6, <2>7
  <1>12. QED
    BY <1>6, <1>7, <1>8, <1>10, <1>11

\* A job is taken only where no run, or no memory, of this minute shows.
LEMMA TakeKeeps ==
    ASSUME TypeOK, TypeOK', Claims, NEW t \in Ticks, NEW j \in Jobs, Take(t, j) PROVE Claims'
  <1> USE DEF Claims
  <1>1. /\ pc[t] = "next" /\ began[t] # 0 /\ t \in InProgress /\ InProgress' = InProgress
        /\ UNCHANGED <<kind, clock, owner, began, met, reset, status>>
    BY DEF Take, Go, TypeOK, Ordered, InProgress, runs, history, cron
  <1>2. \A u \in Ticks, i \in Jobs : Claimed(u, i)' => Claimed(u, i) \/ (u = t /\ i = j)
    BY <1>1 DEF Take, Go, TypeOK, Claimed
  <1>3. \A u \in Ticks, i \in Jobs : Claimed(u, i) => began[u] # 0
    BY DEF Claimed, RunsBegun, Ordered
  <1>4. ASSUME NEW u \in Ticks, u # t, began[u] # 0, u \notin met[t] \/ t \notin met[u]
        PROVE  u < t /\ u \notin InProgress
    BY <1>1, <1>4 DEF Ordered, Ticks
  <1>5. Ordered' /\ RunsBegun'
    BY <1>1 DEF Ordered, RunsBegun, Take, Go, TypeOK, InProgress
  <1>6. RowClaims'
    <2>1. SUFFICES ASSUME kind # "function", NEW u \in Ticks, u # t, began[u] = began[t],
                          u \notin met[t] \/ t \notin met[u], Claimed(u, j)
                   PROVE  FALSE
      BY <1>1, <1>2 DEF RowClaims
    <2>2. status[u][j] # "none"
      BY <1>1, <1>4, <2>1 DEF Claimed, InProgress
    <2>3. QED
      BY <2>1, <2>2 DEF Take, Done, HasRecentRun, TypeOK
  <1>7. MemoryClaims'
    <2>1. SUFFICES ASSUME kind = "function", NEW u \in Ticks, u # t, began[u] = began[t],
                          owner[u] = owner[t], owner[t] \notin reset, Claimed(u, j)
                   PROVE  \E v \in met[u] \cup met[t] : Other(v, t)
      BY <1>1, <1>2 DEF MemoryClaims, Other
    <2>2. last[owner[u]][j] # began[u]
      BY <2>1 DEF Take, Done, Remembers
    <2>3. QED
      BY <1>1, <2>1, <2>2 DEF Remembered, Other
  <1>8. Remembered'
    <2>1. SUFFICES ASSUME kind = "function", NEW u \in Ticks, NEW i \in Jobs, Claimed(u, i)',
                          owner[u] \notin reset, last'[owner[u]][i] # began[u]
                   PROVE  \E v \in Ticks :
                             /\ Other(v, u)
                             /\ \/ v \in met[u]
                                \/ /\ began[u] < began[v]
                                   /\ \A w \in InProgress :
                                        began[w] = began[u] /\ owner[w] = owner[u] => v \in met[w]
      BY <1>1 DEF Remembered, Other
    <2>2. last' = [last EXCEPT ![owner[t]][j] = began[t]]
      BY <2>1 DEF Take
    <2>3. CASE i = j /\ owner[u] = owner[t]
      <3>1. began[u] # began[t] /\ u # t /\ Claimed(u, j)
        BY <1>2, <2>1, <2>2, <2>3 DEF TypeOK
      <3>2. Other(t, u)
        BY <1>1, <2>3, <3>1 DEF Other
      <3>3. t \in met[u] \/ began[u] < began[t]
        <4>1. began[u] # 0 /\ began[u] \in 0 .. LastMinute /\ began[t] \in 0 .. LastMinute
          BY <1>3, <3>1 DEF TypeOK
        <4>2. ASSUME t \notin met[u] PROVE began[u] <= began[t]
          BY <1>1, <1>4, <3>1, <4>1, <4>2 DEF Ordered
        <4>3. QED
          BY <3>1, <4>1, <4>2, CronAssumption
      <3>4. ASSUME NEW w \in InProgress, began[w] = began[u] PROVE t \in met[w]
        BY <1>1, <1>4, <3>1, <3>4 DEF Ordered, InProgress
      <3>5. QED
        BY <3>2, <3>3, <3>4
    <2>4. CASE i # j \/ owner[u] # owner[t]
      <3>1. last'[owner[u]][i] = last[owner[u]][i]
        BY <2>2, <2>4 DEF TypeOK
      <3>2. Claimed(u, i)
        BY <1>2, <2>1, <2>4
      <3>3. QED
        BY <2>1, <3>1, <3>2 DEF Remembered
    <2>5. QED
      BY <2>3, <2>4
  <1>9. QED
    BY <1>5, <1>6, <1>7, <1>8

\* A crash ends ticks, and takes the replica out of what memory promises.
LEMMA CrashKeeps ==
    ASSUME TypeOK, TypeOK', Claims, NEW r \in Replicas, Crash(r) PROVE Claims'
  <1> USE DEF Claims
  <1>1. /\ UNCHANGED <<kind, clock, owner, began, met, status, job>> /\ reset' = reset \cup {r}
        /\ \A s \in Replicas : s # r => last'[s] = last[s]
    BY DEF Crash, TypeOK, runs, cron
  <1>2. \A t \in Ticks : pc'[t] = pc[t] \/ (pc'[t] = "over" /\ t \in InProgress)
    BY DEF Crash, TypeOK
  <1>3. InProgress' \subseteq InProgress
    BY <1>2 DEF InProgress
  <1>4. \A t \in Ticks, j \in Jobs : Claimed(t, j)' => Claimed(t, j)
    BY <1>1, <1>2 DEF Claimed
  <1>5. Ordered' /\ RunsBegun'
    BY <1>1, <1>2, <1>3 DEF Ordered, RunsBegun, InProgress
  <1>6. RowClaims' /\ MemoryClaims'
    BY <1>1, <1>4 DEF RowClaims, MemoryClaims, Other
  <1>7. Remembered'
    BY <1>1, <1>3, <1>4 DEF Remembered, Other, TypeOK
  <1>8. QED
    BY <1>5, <1>6, <1>7

(* What runs tell **********************************************************)

AtRun == {"inserted", "sent", "answered", "writing", "written", "failing"}

\* A tick is at a run that is open, whose archive is stored when it is written,
\* and comes to each job once.
Tells(t) ==
    /\ pc[t] = "idle" => \A j \in Jobs : status[t][j] = "none" /\ <<t, j>> \notin stored
    /\ \A j \in left[t] : status[t][j] = "none" /\ <<t, j>> \notin stored
    /\ pc[t] \in AtRun \cup {"taken"} => job[t] \notin left[t]
    /\ pc[t] = "taken" => status[t][job[t]] = "none"
    /\ pc[t] \in AtRun => status[t][job[t]] \in {"pending", "running"}
    /\ pc[t] \in {"taken", "inserted", "sent", "answered", "writing"} => <<t, job[t]>> \notin stored
    /\ pc[t] = "written" => <<t, job[t]>> \in stored
    /\ pc[t] = "failing" /\ <<t, job[t]>> \in stored => "update" \in reasons[t]
    /\ reasons[t] \cap {"crash", "statement", "secrets"} # {} => pc[t] = "over"

Told == \A t \in Ticks : Tells(t)

\* What a tick tells depends on nothing else.
Still(t) ==
    /\ pc'[t] = pc[t] /\ left'[t] = left[t] /\ job'[t] = job[t] /\ status'[t] = status[t]
    /\ reasons'[t] = reasons[t] /\ work'[t] = work[t]
    /\ \A j \in Jobs : <<t, j>> \in stored' <=> <<t, j>> \in stored

TickStep(t) ==
    \/ \E r \in Replicas : Tick(t, r)
    \/ End(t) \/ NoAgent(t)
    \/ Insert(t) \/ NotInvocable(t) \/ NoSecrets(t) \/ Dispatch(t) \/ GiveUp(t) \/ Answer(t)
    \/ RecordRunning(t) \/ RecordAnswer(t) \/ Write(t) \/ Succeed(t)
    \/ Fail(t) \/ Reject(t)
    \/ \E j \in Jobs : Skip(t, j) \/ Take(t, j) \/ AgentWorks(t, j)

\* The step of a tick leaves the others alone.
LEMMA StepOfOne ==
    ASSUME TypeOK, NEW t \in Ticks, TickStep(t), NEW u \in Ticks, u # t
    PROVE  Still(u)
  <1> USE DEF TypeOK, Still, tick, cron, runs, history
  <1>1. ASSUME NEW r \in Replicas, Tick(t, r) PROVE Still(u)
    BY <1>1 DEF Tick, Go, InProgress
  <1>2. ASSUME NEW j \in Jobs, Skip(t, j) PROVE Still(u)
    BY <1>2 DEF Skip
  <1>3. ASSUME NEW j \in Jobs, Take(t, j) PROVE Still(u)
    BY <1>3 DEF Take, Go
  <1>4. ASSUME End(t) PROVE Still(u)
    BY <1>4 DEF End, Go
  <1>5. ASSUME NoAgent(t) PROVE Still(u)
    BY <1>5 DEF NoAgent, Go, Throw
  <1>6. ASSUME Insert(t) PROVE Still(u)
    BY <1>6 DEF Insert, Go, SetStatus
  <1>7. ASSUME NoSecrets(t) \/ NotInvocable(t) PROVE Still(u)
    BY <1>7 DEF NoSecrets, NotInvocable, Throw
  <1>8. ASSUME Dispatch(t) PROVE Still(u)
    BY <1>8 DEF Dispatch, Go
  <1>9. ASSUME NEW j \in Jobs, AgentWorks(t, j) PROVE Still(u)
    BY <1>9 DEF AgentWorks
  <1>10. ASSUME GiveUp(t) PROVE Still(u)
    BY <1>10 DEF GiveUp, Go
  <1>11. ASSUME Answer(t) PROVE Still(u)
    BY <1>11 DEF Answer, Go
  <1>12. ASSUME RecordRunning(t) PROVE Still(u)
    BY <1>12 DEF RecordRunning, Go, SetStatus
  <1>13. ASSUME RecordAnswer(t) PROVE Still(u)
    BY <1>13 DEF RecordAnswer, Go, SetStatus
  <1>14. ASSUME Write(t) PROVE Still(u)
    BY <1>14 DEF Write, Go
  <1>15. ASSUME Succeed(t) PROVE Still(u)
    BY <1>15 DEF Succeed, Go, SetStatus
  <1>16. ASSUME Fail(t) PROVE Still(u)
    BY <1>16 DEF Fail, Go, SetStatus, Throw
  <1>17. ASSUME Reject(t) PROVE Still(u)
    BY <1>17 DEF Reject, Go, Throw
  <1>18. QED
    BY <1>1, <1>2, <1>3, <1>4, <1>5, <1>6, <1>7, <1>8, <1>9, <1>10, <1>11, <1>12, <1>13, <1>14, <1>15, <1>16, <1>17 DEF TickStep

\* A tick keeps to what it tells.
LEMMA TellsKept ==
    ASSUME TypeOK, NEW t \in Ticks, TickStep(t), Tells(t)
    PROVE  Tells(t)'
  <1> USE DEF TypeOK, Tells, AtRun, Steps, Statuses, tick, cron, runs, history
  <1>1. ASSUME NEW r \in Replicas, Tick(t, r) PROVE Tells(t)'
    BY <1>1 DEF Tick, Go, InProgress
  <1>2. ASSUME NEW j \in Jobs, Skip(t, j) PROVE Tells(t)'
    BY <1>2 DEF Skip
  <1>3. ASSUME NEW j \in Jobs, Take(t, j) PROVE Tells(t)'
    BY <1>3 DEF Take, Go
  <1>4. ASSUME End(t) PROVE Tells(t)'
    BY <1>4 DEF End, Go
  <1>5. ASSUME NoAgent(t) PROVE Tells(t)'
    BY <1>5 DEF NoAgent, Go, Throw
  <1>6. ASSUME Insert(t) PROVE Tells(t)'
    BY <1>6 DEF Insert, Go, SetStatus
  <1>7. ASSUME NoSecrets(t) \/ NotInvocable(t) PROVE Tells(t)'
    BY <1>7 DEF NoSecrets, NotInvocable, Throw
  <1>8. ASSUME Dispatch(t) PROVE Tells(t)'
    BY <1>8 DEF Dispatch, Go
  <1>9. ASSUME NEW j \in Jobs, AgentWorks(t, j) PROVE Tells(t)'
    BY <1>9 DEF AgentWorks
  <1>10. ASSUME GiveUp(t) PROVE Tells(t)'
    BY <1>10 DEF GiveUp, Go
  <1>11. ASSUME Answer(t) PROVE Tells(t)'
    BY <1>11 DEF Answer, Go
  <1>12. ASSUME RecordRunning(t) PROVE Tells(t)'
    BY <1>12 DEF RecordRunning, Go, SetStatus
  <1>13. ASSUME RecordAnswer(t) PROVE Tells(t)'
    BY <1>13 DEF RecordAnswer, Go, SetStatus
  <1>14. ASSUME Write(t) PROVE Tells(t)'
    BY <1>14 DEF Write, Go
  <1>15. ASSUME Succeed(t) PROVE Tells(t)'
    BY <1>15 DEF Succeed, Go, SetStatus
  <1>16. ASSUME Fail(t) PROVE Tells(t)'
    BY <1>16 DEF Fail, Go, SetStatus, Throw
  <1>17. ASSUME Reject(t) PROVE Tells(t)'
    <2>1. CASE Throw(t, "statement")
      <3>1. pc'[t] = "over" /\ left'[t] = left[t] /\ UNCHANGED <<status, stored>>
        BY <1>17, <2>1 DEF Reject, Throw
      <3>2. QED
        BY <3>1
    <2>2. ASSUME NEW at \in {"answered", "written"}, Go(t, at, "failing"),
                 reasons' = [reasons EXCEPT ![t] = @ \cup {"update"}]
          PROVE  Tells(t)'
      <3>1. /\ pc[t] = at /\ pc'[t] = "failing" /\ reasons'[t] = reasons[t] \cup {"update"}
            /\ UNCHANGED <<left, job, status, stored>>
        BY <1>17, <2>2 DEF Reject, Go
      <3>2. reasons'[t] \cap {"crash", "statement", "secrets"} = {}
        BY <3>1
      <3>3. QED
        BY <3>1, <3>2
    <2>3. QED
      BY <1>17, <2>1, <2>2 DEF Reject
  <1>18. QED
    BY <1>1, <1>2, <1>3, <1>4, <1>5, <1>6, <1>7, <1>8, <1>9, <1>10, <1>11, <1>12, <1>13, <1>14, <1>15, <1>16, <1>17 DEF TickStep

\* RunsTell of one run.
RunTells(t, j) ==
    /\ status[t][j] = "succeeded" => <<t, j>> \in stored
    /\ status[t][j] = "completed" => work[t][j] = "done"
    /\ status[t][j] = "failed" /\ <<t, j>> \in stored => "update" \in reasons[t]
    /\ status[t][j] \in {"pending", "running"} =>
          \/ job[t] = j /\ pc[t] \notin {"next", "over"}
          \/ job[t] = j /\ reasons[t] \cap {"crash", "statement", "secrets"} # {}
          \/ kind = "rotation" /\ status[t][j] = "running"

\* What the runs of a tick say stays so.
LEMMA RunTellsKept ==
    ASSUME TypeOK, NEW t \in Ticks, TickStep(t), Tells(t), NEW j \in Jobs, RunTells(t, j)
    PROVE  RunTells(t, j)'
  <1> USE DEF TypeOK, Tells, RunTells, AtRun, Kinds, tick, cron, runs, history
  <1>1. ASSUME NEW r \in Replicas, Tick(t, r) PROVE RunTells(t, j)'
    BY <1>1 DEF Tick, Go, InProgress
  <1>2. ASSUME NEW i \in Jobs, Skip(t, i) PROVE RunTells(t, j)'
    BY <1>2 DEF Skip
  <1>3. ASSUME NEW i \in Jobs, Take(t, i) PROVE RunTells(t, j)'
    BY <1>3 DEF Take, Go
  <1>4. ASSUME End(t) PROVE RunTells(t, j)'
    BY <1>4 DEF End, Go
  <1>5. ASSUME NoAgent(t) PROVE RunTells(t, j)'
    BY <1>5 DEF NoAgent, Go, Throw
  <1>6. ASSUME Insert(t) PROVE RunTells(t, j)'
    BY <1>6 DEF Insert, Go, SetStatus
  <1>7. ASSUME NoSecrets(t) \/ NotInvocable(t) PROVE RunTells(t, j)'
    <2>1. UNCHANGED <<kind, job, status, work, stored>> /\ pc'[t] = "over"
      BY <1>7 DEF NoSecrets, NotInvocable, Throw
    <2>2. reasons[t] \subseteq reasons'[t] /\ (NoSecrets(t) => "secrets" \in reasons'[t])
      BY <1>7 DEF NoSecrets, NotInvocable, Throw
    <2>3. NotInvocable(t) => pc[t] = "taken"
      BY DEF NotInvocable
    <2>4. QED
      BY <1>7, <2>1, <2>2, <2>3
  <1>8. ASSUME Dispatch(t) PROVE RunTells(t, j)'
    BY <1>8 DEF Dispatch, Go
  <1>9. ASSUME NEW i \in Jobs, AgentWorks(t, i) PROVE RunTells(t, j)'
    BY <1>9 DEF AgentWorks
  <1>10. ASSUME GiveUp(t) PROVE RunTells(t, j)'
    BY <1>10 DEF GiveUp, Go
  <1>11. ASSUME Answer(t) PROVE RunTells(t, j)'
    BY <1>11 DEF Answer, Go
  <1>12. ASSUME RecordRunning(t) PROVE RunTells(t, j)'
    BY <1>12 DEF RecordRunning, Go, SetStatus
  <1>13. ASSUME RecordAnswer(t) PROVE RunTells(t, j)'
    BY <1>13 DEF RecordAnswer, Go, SetStatus
  <1>14. ASSUME Write(t) PROVE RunTells(t, j)'
    BY <1>14 DEF Write, Go
  <1>15. ASSUME Succeed(t) PROVE RunTells(t, j)'
    BY <1>15 DEF Succeed, Go, SetStatus
  <1>16. ASSUME Fail(t) PROVE RunTells(t, j)'
    <2>1. /\ pc[t] = "failing" /\ UNCHANGED <<kind, job, work, stored>> /\ pc'[t] \in {"next", "over"}
          /\ status'[t] = [status[t] EXCEPT ![job[t]] = "failed"]
      BY <1>16 DEF Fail, SetStatus, Go, Throw
    <2>2. reasons[t] \subseteq reasons'[t]
      BY <1>16 DEF Fail, Throw
    <2>3. CASE j = job[t]
      BY <2>1, <2>2, <2>3
    <2>4. CASE j # job[t]
      BY <2>1, <2>2, <2>4
    <2>5. QED
      BY <2>3, <2>4
  <1>17. ASSUME Reject(t) PROVE RunTells(t, j)'
    <2>1. UNCHANGED <<kind, job, status, work, stored>> /\ reasons[t] \subseteq reasons'[t]
      BY <1>17 DEF Reject, Throw
    <2>2. \/ pc'[t] = "failing" /\ pc[t] \in {"answered", "written"}
          \/ pc'[t] = "over" /\ "statement" \in reasons'[t]
      BY <1>17 DEF Reject, Go, Throw
    <2>3. QED
      BY <2>1, <2>2
  <1>18. QED
    BY <1>1, <1>2, <1>3, <1>4, <1>5, <1>6, <1>7, <1>8, <1>9, <1>10, <1>11, <1>12, <1>13, <1>14, <1>15, <1>16, <1>17 DEF TickStep

\* A crash ends what the ticks of its replica say.
LEMMA CrashTells ==
    ASSUME TypeOK, Told, RunsTell, NEW r \in Replicas, Crash(r)
    PROVE  Told' /\ RunsTell'
  <1> USE DEF TypeOK
  <1>1. UNCHANGED <<kind, job, status, work, stored>>
    BY DEF Crash, runs, cron
  <1>2. ASSUME NEW t \in Ticks, owner[t] # r \/ t \notin InProgress
        PROVE  pc'[t] = pc[t] /\ left'[t] = left[t] /\ reasons'[t] = reasons[t]
    BY <1>2 DEF Crash
  <1>3. ASSUME NEW t \in Ticks, owner[t] = r, t \in InProgress
        PROVE  pc'[t] = "over" /\ left'[t] = {} /\ reasons'[t] = reasons[t] \cup {"crash"}
    BY <1>3 DEF Crash
  <1>4. ASSUME NEW t \in Ticks PROVE Tells(t)'
    <2>1. CASE owner[t] # r \/ t \notin InProgress
      BY <1>1, <1>2, <2>1 DEF Told, Tells
    <2>2. CASE owner[t] = r /\ t \in InProgress
      BY <1>1, <1>3, <2>2 DEF Told, Tells, AtRun
    <2>3. QED
      BY <2>1, <2>2
  <1>5. ASSUME NEW t \in Ticks, NEW j \in Jobs PROVE RunTells(t, j)'
    <2>1. RunTells(t, j)
      BY DEF RunsTell, RunTells
    <2>2. CASE owner[t] # r \/ t \notin InProgress
      BY <1>1, <1>2, <2>1, <2>2 DEF RunTells
    <2>3. CASE owner[t] = r /\ t \in InProgress
      BY <1>1, <1>3, <2>1, <2>3 DEF RunTells
    <2>4. QED
      BY <2>2, <2>3
  <1>6. QED
    BY <1>4, <1>5 DEF Told, RunsTell, RunTells

\* Steps keep what the runs tell.
LEMMA RunsTellKept ==
    TypeOK /\ Told /\ RunsTell /\ [Next]_vars => Told' /\ RunsTell'
  <1> SUFFICES ASSUME TypeOK, Told, RunsTell, [Next]_vars PROVE Told' /\ RunsTell'
    OBVIOUS
  <1>1. ASSUME NEW t \in Ticks, TickStep(t) PROVE Told' /\ RunsTell'
    <2>1. ASSUME NEW u \in Ticks PROVE Tells(u)'
      <3>1. CASE u = t
        BY <1>1, <3>1, TellsKept DEF Told
      <3>2. CASE u # t
        <4>1. Still(u) /\ Tells(u) /\ left[u] \subseteq Jobs /\ job[u] \in Jobs
          BY <1>1, <3>2, StepOfOne DEF Told, TypeOK
        <4>2. QED
          BY <4>1 DEF Still, Tells
      <3>3. QED
        BY <3>1, <3>2
    <2>2. kind' = kind
      BY <1>1 DEF TickStep, Tick, End, NoAgent, Insert, NotInvocable, NoSecrets, Dispatch, GiveUp, Answer, RecordRunning,
        RecordAnswer, Write, Succeed, Fail, Reject, Skip, Take, AgentWorks, cron
    <2>3. ASSUME NEW u \in Ticks, NEW j \in Jobs PROVE RunTells(u, j)'
      <3>1. RunTells(u, j)
        BY DEF RunsTell, RunTells
      <3>2. CASE u = t
        BY <1>1, <3>1, <3>2, RunTellsKept DEF Told
      <3>3. CASE u # t
        <4>1. Still(u)
          BY <1>1, <3>3, StepOfOne
        <4>2. QED
          BY <2>2, <3>1, <4>1 DEF Still, RunTells
      <3>4. QED
        BY <3>2, <3>3
    <2>4. QED
      BY <2>1, <2>3 DEF Told, RunsTell, RunTells
  <1>2. CASE NextMinute \/ UNCHANGED vars
    BY <1>2 DEF NextMinute, vars, tick, cron, runs, history, Told, Tells, RunsTell
  <1>3. QED
    BY <1>1, <1>2, CrashTells DEF Next, TickStep

(* Due jobs ****************************************************************)

Pending(t, j) == pc[t] = "taken" /\ job[t] = j

\* Tick t has run the job, is about to, or was kept from something.
Tried(t, j) == status[t][j] # "none" \/ reasons[t] # {} \/ Pending(t, j)

\* DueServed's cases, before the tick is over.
Evident(t, j) ==
    \/ \E u \in Ticks : status[u][j] # "none" /\ began[u] >= began[t]
    \/ reasons[t] \cap {"crash", "statement"} # {}
    \/ <<t, j>> \in unserved
    \/ Pending(t, j)
    \/ kind = "function" /\ \E u \in Ticks :
          owner[u] = owner[t] /\ began[u] = began[t] /\ Tried(u, j)

\* A tick has a case for every job it has come by.
Covered ==
    \A t \in Ticks, j \in due :
        pc[t] # "idle" => (j \in left[t] /\ pc[t] # "over") \/ Evident(t, j)

\* What a replica remembers, a tick of its has tried.
Memory ==
    kind = "function" =>
        \A r \in Replicas, j \in Jobs : last[r][j] # 0 =>
            \E u \in Ticks : owner[u] = r /\ began[u] = last[r][j] /\ Tried(u, j)

\* What no step takes back.
Onward ==
    /\ UNCHANGED <<kind, due>>
    /\ \A t \in Ticks : pc[t] # "idle" => owner'[t] = owner[t] /\ began'[t] = began[t]
    /\ \A t \in Ticks, j \in Jobs : status[t][j] # "none" => status'[t][j] # "none"
    /\ \A t \in Ticks : reasons[t] \subseteq reasons'[t]
    /\ unserved \subseteq unserved'
    /\ \A t \in Ticks, j \in Jobs : Pending(t, j) =>
          \/ Pending(t, j)'
          \/ status'[t][j] # "none"
          \/ reasons'[t] \cap {"crash", "statement"} # {}
          \/ IF kind = "function" THEN reasons'[t] # {} ELSE <<t, j>> \in unserved'

\* What reasons a tick's own steps add.
LEMMA ReasonsAdded ==
    ASSUME TypeOK, NEW t \in Ticks
    PROVE  /\ NoAgent(t) => /\ \A u \in Ticks : reasons[u] \subseteq reasons'[u]
                            /\ kind = "function" => pc'[t] = "over" /\ reasons'[t] # {}
                            /\ kind # "function" => pc'[t] = "next"
           /\ NoSecrets(t) \/ NotInvocable(t) =>
                              /\ \A u \in Ticks : reasons[u] \subseteq reasons'[u]
                              /\ kind = "function" /\ reasons'[t] # {}
           /\ Fail(t) => /\ \A u \in Ticks : reasons[u] \subseteq reasons'[u]
                         /\ pc'[t] = "next" \/ (kind = "function" /\ reasons'[t] # {})
           /\ Reject(t) => /\ \A u \in Ticks : reasons[u] \subseteq reasons'[u]
                           /\ \/ "statement" \in reasons'[t]
                              \/ pc[t] \in {"answered", "written"} /\ pc'[t] = "failing"
  <1> USE DEF TypeOK, Throw, Go
  <1>1. \A x : LET new == [reasons EXCEPT ![t] = @ \cup {x}]
               IN  x \in new[t] /\ \A u \in Ticks : reasons[u] \subseteq new[u]
    OBVIOUS
  <1>2. ASSUME NoAgent(t) PROVE /\ \A u \in Ticks : reasons[u] \subseteq reasons'[u]
                                /\ kind = "function" => pc'[t] = "over" /\ reasons'[t] # {}
                                /\ kind # "function" => pc'[t] = "next"
    <2>1. CASE kind = "function"
      <3>1. pc' = [pc EXCEPT ![t] = "over"] /\ reasons' = [reasons EXCEPT ![t] = @ \cup {"agentless"}]
        BY <1>2, <2>1 DEF NoAgent
      <3>2. QED
        BY <1>1, <2>1, <3>1
    <2>2. CASE kind # "function"
      BY <1>2, <2>2 DEF NoAgent
    <2>3. QED
      BY <2>1, <2>2
  <1>3. ASSUME NoSecrets(t) \/ NotInvocable(t)
        PROVE                     /\ \A u \in Ticks : reasons[u] \subseteq reasons'[u]
                                  /\ kind = "function" /\ reasons'[t] # {}
    <2>1. /\ kind = "function"
          /\ \/ reasons' = [reasons EXCEPT ![t] = @ \cup {"secrets"}]
             \/ reasons' = [reasons EXCEPT ![t] = @ \cup {"namesake"}]
      BY <1>3 DEF NoSecrets, NotInvocable
    <2>2. QED
      BY <1>1, <2>1
  <1>4. ASSUME Fail(t) PROVE /\ \A u \in Ticks : reasons[u] \subseteq reasons'[u]
                             /\ pc'[t] = "next" \/ (kind = "function" /\ reasons'[t] # {})
    <2>1. \/ pc'[t] = "next" /\ reasons' = reasons
          \/ kind = "function" /\ reasons' = [reasons EXCEPT ![t] = @ \cup {"dispatch"}]
      BY <1>4 DEF Fail
    <2>2. QED
      BY <1>1, <2>1
  <1>5. ASSUME Reject(t) PROVE /\ \A u \in Ticks : reasons[u] \subseteq reasons'[u]
                               /\ \/ "statement" \in reasons'[t]
                                  \/ pc[t] \in {"answered", "written"} /\ pc'[t] = "failing"
    <2>1. \/ reasons' = [reasons EXCEPT ![t] = @ \cup {"statement"}]
          \/ /\ pc[t] \in {"answered", "written"} /\ pc'[t] = "failing"
             /\ reasons' = [reasons EXCEPT ![t] = @ \cup {"update"}]
      BY <1>5 DEF Reject
    <2>2. QED
      BY <1>1, <2>1
  <1>6. QED
    BY <1>2, <1>3, <1>4, <1>5

\* Every step goes on so.
LEMMA OnwardSteps ==
    ASSUME TypeOK, RunInserted, [Next]_vars PROVE Onward
  <1> USE DEF TypeOK, RunInserted, Onward, Pending, tick, cron, runs, history
  <1>1. ASSUME NEW t \in Ticks, NEW r \in Replicas, Tick(t, r) PROVE Onward
    BY <1>1 DEF Tick, Go, InProgress
  <1>2. ASSUME NEW r \in Replicas, Crash(r) PROVE Onward
    BY <1>2 DEF Crash, InProgress
  <1>3. CASE NextMinute
    BY <1>3 DEF NextMinute
  <1>4. CASE UNCHANGED vars
    BY <1>4 DEF vars
  <1>5. ASSUME NEW t \in Ticks, NEW j \in Jobs, Skip(t, j) PROVE Onward
    BY <1>5 DEF Skip
  <1>6. ASSUME NEW t \in Ticks, NEW j \in Jobs, Take(t, j) PROVE Onward
    BY <1>6 DEF Take, Go
  <1>7. ASSUME NEW t \in Ticks, End(t) PROVE Onward
    BY <1>7 DEF End, Go
  <1>8. ASSUME NEW t \in Ticks, NoAgent(t) PROVE Onward
    <2>1. /\ UNCHANGED <<kind, due, owner, began, status, job>>
          /\ pc[t] = "taken" /\ unserved' = unserved \cup {<<t, job[t]>>}
          /\ \A u \in Ticks : u # t => pc'[u] = pc[u]
      BY <1>8 DEF NoAgent, Go, Throw
    <2>2. \A u \in Ticks : reasons[u] \subseteq reasons'[u]
      BY <1>8, ReasonsAdded
    <2>3. kind = "function" => reasons'[t] # {}
      BY <1>8, ReasonsAdded
    <2>4. QED
      BY <2>1, <2>2, <2>3
  <1>9. ASSUME NEW t \in Ticks, Insert(t) PROVE Onward
    BY <1>9 DEF Insert, Go, SetStatus
  <1>10. ASSUME NEW t \in Ticks, NoSecrets(t) \/ NotInvocable(t) PROVE Onward
    <2>1. /\ UNCHANGED <<kind, due, owner, began, job, status, unserved>>
          /\ pc[t] # "idle" /\ \A u \in Ticks : u # t => pc'[u] = pc[u]
      BY <1>10 DEF NoSecrets, NotInvocable, Throw
    <2>2. /\ \A u \in Ticks : reasons[u] \subseteq reasons'[u]
          /\ kind = "function" /\ reasons'[t] # {}
      BY <1>10, ReasonsAdded
    <2>3. QED
      BY <2>1, <2>2
  <1>11. ASSUME NEW t \in Ticks, Dispatch(t) PROVE Onward
    BY <1>11 DEF Dispatch, Go
  <1>12. ASSUME NEW t \in Ticks, NEW j \in Jobs, AgentWorks(t, j) PROVE Onward
    BY <1>12 DEF AgentWorks
  <1>13. ASSUME NEW t \in Ticks, GiveUp(t) PROVE Onward
    BY <1>13 DEF GiveUp, Go
  <1>14. ASSUME NEW t \in Ticks, Answer(t) PROVE Onward
    BY <1>14 DEF Answer, Go
  <1>15. ASSUME NEW t \in Ticks, RecordRunning(t) PROVE Onward
    BY <1>15 DEF RecordRunning, Go, SetStatus
  <1>16. ASSUME NEW t \in Ticks, RecordAnswer(t) PROVE Onward
    BY <1>16 DEF RecordAnswer, Go, SetStatus
  <1>17. ASSUME NEW t \in Ticks, Write(t) PROVE Onward
    BY <1>17 DEF Write, Go
  <1>18. ASSUME NEW t \in Ticks, Succeed(t) PROVE Onward
    BY <1>18 DEF Succeed, Go, SetStatus
  <1>19. ASSUME NEW t \in Ticks, Fail(t) PROVE Onward
    <2>1. /\ UNCHANGED <<kind, due, owner, began, job, unserved>>
          /\ pc[t] = "failing" /\ \A u \in Ticks : u # t => pc'[u] = pc[u]
      BY <1>19 DEF Fail, Go, Throw
    <2>2. \A u \in Ticks : reasons[u] \subseteq reasons'[u]
      BY <1>19, ReasonsAdded
    <2>3. \A u \in Ticks, j \in Jobs : status[u][j] # "none" => status'[u][j] # "none"
      BY <1>19 DEF Fail, SetStatus
    <2>4. QED
      BY <2>1, <2>2, <2>3
  <1>20. ASSUME NEW t \in Ticks, Reject(t) PROVE Onward
    <2>1. /\ UNCHANGED <<kind, due, owner, began, job, status, unserved>>
          /\ \A u \in Ticks : u # t => pc'[u] = pc[u]
      BY <1>20 DEF Reject, Go, Throw
    <2>2. \A u \in Ticks : reasons[u] \subseteq reasons'[u]
      BY <1>20, ReasonsAdded
    <2>3. pc[t] = "taken" => "statement" \in reasons'[t]
      BY <1>20, ReasonsAdded
    <2>4. QED
      BY <2>1, <2>2, <2>3
  <1>21. QED
    BY <1>1, <1>2, <1>3, <1>4, <1>5, <1>6, <1>7, <1>8, <1>9, <1>10, <1>11, <1>12, <1>13, <1>14, <1>15, <1>16, <1>17, <1>18, <1>19, <1>20 DEF Next

\* So a case that a tick has it keeps.
LEMMA EvidentKept ==
    ASSUME TypeOK, Ordered, RunsBegun, Onward, NEW t \in Ticks, pc[t] # "idle", NEW j \in Jobs, Evident(t, j)
    PROVE  Evident(t, j)'
  <1> USE DEF Onward
  <1>1. owner'[t] = owner[t] /\ began'[t] = began[t] /\ began[t] # 0
    BY DEF Ordered
  <1>2. ASSUME NEW u \in Ticks, status[u][j] # "none", began[u] >= began[t] PROVE Evident(t, j)'
    BY <1>1, <1>2 DEF Evident, RunsBegun
  <1>3. CASE reasons[t] \cap {"crash", "statement"} # {} \/ <<t, j>> \in unserved
    BY <1>3 DEF Evident
  <1>4. ASSUME NEW u \in Ticks, kind = "function", owner[u] = owner[t], began[u] = began[t], Tried(u, j)
        PROVE  Evident(t, j)'
    <2>1. owner'[u] = owner'[t] /\ began'[u] = began'[t]
      BY <1>1, <1>4 DEF Ordered
    <2>2. Tried(u, j)'
      BY <1>4 DEF Tried
    <2>3. QED
      BY <1>4, <2>1, <2>2 DEF Evident
  <1>5. CASE kind # "function" /\ Pending(t, j)
    <2>1. began'[t] \in Nat
      BY <1>1, CronAssumption DEF TypeOK
    <2>2. QED
      BY <1>5, <2>1 DEF Evident
  <1>6. CASE kind = "function" /\ Pending(t, j)
    BY <1>4, <1>6 DEF Tried
  <1>7. QED
    BY <1>2, <1>3, <1>4, <1>5, <1>6 DEF Evident

\* A memory that holds is one of a tick that has a case.
LEMMA RememberedEvident ==
    ASSUME TypeOK, Ordered, Memory, kind = "function", NEW t \in Ticks, pc[t] # "idle",
           NEW j \in Jobs, Remembers(t, j)
    PROVE  Evident(t, j)
  <1>1. last[owner[t]][j] # 0 /\ owner[t] \in Replicas
    BY DEF Ordered, Remembers, TypeOK
  <1>2. PICK u \in Ticks : owner[u] = owner[t] /\ began[u] = last[owner[t]][j] /\ Tried(u, j)
    BY <1>1 DEF Memory
  <1>3. QED
    BY <1>2 DEF Evident, Remembers

\* Steps keep what the replicas remember.
LEMMA MemoryKept ==
    ASSUME TypeOK, TypeOK', Ordered, RunInserted, Memory, [Next]_vars
    PROVE  Memory'
  <1> SUFFICES ASSUME kind' = "function", NEW r \in Replicas, NEW j \in Jobs, last'[r][j] # 0
               PROVE  \E u \in Ticks : owner'[u] = r /\ began'[u] = last'[r][j] /\ Tried(u, j)'
    BY DEF Memory
  <1>1. Onward
    BY OnwardSteps
  <1>2. CASE last'[r][j] = last[r][j]
    <2>1. PICK u \in Ticks : owner[u] = r /\ began[u] = last[r][j] /\ Tried(u, j)
      BY <1>1, <1>2 DEF Memory, Onward
    <2>2. pc[u] # "idle"
      BY <1>2, <2>1 DEF Ordered
    <2>3. Tried(u, j)'
      BY <1>1, <2>1 DEF Onward, Tried
    <2>4. QED
      BY <1>1, <1>2, <2>1, <2>2, <2>3 DEF Onward
  <1>3. ASSUME NEW t \in Ticks, NEW i \in Jobs, Take(t, i), last'[r][j] # last[r][j]
        PROVE  owner'[t] = r /\ began'[t] = last'[r][j] /\ Tried(t, j)'
    <2>1. last' = [last EXCEPT ![owner[t]][i] = began[t]]
      BY <1>3 DEF Take
    <2>2. r = owner[t] /\ j = i /\ last'[r][j] = began[t]
      BY <1>3, <2>1 DEF TypeOK
    <2>3. Pending(t, j)'
      BY <1>3, <2>2 DEF Take, Go, Pending, TypeOK
    <2>4. QED
      BY <1>3, <2>2, <2>3 DEF Take, Tried
  <1>4. ASSUME NEW s \in Replicas, Crash(s) PROVE last'[r][j] = last[r][j]
    BY <1>4 DEF Crash, TypeOK
  <1>5. \/ UNCHANGED last
        \/ \E t \in Ticks, i \in Jobs : Take(t, i)
        \/ \E s \in Replicas : Crash(s)
    BY DEF Next, NextMinute, Tick, End, NoAgent, Insert, NotInvocable, NoSecrets, Dispatch, GiveUp, Answer, RecordRunning,
      RecordAnswer, Write, Succeed, Fail, Reject, Skip, AgentWorks, vars
  <1>6. QED
    BY <1>2, <1>3, <1>4, <1>5

\* A tick begins with every due job left.
LEMMA TickCovers ==
    ASSUME TypeOK, [Next]_vars, NEW t \in Ticks, pc[t] = "idle", pc'[t] # "idle"
    PROVE  left'[t] = due /\ pc'[t] # "over"
  <1> USE DEF TypeOK
  <1>1. ASSUME NEW u \in Ticks, TickStep(u), u # t PROVE FALSE
    BY <1>1, StepOfOne DEF Still
  <1>2. ASSUME NEW r \in Replicas, Tick(t, r) PROVE left'[t] = due /\ pc'[t] # "over"
    BY <1>2 DEF Tick, Go
  <1>3. ASSUME NEW r \in Replicas, Crash(r) PROVE FALSE
    BY <1>3 DEF Crash, InProgress
  <1>4. CASE NextMinute \/ UNCHANGED vars
    BY <1>4 DEF NextMinute, vars, tick
  <1>5. ASSUME TickStep(t), \A r \in Replicas : ~Tick(t, r) PROVE FALSE
    <2> USE <1>5 DEF Go, tick
    <2>1. ~(End(t) \/ NoAgent(t) \/ Insert(t) \/ NotInvocable(t) \/ NoSecrets(t) \/ Dispatch(t) \/ GiveUp(t) \/ Answer(t))
      BY DEF End, NoAgent, Insert, NotInvocable, NoSecrets, Dispatch, GiveUp, Answer
    <2>2. ~(RecordRunning(t) \/ RecordAnswer(t) \/ Write(t) \/ Succeed(t) \/ Fail(t) \/ Reject(t))
      BY DEF RecordRunning, RecordAnswer, Write, Succeed, Fail, Reject
    <2>3. ASSUME NEW i \in Jobs, Skip(t, i) \/ Take(t, i) \/ AgentWorks(t, i) PROVE FALSE
      BY <2>3 DEF Skip, Take, AgentWorks
    <2>4. QED
      BY <2>1, <2>2, <2>3 DEF TickStep
  <1>6. QED
    BY <1>1, <1>2, <1>3, <1>4, <1>5 DEF Next, TickStep

\* A tick comes by a job only with a case, and its last job is no exception.
LEMMA CoveredKept ==
    ASSUME TypeOK, TypeOK', Ordered, RunsBegun, RunInserted, Memory, Covered, [Next]_vars
    PROVE  Covered'
  <1>1. Onward
    BY OnwardSteps
  <1> SUFFICES ASSUME NEW t \in Ticks, NEW j \in due, pc'[t] # "idle", j \notin left'[t] \/ pc'[t] = "over"
               PROVE  Evident(t, j)'
    BY <1>1 DEF Covered, Onward
  <1>2. j \in Jobs
    BY DEF TypeOK
  <1>3. CASE pc[t] # "idle" /\ Evident(t, j)
    BY <1>1, <1>2, <1>3, EvidentKept
  <1>4. CASE pc[t] # "idle" /\ j \in left[t] /\ pc[t] # "over"
    <2>1. ASSUME Skip(t, j) PROVE Evident(t, j)'
      <3>1. CASE kind = "function"
        <4>1. Evident(t, j)
          BY <1>2, <1>4, <2>1, <3>1, RememberedEvident DEF Skip, Done
        <4>2. QED
          BY <1>1, <1>2, <1>4, <4>1, EvidentKept
      <3>2. CASE kind # "function"
        <4>1. Evident(t, j)
          BY <2>1, <3>2 DEF Skip, Done, HasRecentRun, Evident
        <4>2. QED
          BY <1>1, <1>2, <1>4, <4>1, EvidentKept
      <3>3. QED
        BY <3>1, <3>2
    <2>2. ASSUME Take(t, j) PROVE Evident(t, j)'
      BY <2>2 DEF Take, Go, TypeOK, Evident, Pending
    <2>3. ASSUME pc'[t] = "over", kind = "function", reasons'[t] # {} PROVE Evident(t, j)'
      BY <1>1, <2>3 DEF Evident, Tried, Onward
    <2>4. ASSUME reasons'[t] \cap {"crash", "statement"} # {} PROVE Evident(t, j)'
      BY <2>4 DEF Evident
    <2>5. \/ Skip(t, j) \/ Take(t, j)
          \/ pc'[t] = "over" /\ kind = "function" /\ reasons'[t] # {}
          \/ reasons'[t] \cap {"crash", "statement"} # {}
      <3>1. ASSUME left'[t] = left[t], pc'[t] # "over" PROVE FALSE
        BY <1>4, <3>1
      <3>2. ASSUME TickStep(t) PROVE \/ Skip(t, j) \/ Take(t, j)
                                     \/ left'[t] = left[t] /\ pc'[t] # "over"
                                     \/ pc'[t] = "over" /\ kind = "function" /\ reasons'[t] # {}
                                     \/ reasons'[t] \cap {"crash", "statement"} # {}
        <4> USE DEF TypeOK, Go, Throw, tick, cron, runs, history
        <4>1. ASSUME NEW r \in Replicas, Tick(t, r) PROVE FALSE
          BY <1>4, <4>1 DEF Tick
        <4>2. CASE End(t)
          BY <1>4, <4>2 DEF End
        <4>3. CASE NoAgent(t) \/ NoSecrets(t) \/ NotInvocable(t)
          <5>1. left'[t] = left[t] /\ pc'[t] \in {"next", "over"}
            BY <4>3 DEF NoAgent, NoSecrets, NotInvocable
          <5>2. pc'[t] = "next" \/ (pc'[t] = "over" /\ kind = "function" /\ reasons'[t] # {})
            BY <4>3, <5>1, ReasonsAdded
          <5>3. QED
            BY <5>1, <5>2
        <4>4. CASE Insert(t) \/ Dispatch(t) \/ GiveUp(t) \/ Answer(t) \/ RecordRunning(t) \/ RecordAnswer(t)
                   \/ Write(t) \/ Succeed(t)
          BY <4>4 DEF Insert, Dispatch, GiveUp, Answer, RecordRunning, RecordAnswer, Write, Succeed
        <4>5. CASE Fail(t)
          <5>1. left'[t] = left[t] /\ pc'[t] \in {"next", "over"}
            BY <4>5 DEF Fail
          <5>2. QED
            BY <4>5, <5>1, ReasonsAdded
        <4>6. CASE Reject(t)
          <5>1. left'[t] = left[t]
            BY <4>6 DEF Reject
          <5>2. QED
            BY <4>6, <5>1, ReasonsAdded
        <4>7. ASSUME NEW i \in Jobs, Skip(t, i) \/ Take(t, i), i # j PROVE FALSE
          <5>1. left'[t] = left[t] \ {i} /\ pc'[t] \in {"next", "taken"}
            BY <4>7 DEF Skip, Take
          <5>2. QED
            BY <1>4, <4>7, <5>1
        <4>8. ASSUME NEW i \in Jobs, AgentWorks(t, i) PROVE left'[t] = left[t] /\ pc'[t] = pc[t]
          BY <4>8 DEF AgentWorks
        <4>9. ASSUME NEW i \in Jobs, Skip(t, i) \/ Take(t, i) PROVE Skip(t, j) \/ Take(t, j)
          <5>1. i = j
            BY <4>7, <4>9
          <5>2. QED
            BY <4>9, <5>1
        <4>10. \/ \E r \in Replicas : Tick(t, r)
               \/ End(t) \/ NoAgent(t) \/ NoSecrets(t) \/ NotInvocable(t) \/ Fail(t) \/ Reject(t)
               \/ Insert(t) \/ Dispatch(t) \/ GiveUp(t) \/ Answer(t) \/ RecordRunning(t) \/ RecordAnswer(t)
               \/ Write(t) \/ Succeed(t)
               \/ \E i \in Jobs : Skip(t, i) \/ Take(t, i)
               \/ \E i \in Jobs : AgentWorks(t, i)
          BY <3>2 DEF TickStep
        <4>11. QED
          BY <1>4, <4>1, <4>2, <4>3, <4>4, <4>5, <4>6, <4>8, <4>9, <4>10
      <3>3. ASSUME NEW u \in Ticks, TickStep(u), u # t PROVE left'[t] = left[t] /\ pc'[t] = pc[t]
        BY <3>3, StepOfOne DEF Still
      <3>4. ASSUME NEW r \in Replicas, Crash(r)
            PROVE  (left'[t] = left[t] /\ pc'[t] = pc[t]) \/ "crash" \in reasons'[t]
        BY <3>4 DEF Crash, TypeOK
      <3>5. CASE NextMinute \/ UNCHANGED vars
        BY <1>4, <3>5 DEF NextMinute, vars, tick
      <3>6. QED
        BY <1>4, <3>1, <3>2, <3>3, <3>4, <3>5 DEF Next, TickStep
    <2>6. QED
      BY <2>1, <2>2, <2>3, <2>4, <2>5
  <1>5. CASE pc[t] = "idle"
    BY <1>1, <1>5, TickCovers
  <1>6. QED
    BY <1>3, <1>4, <1>5 DEF Covered

(* Whose runs *************************************************************)

\* A run is inserted for a job of the name of the one that was due.
Namesakes ==
    /\ \A i \in Jobs : i \in named[i] /\ \A j \in named[i] : named[j] = named[i]
    /\ \A t \in Ticks, j \in Jobs : ran[t][j] \in named[j]

\* Only an insert says whose run it is.
LEMMA NamesakesKept ==
    ASSUME TypeOK, Namesakes, [Next]_vars PROVE Namesakes'
  <1> USE DEF TypeOK, Namesakes
  <1>1. ASSUME NEW t \in Ticks, Insert(t) PROVE Namesakes'
    <2>1. PICK i \in named[job[t]] : ran' = [ran EXCEPT ![t][job[t]] = i]
      BY <1>1 DEF Insert
    <2>2. named' = named
      BY <1>1 DEF Insert, cron
    <2>3. QED
      BY <2>1, <2>2
  <1>2. UNCHANGED <<named, ran>> \/ \E t \in Ticks : Insert(t)
    <2> USE DEF cron, runs
    <2>1. ASSUME NEW t \in Ticks, TickStep(t), ~Insert(t) PROVE UNCHANGED <<named, ran>>
      BY <2>1 DEF TickStep, Tick, End, NoAgent, NotInvocable, NoSecrets, Dispatch, GiveUp, Answer, RecordRunning,
        RecordAnswer, Write, Succeed, Fail, Reject, Skip, Take, AgentWorks
    <2>2. ASSUME NEW r \in Replicas, Crash(r) PROVE UNCHANGED <<named, ran>>
      BY <2>2 DEF Crash
    <2>3. CASE NextMinute \/ UNCHANGED vars
      BY <2>3 DEF NextMinute, vars
    <2>4. QED
      BY <2>1, <2>2, <2>3 DEF Next, TickStep
  <1>3. QED
    BY <1>1, <1>2

(* The invariant ***********************************************************)

IInv ==
    /\ TypeOK /\ RunInserted /\ Claims
    /\ Told /\ RunsTell
    /\ Memory /\ Covered
    /\ Namesakes

\* IInv holds of every behaviour.
LEMMA IInvHolds == Spec => []IInv
  <1>1. Init => IInv
    <2> SUFFICES ASSUME Init PROVE IInv
      OBVIOUS
    <2>1. TypeOK /\ RunInserted
      BY CronAssumption DEF Init, TypeOK, RunInserted, Statuses, Steps, Reasons
    <2>2. Claims
      BY CronAssumption DEF Init, Claims, Ordered, RunsBegun, RowClaims, MemoryClaims, Remembered,
                            Claimed, InProgress
    <2>3. Told /\ RunsTell
      BY <2>1 DEF Init, Told, Tells, RunsTell, AtRun, TypeOK
    <2>4. Memory /\ Covered
      BY DEF Init, Memory, Covered
    <2>5. Namesakes
      BY DEF Init, Namesakes
    <2>6. QED
      BY <2>1, <2>2, <2>3, <2>4, <2>5 DEF IInv
  <1>2. IInv /\ [Next]_vars => IInv'
    <2> SUFFICES ASSUME IInv, [Next]_vars PROVE IInv'
      OBVIOUS
    <2>1. TypeOK' /\ RunInserted'
      BY TypeKept, RunInsertedKept DEF IInv
    <2>2. Claims'
      BY <2>1, QuietSteps, QuietKeeps, TickKeeps, TakeKeeps, CrashKeeps DEF IInv
    <2>3. Told' /\ RunsTell'
      BY RunsTellKept DEF IInv
    <2>4. Memory' /\ Covered'
      BY <2>1, MemoryKept, CoveredKept DEF IInv, Claims
    <2>5. Namesakes'
      BY NamesakesKept DEF IInv
    <2>6. QED
      BY <2>1, <2>2, <2>3, <2>4, <2>5 DEF IInv
  <1>3. QED
    BY <1>1, <1>2, PTL DEF Spec

(* The theorems ************************************************************)

\* Ticks of any number of replicas, however they overlap, run each job once a
\* minute, except where checks of the database race or a restart, a failover
\* or an older tick has changed the memory: the cases RunsOnce names.
THEOREM JobsRunOnce == Spec => []RunsOnce
  <1>1. IInv => RowsOnce
    BY DEF IInv, Claims, RowClaims, Claimed, RowsOnce
  <1>2. IInv => MemoryOnce
    <2> SUFFICES ASSUME IInv, kind = "function", NEW t \in Ticks, NEW u \in Ticks,
                        began[t] = began[u], owner[t] = owner[u], NEW i \in Jobs,
                        NEW j \in RunsOf(t, i), NEW k \in RunsOf(u, i)
                 PROVE  \/ t = u /\ j = k
                        \/ owner[t] \in reset
                        \/ \E v \in met[t] \cup met[u] : owner[v] = owner[t] /\ began[v] # began[t]
                        \/ j # k /\ k \in named[j]
      BY DEF MemoryOnce
    <2>1. CASE j = k
      BY <2>1 DEF IInv, Claims, MemoryClaims, Claimed, Other, RunsOf
    <2>2. CASE j # k
      <3>1. i \in named[j] /\ i \in named[k] /\ j \in Jobs /\ k \in Jobs
        BY DEF IInv, Namesakes, RunsOf
      <3>2. named[i] = named[j] /\ named[i] = named[k] /\ k \in named[k]
        BY <3>1 DEF IInv, Namesakes
      <3>3. QED
        BY <2>2, <3>2
    <2>3. QED
      BY <2>1, <2>2
  <1>3. IInv => RunsOnce
    BY <1>1, <1>2 DEF RunsOnce
  <1>4. QED
    BY <1>3, IInvHolds, PTL

\* RunsTell: what the runs in the database say of the work, whatever fails on the way.
THEOREM RunsAreTrue == Spec => []RunsTell
  <1>1. IInv => RunsTell
    BY DEF IInv
  <1>2. QED
    BY <1>1, IInvHolds, PTL

\* DueServed: a tick that is over has run its due jobs, or there is one of the
\* named reasons.
THEOREM DueJobsServed == Spec => []DueServed
  <1>1. IInv => DueServed
    <2> SUFFICES ASSUME IInv, NEW t \in Ticks, pc[t] = "over", NEW j \in due
                 PROVE  \/ \E u \in Ticks : RunsOf(u, j) # {} /\ began[u] >= began[t]
                        \/ \E u \in Ticks, i \in named[j] \ {j} :
                              j \in RunsOf(u, i) /\ began[u] >= began[t]
                        \/ reasons[t] \cap {"crash", "statement"} # {}
                        \/ <<t, j>> \in unserved
                        \/ kind = "function" /\ \E u \in Ticks :
                              owner[u] = owner[t] /\ began[u] = began[t] /\ (reasons[u] # {} \/ u \in InProgress)
      BY DEF DueServed
    <2>1. TypeOK /\ Covered
      BY DEF IInv
    <2>2. Evident(t, j) /\ ~Pending(t, j)
      BY <2>1 DEF Covered, Pending
    <2>3. ASSUME NEW u \in Ticks, owner[u] = owner[t], began[u] = began[t], status[u][j] # "none"
          PROVE  began[u] >= began[t]
      BY <2>1, <2>3, CronAssumption DEF TypeOK
    <2>4. \A u \in Ticks : Pending(u, j) => u \in InProgress
      BY DEF Pending, InProgress
    <2>5. ASSUME NEW u \in Ticks, status[u][j] # "none", began[u] >= began[t]
          PROVE  \/ \E v \in Ticks : RunsOf(v, j) # {} /\ began[v] >= began[t]
                 \/ \E v \in Ticks, i \in named[j] \ {j} :
                       j \in RunsOf(v, i) /\ began[v] >= began[t]
      <3>1. ran[u][j] \in named[j] /\ j \in RunsOf(u, ran[u][j])
        BY <2>1, <2>5 DEF IInv, Namesakes, RunsOf, TypeOK
      <3>2. QED
        BY <2>5, <3>1
    <2>6. QED
      BY <2>2, <2>3, <2>4, <2>5 DEF Evident, Tried
  <1>2. QED
    BY <1>1, IInvHolds, PTL

\* The variables keep their types.
THEOREM CronTyped == Spec => []TypeOK
  <1>1. IInv => TypeOK
    BY DEF IInv
  <1>2. QED
    BY <1>1, IInvHolds, PTL
================================================================================
