-------------------------- MODULE PlaybookRunProofs --------------------------
(***************************************************************************)
(* What a playbook run keeps to, for any playbook, requests and crashes.   *)
(* Three layers: every plan about, stored or in hand, is the playbook with *)
(* rescue blocks put in (Shape); what lies before its cursor was started   *)
(* (Progressed); and as long as no pause is approved twice, one thread at  *)
(* most works on the run, and the row pairs a gate with its plan (Single). *)
(* With operators who wait, on top of that, what is left of the plan at    *)
(* work is what GatedPlan has still to do (Serial, Phases).                *)
(***************************************************************************)
EXTENDS SerialPlaybookRun, SequenceTheorems, WellFoundedInduction, TLAPS

\* Every task of the playbook is in the plan, in the order of the playbook.
Whole(p) == \A k \in DOMAIN Playbook : \E i \in DOMAIN p.tasks : p.tasks[i] = Playbook[k]
InOrder(p) ==
    \A i, j \in DOMAIN p.tasks, k, n \in DOMAIN Playbook :
        p.tasks[i] = Playbook[k] /\ p.tasks[j] = Playbook[n] => (i < j <=> k < n)
Shaped(p) == p \in Plans /\ Whole(p) /\ InOrder(p)

Shape ==
    /\ \A t \in Threads : Shaped(plan[t])
    /\ row.pendingPlan # NoPlan => Shaped(row.pendingPlan)

AtStep ==
    \A t \in Threads :
        /\ pc[t] \in {"executing", "failing", "pausing"} => plan[t].cursor \in DOMAIN plan[t].tasks
        /\ pc[t] \in {"executing", "failing"} => ~IsGate(Current(t))
        /\ pc[t] = "executing" => started[Current(t)] > 0
        /\ pc[t] = "failing" => Current(t) \in unannounced
        /\ pc[t] = "pausing" => IsGate(Current(t))

\* At work on a task that does not end the run by what it does.
Doing(t) == pc[t] = "executing" \/ (pc[t] = "failing" /\ Tolerated(Current(t)))

\* A task is tried when it is started, or when it failed before and that is tolerated.
Tried == [task \in Tasks |->
            IF task \in unannounced /\ Tolerated(task) THEN started[task] + 1 ELSE started[task]]

InPlaybook(task) == \E k \in DOMAIN Playbook : task = Playbook[k]

\* Nothing is left to do for a task, s[task] being how often it was tried.
Done(s, task) == Def[task].when \/ IsGate(task) \/ s[task] > 0

\* The tasks of the playbook before position j of the plan were tried.
DoneBefore(s, p, j) ==
    \A i \in DOMAIN p.tasks : i < j /\ InPlaybook(p.tasks[i]) => Done(s, p.tasks[i])
Worked(s, p) ==
    /\ DoneBefore(s, p, p.cursor)
    /\ \A j \in DOMAIN p.tasks : ~InPlaybook(p.tasks[j]) => DoneBefore(s, p, j)

Names(task, name) == IsGate(task) /\ Def[task].name = name

\* A gate of that name was reached, unless the playbook has none.
Reached(s, name) ==
    \A k \in DOMAIN Playbook : Names(Playbook[k], name) =>
        \E n \in DOMAIN Playbook :
            /\ Names(Playbook[n], name)
            /\ \A m \in DOMAIN Playbook : m < n => Done(s, Playbook[m])

AllDone(s) == \A k \in DOMAIN Playbook : Done(s, Playbook[k])

\* No gate of a rescue block has the name of a gate of the playbook.
RescueGatesNamedApart ==
    \A task \in Tasks, k \in DOMAIN Playbook :
        IsGate(task) /\ ~InPlaybook(task) => ~Names(Playbook[k], Def[task].name)

Progressed ==
    /\ \A t \in Threads : Worked(Tried, plan[t]) /\ (verdict[t] = "succeeded" => AllDone(Tried))
    /\ row.pendingPlan # NoPlan => Worked(Tried, row.pendingPlan)
    /\ Reached(Tried, row.gateStepId)
    /\ row.status = "succeeded" => AllDone(Tried)

AtWork == {"dispatching", "tasks", "executing", "failing", "pausing"}
Active(t) == pc[t] \in AtWork \cup {"approved", "resuming"}
Ending(t) == pc[t] \in {"completing", "completed"}
Awaiting == row.status = "awaiting_approval"
Unpaused == row.gateStepId = NoGate /\ row.pendingPlan = NoPlan

GatesBefore(names, p) ==
    \A i \in DOMAIN p.tasks :
        i < p.cursor /\ IsGate(p.tasks[i]) /\ ~Def[p.tasks[i]].when => Def[p.tasks[i]].name \in names

\* The row pairs a gate with the plan that stands at it.
Paired ==
    /\ row.pendingPlan # NoPlan
    /\ row.pendingPlan.cursor \in DOMAIN row.pendingPlan.tasks
    /\ Names(row.pendingPlan.tasks[row.pendingPlan.cursor], row.gateStepId)

Single ==
    ~overlapped =>
        /\ \A t, u \in Threads : Active(t) /\ Active(u) => t = u
        /\ \A t, u \in Threads : ~(Active(t) /\ Ending(u))
        /\ \A t \in Threads : pc[t] \in AtWork => ~Awaiting /\ Unpaused
        /\ \A t \in Threads : Ending(t) => ~Awaiting
        /\ \A t \in Threads : pc[t] = "pausing" =>
              /\ loaded[t].status # "awaiting_approval"
              /\ loaded[t].gateStepId = NoGate /\ loaded[t].pendingPlan = NoPlan
        /\ \A t \in Threads : pc[t] = "resuming" =>
              /\ Awaiting => loaded[t].status = "awaiting_approval"
              /\ loaded[t].gateStepId = row.gateStepId /\ loaded[t].pendingPlan = row.pendingPlan
        /\ Awaiting => Paired /\ GatesBefore(approved, row.pendingPlan)
        /\ \A t \in Threads : Active(t) => GatesBefore(approved, plan[t])

IInv == TypeOK /\ Shape /\ AtStep /\ Single /\ GatesHold

(* Plans *******************************************************************)

\* A set of naturals has a least element.
LEMMA Minimum ==
    ASSUME NEW S \in SUBSET Nat, S # {}
    PROVE  \E m \in S : \A n \in S : m <= n
  <1> DEFINE R == OpToRel(<, Nat)
  <1>1. IsWellFoundedOn(R, Nat)
    BY NatLessThanWellFounded
  <1>2. \A m, n \in S : <<n, m>> \in R <=> n < m
    BY DEF OpToRel
  <1> HIDE DEF R
  <1>3. PICK m \in S : \A n \in S : <<n, m>> \notin R
    BY <1>1, WFMin
  <1>4. \A n \in S : ~(n < m)
    BY <1>2, <1>3
  <1>5. QED
    BY <1>4

\* Three sequences after each other.
LEMMA Joined ==
    ASSUME NEW S, NEW a \in Seq(S), NEW b \in Seq(S), NEW c \in Seq(S)
    PROVE  /\ (a \o b) \o c \in Seq(S)
           /\ Len((a \o b) \o c) = Len(a) + Len(b) + Len(c)
           /\ \A i \in 1 .. Len(a) + Len(b) + Len(c) :
                 ((a \o b) \o c)[i] = IF i <= Len(a) THEN a[i]
                                     ELSE IF i <= Len(a) + Len(b) THEN b[i - Len(a)]
                                     ELSE c[i - (Len(a) + Len(b))]
  <1>1. Len(a) \in Nat /\ Len(b) \in Nat /\ Len(c) \in Nat
    BY LenProperties
  <1>2. /\ a \o b \in Seq(S) /\ Len(a \o b) = Len(a) + Len(b)
        /\ \A i \in 1 .. Len(a) + Len(b) :
              (a \o b)[i] = IF i <= Len(a) THEN a[i] ELSE b[i - Len(a)]
    BY ConcatProperties
  <1> DEFINE ab == a \o b
  <1> HIDE DEF ab
  <1>3. /\ ab \o c \in Seq(S) /\ Len(ab \o c) = Len(ab) + Len(c)
        /\ \A i \in 1 .. Len(ab) + Len(c) :
              (ab \o c)[i] = IF i <= Len(ab) THEN ab[i] ELSE c[i - Len(ab)]
    BY <1>2, ConcatProperties DEF ab
  <1>4. Len(ab) = Len(a) + Len(b)
    BY <1>2 DEF ab
  <1>5. \A i \in 1 .. Len(a) + Len(b) : ab[i] = IF i <= Len(a) THEN a[i] ELSE b[i - Len(a)]
    BY <1>2 DEF ab
  <1>6. \A i \in 1 .. Len(a) + Len(b) + Len(c) :
           (ab \o c)[i] = IF i <= Len(a) THEN a[i]
                          ELSE IF i <= Len(a) + Len(b) THEN b[i - Len(a)]
                          ELSE c[i - (Len(a) + Len(b))]
    BY <1>1, <1>3, <1>4, <1>5
  <1>7. QED
    BY <1>3, <1>4, <1>6 DEF ab

\* The rescue block goes in between position k and the rest.
LEMMA RescuedTasks ==
    ASSUME NEW tasks \in Seq(Tasks), NEW k \in DOMAIN tasks
    PROVE  LET rescue == Def[tasks[k]].rescue
               m == Len(rescue)
           IN  /\ rescue \in Seq(Tasks) /\ m \in Nat
               /\ Rescued(tasks, k) \in Seq(Tasks)
               /\ DOMAIN Rescued(tasks, k) = 1 .. Len(tasks) + m
               /\ \A i \in 1 .. Len(tasks) + m :
                     Rescued(tasks, k)[i] = IF i <= k THEN tasks[i]
                                           ELSE IF i <= k + m THEN rescue[i - k] ELSE tasks[i - m]
  <1> DEFINE rescue == Def[tasks[k]].rescue
             m == Len(rescue)
             first == SubSeq(tasks, 1, k)
             rest == SubSeq(tasks, k + 1, Len(tasks))
  <1>1. rescue \in Seq(Tasks) /\ m \in Nat
    BY TasksAssumption
  <1>2. DOMAIN tasks = 1 .. Len(tasks) /\ Len(tasks) \in Nat
    OBVIOUS
  <1>3. /\ first \in Seq(Tasks) /\ Len(first) = k
        /\ \A i \in 1 .. k : first[i] = tasks[i]
    BY <1>2, SubSeqProperties
  <1>4. /\ rest \in Seq(Tasks) /\ Len(rest) = Len(tasks) - k
        /\ \A i \in 1 .. Len(tasks) - k : rest[i] = tasks[k + i]
    BY <1>2, SubSeqProperties
  <1>5. Rescued(tasks, k) = (first \o rescue) \o rest
    BY DEF Rescued
  <1> HIDE DEF rescue, first, rest
  <1>6. /\ Rescued(tasks, k) \in Seq(Tasks)
        /\ Len(Rescued(tasks, k)) = k + m + (Len(tasks) - k)
        /\ \A i \in 1 .. k + m + (Len(tasks) - k) :
              Rescued(tasks, k)[i] = IF i <= k THEN first[i]
                                    ELSE IF i <= k + m THEN rescue[i - k] ELSE rest[i - (k + m)]
    <2>1. first \in Seq(Tasks)
      BY <1>3
    <2>2. rescue \in Seq(Tasks)
      BY <1>1
    <2>3. rest \in Seq(Tasks)
      BY <1>4
    <2> DEFINE r == (first \o rescue) \o rest
    <2>4. /\ r \in Seq(Tasks)
          /\ Len(r) = Len(first) + Len(rescue) + Len(rest)
          /\ \A i \in 1 .. Len(first) + Len(rescue) + Len(rest) :
                r[i] = IF i <= Len(first) THEN first[i]
                      ELSE IF i <= Len(first) + Len(rescue) THEN rescue[i - Len(first)]
                      ELSE rest[i - (Len(first) + Len(rescue))]
      BY ONLY <2>1, <2>2, <2>3, Joined
    <2> HIDE DEF r
    <2>5. Rescued(tasks, k) = r
      BY <1>5 DEF r
    <2>6. QED
      BY <1>3, <1>4, <2>4, <2>5
  <1> HIDE DEF m
  <1>7. k + m + (Len(tasks) - k) = Len(tasks) + m
    BY <1>1, <1>2
  <1>8. ASSUME NEW i \in 1 .. Len(tasks) + m
        PROVE  Rescued(tasks, k)[i] = IF i <= k THEN tasks[i]
                                     ELSE IF i <= k + m THEN rescue[i - k] ELSE tasks[i - m]
    <2>1. CASE i <= k
      BY <1>2, <1>3, <1>6, <1>7, <2>1
    <2>2. CASE k < i /\ i <= k + m
      BY <1>2, <1>6, <1>7, <2>2
    <2>3. CASE k + m < i
      <3>1. i - (k + m) \in 1 .. Len(tasks) - k /\ k + (i - (k + m)) = i - m
        BY <1>1, <1>2, <2>3
      <3>2. Rescued(tasks, k)[i] = rest[i - (k + m)]
        BY <1>1, <1>2, <1>6, <1>7, <2>3
      <3>3. QED
        BY <1>1, <1>2, <1>4, <2>3, <3>1, <3>2
    <2>4. QED
      BY <1>1, <1>2, <2>1, <2>2, <2>3
  <1>9. DOMAIN Rescued(tasks, k) = 1 .. Len(tasks) + m
    BY <1>6, <1>7
  <1>10. QED
    BY <1>1, <1>6, <1>8, <1>9 DEF rescue, m

\* An approval moves the cursor past the first gate of the name, or past the
\* gate at the cursor, or not at all.
LEMMA Advanced ==
    ASSUME NEW p \in Plans, NEW gate,
           NEW q, q = AdvancePastApprovedGate(p, gate)
    PROVE  \/ /\ \A i \in DOMAIN p.tasks : ~Names(p.tasks[i], gate)
              /\ q = p \/ (IsGate(p.tasks[p.cursor]) /\ q = Plan(p.tasks, p.cursor + 1))
           \/ \E j \in DOMAIN p.tasks :
                 /\ Names(p.tasks[j], gate)
                 /\ \A i \in DOMAIN p.tasks : i < j => ~Names(p.tasks[i], gate)
                 /\ q = Plan(p.tasks, j + 1)
  <1> DEFINE named == {k \in DOMAIN p.tasks : IsGate(p.tasks[k]) /\ Def[p.tasks[k]].name = gate}
  <1>1. CASE named = {}
    <2>1. q = IF IsGate(p.tasks[p.cursor]) THEN Plan(p.tasks, p.cursor + 1) ELSE p
      BY <1>1 DEF AdvancePastApprovedGate
    <2>2. \A i \in DOMAIN p.tasks : ~Names(p.tasks[i], gate)
      BY <1>1 DEF Names
    <2>3. q = p \/ (IsGate(p.tasks[p.cursor]) /\ q = Plan(p.tasks, p.cursor + 1))
      BY <2>1
    <2>4. QED
      BY <2>2, <2>3
  <1>2. CASE named # {}
    <2>1. named \in SUBSET Nat
      BY DEF Plans
    <2>2. \E k \in named : \A n \in named : k <= n
      BY <1>2, <2>1, Minimum
    <2> DEFINE j == CHOOSE k \in named : \A n \in named : k <= n
    <2>3. j \in named /\ \A n \in named : j <= n
      BY <2>2
    <2>4. q = Plan(p.tasks, j + 1)
      BY <1>2 DEF AdvancePastApprovedGate
    <2> HIDE DEF j
    <2>5. \A i \in DOMAIN p.tasks : i < j => i \notin named
      BY <2>1, <2>3
    <2>6. QED
      BY <2>3, <2>4, <2>5 DEF Names
  <1>3. QED
    BY <1>1, <1>2

(* Types *******************************************************************)

\* The plan after a rescue is a plan.
LEMMA RescuedIsPlan ==
    ASSUME NEW p \in Plans, p.cursor \in DOMAIN p.tasks
    PROVE  Plan(Rescued(p.tasks, p.cursor), p.cursor + 1) \in Plans
  BY RescuedTasks DEF Plans, Plan

\* So is the plan after an approval.
LEMMA AdvancedIsPlan ==
    ASSUME NEW p \in Plans, NEW gate
    PROVE  AdvancePastApprovedGate(p, gate) \in Plans
  <1> DEFINE q == AdvancePastApprovedGate(p, gate)
  <1>1. q = p \/ q = Plan(p.tasks, p.cursor + 1) \/ \E j \in DOMAIN p.tasks : q = Plan(p.tasks, j + 1)
    BY Advanced
  <1> HIDE DEF q
  <1>2. q \in Plans
    BY <1>1 DEF Plans, Plan
  <1>3. QED
    BY <1>2 DEF q

\* An update keeps the row a row.
LEMMA UpdatedIsRow ==
    ASSUME NEW t \in Threads, row \in Rows, NEW new \in Rows
    PROVE  Updated(t, new) \in Rows
  BY DEF Updated, Rows

\* Each step keeps the types.
LEMMA TypeKept ==
    TypeOK /\ AtStep /\ [Next]_vars => TypeOK'
  <1> SUFFICES ASSUME TypeOK, AtStep, [Next]_vars PROVE TypeOK'
    OBVIOUS
  <1>a. StartedRow \in Rows
    BY DEF StartedRow, Rows, Statuses
  <1>b. \A t \in Threads : plan[t] \in Plans /\ (~AtEnd(t) => plan[t].cursor \in DOMAIN plan[t].tasks /\ Current(t) \in Tasks)
    BY DEF TypeOK, Plans, AtEnd, Current
  <1>c. \A t \in Threads : NextTask(t) => plan' \in [Threads -> Plans]
    BY DEF TypeOK, NextTask, SetPlan, Plan, Plans
  <1> USE DEF Steps, history, recordVars, Goto
  <1>1. CASE Dispatch
    BY <1>1 DEF TypeOK, Dispatch, DispatchFails, DispatchThrows, DispatchSucceeds, CompleteRun
  <1>2. ASSUME NEW t \in Threads, SkipTask(t) PROVE TypeOK'
    BY <1>2, <1>c DEF TypeOK, SkipTask
  <1>3. ASSUME NEW t \in Threads, FindPaused(t) PROVE TypeOK'
    BY <1>3 DEF TypeOK, FindPaused, FindRow
  <1>4. ASSUME NEW t \in Threads, UpdatePaused(t) PROVE TypeOK'
    <2>1. PausedRow(t, plan[t]) \in Rows
      <3>1. plan[t] \in Plans /\ plan[t].cursor \in DOMAIN plan[t].tasks
        BY <1>4, <1>b DEF AtStep, UpdatePaused
      <3>2. Current(t) \in Tasks
        BY <3>1 DEF Current, Plans
      <3>3. Def[Current(t)].name \in STRING
        BY <3>2, TasksAssumption
      <3>4. QED
        BY <3>1, <3>3 DEF PausedRow, Rows, Statuses
    <2>2. row' \in Rows
      <3>1. CASE UpdateRow(t, PausedRow(t, plan[t]))
        BY <2>1, <3>1, UpdatedIsRow DEF UpdateRow, TypeOK
      <3>2. CASE row' = [Updated(t, PausedRow(t, plan[t])) EXCEPT !.pendingPlan = plan[t]]
        <4>1. Updated(t, PausedRow(t, plan[t])) \in Rows
          BY <2>1, UpdatedIsRow DEF TypeOK
        <4>2. plan[t] \in Plans
          BY <1>b
        <4>3. QED
          BY <3>2, <4>1, <4>2 DEF Rows
      <3>3. QED
        BY <1>4, <3>1, <3>2 DEF UpdatePaused, PauseAt
    <2>3. QED
      BY <1>4, <2>2 DEF UpdatePaused, TypeOK
  <1>5. ASSUME NEW t \in Threads, StartTask(t) PROVE TypeOK'
    <2>1. started' \in [Tasks -> Nat]
      <3>1. Current(t) \in Tasks
        BY <1>5, <1>b DEF StartTask
      <3>2. started \in [Tasks -> Nat]
        BY DEF TypeOK
      <3>3. started' = [started EXCEPT ![Current(t)] = started[Current(t)] + 1]
        BY <1>5 DEF StartTask
      <3>4. QED
        BY <3>1, <3>2, <3>3
    <2>2. pc' \in [Threads -> Steps]
      BY <1>5 DEF TypeOK, StartTask
    <2>3. QED
      BY <1>5, <2>1, <2>2 DEF TypeOK, StartTask
  <1>5a. ASSUME NEW t \in Threads, AnnounceFails(t) PROVE TypeOK'
    <2>1. Current(t) \in Tasks
      BY <1>5a, <1>b DEF AnnounceFails
    <2>2. QED
      BY <1>5a, <2>1 DEF TypeOK, AnnounceFails
  <1>6. ASSUME NEW t \in Threads, TaskSucceeds(t) PROVE TypeOK'
    BY <1>6, <1>c DEF TypeOK, TaskSucceeds
  <1>7. ASSUME NEW t \in Threads, TaskFails(t) PROVE TypeOK'
    <2>1. plan' \in [Threads -> Plans]
      <3>1. CASE SetPlan(t, Rescued(plan[t].tasks, plan[t].cursor), plan[t].cursor + 1)
        <4>1. Plan(Rescued(plan[t].tasks, plan[t].cursor), plan[t].cursor + 1) \in Plans
          BY <1>7, <1>b, RescuedIsPlan DEF AtStep, TaskFails
        <4>2. QED
          BY <3>1, <4>1 DEF SetPlan, TypeOK
      <3>2. CASE UNCHANGED plan
        BY <3>2 DEF TypeOK
      <3>3. QED
        BY <1>7, <1>c, <3>1, <3>2 DEF TaskFails
    <2>2. pc' \in [Threads -> Steps] /\ verdict' \in [Threads -> {"succeeded", "failed"}]
      BY <1>7 DEF TaskFails, CompleteRun, TypeOK
    <2>3. QED
      BY <1>7, <2>1, <2>2 DEF TaskFails, TypeOK
  <1>8. ASSUME NEW t \in Threads, FinishPlan(t) PROVE TypeOK'
    BY <1>8 DEF TypeOK, FinishPlan, CompleteRun
  <1>9. ASSUME NEW t \in Threads, FindResumed(t) PROVE TypeOK'
    BY <1>9 DEF TypeOK, FindResumed, FindRow
  <1>10. ASSUME NEW t \in Threads, UpdateResumed(t) PROVE TypeOK'
    <2>1. row' \in Rows
      BY <1>10, <1>a, UpdatedIsRow DEF UpdateResumed, UpdateRow, TypeOK
    <2>2. QED
      BY <1>10, <2>1 DEF TypeOK, UpdateResumed
  <1>11. ASSUME NEW t \in Threads, Complete(t) \/ Abort(t), UNCHANGED <<plan, history>> PROVE TypeOK'
    <2>1. CASE FindCompleted(t) \/ FindAborted(t)
      BY <1>11, <2>1 DEF TypeOK, FindCompleted, FindAborted, FindRow
    <2>2. CASE UpdateCompleted(t) \/ UpdateAborted(t)
      <3>1. [status |-> verdict[t], gateStepId |-> loaded[t].gateStepId,
             pendingPlan |-> loaded[t].pendingPlan] \in Rows
        BY DEF TypeOK, Rows, Statuses
      <3>2. row' \in Rows
        BY <2>2, <3>1, UpdatedIsRow DEF UpdateCompleted, UpdateAborted, UpdateRow, TypeOK
      <3>3. loaded' \in [Threads -> Rows] /\ verdict' \in [Threads -> {"succeeded", "failed"}]
            /\ pc' \in [Threads -> Steps]
        <4>1. CASE UpdateCompleted(t)
          BY <4>1, <1>a DEF UpdateCompleted, Return, TypeOK
        <4>2. CASE UpdateAborted(t)
          BY <4>2, <1>a DEF UpdateAborted, Return, TypeOK
        <4>3. QED
          BY <2>2, <4>1, <4>2
      <3>4. QED
        BY <1>11, <3>2, <3>3 DEF TypeOK
    <2>3. QED
      BY <1>11, <2>1, <2>2 DEF Complete, Abort
  <1>12. ASSUME NEW t \in Requests, Approve(t) PROVE TypeOK'
    <2>1. plan' \in [Threads -> Plans]
      <3>1. row.pendingPlan \in Plans
        BY <1>12 DEF Approve, TypeOK, Rows
      <3>2. AdvancePastApprovedGate(row.pendingPlan, row.gateStepId) \in Plans
        BY <3>1, AdvancedIsPlan
      <3>3. QED
        BY <1>12, <3>2 DEF Approve, TypeOK
    <2>2. overlapped' \in BOOLEAN
      BY <1>12 DEF Approve, TypeOK
    <2>3. pc' \in [Threads -> Steps] /\ approved' \subseteq STRING \cup {NoGate}
      BY <1>12 DEF Approve, TypeOK, Rows
    <2>4. QED
      BY <1>12, <2>1, <2>2, <2>3 DEF Approve, TypeOK
  <1>13. ASSUME NEW t \in Requests, AbortRun(t), UNCHANGED <<plan, history>> PROVE TypeOK'
    BY <1>13 DEF TypeOK, AbortRun
  <1>14. ASSUME NEW r \in Replicas, Crash(r) PROVE TypeOK'
    BY <1>14 DEF TypeOK, Crash
  <1>15. CASE UNCHANGED vars
    BY <1>15 DEF TypeOK, vars
  <1>16. QED
    BY <1>1, <1>2, <1>3, <1>4, <1>5, <1>5a, <1>6, <1>7, <1>8, <1>9, <1>10, <1>11, <1>12, <1>13, <1>14, <1>15
      DEF Next, Step, ExecutePlan, ContinueRun, Request

(* The shape of the plans **************************************************)

\* What a rescue makes of a plan: the tasks of the playbook keep their order.
LEMMA RescuedTasksOfPlaybook ==
    ASSUME NEW p \in Plans, p.cursor \in DOMAIN p.tasks
    PROVE  LET q == Plan(Rescued(p.tasks, p.cursor), p.cursor + 1)
               m == Len(Def[p.tasks[p.cursor]].rescue)
           IN  /\ m \in Nat
               /\ \A i \in DOMAIN p.tasks :
                     \/ i <= p.cursor /\ i \in DOMAIN q.tasks /\ q.tasks[i] = p.tasks[i]
                     \/ i > p.cursor /\ i + m \in DOMAIN q.tasks /\ q.tasks[i + m] = p.tasks[i]
               /\ \A i \in DOMAIN q.tasks :
                     \/ i <= p.cursor /\ i \in DOMAIN p.tasks /\ q.tasks[i] = p.tasks[i]
                     \/ i > p.cursor /\ i <= p.cursor + m /\ ~InPlaybook(q.tasks[i])
                     \/ i > p.cursor + m /\ i - m \in DOMAIN p.tasks /\ q.tasks[i] = p.tasks[i - m]
  <1> DEFINE c == p.cursor
             new == Rescued(p.tasks, c)
             rescue == Def[p.tasks[c]].rescue
             m == Len(rescue)
             n == Len(p.tasks)
  <1>1. p.tasks \in Seq(Tasks) /\ c \in Nat /\ n \in Nat /\ DOMAIN p.tasks = 1 .. n
    BY DEF Plans
  <1>2. /\ rescue \in Seq(Tasks) /\ m \in Nat /\ DOMAIN new = 1 .. n + m
        /\ \A i \in 1 .. n + m :
              new[i] = IF i <= c THEN p.tasks[i] ELSE IF i <= c + m THEN rescue[i - c] ELSE p.tasks[i - m]
    BY <1>1, RescuedTasks
  <1>3. p.tasks[c] \in Tasks /\ DOMAIN rescue = 1 .. m
    BY <1>1, <1>2
  <1>4. \A i \in DOMAIN rescue : ~InPlaybook(rescue[i])
    BY <1>3, OccurrencesAssumption DEF InPlaybook
  <1> HIDE DEF new, rescue, n
  <1>5. \A i \in 1 .. n :
           \/ i <= c /\ i \in DOMAIN new /\ new[i] = p.tasks[i]
           \/ i > c /\ i + m \in DOMAIN new /\ new[i + m] = p.tasks[i]
    <2> HIDE DEF m
    <2> SUFFICES ASSUME NEW i \in 1 .. n
                 PROVE  \/ i <= c /\ i \in DOMAIN new /\ new[i] = p.tasks[i]
                        \/ i > c /\ i + m \in DOMAIN new /\ new[i + m] = p.tasks[i]
      OBVIOUS
    <2>1. i \in 1 .. n + m /\ i + m \in 1 .. n + m /\ (i + m) - m = i
      BY <1>1, <1>2
    <2>2. QED
      BY <1>1, <1>2, <2>1
  <1>6. \A i \in 1 .. n + m :
           \/ i <= c /\ i \in 1 .. n /\ new[i] = p.tasks[i]
           \/ i > c /\ i <= c + m /\ ~InPlaybook(new[i])
           \/ i > c + m /\ i - m \in 1 .. n /\ new[i] = p.tasks[i - m]
    <2> HIDE DEF m
    <2> SUFFICES ASSUME NEW i \in 1 .. n + m
                 PROVE  \/ i <= c /\ i \in 1 .. n /\ new[i] = p.tasks[i]
                        \/ i > c /\ i <= c + m /\ ~InPlaybook(new[i])
                        \/ i > c + m /\ i - m \in 1 .. n /\ new[i] = p.tasks[i - m]
      OBVIOUS
    <2>1. CASE i <= c
      BY <1>1, <1>2, <2>1
    <2>2. CASE i > c /\ i <= c + m
      <3>1. i - c \in 1 .. m /\ new[i] = rescue[i - c]
        BY <1>1, <1>2, <2>2
      <3>2. QED
        BY <1>3, <1>4, <2>2, <3>1 DEF m
    <2>3. CASE i > c + m
      BY <1>1, <1>2, <2>3
    <2>4. QED
      BY <1>1, <1>2, <2>1, <2>2, <2>3
  <1>7. Plan(new, c + 1).tasks = new
    BY DEF Plan
  <1>8. QED
    BY <1>1, <1>2, <1>5, <1>6, <1>7 DEF new, rescue

\* A rescue keeps the shape.
LEMMA RescuedShaped ==
    ASSUME NEW p, Shaped(p), p.cursor \in DOMAIN p.tasks
    PROVE  Shaped(Plan(Rescued(p.tasks, p.cursor), p.cursor + 1))
  <1> DEFINE q == Plan(Rescued(p.tasks, p.cursor), p.cursor + 1)
             m == Len(Def[p.tasks[p.cursor]].rescue)
  <1>1. p \in Plans /\ q \in Plans
    BY RescuedIsPlan DEF Shaped
  <1>2. /\ m \in Nat
        /\ \A i \in DOMAIN p.tasks :
              \/ i <= p.cursor /\ i \in DOMAIN q.tasks /\ q.tasks[i] = p.tasks[i]
              \/ i > p.cursor /\ i + m \in DOMAIN q.tasks /\ q.tasks[i + m] = p.tasks[i]
        /\ \A i \in DOMAIN q.tasks :
              \/ i <= p.cursor /\ i \in DOMAIN p.tasks /\ q.tasks[i] = p.tasks[i]
              \/ i > p.cursor /\ i <= p.cursor + m /\ ~InPlaybook(q.tasks[i])
              \/ i > p.cursor + m /\ i - m \in DOMAIN p.tasks /\ q.tasks[i] = p.tasks[i - m]
    BY <1>1, RescuedTasksOfPlaybook
  <1>3. DOMAIN p.tasks \subseteq Nat /\ DOMAIN q.tasks \subseteq Nat /\ p.cursor \in Nat
    BY <1>1 DEF Plans
  <1> HIDE DEF q, m
  <1>4. Whole(q)
    BY <1>2 DEF Shaped, Whole
  <1>5. ASSUME NEW i \in DOMAIN q.tasks, NEW j \in DOMAIN q.tasks, NEW k \in DOMAIN Playbook,
               NEW n \in DOMAIN Playbook, q.tasks[i] = Playbook[k], q.tasks[j] = Playbook[n]
        PROVE  i < j <=> k < n
    <2>1. InPlaybook(q.tasks[i]) /\ InPlaybook(q.tasks[j])
      BY <1>5 DEF InPlaybook
    <2>2. PICK a \in DOMAIN p.tasks :
             /\ p.tasks[a] = Playbook[k]
             /\ (i <= p.cursor /\ a = i) \/ (i > p.cursor + m /\ a = i - m)
      BY <1>2, <1>5, <2>1
    <2>3. PICK b \in DOMAIN p.tasks :
             /\ p.tasks[b] = Playbook[n]
             /\ (j <= p.cursor /\ b = j) \/ (j > p.cursor + m /\ b = j - m)
      BY <1>2, <1>5, <2>1
    <2>4. a < b <=> k < n
      BY <2>2, <2>3 DEF Shaped, InOrder
    <2>5. i < j <=> a < b
      BY <1>2, <1>3, <2>2, <2>3
    <2>6. QED
      BY <2>4, <2>5
  <1>6. InOrder(q)
    BY <1>5 DEF InOrder
  <1>7. QED
    BY <1>1, <1>4, <1>6 DEF Shaped, q

\* Where the cursor stands does not matter.
LEMMA CursorShaped ==
    ASSUME NEW p, Shaped(p), NEW q \in Plans, q.tasks = p.tasks
    PROVE  Shaped(q)
  BY DEF Shaped, Whole, InOrder

\* How the plan of a thread may change in a step.
LEMMA PlanMoves ==
    ASSUME TypeOK, [Next]_vars, NEW t \in Threads
    PROVE  \/ plan'[t] = plan[t]
           \/ /\ (pc[t] = "tasks" /\ ~AtEnd(t) /\ Def[Current(t)].when) \/ Doing(t)
              /\ plan'[t] = Plan(plan[t].tasks, plan[t].cursor + 1)
           \/ /\ Doing(t)
              /\ plan'[t] = Plan(Rescued(plan[t].tasks, plan[t].cursor), plan[t].cursor + 1)
           \/ /\ Approve(t)
              /\ plan'[t] = AdvancePastApprovedGate(row.pendingPlan, row.gateStepId)
  <1> USE DEF NextTask, SetPlan
  <1>1. plan \in [Threads -> Plans]
    BY DEF TypeOK
  <1>2. ASSUME NEW u \in Threads, SkipTask(u) PROVE u = t \/ plan'[t] = plan[t]
    BY <1>1, <1>2 DEF SkipTask
  <1>3. CASE SkipTask(t)
    BY <1>1, <1>3 DEF SkipTask
  <1>4. ASSUME NEW u \in Threads, TaskSucceeds(u) \/ TaskFails(u) PROVE u = t \/ plan'[t] = plan[t]
    BY <1>1, <1>4 DEF TaskSucceeds, TaskFails
  <1>5. CASE TaskSucceeds(t) \/ TaskFails(t)
    BY <1>1, <1>5 DEF TaskSucceeds, TaskFails, Doing, Tolerated
  <1>6. ASSUME NEW u \in Requests, Approve(u) PROVE u = t \/ plan'[t] = plan[t]
    BY <1>1, <1>6 DEF Approve
  <1>7. CASE Approve(t)
    BY <1>1, <1>7 DEF Approve
  <1>8. CASE UNCHANGED plan
    BY <1>8
  <1>9. \/ UNCHANGED plan
        \/ \E u \in Threads : SkipTask(u) \/ TaskSucceeds(u) \/ TaskFails(u)
        \/ \E u \in Requests : Approve(u)
    BY DEF Next, Step, ExecutePlan, ContinueRun, Request, Dispatch, DispatchFails, DispatchThrows,
      DispatchSucceeds, FindPaused, UpdatePaused, StartTask, AnnounceFails, FinishPlan, FindResumed, UpdateResumed,
      Crash, vars
  <1>10. QED
    BY <1>2, <1>3, <1>4, <1>5, <1>6, <1>7, <1>8, <1>9

\* How the row may change in a step.
LEMMA RowMoves ==
    ASSUME [Next]_vars
    PROVE  \/ row' = row
           \/ \E t \in Threads : UpdatePaused(t) \/ UpdateResumed(t) \/ UpdateCompleted(t) \/ UpdateAborted(t)
  BY DEF Next, Step, ExecutePlan, ContinueRun, Request, Dispatch, DispatchFails, DispatchThrows,
    DispatchSucceeds, SkipTask, FindPaused, StartTask, AnnounceFails, TaskSucceeds, TaskFails, FinishPlan,
    FindResumed, Complete, Abort, FindCompleted, FindAborted, Approve, AbortRun, Crash, vars,
    recordVars

\* What an update may write: what the thread brings, or what was there.
LEMMA RowWritten ==
    ASSUME NEW t \in Threads
    PROVE  /\ UpdatePaused(t) =>
                 /\ row'.status \in {row.status, "awaiting_approval"}
                 /\ row'.gateStepId \in {row.gateStepId, Def[Current(t)].name}
                 /\ row'.pendingPlan \in {row.pendingPlan, plan[t]}
           /\ UpdateResumed(t) =>
                 /\ row'.status \in {row.status, "running"}
                 /\ row'.gateStepId \in {row.gateStepId, NoGate}
                 /\ row'.pendingPlan \in {row.pendingPlan, NoPlan}
           /\ UpdateCompleted(t) \/ UpdateAborted(t) =>
                 /\ row'.status \in {row.status, verdict[t]}
                 /\ row'.gateStepId = row.gateStepId
                 /\ row'.pendingPlan = row.pendingPlan
  BY DEF UpdatePaused, PauseAt, PausedRow, UpdateResumed, StartedRow, UpdateCompleted,
    UpdateAborted, UpdateRow, Updated

\* Steps keep the shape of every plan.
LEMMA ShapeKept ==
    TypeOK /\ TypeOK' /\ AtStep /\ Shape /\ [Next]_vars => Shape'
  <1> SUFFICES ASSUME TypeOK, TypeOK', AtStep, Shape, [Next]_vars PROVE Shape'
    OBVIOUS
  <1>1. \A t \in Threads : plan[t] \in Plans /\ plan'[t] \in Plans
    BY DEF TypeOK
  <1>2. ASSUME NEW t \in Threads PROVE Shaped(plan'[t])
    <2>1. CASE plan'[t] = plan[t]
      BY <2>1 DEF Shape
    <2>2. CASE plan'[t] = Plan(plan[t].tasks, plan[t].cursor + 1)
      BY <1>1, <2>2, CursorShaped DEF Shape, Plan
    <2>3. CASE Doing(t) /\ plan'[t] = Plan(Rescued(plan[t].tasks, plan[t].cursor), plan[t].cursor + 1)
      BY <2>3, RescuedShaped DEF Shape, AtStep, Doing
    <2>4. CASE Approve(t) /\ plan'[t] = AdvancePastApprovedGate(row.pendingPlan, row.gateStepId)
      <3>1. row.pendingPlan \in Plans /\ Shaped(row.pendingPlan)
        BY <2>4 DEF Approve, Shape, TypeOK, Rows
      <3>2. plan'[t].tasks = row.pendingPlan.tasks
        BY <2>4, <3>1, Advanced DEF Plan
      <3>3. QED
        BY <1>1, <3>1, <3>2, CursorShaped
    <2>5. QED
      BY <2>1, <2>2, <2>3, <2>4, PlanMoves
  <1>3. row'.pendingPlan # NoPlan => Shaped(row'.pendingPlan)
    <2>1. row'.pendingPlan \in {row.pendingPlan, NoPlan} \/ \E t \in Threads : row'.pendingPlan = plan[t]
      BY RowMoves, RowWritten
    <2>2. QED
      BY <2>1 DEF Shape
  <1>4. QED
    BY <1>2, <1>3 DEF Shape

\* Only StartTask hands a task to the executor.
LEMMA StartedMoves ==
    [Next]_vars => UNCHANGED started \/ \E t \in Threads : StartTask(t)
  BY DEF Next, Step, ExecutePlan, ContinueRun, Request, Dispatch, DispatchFails, DispatchThrows,
    DispatchSucceeds, SkipTask, FindPaused, UpdatePaused, AnnounceFails, TaskSucceeds, TaskFails, FinishPlan,
    FindResumed, UpdateResumed, Approve, Crash, vars, history

\* What was started stays started.
LEMMA StartedGrows ==
    TypeOK /\ [Next]_vars => \A task \in Tasks : started'[task] >= started[task]
  <1> SUFFICES ASSUME TypeOK, [Next]_vars PROVE \A task \in Tasks : started'[task] >= started[task]
    OBVIOUS
  <1>1. started \in [Tasks -> Nat]
    BY DEF TypeOK
  <1>2. ASSUME NEW t \in Threads, StartTask(t)
        PROVE  \A task \in Tasks : started'[task] \in {started[task], started[task] + 1}
    BY <1>1, <1>2 DEF StartTask
  <1>3. QED
    BY <1>1, <1>2, StartedMoves

\* Only AnnounceFails makes a task fail before it is handed over.
LEMMA UnannouncedGrows ==
    [Next]_vars => unannounced \subseteq unannounced'
  <1> SUFFICES ASSUME [Next]_vars PROVE unannounced \subseteq unannounced'
    OBVIOUS
  <1>1. UNCHANGED unannounced \/ \E t \in Threads : AnnounceFails(t)
    BY DEF Next, Step, ExecutePlan, ContinueRun, Request, Dispatch, DispatchFails, DispatchThrows,
      DispatchSucceeds, SkipTask, FindPaused, UpdatePaused, StartTask, TaskSucceeds, TaskFails,
      FinishPlan, FindResumed, UpdateResumed, Approve, Crash, vars, history
  <1>2. ASSUME NEW t \in Threads, AnnounceFails(t) PROVE unannounced \subseteq unannounced'
    BY <1>2 DEF AnnounceFails
  <1>3. QED
    BY <1>1, <1>2

\* What was tried stays tried.
LEMMA TriedGrows ==
    ASSUME TypeOK, TypeOK', [Next]_vars
    PROVE  /\ Tried \in [Tasks -> Nat] /\ Tried' \in [Tasks -> Nat]
           /\ \A task \in Tasks : Tried'[task] >= Tried[task]
  <1>1. started \in [Tasks -> Nat] /\ started' \in [Tasks -> Nat]
    BY DEF TypeOK
  <1>2. \A task \in Tasks : started'[task] >= started[task]
    BY StartedGrows
  <1>3. \A task \in Tasks : task \in unannounced => task \in unannounced'
    BY UnannouncedGrows
  <1>4. \A task \in Tasks :
           /\ Tried[task] = IF task \in unannounced /\ Tolerated(task) THEN started[task] + 1 ELSE started[task]
           /\ Tried'[task] = IF task \in unannounced' /\ Tolerated(task) THEN started'[task] + 1 ELSE started'[task]
    BY DEF Tried, Tolerated
  <1>5. Tried \in [Tasks -> Nat] /\ Tried' \in [Tasks -> Nat]
    BY <1>1 DEF Tried
  <1>6. QED
    BY <1>1, <1>2, <1>3, <1>4, <1>5

\* The step of a thread leaves the other threads where they are.
LEMMA StepOfOne ==
    ASSUME TypeOK, NEW u \in Threads, Step(u), NEW t \in Threads, t # u
    PROVE  pc'[t] = pc[t] /\ plan'[t] = plan[t]
  <1> USE DEF TypeOK, Goto, CompleteRun, FindRow, Return, NextTask, SetPlan
  <1>1. CASE SkipTask(u) \/ TaskSucceeds(u) \/ FinishPlan(u) \/ StartTask(u) \/ AnnounceFails(u)
    BY <1>1 DEF SkipTask, TaskSucceeds, FinishPlan, StartTask, AnnounceFails, recordVars
  <1>2. CASE FindPaused(u) \/ UpdatePaused(u)
    BY <1>2 DEF FindPaused, UpdatePaused
  <1>3. CASE TaskFails(u)
    BY <1>3 DEF TaskFails
  <1>4. CASE ContinueRun(u)
    BY <1>4 DEF ContinueRun, FindResumed, UpdateResumed
  <1>5. CASE (Complete(u) \/ Abort(u)) /\ UNCHANGED plan
    BY <1>5 DEF Complete, Abort, FindCompleted, UpdateCompleted, FindAborted, UpdateAborted
  <1>6. QED
    BY <1>1, <1>2, <1>3, <1>4, <1>5 DEF Step, ExecutePlan

\* A thread that hands a task over or pauses is at that task.
LEMMA AtStepKept ==
    TypeOK /\ AtStep /\ [Next]_vars => AtStep'
  <1> SUFFICES ASSUME TypeOK, AtStep, [Next]_vars, NEW t \in Threads
               PROVE  /\ pc'[t] \in {"executing", "failing", "pausing"} => plan'[t].cursor \in DOMAIN plan'[t].tasks
                      /\ pc'[t] \in {"executing", "failing"} => ~IsGate(Current(t)')
                      /\ pc'[t] = "executing" => started'[Current(t)'] > 0
                      /\ pc'[t] = "failing" => Current(t)' \in unannounced'
                      /\ pc'[t] = "pausing" => IsGate(Current(t)')
    BY DEF AtStep
  <1>1. plan[t] \in Plans /\ plan \in [Threads -> Plans] /\ pc \in [Threads -> Steps]
    BY DEF TypeOK
  <1>2. CASE StartTask(t)
    <2>1. plan[t].cursor \in DOMAIN plan[t].tasks /\ Current(t) \in Tasks
      BY <1>1, <1>2 DEF StartTask, AtEnd, Plans, Current
    <2>2. pc'[t] = "executing" /\ plan' = plan /\ ~IsGate(Current(t))
      BY <1>1, <1>2 DEF StartTask, Goto
    <2>3. started'[Current(t)] > 0
      <3>1. started \in [Tasks -> Nat]
        BY DEF TypeOK
      <3>2. started'[Current(t)] = started[Current(t)] + 1
        BY <1>2, <2>1, <3>1 DEF StartTask
      <3>3. QED
        BY <2>1, <3>1, <3>2
    <2>4. QED
      BY <2>1, <2>2, <2>3 DEF Current
  <1>2a. CASE AnnounceFails(t)
    <2>1. plan[t].cursor \in DOMAIN plan[t].tasks /\ Current(t) \in unannounced'
      BY <1>1, <1>2a DEF AnnounceFails, AtEnd, Plans
    <2>2. pc'[t] = "failing" /\ plan' = plan /\ ~IsGate(Current(t))
      BY <1>1, <1>2a DEF AnnounceFails, Goto
    <2>3. QED
      BY <2>1, <2>2 DEF Current
  <1>3. CASE FindPaused(t)
    <2>1. plan[t].cursor \in DOMAIN plan[t].tasks /\ IsGate(Current(t))
      BY <1>1, <1>3 DEF FindPaused, AtEnd, Plans
    <2>2. pc'[t] = "pausing" /\ plan' = plan
      BY <1>1, <1>3 DEF FindPaused, FindRow, Goto
    <2>3. QED
      BY <2>1, <2>2 DEF Current
  <1>4. CASE pc'[t] \notin {"executing", "failing", "pausing"}
    BY <1>4
  <1>5. CASE pc'[t] = pc[t] /\ plan'[t] = plan[t]
    <2>1. Current(t)' = Current(t)
      BY <1>5 DEF Current
    <2>2. pc[t] = "executing" => Current(t) \in Tasks /\ started[Current(t)] \in Nat /\ started'[Current(t)] \in Int
      <3>1. SUFFICES ASSUME pc[t] = "executing" PROVE Current(t) \in Tasks /\ started[Current(t)] \in Nat /\ started'[Current(t)] \in Int
        OBVIOUS
      <3>2. Current(t) \in Tasks
        BY <1>1, <3>1 DEF AtStep, Current, Plans
      <3>3. QED
        BY <3>2, TypeKept DEF TypeOK
    <2>3. QED
      BY <1>5, <2>1, <2>2, StartedGrows, UnannouncedGrows DEF AtStep
  <1>6. \/ StartTask(t) \/ AnnounceFails(t) \/ FindPaused(t) \/ pc'[t] \notin {"executing", "failing", "pausing"}
        \/ pc'[t] = pc[t] /\ plan'[t] = plan[t]
    <2> USE <1>1 DEF Goto, CompleteRun, FindRow, Return, NextTask, SetPlan, Steps
    <2>1. ASSUME NEW u \in Threads, Step(u), u # t PROVE pc'[t] = pc[t] /\ plan'[t] = plan[t]
      BY <2>1, StepOfOne
    <2>2. CASE Step(t)
      <3>1. CASE SkipTask(t) \/ TaskSucceeds(t) \/ FinishPlan(t) \/ UpdatePaused(t)
        BY <3>1 DEF SkipTask, TaskSucceeds, FinishPlan, UpdatePaused, recordVars
      <3>2. CASE TaskFails(t)
        BY <3>2 DEF TaskFails
      <3>3. CASE ContinueRun(t)
        BY <3>3 DEF ContinueRun, FindResumed, UpdateResumed
      <3>4. CASE Complete(t) \/ Abort(t)
        BY <3>4 DEF Complete, Abort, FindCompleted, UpdateCompleted, FindAborted, UpdateAborted
      <3>5. QED
        BY <2>2, <3>1, <3>2, <3>3, <3>4 DEF Step, ExecutePlan
    <2>3. ASSUME NEW u \in Requests, Request(u)
          PROVE  pc'[t] \notin {"executing", "failing", "pausing"} \/ (pc'[t] = pc[t] /\ plan'[t] = plan[t])
      BY <2>3 DEF Request, Approve, AbortRun, Requests
    <2>4. CASE Dispatch
      BY <2>4, ThreadsAssumption DEF Dispatch, DispatchFails, DispatchThrows, DispatchSucceeds
    <2>5. ASSUME NEW r \in Replicas, Crash(r)
          PROVE  pc'[t] \notin {"executing", "failing", "pausing"} \/ (pc'[t] = pc[t] /\ plan'[t] = plan[t])
      BY <2>5 DEF Crash
    <2>6. QED
      BY <2>1, <2>2, <2>3, <2>4, <2>5 DEF Next, vars, recordVars
  <1>7. QED
    BY <1>2, <1>2a, <1>3, <1>4, <1>5, <1>6

(* The progress of the plans ***********************************************)

\* What is done stays done.
LEMMA DoneStays ==
    ASSUME NEW s \in [Tasks -> Nat], NEW z \in [Tasks -> Nat], \A task \in Tasks : z[task] >= s[task]
    PROVE  /\ \A task \in Tasks : Done(s, task) => Done(z, task)
           /\ \A p \in Plans : Worked(s, p) => Worked(z, p)
           /\ \A name : Reached(s, name) => Reached(z, name)
           /\ AllDone(s) => AllDone(z)
  <1>1. \A task \in Tasks : Done(s, task) => Done(z, task)
    BY DEF Done
  <1>2. \A p \in Plans : \A i : i \in DOMAIN p.tasks => p.tasks[i] \in Tasks
    BY DEF Plans
  <1>3. \A k \in DOMAIN Playbook : Playbook[k] \in Tasks
    BY TasksAssumption
  <1>4. \A p \in Plans : Worked(s, p) => Worked(z, p)
    BY <1>1, <1>2 DEF Worked, DoneBefore
  <1>5. \A name : Reached(s, name) => Reached(z, name)
    BY <1>1, <1>3 DEF Reached
  <1>6. AllDone(s) => AllDone(z)
    BY <1>1, <1>3 DEF AllDone
  <1>7. QED
    BY <1>1, <1>4, <1>5, <1>6

\* A plan goes on when its current task is done.
LEMMA NextWorked ==
    ASSUME NEW s, NEW p \in Plans, Worked(s, p), Done(s, p.tasks[p.cursor])
    PROVE  Worked(s, Plan(p.tasks, p.cursor + 1))
  <1>1. p.cursor \in Nat /\ DOMAIN p.tasks \subseteq Nat
    BY DEF Plans
  <1>2. DoneBefore(s, p, p.cursor + 1)
    BY <1>1 DEF Worked, DoneBefore
  <1>3. QED
    BY <1>2 DEF Worked, DoneBefore, Plan

\* So it does when the current task, which was started, is rescued.
LEMMA RescuedWorked ==
    ASSUME NEW s, NEW p \in Plans, p.cursor \in DOMAIN p.tasks, Worked(s, p), Done(s, p.tasks[p.cursor])
    PROVE  Worked(s, Plan(Rescued(p.tasks, p.cursor), p.cursor + 1))
  <1> DEFINE q == Plan(Rescued(p.tasks, p.cursor), p.cursor + 1)
             m == Len(Def[p.tasks[p.cursor]].rescue)
  <1>1. /\ m \in Nat
        /\ \A i \in DOMAIN q.tasks :
              \/ i <= p.cursor /\ i \in DOMAIN p.tasks /\ q.tasks[i] = p.tasks[i]
              \/ i > p.cursor /\ i <= p.cursor + m /\ ~InPlaybook(q.tasks[i])
              \/ i > p.cursor + m /\ i - m \in DOMAIN p.tasks /\ q.tasks[i] = p.tasks[i - m]
    BY RescuedTasksOfPlaybook
  <1>2. q \in Plans
    BY RescuedIsPlan
  <1>3. DOMAIN p.tasks \subseteq Nat /\ DOMAIN q.tasks \subseteq Nat /\ p.cursor \in Nat
    BY <1>2 DEF Plans
  <1>4. q.cursor = p.cursor + 1
    BY DEF Plan
  <1> HIDE DEF q, m
  <1>5. \A i \in DOMAIN q.tasks : i <= p.cursor /\ InPlaybook(q.tasks[i]) => Done(s, q.tasks[i])
    BY <1>1, <1>3 DEF Worked, DoneBefore
  <1>6. DoneBefore(s, q, q.cursor)
    BY <1>3, <1>4, <1>5 DEF DoneBefore
  <1>7. ASSUME NEW j \in DOMAIN q.tasks, ~InPlaybook(q.tasks[j]), NEW i \in DOMAIN q.tasks,
               i < j, InPlaybook(q.tasks[i])
        PROVE  Done(s, q.tasks[i])
    <2>1. CASE i <= p.cursor
      BY <1>5, <1>7, <2>1
    <2>2. CASE i > p.cursor
      <3>1. i > p.cursor + m /\ i - m \in DOMAIN p.tasks /\ q.tasks[i] = p.tasks[i - m]
        BY <1>1, <1>3, <1>7, <2>2
      <3>2. j - m \in DOMAIN p.tasks /\ q.tasks[j] = p.tasks[j - m]
        BY <1>1, <1>3, <1>7, <3>1
      <3>3. i - m < j - m
        BY <1>1, <1>3, <1>7
      <3>4. QED
        BY <1>7, <3>1, <3>2, <3>3 DEF Worked, DoneBefore
    <2>3. QED
      BY <1>3, <2>1, <2>2
  <1>8. QED
    BY <1>6, <1>7 DEF Worked, DoneBefore, q

\* An approval skips no task, if the gate it names was reached.
LEMMA AdvancedWorked ==
    ASSUME NEW s, NEW p, Shaped(p), Worked(s, p), NEW gate, Reached(s, gate)
    PROVE  Worked(s, AdvancePastApprovedGate(p, gate))
  <1> DEFINE q == AdvancePastApprovedGate(p, gate)
  <1>1. p \in Plans /\ p.cursor \in Nat /\ DOMAIN p.tasks \subseteq Nat
    BY DEF Shaped, Plans
  <1>2. CASE q = p
    BY <1>2
  <1>3. CASE IsGate(p.tasks[p.cursor]) /\ q = Plan(p.tasks, p.cursor + 1)
    BY <1>1, <1>3, NextWorked DEF Done
  <1>4. ASSUME NEW j \in DOMAIN p.tasks, Names(p.tasks[j], gate), q = Plan(p.tasks, j + 1),
               \A i \in DOMAIN p.tasks : i < j => ~Names(p.tasks[i], gate)
        PROVE  Worked(s, q)
    <2>1. DoneBefore(s, p, j)
      <3>1. CASE ~InPlaybook(p.tasks[j])
        BY <3>1 DEF Worked
      <3>2. CASE InPlaybook(p.tasks[j])
        <4>1. PICK k \in DOMAIN Playbook : p.tasks[j] = Playbook[k]
          BY <3>2 DEF InPlaybook
        <4>2. PICK n \in DOMAIN Playbook :
                 /\ Names(Playbook[n], gate)
                 /\ \A m \in DOMAIN Playbook : m < n => Done(s, Playbook[m])
          BY <1>4, <4>1 DEF Reached
        <4>3. PICK h \in DOMAIN p.tasks : p.tasks[h] = Playbook[n]
          BY DEF Shaped, Whole
        <4>4. ~(h < j)
          BY <1>4, <4>2, <4>3
        <4>5. k <= n
          <5>1. k \in Nat /\ n \in Nat
            BY TasksAssumption
          <5>2. n < k <=> h < j
            BY <4>1, <4>3 DEF Shaped, InOrder
          <5>3. QED
            BY <4>4, <5>1, <5>2
        <4>6. ASSUME NEW i \in DOMAIN p.tasks, i < j, InPlaybook(p.tasks[i]) PROVE Done(s, p.tasks[i])
          <5>1. PICK m \in DOMAIN Playbook : p.tasks[i] = Playbook[m]
            BY <4>6 DEF InPlaybook
          <5>2. m < k
            BY <4>1, <4>6, <5>1 DEF Shaped, InOrder
          <5>3. m < n
            BY <4>5, <5>2, TasksAssumption
          <5>4. QED
            BY <4>2, <5>1, <5>3
        <4>7. QED
          BY <4>6 DEF DoneBefore
      <3>3. QED
        BY <3>1, <3>2
    <2>2. DoneBefore(s, p, j + 1)
      BY <1>1, <1>4, <2>1 DEF DoneBefore, Done, Names
    <2>3. QED
      BY <1>4, <2>2 DEF Worked, DoneBefore, Plan
  <1>5. QED
    BY <1>1, <1>2, <1>3, <1>4, Advanced

\* At the end of its plan, everything is done.
LEMMA EndMeansDone ==
    ASSUME NEW s, NEW p, Shaped(p), Worked(s, p), p.cursor > Len(p.tasks)
    PROVE  AllDone(s)
  <1>1. p.cursor \in Nat /\ Len(p.tasks) \in Nat /\ DOMAIN p.tasks = 1 .. Len(p.tasks)
    BY DEF Shaped, Plans
  <1>2. \A i \in DOMAIN p.tasks : InPlaybook(p.tasks[i]) => Done(s, p.tasks[i])
    BY <1>1 DEF Worked, DoneBefore
  <1>3. QED
    BY <1>2 DEF AllDone, Shaped, Whole, InPlaybook

\* The gate at which a thread pauses is reached.
LEMMA PauseReached ==
    ASSUME RescueGatesNamedApart, NEW s, NEW p, Shaped(p), Worked(s, p),
           p.cursor \in DOMAIN p.tasks, IsGate(p.tasks[p.cursor])
    PROVE  Reached(s, Def[p.tasks[p.cursor]].name)
  <1> DEFINE gate == p.tasks[p.cursor]
  <1>1. gate \in Tasks
    BY DEF Shaped, Plans
  <1>2. CASE ~InPlaybook(gate)
    BY <1>1, <1>2 DEF RescueGatesNamedApart, Reached
  <1>3. CASE InPlaybook(gate)
    <2>1. PICK n \in DOMAIN Playbook : gate = Playbook[n]
      BY <1>3 DEF InPlaybook
    <2>2. ASSUME NEW m \in DOMAIN Playbook, m < n PROVE Done(s, Playbook[m])
      <3>1. PICK i \in DOMAIN p.tasks : p.tasks[i] = Playbook[m]
        BY DEF Shaped, Whole
      <3>2. i < p.cursor
        BY <2>1, <2>2, <3>1 DEF Shaped, InOrder
      <3>3. QED
        BY <3>1, <3>2 DEF Worked, DoneBefore, InPlaybook
    <2>3. Names(Playbook[n], Def[gate].name)
      BY <2>1 DEF Names
    <2>4. QED
      BY <2>2, <2>3 DEF Reached
  <1>4. QED
    BY <1>2, <1>3

\* Only the end of a plan makes a thread report success.
LEMMA VerdictMoves ==
    ASSUME TypeOK, [Next]_vars, NEW t \in Threads, verdict'[t] = "succeeded"
    PROVE  verdict[t] = "succeeded" \/ FinishPlan(t)
  <1> USE DEF TypeOK, CompleteRun, Return
  <1>1. CASE Dispatch
    BY <1>1 DEF Dispatch, DispatchFails, DispatchThrows, DispatchSucceeds
  <1>2. ASSUME NEW u \in Threads, TaskFails(u) PROVE verdict[t] = "succeeded"
    BY <1>2 DEF TaskFails
  <1>3. ASSUME NEW u \in Threads, FinishPlan(u) PROVE verdict[t] = "succeeded" \/ u = t
    BY <1>3 DEF FinishPlan
  <1>4. ASSUME NEW u \in Threads, Complete(u) \/ Abort(u) PROVE verdict[t] = "succeeded"
    BY <1>4 DEF Complete, Abort, FindCompleted, UpdateCompleted, FindAborted, UpdateAborted
  <1>5. ASSUME NEW u \in Requests, AbortRun(u) PROVE verdict[t] = "succeeded"
    BY <1>5 DEF AbortRun
  <1>6. CASE UNCHANGED verdict
    BY <1>6
  <1>7. \/ UNCHANGED verdict
        \/ Dispatch
        \/ \E u \in Threads : TaskFails(u) \/ FinishPlan(u) \/ Complete(u) \/ Abort(u)
        \/ \E u \in Requests : AbortRun(u)
    BY DEF Next, Step, ExecutePlan, ContinueRun, Request, SkipTask, FindPaused, UpdatePaused, StartTask, AnnounceFails,
      TaskSucceeds, FindResumed, UpdateResumed, Approve, Crash, vars, recordVars
  <1>8. QED
    BY <1>1, <1>2, <1>3, <1>4, <1>5, <1>6, <1>7

\* Steps keep the progress.
LEMMA ProgressKept ==
    ASSUME RescueGatesNamedApart, TypeOK, TypeOK', Shape, AtStep, Progressed, [Next]_vars
    PROVE  Progressed'
  <1>1. /\ Tried \in [Tasks -> Nat] /\ Tried' \in [Tasks -> Nat]
        /\ \A task \in Tasks : Tried'[task] >= Tried[task]
        /\ \A t \in Threads : plan[t] \in Plans /\ plan'[t] \in Plans
    BY TriedGrows DEF TypeOK
  <1>2. /\ \A task \in Tasks : Done(Tried, task) => Done(Tried', task)
        /\ \A p \in Plans : Worked(Tried, p) => Worked(Tried', p)
        /\ \A name : Reached(Tried, name) => Reached(Tried', name)
        /\ AllDone(Tried) => AllDone(Tried')
    BY <1>1, DoneStays
  <1>3. ASSUME NEW t \in Threads PROVE Worked(Tried, plan'[t])
    <2>1. CASE plan'[t] = plan[t]
      BY <2>1 DEF Progressed
    <2>2. CASE (pc[t] = "tasks" /\ ~AtEnd(t) /\ Def[Current(t)].when) \/ Doing(t)
      <3>1. Done(Tried, plan[t].tasks[plan[t].cursor])
        <4>1. CASE Def[Current(t)].when
          BY <4>1 DEF Done, Current
        <4>2. CASE Doing(t)
          <5>1. plan[t].cursor \in DOMAIN plan[t].tasks /\ Current(t) \in Tasks
            BY <1>1, <4>2 DEF AtStep, Doing, Current, Plans
          <5>2. started[Current(t)] \in Nat
            BY <5>1 DEF TypeOK
          <5>3. Tried[Current(t)] > 0
            BY <4>2, <5>1, <5>2 DEF AtStep, Doing, Tried
          <5>4. QED
            BY <5>3 DEF Done, Current
        <4>3. QED
          BY <2>2, <4>1, <4>2
      <3>2. Doing(t) => plan[t].cursor \in DOMAIN plan[t].tasks
        BY DEF AtStep, Doing
      <3>3. Worked(Tried, Plan(plan[t].tasks, plan[t].cursor + 1))
        BY <1>1, <3>1, NextWorked DEF Progressed
      <3>4. Doing(t) => Worked(Tried, Plan(Rescued(plan[t].tasks, plan[t].cursor), plan[t].cursor + 1))
        BY <1>1, <3>1, <3>2, RescuedWorked DEF Progressed
      <3>5. CASE plan'[t] \in {plan[t], Plan(plan[t].tasks, plan[t].cursor + 1)}
        BY <3>3, <3>5 DEF Progressed
      <3>6. CASE Doing(t) /\ plan'[t] = Plan(Rescued(plan[t].tasks, plan[t].cursor), plan[t].cursor + 1)
        BY <3>4, <3>6
      <3>7. ~Approve(t)
        BY <2>2 DEF Approve, Doing
      <3>8. QED
        BY <3>5, <3>6, <3>7, PlanMoves
    <2>3. CASE Approve(t) /\ plan'[t] = AdvancePastApprovedGate(row.pendingPlan, row.gateStepId)
      BY <2>3, AdvancedWorked DEF Approve, Shape, Progressed
    <2>4. QED
      BY <2>1, <2>2, <2>3, PlanMoves
  <1>4. ASSUME NEW t \in Threads, verdict'[t] = "succeeded" PROVE AllDone(Tried)
    <2>1. CASE FinishPlan(t)
      BY <2>1, EndMeansDone DEF FinishPlan, AtEnd, Shape, Progressed
    <2>2. QED
      BY <1>4, <2>1, VerdictMoves DEF Progressed
  <1>5. row'.pendingPlan # NoPlan => Worked(Tried, row'.pendingPlan) /\ row'.pendingPlan \in Plans
    <2>1. row'.pendingPlan \in {row.pendingPlan, NoPlan} \/ \E t \in Threads : row'.pendingPlan = plan[t]
      BY RowMoves, RowWritten
    <2>2. row.pendingPlan \in Plans \cup {NoPlan}
      BY DEF TypeOK, Rows
    <2>3. QED
      BY <1>1, <2>1, <2>2 DEF Progressed
  <1>6. Reached(Tried, row'.gateStepId)
    <2>1. Reached(Tried, NoGate)
      BY TasksAssumption, NullAssumption DEF Reached, Names
    <2>2. ASSUME NEW t \in Threads, UpdatePaused(t) PROVE Reached(Tried, Def[Current(t)].name)
      BY <2>2, PauseReached DEF UpdatePaused, AtStep, Shape, Progressed, Current
    <2>3. row'.gateStepId \in {row.gateStepId, NoGate}
            \/ \E t \in Threads : UpdatePaused(t) /\ row'.gateStepId = Def[Current(t)].name
      BY RowMoves, RowWritten
    <2>4. QED
      BY <2>1, <2>2, <2>3 DEF Progressed
  <1>7. row'.status = "succeeded" => AllDone(Tried)
    <2>1. row'.status \in {row.status, "awaiting_approval", "running"} \/ \E t \in Threads : row'.status = verdict[t]
      BY RowMoves, RowWritten
    <2>2. QED
      BY <2>1 DEF Progressed
  <1>8. QED
    BY <1>1, <1>2, <1>3, <1>4, <1>5, <1>6, <1>7 DEF Progressed

(* One execution at a time *************************************************)

\* Where a thread may go in a step.
LEMMA PcMoves ==
    ASSUME TypeOK, [Next]_vars, NEW t \in Threads
    PROVE  \/ pc'[t] = pc[t] /\ loaded'[t] = loaded[t] /\ ~Approve(t)
           \/ pc[t] \in AtWork /\ pc'[t] \in AtWork \ {"pausing"} /\ ~Approve(t)
           \/ FindPaused(t) /\ pc'[t] = "pausing" /\ loaded'[t] = row
           \/ pc[t] \in AtWork /\ Ending(t)'
           \/ Ending(t) /\ Ending(t)'
           \/ Approve(t) /\ pc'[t] = "approved"
           \/ FindResumed(t) /\ pc'[t] = "resuming" /\ loaded'[t] = row
           \/ UpdateResumed(t) /\ pc'[t] = "tasks"
           \/ pc'[t] \in {"done", "cut off", "aborting", "aborted"} /\ ~Approve(t)
  <1> USE DEF TypeOK, Goto, CompleteRun, FindRow, Return, AtWork, Ending
  <1>1. ASSUME NEW u \in Threads, Step(u), u # t
        PROVE  pc'[t] = pc[t] /\ loaded'[t] = loaded[t] /\ ~Approve(t)
    <2>1. pc'[t] = pc[t]
      BY <1>1, StepOfOne
    <2>2. loaded'[t] = loaded[t]
      BY <1>1 DEF Step, ExecutePlan, ContinueRun, SkipTask, FindPaused, UpdatePaused, StartTask, AnnounceFails,
        TaskSucceeds, TaskFails, FinishPlan, FindResumed, UpdateResumed, Complete, Abort,
        FindCompleted, UpdateCompleted, FindAborted, UpdateAborted, recordVars
    <2>3. QED
      BY <2>1, <2>2 DEF Approve
  <1>2. CASE SkipTask(t) \/ TaskSucceeds(t) \/ StartTask(t) \/ AnnounceFails(t)
    BY <1>2 DEF SkipTask, TaskSucceeds, StartTask, AnnounceFails, recordVars, Approve
  <1>3. CASE FindPaused(t)
    BY <1>3 DEF FindPaused
  <1>4. CASE FinishPlan(t) \/ FindCompleted(t)
    BY <1>4 DEF FinishPlan, FindCompleted
  <1>5. CASE UpdatePaused(t) \/ UpdateCompleted(t) \/ UpdateAborted(t) \/ FindAborted(t)
    BY <1>5 DEF UpdatePaused, UpdateCompleted, UpdateAborted, FindAborted, Approve
  <1>6. CASE TaskFails(t)
    BY <1>6 DEF TaskFails, Approve
  <1>7. CASE FindResumed(t) \/ UpdateResumed(t)
    BY <1>7 DEF FindResumed, UpdateResumed
  <1>8. CASE Step(t)
    BY <1>2, <1>3, <1>4, <1>5, <1>6, <1>7, <1>8 DEF Step, ExecutePlan, ContinueRun, Complete, Abort
  <1>9. CASE Dispatch
    <2>1. CASE t = Job
      BY <1>9, <2>1, ThreadsAssumption DEF Dispatch, DispatchFails, DispatchThrows, DispatchSucceeds, Approve
    <2>2. CASE t # Job
      BY <1>9, <2>2, ThreadsAssumption DEF Dispatch, DispatchFails, DispatchThrows, DispatchSucceeds, Approve
    <2>3. QED
      BY <2>1, <2>2
  <1>10. ASSUME NEW u \in Requests, Approve(u)
         PROVE  (pc'[t] = pc[t] /\ loaded'[t] = loaded[t] /\ ~Approve(t)) \/ (Approve(t) /\ pc'[t] = "approved")
    BY <1>10 DEF Approve, Requests
  <1>11. ASSUME NEW u \in Requests, AbortRun(u)
         PROVE  \/ pc'[t] = pc[t] /\ loaded'[t] = loaded[t] /\ ~Approve(t)
                \/ pc'[t] = "aborting" /\ ~Approve(t)
    BY <1>11 DEF AbortRun, Approve, Requests
  <1>12. ASSUME NEW r \in Replicas, Crash(r)
         PROVE  \/ pc'[t] = pc[t] /\ loaded'[t] = loaded[t] /\ ~Approve(t)
                \/ pc'[t] = "cut off" /\ ~Approve(t)
    BY <1>12 DEF Crash, Approve
  <1>13. CASE UNCHANGED vars
    BY <1>13 DEF vars, recordVars, Approve
  <1>14. QED
    BY <1>1, <1>8, <1>9, <1>10, <1>11, <1>12, <1>13 DEF Next, Request

\* Gates stay approved while a plan goes on over what is no gate, or has a condition,
LEMMA NextGatesBefore ==
    ASSUME NEW names, NEW p \in Plans, GatesBefore(names, p),
           ~IsGate(p.tasks[p.cursor]) \/ Def[p.tasks[p.cursor]].when
    PROVE  GatesBefore(names, Plan(p.tasks, p.cursor + 1))
  <1>1. p.cursor \in Nat /\ DOMAIN p.tasks \subseteq Nat
    BY DEF Plans
  <1>2. QED
    BY <1>1 DEF GatesBefore, Plan

\* while a rescue block goes in after the cursor,
LEMMA RescuedGatesBefore ==
    ASSUME NEW names, NEW p \in Plans, p.cursor \in DOMAIN p.tasks, GatesBefore(names, p),
           ~IsGate(p.tasks[p.cursor])
    PROVE  GatesBefore(names, Plan(Rescued(p.tasks, p.cursor), p.cursor + 1))
  <1> DEFINE q == Plan(Rescued(p.tasks, p.cursor), p.cursor + 1)
             m == Len(Def[p.tasks[p.cursor]].rescue)
  <1>1. /\ m \in Nat
        /\ \A i \in DOMAIN q.tasks :
              \/ i <= p.cursor /\ i \in DOMAIN p.tasks /\ q.tasks[i] = p.tasks[i]
              \/ i > p.cursor /\ i <= p.cursor + m /\ ~InPlaybook(q.tasks[i])
              \/ i > p.cursor + m /\ i - m \in DOMAIN p.tasks /\ q.tasks[i] = p.tasks[i - m]
    BY RescuedTasksOfPlaybook
  <1>2. q \in Plans
    BY RescuedIsPlan
  <1>3. DOMAIN p.tasks \subseteq Nat /\ DOMAIN q.tasks \subseteq Nat /\ p.cursor \in Nat
    BY <1>2 DEF Plans
  <1>4. q.cursor = p.cursor + 1
    BY DEF Plan
  <1> HIDE DEF q, m
  <1>5. \A i \in DOMAIN q.tasks : i < q.cursor => i <= p.cursor /\ i \in DOMAIN p.tasks /\ q.tasks[i] = p.tasks[i]
    BY <1>1, <1>3, <1>4
  <1>6. \A i \in DOMAIN q.tasks :
           i < q.cursor /\ IsGate(q.tasks[i]) /\ ~Def[q.tasks[i]].when => Def[q.tasks[i]].name \in names
    <2> SUFFICES ASSUME NEW i \in DOMAIN q.tasks, i < q.cursor, IsGate(q.tasks[i]), ~Def[q.tasks[i]].when
                 PROVE  Def[q.tasks[i]].name \in names
      OBVIOUS
    <2>1. i \in DOMAIN p.tasks /\ q.tasks[i] = p.tasks[i] /\ i # p.cursor /\ i < p.cursor
      BY <1>3, <1>5
    <2>2. QED
      BY <2>1 DEF GatesBefore
  <1>7. GatesBefore(names, q)
    BY <1>6 DEF GatesBefore
  <1>8. QED
    BY <1>7 DEF q

\* and when the gate at which the plan stands is approved.
LEMMA AdvancedGatesBefore ==
    ASSUME NEW names, NEW p \in Plans, NEW gate, p.cursor \in DOMAIN p.tasks,
           Names(p.tasks[p.cursor], gate), GatesBefore(names, p)
    PROVE  GatesBefore(names \cup {gate}, AdvancePastApprovedGate(p, gate))
  <1> DEFINE q == AdvancePastApprovedGate(p, gate)
  <1>1. p.cursor \in Nat /\ DOMAIN p.tasks \subseteq Nat
    BY DEF Plans
  <1>2. PICK j \in DOMAIN p.tasks :
           /\ Names(p.tasks[j], gate)
           /\ \A i \in DOMAIN p.tasks : i < j => ~Names(p.tasks[i], gate)
           /\ q = Plan(p.tasks, j + 1)
    BY Advanced
  <1>3. j <= p.cursor
    BY <1>1, <1>2
  <1> HIDE DEF q
  <1>4. ASSUME NEW i \in DOMAIN p.tasks, i < j + 1, IsGate(p.tasks[i]), ~Def[p.tasks[i]].when
        PROVE  Def[p.tasks[i]].name \in names \cup {gate}
    <2>1. CASE i < p.cursor
      BY <1>4, <2>1 DEF GatesBefore
    <2>2. CASE i = p.cursor
      BY <2>2 DEF Names
    <2>3. QED
      BY <1>1, <1>3, <1>4, <2>1, <2>2
  <1>5. GatesBefore(names \cup {gate}, q)
    BY <1>2, <1>4 DEF GatesBefore, Plan
  <1>6. QED
    BY <1>5 DEF q

\* What an update does to a row that is not contended.
LEMMA RowOfOne ==
    ASSUME TypeOK, AtStep, Single, ~overlapped, NEW t \in Threads
    PROVE  /\ UpdatePaused(t) => row' = PausedRow(t, plan[t])
           /\ UpdateResumed(t) => ~Awaiting' /\ Unpaused'
           /\ UpdateCompleted(t) \/ UpdateAborted(t) =>
                 /\ row'.status = "awaiting_approval" => Awaiting
                 /\ row'.gateStepId = row.gateStepId
                 /\ row'.pendingPlan = row.pendingPlan
  <1>1. CASE UpdatePaused(t)
    <2>1. plan[t] \in Plans /\ plan[t] # NoPlan
      BY NullAssumption DEF TypeOK, Plans
    <2>2. Current(t) \in Tasks
      BY <1>1, <2>1 DEF UpdatePaused, AtStep, Current, Plans
    <2>3. Def[Current(t)].name # NoGate
      BY <2>2, NullAssumption
    <2>4. loaded[t].status # "awaiting_approval" /\ loaded[t].gateStepId = NoGate /\ loaded[t].pendingPlan = NoPlan
      BY <1>1 DEF Single, UpdatePaused
    <2>5. Updated(t, PausedRow(t, plan[t])) = PausedRow(t, plan[t])
      BY <2>1, <2>3, <2>4 DEF Updated, PausedRow
    <2>6. [PausedRow(t, plan[t]) EXCEPT !.pendingPlan = plan[t]] = PausedRow(t, plan[t])
      BY DEF PausedRow
    <2>7. row' = PausedRow(t, plan[t])
      BY <1>1, <2>5, <2>6 DEF UpdatePaused, PauseAt, UpdateRow
    <2>8. ~UpdateResumed(t) /\ ~UpdateCompleted(t) /\ ~UpdateAborted(t)
      BY <1>1 DEF UpdatePaused, UpdateResumed, UpdateCompleted, UpdateAborted
    <2>9. QED
      BY <2>7, <2>8
  <1>2. CASE UpdateResumed(t)
    <2>1. /\ Awaiting => loaded[t].status = "awaiting_approval"
          /\ loaded[t].gateStepId = row.gateStepId /\ loaded[t].pendingPlan = row.pendingPlan
      BY <1>2 DEF Single, UpdateResumed
    <2>2. row'.gateStepId = NoGate /\ row'.pendingPlan = NoPlan
      BY <1>2, <2>1 DEF UpdateResumed, UpdateRow, Updated, StartedRow
    <2>3. row'.status # "awaiting_approval"
      BY <1>2, <2>1 DEF UpdateResumed, UpdateRow, Updated, StartedRow, Awaiting
    <2>4. ~UpdatePaused(t) /\ ~UpdateCompleted(t) /\ ~UpdateAborted(t)
      BY <1>2 DEF UpdatePaused, UpdateResumed, UpdateCompleted, UpdateAborted
    <2>5. QED
      BY <2>2, <2>3, <2>4 DEF Awaiting, Unpaused
  <1>3. CASE UpdateCompleted(t) \/ UpdateAborted(t)
    <2>1. verdict[t] # "awaiting_approval"
      BY DEF TypeOK
    <2>2. ~UpdatePaused(t) /\ ~UpdateResumed(t)
      BY <1>3 DEF UpdatePaused, UpdateResumed, UpdateCompleted, UpdateAborted
    <2>3. QED
      BY <1>3, <2>1, <2>2, RowWritten DEF Awaiting
  <1>4. QED
    BY <1>1, <1>2, <1>3

\* An approval is not taken back.
LEMMA ApprovalsGrow ==
    [Next]_vars => approved \subseteq approved' /\ (overlapped => overlapped')
  <1> SUFFICES ASSUME [Next]_vars PROVE approved \subseteq approved' /\ (overlapped => overlapped')
    OBVIOUS
  <1>1. \/ approved' = approved /\ overlapped' = overlapped
        \/ \E t \in Threads : Approve(t)
    BY DEF Next, Step, ExecutePlan, ContinueRun, Request, Dispatch, DispatchFails, DispatchThrows,
      DispatchSucceeds, SkipTask, FindPaused, UpdatePaused, StartTask, AnnounceFails, TaskSucceeds, TaskFails,
      FinishPlan, FindResumed, UpdateResumed, Crash, vars, history, Requests
  <1>2. ASSUME NEW t \in Threads, Approve(t)
        PROVE  approved \subseteq approved' /\ (overlapped => overlapped')
    BY <1>2 DEF Approve
  <1>3. QED
    BY <1>1, <1>2

\* While no pause is approved twice, one thread at most works on the run, and
\* a row that awaits approval pairs a gate with the plan that stands at it.
LEMMA SingleKept ==
    ASSUME TypeOK, TypeOK', AtStep, Single, [Next]_vars
    PROVE  Single'
  <1> SUFFICES ASSUME ~overlapped'
               PROVE  /\ \A t, u \in Threads : Active(t)' /\ Active(u)' => t = u
                      /\ \A t, u \in Threads : ~(Active(t)' /\ Ending(u)')
                      /\ \A t \in Threads : pc'[t] \in AtWork => ~Awaiting' /\ Unpaused'
                      /\ \A t \in Threads : Ending(t)' => ~Awaiting'
                      /\ \A t \in Threads : pc'[t] = "pausing" =>
                            /\ loaded'[t].status # "awaiting_approval"
                            /\ loaded'[t].gateStepId = NoGate /\ loaded'[t].pendingPlan = NoPlan
                      /\ \A t \in Threads : pc'[t] = "resuming" =>
                            /\ Awaiting' => loaded'[t].status = "awaiting_approval"
                            /\ loaded'[t].gateStepId = row'.gateStepId /\ loaded'[t].pendingPlan = row'.pendingPlan
                      /\ Awaiting' => Paired' /\ GatesBefore(approved', row'.pendingPlan)
                      /\ \A t \in Threads : Active(t)' => GatesBefore(approved', plan'[t])
    BY DEF Single
  <1> USE DEF Active, Ending, AtWork
  <1>1. ~overlapped /\ approved \subseteq approved'
    BY ApprovalsGrow
  <1>2. ASSUME NEW t \in Threads, Approve(t), NEW u \in Threads PROVE ~Active(u) /\ ~Ending(u)
    <2>1. pc[u] \notin {"approved", "resuming"}
      BY <1>1, <1>2 DEF Approve
    <2>2. Awaiting
      BY <1>2 DEF Approve, Awaiting
    <2>3. QED
      BY <1>1, <2>1, <2>2 DEF Single
  <1>3. ASSUME NEW t \in Threads, Approve(t), NEW u \in Threads, u # t PROVE ~Active(u)' /\ ~Ending(u)'
    <2>1. pc'[u] = pc[u]
      BY <1>3 DEF Approve, Goto, TypeOK
    <2>2. QED
      BY <1>2, <1>3, <2>1
  <1>4. ASSUME NEW t \in Threads, Active(t)' PROVE Active(t) \/ Approve(t)
    BY <1>4, PcMoves DEF FindPaused, FindResumed, UpdateResumed
  <1>5. ASSUME NEW t \in Threads, Ending(t)' PROVE Ending(t) \/ pc[t] \in AtWork
    BY <1>5, PcMoves DEF FindPaused, FindResumed, UpdateResumed, Approve
  <1>6. ASSUME NEW t \in Threads, NEW u \in Threads, Active(t)', Active(u)' PROVE t = u
    BY <1>1, <1>3, <1>4, <1>6 DEF Single
  <1>7. ASSUME NEW t \in Threads, NEW u \in Threads, Active(t)', Ending(u)' PROVE FALSE
    <2>1. ~Approve(t) /\ ~Approve(u)
      BY <1>2, <1>5, <1>7
    <2>2. Active(t) /\ ~Ending(u) /\ pc[u] \in AtWork
      BY <1>1, <1>4, <1>5, <1>7, <2>1 DEF Single
    <2>3. t = u
      BY <1>1, <2>2 DEF Single
    <2>4. QED
      BY <1>7, <2>3
  <1>8. ASSUME NEW u \in Threads, UpdatePaused(u) \/ UpdateResumed(u), NEW t \in Threads, t # u
        PROVE  ~Active(t) /\ ~Ending(t) /\ ~Active(t)' /\ ~Ending(t)'
    <2>1. Active(u)
      BY <1>8 DEF UpdatePaused, UpdateResumed
    <2>2. ~Active(t) /\ ~Ending(t)
      BY <1>1, <1>8, <2>1 DEF Single
    <2>3. ~Approve(t)
      BY <1>2, <2>1
    <2>4. QED
      BY <1>4, <1>5, <2>2, <2>3
  <1>9. ASSUME NEW u \in Threads, UpdatePaused(u) PROVE pc'[u] = "done"
    BY <1>9 DEF UpdatePaused, Goto, TypeOK
  <1>10. ASSUME NEW u \in Threads, UpdateResumed(u) PROVE pc'[u] = "tasks"
    BY <1>10 DEF UpdateResumed, Goto, TypeOK
  <1>11. ASSUME NEW u \in Threads, UpdateCompleted(u) PROVE Ending(u) /\ pc'[u] = "done"
    BY <1>11 DEF UpdateCompleted, Return, Goto, TypeOK
  <1>12. ASSUME NEW t \in Threads, pc'[t] \in AtWork PROVE ~Awaiting' /\ Unpaused'
    <2>1. pc[t] \in AtWork \/ UpdateResumed(t)
      BY <1>12, PcMoves DEF FindPaused, FindResumed, Approve
    <2>2. CASE UpdateResumed(t)
      BY <1>1, <2>2, RowOfOne
    <2>3. CASE pc[t] \in AtWork
      <3>1. ~Awaiting /\ Unpaused
        BY <1>1, <2>3 DEF Single
      <3>2. CASE row' = row
        BY <3>1, <3>2 DEF Awaiting, Unpaused
      <3>3. ASSUME NEW u \in Threads, UpdatePaused(u) PROVE FALSE
        BY <1>8, <1>9, <1>12, <3>3
      <3>4. ASSUME NEW u \in Threads, UpdateResumed(u) PROVE ~Awaiting' /\ Unpaused'
        BY <1>1, <3>4, RowOfOne
      <3>5. ASSUME NEW u \in Threads, UpdateCompleted(u) \/ UpdateAborted(u) PROVE ~Awaiting' /\ Unpaused'
        BY <1>1, <3>1, <3>5, RowOfOne DEF Awaiting, Unpaused
      <3>6. QED
        BY <3>2, <3>3, <3>4, <3>5, RowMoves
    <2>4. QED
      BY <2>1, <2>2, <2>3
  <1>13. ASSUME NEW t \in Threads, Ending(t)' PROVE ~Awaiting'
    <2>1. ~Awaiting
      BY <1>1, <1>5, <1>13 DEF Single
    <2>2. CASE row' = row
      BY <2>1, <2>2 DEF Awaiting
    <2>3. ASSUME NEW u \in Threads, UpdatePaused(u) PROVE FALSE
      BY <1>8, <1>9, <1>13, <2>3
    <2>4. ASSUME NEW u \in Threads, UpdateResumed(u) \/ UpdateCompleted(u) \/ UpdateAborted(u) PROVE ~Awaiting'
      BY <1>1, <2>1, <2>4, RowOfOne DEF Awaiting
    <2>5. QED
      BY <2>2, <2>3, <2>4, RowMoves
  <1>14. ASSUME NEW t \in Threads, pc'[t] = "pausing"
         PROVE  /\ loaded'[t].status # "awaiting_approval"
                /\ loaded'[t].gateStepId = NoGate /\ loaded'[t].pendingPlan = NoPlan
    <2>1. CASE FindPaused(t) /\ loaded'[t] = row
      BY <1>1, <2>1 DEF Single, FindPaused, Awaiting, Unpaused
    <2>2. CASE pc'[t] = pc[t] /\ loaded'[t] = loaded[t]
      BY <1>1, <1>14, <2>2 DEF Single
    <2>3. QED
      BY <1>14, <2>1, <2>2, PcMoves
  <1>15. ASSUME NEW t \in Threads, pc'[t] = "resuming"
         PROVE  /\ Awaiting' => loaded'[t].status = "awaiting_approval"
                /\ loaded'[t].gateStepId = row'.gateStepId /\ loaded'[t].pendingPlan = row'.pendingPlan
    <2>1. CASE FindResumed(t) /\ loaded'[t] = row
      BY <2>1 DEF FindResumed, FindRow, Awaiting
    <2>2. CASE pc'[t] = pc[t] /\ loaded'[t] = loaded[t]
      <3>1. /\ Awaiting => loaded'[t].status = "awaiting_approval"
            /\ loaded'[t].gateStepId = row.gateStepId /\ loaded'[t].pendingPlan = row.pendingPlan
        BY <1>1, <1>15, <2>2 DEF Single
      <3>2. CASE row' = row
        BY <3>1, <3>2 DEF Awaiting
      <3>3. ASSUME NEW u \in Threads, UpdatePaused(u) \/ UpdateResumed(u) PROVE FALSE
        BY <1>8, <1>9, <1>10, <1>15, <3>3
      <3>4. ASSUME NEW u \in Threads, UpdateCompleted(u) \/ UpdateAborted(u)
            PROVE  /\ Awaiting' => loaded'[t].status = "awaiting_approval"
                   /\ loaded'[t].gateStepId = row'.gateStepId /\ loaded'[t].pendingPlan = row'.pendingPlan
        BY <1>1, <3>1, <3>4, RowOfOne DEF Awaiting
      <3>5. QED
        BY <3>2, <3>3, <3>4, RowMoves
    <2>3. QED
      BY <1>15, <2>1, <2>2, PcMoves
  <1>16. \A p : GatesBefore(approved, p) => GatesBefore(approved', p)
    BY <1>1 DEF GatesBefore
  <1>17. Awaiting' => Paired' /\ GatesBefore(approved', row'.pendingPlan)
    <2>1. Awaiting => Paired /\ GatesBefore(approved, row.pendingPlan)
      BY <1>1 DEF Single
    <2>2. CASE row' = row
      BY <1>16, <2>1, <2>2 DEF Awaiting, Paired
    <2>3. ASSUME NEW t \in Threads, UpdatePaused(t)
          PROVE  Paired' /\ GatesBefore(approved', row'.pendingPlan)
      <3>1. row' = PausedRow(t, plan[t])
        BY <1>1, <2>3, RowOfOne
      <3>2. plan[t] # NoPlan
        BY NullAssumption DEF TypeOK, Plans
      <3>3. plan[t].cursor \in DOMAIN plan[t].tasks /\ Names(plan[t].tasks[plan[t].cursor], Def[Current(t)].name)
        BY <2>3 DEF AtStep, UpdatePaused, Names, Current
      <3>4. GatesBefore(approved, plan[t])
        BY <1>1, <2>3 DEF Single, UpdatePaused
      <3>5. row'.pendingPlan = plan[t] /\ row'.gateStepId = Def[Current(t)].name
        BY <3>1 DEF PausedRow
      <3>6. QED
        BY <1>16, <3>2, <3>3, <3>4, <3>5 DEF Paired
    <2>4. ASSUME NEW t \in Threads, UpdateResumed(t) PROVE ~Awaiting'
      BY <1>1, <2>4, RowOfOne
    <2>5. ASSUME NEW t \in Threads, UpdateCompleted(t) \/ UpdateAborted(t), Awaiting'
          PROVE  Paired' /\ GatesBefore(approved', row'.pendingPlan)
      <3>1. Awaiting /\ row'.gateStepId = row.gateStepId /\ row'.pendingPlan = row.pendingPlan
        BY <1>1, <2>5, RowOfOne DEF Awaiting
      <3>2. QED
        BY <1>16, <2>1, <3>1 DEF Paired
    <2>6. QED
      BY <2>2, <2>3, <2>4, <2>5, RowMoves
  <1>18. ASSUME NEW t \in Threads, Active(t)' PROVE GatesBefore(approved', plan'[t])
    <2>1. CASE Approve(t)
      <3>1. Paired /\ GatesBefore(approved, row.pendingPlan) /\ row.pendingPlan \in Plans
        BY <1>1, <2>1 DEF Single, Approve, Awaiting, TypeOK, Rows
      <3>2. plan'[t] = AdvancePastApprovedGate(row.pendingPlan, row.gateStepId)
        BY <2>1 DEF Approve, TypeOK
      <3>3. approved' = approved \cup {row.gateStepId}
        BY <2>1 DEF Approve
      <3>4. QED
        BY <3>1, <3>2, <3>3, AdvancedGatesBefore DEF Paired
    <2>2. CASE ~Approve(t)
      <3>1. Active(t) /\ GatesBefore(approved, plan[t]) /\ plan[t] \in Plans
        BY <1>1, <1>4, <1>18, <2>2 DEF Single, TypeOK
      <3>2. CASE plan'[t] = plan[t]
        BY <1>16, <3>1, <3>2
      <3>3. CASE /\ (pc[t] = "tasks" /\ ~AtEnd(t) /\ Def[Current(t)].when) \/ Doing(t)
                 /\ plan'[t] = Plan(plan[t].tasks, plan[t].cursor + 1)
        <4>1. ~IsGate(plan[t].tasks[plan[t].cursor]) \/ Def[plan[t].tasks[plan[t].cursor]].when
          BY <3>3 DEF AtStep, Current, Doing
        <4>2. QED
          BY <1>16, <3>1, <3>3, <4>1, NextGatesBefore
      <3>4. CASE /\ Doing(t)
                 /\ plan'[t] = Plan(Rescued(plan[t].tasks, plan[t].cursor), plan[t].cursor + 1)
        <4>1. plan[t].cursor \in DOMAIN plan[t].tasks /\ ~IsGate(plan[t].tasks[plan[t].cursor])
          BY <3>4 DEF AtStep, Current, Doing
        <4>2. QED
          BY <1>16, <3>1, <3>4, <4>1, RescuedGatesBefore
      <3>5. QED
        BY <2>2, <3>2, <3>3, <3>4, PlanMoves
    <2>3. QED
      BY <2>1, <2>2
  <1>19. QED
    BY <1>6, <1>7, <1>12, <1>13, <1>14, <1>15, <1>17, <1>18

\* No task is handed over before the gates in front of it were approved.
LEMMA GatesKept ==
    ASSUME TypeOK, Shape, Single, GatesHold, [Next]_vars
    PROVE  GatesHold'
  <1> SUFFICES ASSUME ~overlapped', NEW k \in DOMAIN Playbook, NEW n \in DOMAIN Playbook,
                      k < n, IsGate(Playbook[k]), ~Def[Playbook[k]].when, started'[Playbook[n]] > 0
               PROVE  Def[Playbook[k]].name \in approved'
    BY DEF GatesHold
  <1>1. approved \subseteq approved' /\ ~overlapped
    BY ApprovalsGrow
  <1>2. CASE started[Playbook[n]] > 0
    BY <1>1, <1>2 DEF GatesHold
  <1>3. CASE ~(started[Playbook[n]] > 0)
    <2>1. PICK t \in Threads : StartTask(t)
      BY <1>3, StartedMoves
    <2>2. Playbook[n] = Current(t)
      <3>1. Playbook[n] \in Tasks /\ started \in [Tasks -> Nat]
        BY TasksAssumption DEF TypeOK
      <3>2. started' = [started EXCEPT ![Current(t)] = started[Current(t)] + 1]
        BY <2>1 DEF StartTask
      <3>3. QED
        BY <1>3, <3>1, <3>2
    <2>3. plan[t].cursor \in DOMAIN plan[t].tasks
      BY <2>1 DEF StartTask, AtEnd, TypeOK, Plans
    <2>4. PICK i \in DOMAIN plan[t].tasks : plan[t].tasks[i] = Playbook[k]
      BY DEF Shape, Shaped, Whole
    <2>5. i < plan[t].cursor
      BY <2>2, <2>3, <2>4 DEF Shape, Shaped, InOrder, Current
    <2>6. GatesBefore(approved, plan[t])
      BY <1>1, <2>1 DEF Single, Active, AtWork, StartTask
    <2>7. QED
      BY <1>1, <2>4, <2>5, <2>6 DEF GatesBefore
  <1>4. QED
    BY <1>2, <1>3

(* The theorems ************************************************************)

\* The playbook itself is a plan in order, before whose first task nothing lies.
LEMMA PlaybookIsPlan ==
    LET p == Plan(Playbook, 1)
    IN  Shaped(p) /\ (\A s : Worked(s, p)) /\ (\A names : GatesBefore(names, p))
  <1> DEFINE p == Plan(Playbook, 1)
  <1>1. p.tasks = Playbook /\ p.cursor = 1 /\ p \in Plans /\ DOMAIN Playbook \subseteq Nat \ {0}
    BY TasksAssumption DEF Plan, Plans
  <1> HIDE DEF p
  <1>2. \A i, j \in DOMAIN Playbook, k, n \in DOMAIN Playbook :
           Playbook[i] = Playbook[k] /\ Playbook[j] = Playbook[n] => i = k /\ j = n
    BY OccurrencesAssumption
  <1>3. InOrder(p)
    BY <1>1, <1>2 DEF InOrder
  <1>4. Whole(p)
    BY <1>1 DEF Whole
  <1>5. ASSUME NEW s PROVE Worked(s, p)
    <2>1. \A i \in DOMAIN Playbook : ~(i < 1)
      BY <1>1
    <2>2. QED
      BY <1>1, <2>1 DEF Worked, DoneBefore, InPlaybook
  <1>6. ASSUME NEW names PROVE GatesBefore(names, p)
    BY <1>1 DEF GatesBefore
  <1>7. QED
    BY <1>1, <1>3, <1>4, <1>5, <1>6 DEF Shaped, p

\* The run begins in order.
LEMMA Begins ==
    Init => IInv /\ Progressed
  <1> SUFFICES ASSUME Init PROVE IInv /\ Progressed
    OBVIOUS
  <1>1. Plan(Playbook, 1) \in Plans /\ Shaped(Plan(Playbook, 1))
    BY PlaybookIsPlan DEF Shaped
  <1>2. TypeOK
    <2>1. StartedRow \in Rows
      BY DEF StartedRow, Rows, Statuses
    <2>2. QED
      BY <1>1, <2>1 DEF Init, TypeOK, Steps
  <1>3. row.status = "running" /\ row.gateStepId = NoGate /\ row.pendingPlan = NoPlan
    BY DEF Init, StartedRow
  <1>4. \A t \in Threads : plan[t] = Plan(Playbook, 1) /\ verdict[t] = "failed"
    BY DEF Init
  <1>5. \A t \in Threads : pc[t] = IF t = Job THEN "dispatching" ELSE "idle"
    BY DEF Init
  <1>6. Shape
    BY <1>1, <1>3, <1>4 DEF Shape
  <1>7. AtStep
    BY <1>5 DEF AtStep
  <1>8. Single
    <2>1. \A t \in Threads : ~Ending(t) /\ pc[t] \notin {"pausing", "resuming"} /\ (Active(t) => t = Job)
      BY <1>5 DEF Active, Ending, AtWork
    <2>2. ~Awaiting /\ Unpaused
      BY <1>3 DEF Awaiting, Unpaused
    <2>3. \A t \in Threads : GatesBefore(approved, plan[t])
      BY <1>4, PlaybookIsPlan
    <2>4. QED
      BY <2>1, <2>2, <2>3 DEF Single
  <1>9. GatesHold
    <2>1. \A n \in DOMAIN Playbook : started[Playbook[n]] = 0
      BY TasksAssumption DEF Init
    <2>2. QED
      BY <2>1 DEF GatesHold
  <1>10. Progressed
    <2>1. Reached(Tried, NoGate)
      BY TasksAssumption, NullAssumption DEF Reached, Names
    <2>2. QED
      BY <1>3, <1>4, <2>1, PlaybookIsPlan DEF Progressed
  <1>11. QED
    BY <1>2, <1>6, <1>7, <1>8, <1>9, <1>10 DEF IInv

\* IInv is inductive.
LEMMA IInvKept ==
    IInv /\ [Next]_vars => IInv'
  <1> SUFFICES ASSUME IInv, [Next]_vars PROVE IInv'
    OBVIOUS
  <1>1. TypeOK /\ Shape /\ AtStep /\ Single /\ GatesHold
    BY DEF IInv
  <1>2. TypeOK'
    BY <1>1, TypeKept
  <1>3. QED
    BY <1>1, <1>2, ShapeKept, AtStepKept, SingleKept, GatesKept DEF IInv

\* It holds of every run.
LEMMA IInvHolds ==
    Spec => []IInv
  <1>1. Init => IInv
    BY Begins
  <1>2. QED
    BY <1>1, IInvKept, PTL DEF Spec

\* Rows, plans and the local variables of the threads stay of their types.
THEOREM TypeCorrect ==
    Spec => []TypeOK
  <1>1. IInv => TypeOK
    BY DEF IInv
  <1>2. QED
    BY <1>1, IInvHolds, PTL

\* GatesHold, for every playbook, whatever requests race and replicas go down.
THEOREM GatesAreKept ==
    Spec => []GatesHold
  <1>1. IInv => GatesHold
    BY DEF IInv
  <1>2. QED
    BY <1>1, IInvHolds, PTL

\* GatesAreResumable, likewise: a paused run stands at the gate that its row names.
THEOREM PausesAreResumable ==
    Spec => []GatesAreResumable
  <1>1. IInv => GatesAreResumable
    BY DEF IInv, Single, Awaiting, Paired, Names, GatesAreResumable
  <1>2. QED
    BY <1>1, IInvHolds, PTL

\* SuccessMeansStarted, however often the run was continued and by however many
\* requests at once, unless a rescue block has a gate of the name of a gate of
\* the playbook: the approval of the one would pass the other.
THEOREM SuccessNeedsTasks ==
    ASSUME RescueGatesNamedApart
    PROVE  Spec => []SuccessMeansStarted
  <1> DEFINE Inv == IInv /\ Progressed
  <1>1. Init => Inv
    BY Begins
  <1>2. Inv /\ [Next]_vars => Inv'
    <2> SUFFICES ASSUME Inv, [Next]_vars PROVE Inv'
      OBVIOUS
    <2>1. IInv'
      BY IInvKept
    <2>2. Progressed'
      BY <2>1, ProgressKept DEF IInv
    <2>3. QED
      BY <2>1, <2>2
  <1>3. Inv => SuccessMeansStarted
    <2> SUFFICES ASSUME Inv, row.status = "succeeded", NEW k \in DOMAIN Playbook,
                        ~IsGate(Playbook[k]), ~Def[Playbook[k]].when
                 PROVE  \/ started[Playbook[k]] > 0
                        \/ Playbook[k] \in unannounced /\ Tolerated(Playbook[k])
      BY DEF SuccessMeansStarted
    <2>1. Tried[Playbook[k]] > 0
      BY DEF Progressed, AllDone, Done
    <2>2. QED
      BY <2>1, TasksAssumption DEF Tried
  <1>4. QED
    BY <1>1, <1>2, <1>3, PTL DEF Spec

(* One request at a time: the promise *************************************)

\* What is left of a plan begins at the cursor.
LEMMA RemainingNext ==
    ASSUME NEW tasks \in Seq(Tasks), NEW k \in DOMAIN tasks
    PROVE  /\ Remaining(Plan(tasks, k)) \in Seq(Tasks) \ {<<>>}
           /\ Head(Remaining(Plan(tasks, k))) = tasks[k]
           /\ Tail(Remaining(Plan(tasks, k))) = Remaining(Plan(tasks, k + 1))
  <1>1. k \in 1 .. Len(tasks) /\ Len(tasks) \in Nat
    OBVIOUS
  <1> DEFINE rest == SubSeq(tasks, k, Len(tasks))
  <1>2. /\ rest \in Seq(Tasks)
        /\ Len(rest) = Len(tasks) - k + 1
        /\ rest[1] = tasks[k]
    BY <1>1, SubSeqProperties
  <1>3. rest # <<>>
    BY <1>1, <1>2
  <1>4. Tail(rest) = SubSeq(tasks, k + 1, Len(tasks))
    BY <1>1, HeadTailOfSubSeq
  <1>5. Head(rest) = tasks[k]
    <2>1. Head(rest) = rest[1]
      BY <1>2, <1>3
    <2>2. QED
      BY <1>2, <2>1
  <1>6. Remaining(Plan(tasks, k)) = rest /\ Remaining(Plan(tasks, k + 1)) = SubSeq(tasks, k + 1, Len(tasks))
    BY DEF Remaining, Plan
  <1> HIDE DEF rest
  <1>7. QED
    BY <1>2, <1>3, <1>4, <1>5, <1>6

\* Nothing is left behind the last task.
LEMMA RemainingNone ==
    ASSUME NEW p \in Plans, p.cursor > Len(p.tasks)
    PROVE  Remaining(p) = <<>>
  <1>1. p.cursor \in Int /\ Len(p.tasks) \in Int
    BY LenProperties DEF Plans
  <1>2. QED
    BY <1>1, SubSeqEmpty DEF Remaining

\* What lies behind the first of two sequences is the second.
LEMMA Behind ==
    ASSUME NEW S, NEW a \in Seq(S), NEW b \in Seq(S)
    PROVE  SubSeq(a \o b, Len(a) + 1, Len(a \o b)) = b
  <1>1. Len(a) \in Nat /\ Len(b) \in Nat /\ Len(a \o b) = Len(a) + Len(b)
    BY LenProperties, ConcatProperties
  <1>2. CASE b = <<>>
    <2>1. Len(b) = 0
      BY <1>2
    <2>2. SubSeq(a \o b, Len(a) + 1, Len(a)) = <<>>
      BY <1>1, SubSeqEmpty
    <2>3. QED
      BY <1>1, <1>2, <2>1, <2>2
  <1>3. CASE b # <<>>
    <2>1. Len(b) >= 1
      BY <1>1, <1>3, EmptySeq
    <2>2. SubSeq(a \o b, Len(a) + 1, Len(a) + Len(b)) = SubSeq(b, Len(a) + 1 - Len(a), Len(a) + Len(b) - Len(a))
      BY <1>1, <2>1, SubSeqOfConcat2
    <2>3. SubSeq(b, 1, Len(b)) = b
      BY SubSeqFull
    <2>4. QED
      BY <1>1, <2>2, <2>3
  <1>4. QED
    BY <1>2, <1>3

\* What is left after a rescue: the block, then the tasks after the one that failed.
LEMMA RemainingRescued ==
    ASSUME NEW tasks \in Seq(Tasks), NEW k \in DOMAIN tasks
    PROVE  Remaining(Plan(Rescued(tasks, k), k + 1)) = Def[tasks[k]].rescue \o Remaining(Plan(tasks, k + 1))
  <1>1. k \in 1 .. Len(tasks) /\ Len(tasks) \in Nat /\ Def[tasks[k]].rescue \in Seq(Tasks)
    BY TasksAssumption
  <1>2. PICK first \in Seq(Tasks) : first = SubSeq(tasks, 1, k) /\ Len(first) = k
    <2>1. SubSeq(tasks, 1, k) \in Seq(Tasks) /\ Len(SubSeq(tasks, 1, k)) = k
      BY <1>1, SubSeqProperties
    <2>2. QED
      BY <2>1, Zenon
  <1>3. PICK rest \in Seq(Tasks) : rest = SubSeq(tasks, k + 1, Len(tasks))
    <2>1. SubSeq(tasks, k + 1, Len(tasks)) \in Seq(Tasks)
      BY <1>1, SubSeqProperties
    <2>2. QED
      BY <2>1, Zenon
  <1>4. PICK rescue \in Seq(Tasks) : rescue = Def[tasks[k]].rescue
    BY <1>1
  <1>5. Rescued(tasks, k) = (first \o rescue) \o rest
    BY <1>2, <1>3, <1>4 DEF Rescued
  <1>6. (first \o rescue) \o rest = first \o (rescue \o rest)
    BY ConcatAssociative
  <1>7. rescue \o rest \in Seq(Tasks)
    BY ConcatProperties
  <1>8. SubSeq(first \o (rescue \o rest), k + 1, Len(first \o (rescue \o rest))) = rescue \o rest
    BY <1>2, <1>7, Behind
  <1>9. Remaining(Plan(Rescued(tasks, k), k + 1)) = SubSeq(Rescued(tasks, k), k + 1, Len(Rescued(tasks, k)))
    BY DEF Remaining, Plan
  <1>10. Remaining(Plan(tasks, k + 1)) = rest
    BY <1>3 DEF Remaining, Plan
  <1>11. QED
    BY <1>4, <1>5, <1>6, <1>8, <1>9, <1>10

\* The manifest is a tree: a task is in one rescue block at most, and there once.
BlocksApart ==
    \A a, b \in Tasks :
        \A i \in DOMAIN Def[a].rescue, j \in DOMAIN Def[b].rescue :
            Def[a].rescue[i] = Def[b].rescue[j] => a = b /\ i = j
GatesNamedApart ==
    \A a, b \in Tasks : IsGate(a) /\ IsGate(b) /\ Def[a].name = Def[b].name => a = b

InBlockOf(task, parent) == \E n \in DOMAIN Def[parent].rescue : task = Def[parent].rescue[n]

\* A plan without repetition, of the playbook and the blocks of tasks before the cursor.
Grown(p) ==
    /\ \A i, j \in DOMAIN p.tasks : p.tasks[i] = p.tasks[j] => i = j
    /\ \A j \in DOMAIN p.tasks :
          \/ InPlaybook(p.tasks[j])
          \/ \E i \in DOMAIN p.tasks : i < p.cursor /\ InBlockOf(p.tasks[j], p.tasks[i])

\* The cursor only goes forward.
LEMMA CursorGrown ==
    ASSUME NEW p \in Plans, Grown(p), NEW c \in Nat, p.cursor <= c
    PROVE  Grown(Plan(p.tasks, c))
  <1>1. p.cursor \in Nat /\ DOMAIN p.tasks \subseteq Nat
    BY DEF Plans
  <1>2. \A i \in DOMAIN p.tasks : i < p.cursor => i < c
    BY <1>1
  <1>3. QED
    BY <1>2 DEF Grown, Plan

\* A block is put in once.
LEMMA RescuedGrown ==
    ASSUME BlocksApart, NEW p \in Plans, Grown(p), p.cursor \in DOMAIN p.tasks
    PROVE  Grown(Plan(Rescued(p.tasks, p.cursor), p.cursor + 1))
  <1> DEFINE q == Plan(Rescued(p.tasks, p.cursor), p.cursor + 1)
             rescue == Def[p.tasks[p.cursor]].rescue
             m == Len(rescue)
  <1>1. /\ p.tasks \in Seq(Tasks) /\ Len(p.tasks) \in Nat /\ p.tasks[p.cursor] \in Tasks
        /\ DOMAIN p.tasks = 1 .. Len(p.tasks) /\ p.cursor \in 1 .. Len(p.tasks)
    BY DEF Plans
  <1>2. /\ rescue \in Seq(Tasks) /\ m \in Nat
        /\ DOMAIN q.tasks = 1 .. Len(p.tasks) + m
        /\ \A i \in 1 .. Len(p.tasks) + m :
              q.tasks[i] = IF i <= p.cursor THEN p.tasks[i]
                           ELSE IF i <= p.cursor + m THEN rescue[i - p.cursor] ELSE p.tasks[i - m]
        /\ q.cursor = p.cursor + 1
    BY <1>1, RescuedTasks DEF Plan
  <1>2a. m \in Nat /\ p.cursor \in Nat /\ p.cursor > 0
    BY <1>1, <1>2
  <1>3. \A n \in DOMAIN rescue : ~InPlaybook(rescue[n])
    BY <1>1, OccurrencesAssumption DEF InPlaybook
  <1>4. \A n, o \in DOMAIN rescue : rescue[n] = rescue[o] => n = o
    BY <1>1 DEF BlocksApart
  <1>5. ASSUME NEW n \in DOMAIN rescue, NEW j \in DOMAIN p.tasks, p.tasks[j] = rescue[n]
        PROVE  FALSE
    <2>1. PICK i \in DOMAIN p.tasks : i < p.cursor /\ InBlockOf(p.tasks[j], p.tasks[i])
      BY <1>3, <1>5 DEF Grown
    <2>2. p.tasks[i] \in Tasks
      BY <1>1
    <2>3. p.tasks[i] = p.tasks[p.cursor]
      BY <1>1, <1>5, <2>1, <2>2 DEF InBlockOf, BlocksApart
    <2>4. i = p.cursor
      BY <2>3 DEF Grown
    <2>5. QED
      BY <1>1, <2>1, <2>4
  <1> HIDE DEF q
  <1>6. ASSUME NEW i \in DOMAIN q.tasks
        PROVE  \/ i <= p.cursor /\ i \in DOMAIN p.tasks /\ q.tasks[i] = p.tasks[i]
               \/ /\ i > p.cursor /\ i <= p.cursor + m
                  /\ i - p.cursor \in DOMAIN rescue /\ q.tasks[i] = rescue[i - p.cursor]
               \/ i > p.cursor + m /\ i - m \in DOMAIN p.tasks /\ q.tasks[i] = p.tasks[i - m]
    <2>1. DOMAIN rescue = 1 .. m /\ i \in 1 .. Len(p.tasks) + m
      <3>1. DOMAIN rescue = 1 .. m
        BY <1>2, LenProperties
      <3>2. QED
        BY <1>2, <3>1
    <2> HIDE DEF m, rescue
    <2>2. CASE i <= p.cursor
      BY <1>1, <1>2, <2>1, <2>2
    <2>3. CASE i > p.cursor /\ i <= p.cursor + m
      <3>1. ~(i <= p.cursor) /\ i - p.cursor \in 1 .. m
        BY <1>2a, <2>1, <2>3
      <3>2. q.tasks[i] = rescue[i - p.cursor]
        BY <1>2, <2>1, <2>3, <3>1
      <3>3. QED
        BY <2>1, <2>3, <3>1, <3>2
    <2>4. CASE i > p.cursor + m
      <3>1. ~(i <= p.cursor) /\ ~(i <= p.cursor + m) /\ i - m \in 1 .. Len(p.tasks)
        BY <1>1, <1>2a, <2>1, <2>4
      <3>2. q.tasks[i] = p.tasks[i - m]
        BY <1>2, <2>1, <3>1
      <3>3. QED
        BY <1>1, <2>4, <3>1, <3>2
    <2>5. QED
      BY <1>1, <1>2, <2>1, <2>2, <2>3, <2>4
  <1> HIDE DEF rescue, m
  <1>7. \A i \in DOMAIN q.tasks : i \in Nat
    BY <1>2
  <1>8. \A i, j \in DOMAIN q.tasks : q.tasks[i] = q.tasks[j] => i = j
    <2> SUFFICES ASSUME NEW i \in DOMAIN q.tasks, NEW j \in DOMAIN q.tasks, q.tasks[i] = q.tasks[j], i # j
                 PROVE  FALSE
      OBVIOUS
    <2>1. \A a, b \in DOMAIN p.tasks : p.tasks[a] = p.tasks[b] => a = b
      BY DEF Grown
    <2>2. CASE \E n \in DOMAIN rescue : q.tasks[i] = rescue[n]
      <3>1. PICK n \in DOMAIN rescue : q.tasks[i] = rescue[n] /\ q.tasks[j] = rescue[n]
        BY <2>2
      <3>2. i - p.cursor = n /\ j - p.cursor = n
        BY <1>4, <1>5, <1>6, <3>1
      <3>3. QED
        BY <1>1, <1>7, <3>2
    <2>3. CASE \E a \in DOMAIN p.tasks : q.tasks[i] = p.tasks[a]
      <3>1. PICK a \in DOMAIN p.tasks : q.tasks[i] = p.tasks[a] /\ q.tasks[j] = p.tasks[a]
        BY <2>3
      <3>1a. ASSUME NEW k \in DOMAIN q.tasks, q.tasks[k] = p.tasks[a]
             PROVE  (k <= p.cursor /\ k = a) \/ (k > p.cursor + m /\ k - m = a)
        <4>1. ~ (k - p.cursor \in DOMAIN rescue /\ q.tasks[k] = rescue[k - p.cursor])
          BY <1>5, <3>1a
        <4>2. CASE k <= p.cursor /\ k \in DOMAIN p.tasks /\ q.tasks[k] = p.tasks[k]
          BY <2>1, <3>1a, <4>2
        <4>3. CASE k > p.cursor + m /\ k - m \in DOMAIN p.tasks /\ q.tasks[k] = p.tasks[k - m]
          BY <2>1, <3>1a, <4>3
        <4>4. QED
          BY <1>6, <4>1, <4>2, <4>3
      <3>2. (i <= p.cursor /\ i = a) \/ (i > p.cursor + m /\ i - m = a)
        BY <3>1, <3>1a
      <3>3. (j <= p.cursor /\ j = a) \/ (j > p.cursor + m /\ j - m = a)
        BY <3>1, <3>1a
      <3>4. QED
        BY <1>2a, <1>7, <3>2, <3>3
    <2>4. QED
      BY <1>6, <2>2, <2>3
  <1>9. ASSUME NEW j \in DOMAIN q.tasks
        PROVE  \/ InPlaybook(q.tasks[j])
               \/ \E i \in DOMAIN q.tasks : i < q.cursor /\ InBlockOf(q.tasks[j], q.tasks[i])
    <2>1. CASE \E n \in DOMAIN rescue : q.tasks[j] = rescue[n]
      <3>1. InBlockOf(q.tasks[j], p.tasks[p.cursor])
        BY <2>1 DEF InBlockOf, rescue
      <3>2. p.cursor \in DOMAIN q.tasks /\ p.cursor < q.cursor
        BY <1>1, <1>2, <1>2a
      <3>3. q.tasks[p.cursor] = p.tasks[p.cursor]
        BY <1>2, <1>2a, <3>2
      <3>4. QED
        BY <3>1, <3>2, <3>3
    <2>2. CASE \E a \in DOMAIN p.tasks : q.tasks[j] = p.tasks[a]
      <3>1. CASE InPlaybook(q.tasks[j])
        BY <3>1
      <3>2. ASSUME NEW i \in DOMAIN p.tasks, i < p.cursor, InBlockOf(q.tasks[j], p.tasks[i])
            PROVE  \E o \in DOMAIN q.tasks : o < q.cursor /\ InBlockOf(q.tasks[j], q.tasks[o])
        <4>1. i \in DOMAIN q.tasks /\ q.tasks[i] = p.tasks[i] /\ i < q.cursor
          BY <1>1, <1>2, <3>2
        <4>2. QED
          BY <3>2, <4>1
      <3>3. QED
        BY <2>2, <3>1, <3>2 DEF Grown
    <2>3. QED
      BY <1>6, <2>1, <2>2
  <1>10. Grown(q)
    BY <1>8, <1>9 DEF Grown
  <1>11. QED
    BY <1>10 DEF q

\* The approval of a gate moves the plan that stands at it past it.
LEMMA AdvancedPastIt ==
    ASSUME GatesNamedApart, NEW p \in Plans, Grown(p), NEW gate,
           p.cursor \in DOMAIN p.tasks, Names(p.tasks[p.cursor], gate)
    PROVE  AdvancePastApprovedGate(p, gate) = Plan(p.tasks, p.cursor + 1)
  <1>1. PICK j \in DOMAIN p.tasks :
           /\ Names(p.tasks[j], gate)
           /\ AdvancePastApprovedGate(p, gate) = Plan(p.tasks, j + 1)
    BY Advanced
  <1>2. p.tasks[j] \in Tasks /\ p.tasks[p.cursor] \in Tasks
    BY DEF Plans
  <1>3. p.tasks[j] = p.tasks[p.cursor]
    BY <1>1, <1>2 DEF Names, GatesNamedApart
  <1>4. j = p.cursor
    BY <1>3 DEF Grown
  <1>5. QED
    BY <1>1, <1>4

LEMMA PlaybookGrown ==
    Grown(Plan(Playbook, 1))
  BY OccurrencesAssumption DEF Grown, Plan, InPlaybook

AtRest == \A t \in Threads : ~InFlight(t)

\* With operators who wait, one thread at most is at work, and what it read last
\* still holds.
Serial == waiting =>
    /\ ~overlapped
    /\ \A t, u \in Threads : InFlight(t) /\ InFlight(u) => t = u
    /\ \A t \in Threads : pc[t] \in {"completed", "aborted"} => loaded[t] = row
    /\ \A t \in Threads : pc[t] \in {"aborting", "aborted"} => verdict[t] = "failed"
    /\ AtRest => row.status \in {"awaiting_approval", "succeeded", "failed"}
    /\ \A t \in Threads : Grown(plan[t])
    /\ row.pendingPlan # NoPlan => Grown(row.pendingPlan)

\* Operators who wait do what operators may do.
LEMMA BothAreRuns ==
    [NextOfBoth]_<<vars, waiting>> => [Next]_vars
  BY DEF NextOfBoth, Wait, Race, SerialNext, Next, Dispatch

\* A thread alone at work takes the step, or one that finds nobody at work begins.
OneStep(t) ==
    \/ /\ Step(t) \/ (t = Job /\ (DispatchFails \/ DispatchSucceeds))
       /\ InFlight(t)
    \/ /\ AtRest
       /\ Approve(t) \/ (AbortRun(t) /\ UNCHANGED <<plan, history>>)

Others(t) ==
    \A u \in Threads : u # t =>
        /\ ~InFlight(u)
        /\ pc'[u] = pc[u] /\ plan'[u] = plan[u] /\ loaded'[u] = loaded[u] /\ verdict'[u] = verdict[u]

\* The step of a thread begins with a thread at work, and leaves the others alone.
LEMMA StepFrame ==
    ASSUME TypeOK, NEW t \in Threads, Step(t)
    PROVE  /\ InFlight(t)
           /\ \A u \in Threads : u # t => loaded'[u] = loaded[u] /\ verdict'[u] = verdict[u]
  <1> USE DEF TypeOK, InFlight, CompleteRun, FindRow, Return, recordVars
  <1>1. CASE SkipTask(t) \/ TaskSucceeds(t) \/ FinishPlan(t) \/ StartTask(t) \/ AnnounceFails(t)
    BY <1>1 DEF SkipTask, TaskSucceeds, FinishPlan, StartTask, AnnounceFails
  <1>2. CASE FindPaused(t) \/ UpdatePaused(t)
    BY <1>2 DEF FindPaused, UpdatePaused
  <1>3. CASE TaskFails(t)
    BY <1>3 DEF TaskFails
  <1>4. CASE ContinueRun(t)
    BY <1>4 DEF ContinueRun, FindResumed, UpdateResumed
  <1>5. CASE Complete(t) \/ Abort(t)
    BY <1>5 DEF Complete, Abort, FindCompleted, UpdateCompleted, FindAborted, UpdateAborted
  <1>6. QED
    BY <1>1, <1>2, <1>3, <1>4, <1>5 DEF Step, ExecutePlan

LEMMA OneMoves ==
    ASSUME TypeOK, Serial, waiting, [NextOfBoth]_<<vars, waiting>>
    PROVE  /\ waiting' = waiting
           /\ UNCHANGED vars \/ \E t \in Threads : OneStep(t) /\ Others(t)
  <1>1. waiting' = waiting /\ (SerialNext \/ UNCHANGED vars)
    BY DEF NextOfBoth, Wait, Race
  <1>2. \A t, u \in Threads : InFlight(t) /\ InFlight(u) => t = u
    BY DEF Serial
  <1>3. ASSUME NEW t \in Threads, Step(t) PROVE OneStep(t) /\ Others(t)
    BY <1>2, <1>3, StepFrame, StepOfOne DEF OneStep, Others
  <1>4. CASE DispatchFails \/ DispatchSucceeds
    <2>1. InFlight(Job) /\ Job \in Threads
      BY <1>4, ThreadsAssumption DEF DispatchFails, DispatchSucceeds, InFlight
    <2>2. Others(Job)
      BY <1>2, <1>4, <2>1 DEF DispatchFails, DispatchSucceeds, CompleteRun, Goto, Others, TypeOK
    <2>3. OneStep(Job)
      BY <1>4, <2>1 DEF OneStep
    <2>4. QED
      BY <1>1, <2>1, <2>2, <2>3
  <1>5. ASSUME NEW t \in Requests, Request(t), \A u \in Threads : ~InFlight(u)
        PROVE  t \in Threads /\ OneStep(t) /\ Others(t)
    <2>1. t \in Threads
      BY DEF Requests
    <2>2. Others(t)
      BY <1>5, <2>1 DEF Request, Approve, AbortRun, Goto, Others, TypeOK
    <2>3. OneStep(t)
      BY <1>5 DEF Request, OneStep, AtRest
    <2>4. QED
      BY <2>1, <2>2, <2>3
  <1>6. QED
    BY <1>1, <1>3, <1>4, <1>5 DEF SerialNext

\* An update of a thread alone at work writes what the thread brings.
LEMMA CompletedAlone ==
    ASSUME TypeOK, Serial, waiting, NEW t \in Threads, UpdateCompleted(t) \/ UpdateAborted(t)
    PROVE  row'.status = verdict[t]
  <1>1. loaded[t] = row
    BY DEF Serial, UpdateCompleted, UpdateAborted
  <1>2. QED
    BY <1>1 DEF UpdateCompleted, UpdateAborted, UpdateRow, Updated

\* Plans stay without repetition.
LEMMA GrownKept ==
    ASSUME BlocksApart, GatesNamedApart, IInv, Serial, waiting, [Next]_vars
    PROVE  /\ \A t \in Threads : Grown(plan'[t])
           /\ row'.pendingPlan # NoPlan => Grown(row'.pendingPlan)
  <1>1. \A t \in Threads : plan[t] \in Plans /\ Grown(plan[t])
    BY DEF IInv, TypeOK, Serial
  <1>2. ASSUME NEW t \in Threads PROVE Grown(plan'[t])
    <2>1. CASE plan'[t] = plan[t]
      BY <1>1, <2>1
    <2>2. CASE plan'[t] = Plan(plan[t].tasks, plan[t].cursor + 1)
      <3>1. plan[t].cursor + 1 \in Nat /\ plan[t].cursor <= plan[t].cursor + 1
        BY <1>1 DEF Plans
      <3>2. QED
        BY <1>1, <2>2, <3>1, CursorGrown
    <2>3. CASE Doing(t) /\ plan'[t] = Plan(Rescued(plan[t].tasks, plan[t].cursor), plan[t].cursor + 1)
      BY <1>1, <2>3, RescuedGrown DEF IInv, AtStep, Doing
    <2>4. CASE Approve(t) /\ plan'[t] = AdvancePastApprovedGate(row.pendingPlan, row.gateStepId)
      <3> DEFINE p == row.pendingPlan
      <3>1. p \in Plans /\ Grown(p)
        BY <2>4 DEF Approve, Serial, IInv, TypeOK, Rows
      <3>2. Paired
        BY <2>4 DEF Approve, Serial, IInv, Single, Awaiting
      <3>3. plan'[t] = Plan(p.tasks, p.cursor + 1)
        BY <2>4, <3>1, <3>2, AdvancedPastIt DEF Paired
      <3>4. p.cursor + 1 \in Nat /\ p.cursor <= p.cursor + 1
        BY <3>1 DEF Plans
      <3>5. QED
        BY <3>1, <3>3, <3>4, CursorGrown
    <2>5. QED
      BY <2>1, <2>2, <2>3, <2>4, PlanMoves DEF IInv
  <1>3. row'.pendingPlan # NoPlan => Grown(row'.pendingPlan)
    <2>1. row'.pendingPlan \in {row.pendingPlan, NoPlan} \/ \E t \in Threads : row'.pendingPlan = plan[t]
      BY RowMoves, RowWritten
    <2>2. QED
      BY <1>1, <2>1 DEF Serial
  <1>4. QED
    BY <1>2, <1>3

\* Only an approval can overlap with another.
LEMMA OverlapMoves ==
    [Next]_vars => overlapped' = overlapped \/ \E t \in Requests : Approve(t)
  BY DEF Next, Step, ExecutePlan, ContinueRun, Request, Dispatch, DispatchFails, DispatchThrows,
    DispatchSucceeds, SkipTask, FindPaused, UpdatePaused, StartTask, AnnounceFails, TaskSucceeds, TaskFails,
    FinishPlan, FindResumed, UpdateResumed, Crash, vars, history

\* What the thread alone at work has read and returns to.
LEMMA OwnRead ==
    ASSUME TypeOK, Serial, waiting, NEW t \in Threads, OneStep(t)
    PROVE  /\ pc'[t] \in {"completed", "aborted"} => loaded'[t] = row'
           /\ pc'[t] \in {"aborting", "aborted"} => verdict'[t] = "failed"
           /\ ~InFlight(t)' => UpdatePaused(t) \/ UpdateCompleted(t) \/ UpdateAborted(t)
  <1> USE DEF TypeOK, CompleteRun, FindRow, Goto, Return, InFlight
  <1>1. CASE (t = Job /\ (DispatchFails \/ DispatchSucceeds))
    BY <1>1 DEF DispatchFails, DispatchSucceeds
  <1>2. CASE SkipTask(t) \/ StartTask(t) \/ AnnounceFails(t) \/ TaskSucceeds(t) \/ FinishPlan(t)
    BY <1>2 DEF SkipTask, StartTask, AnnounceFails, TaskSucceeds, FinishPlan, NextTask, recordVars
  <1>3. CASE TaskFails(t)
    BY <1>3 DEF TaskFails
  <1>4. CASE FindPaused(t) \/ UpdatePaused(t) \/ FindResumed(t) \/ UpdateResumed(t)
    BY <1>4 DEF FindPaused, UpdatePaused, FindResumed, UpdateResumed
  <1>5. CASE FindCompleted(t) \/ UpdateCompleted(t) \/ UpdateAborted(t)
    BY <1>5 DEF FindCompleted, UpdateCompleted, UpdateAborted
  <1>6. CASE FindAborted(t)
    BY <1>6 DEF FindAborted, Serial
  <1>7. CASE Approve(t) \/ AbortRun(t)
    BY <1>7 DEF Approve, AbortRun
  <1>8. QED
    BY <1>1, <1>2, <1>3, <1>4, <1>5, <1>6, <1>7
      DEF OneStep, Step, ExecutePlan, ContinueRun, Complete, Abort

\* Each step keeps the run serial.
LEMMA SerialKept ==
    ASSUME BlocksApart, GatesNamedApart, IInv, Serial, [NextOfBoth]_<<vars, waiting>>
    PROVE  Serial'
  <1> SUFFICES ASSUME waiting' PROVE Serial'
    BY DEF Serial
  <1>1. waiting /\ [Next]_vars /\ TypeOK
    BY BothAreRuns DEF NextOfBoth, Wait, Race, IInv
  <1>2. CASE UNCHANGED vars
    BY <1>1, <1>2 DEF vars, recordVars, history, Serial, Grown, AtRest, InFlight
  <1>3. ASSUME NEW t \in Threads, OneStep(t), Others(t) PROVE Serial'
    <2>1. /\ pc'[t] \in {"completed", "aborted"} => loaded'[t] = row'
          /\ pc'[t] \in {"aborting", "aborted"} => verdict'[t] = "failed"
          /\ ~InFlight(t)' => UpdatePaused(t) \/ UpdateCompleted(t) \/ UpdateAborted(t)
      BY <1>1, <1>3, OwnRead
    <2>2. \A u \in Threads : InFlight(u)' => u = t
      BY <1>3 DEF Others, InFlight
    <2>3. ~overlapped'
      <3>1. ASSUME NEW u \in Requests, Approve(u) PROVE ~overlapped'
        <4>1. u \in Threads /\ ~InFlight(u) /\ pc'[u] # pc[u]
          BY <1>1, <3>1 DEF Approve, InFlight, Requests, Goto, TypeOK
        <4>2. AtRest
          <5>1. u = t
            BY <1>3, <4>1 DEF Others
          <5>2. QED
            BY <1>3, <4>1, <5>1 DEF OneStep
        <4>3. QED
          BY <1>1, <3>1, <4>2 DEF Approve, AtRest, InFlight, Serial
      <3>2. QED
        BY <1>1, <3>1, OverlapMoves DEF Serial
    <2>4. \A u \in Threads : pc'[u] \in {"completed", "aborted"} => loaded'[u] = row'
      BY <2>1, <2>2 DEF InFlight
    <2>5. \A u \in Threads : pc'[u] \in {"aborting", "aborted"} => verdict'[u] = "failed"
      BY <2>1, <2>2 DEF InFlight
    <2>6. AtRest' => row'.status \in {"awaiting_approval", "succeeded", "failed"}
      <3>1. UpdatePaused(t) => row'.status = "awaiting_approval"
        BY <1>1, RowOfOne DEF IInv, Serial, PausedRow
      <3>2. UpdateCompleted(t) \/ UpdateAborted(t) => row'.status \in {"succeeded", "failed"}
        BY <1>1, CompletedAlone DEF TypeOK
      <3>3. QED
        BY <2>1, <3>1, <3>2 DEF AtRest
    <2>7. (\A u \in Threads : Grown(plan'[u])) /\ (row'.pendingPlan # NoPlan => Grown(row'.pendingPlan))
      BY <1>1, GrownKept
    <2>8. QED
      BY <2>2, <2>3, <2>4, <2>5, <2>6, <2>7 DEF Serial, Grown
  <1>4. QED
    BY <1>1, <1>2, <1>3, OneMoves

LEMMA SerialBegins ==
    InitOfBoth => Serial
  <1> SUFFICES ASSUME Init PROVE Serial
    BY DEF InitOfBoth
  <1>1. \A t \in Threads : pc[t] = IF t = Job THEN "dispatching" ELSE "idle"
    BY DEF Init
  <1>2. Job \in Threads /\ InFlight(Job) /\ \A t \in Threads : InFlight(t) => t = Job
    BY <1>1, ThreadsAssumption DEF InFlight
  <1>3. row.pendingPlan = NoPlan /\ ~overlapped
    BY DEF Init, StartedRow
  <1>4. \A t \in Threads : Grown(plan[t])
    BY PlaybookGrown DEF Init
  <1>5. QED
    BY <1>1, <1>2, <1>3, <1>4 DEF Serial, AtRest

\* What the promise sees of a thread at work, and of a run nobody works on.
PhaseAtWork == \A t \in Threads : InFlight(t) =>
    /\ pc[t] \in {"tasks", "pausing", "approved", "resuming"} => phase = "ready" /\ todo = Remaining(plan[t])
    /\ pc[t] \in {"dispatching", "executing"} => phase = pc[t] /\ todo = Remaining(plan[t])
    /\ pc[t] = "failing" => phase = "executing" /\ todo = Remaining(plan[t])
    /\ pc[t] \in {"completing", "completed"} => phase = verdict[t] /\ todo = <<>>
    /\ pc[t] \in {"aborting", "aborted"} => phase = "failed" /\ todo = <<>>

PhaseAtRest == AtRest =>
    /\ row.status = "awaiting_approval" => phase = "paused" /\ todo = Remaining(row.pendingPlan)
    /\ row.status \in {"succeeded", "failed"} => phase = row.status /\ todo = <<>>

LEMMA Phases ==
    TypeOK /\ Serial /\ waiting => PhaseAtWork /\ PhaseAtRest
  <1> SUFFICES ASSUME TypeOK, Serial, waiting PROVE PhaseAtWork /\ PhaseAtRest
    OBVIOUS
  <1>1. ASSUME NEW t \in Threads, InFlight(t)
        PROVE  /\ phase = PhaseOf(pc[t])
               /\ Worker = t
               /\ todo = IF phase \in {"succeeded", "failed"} THEN <<>> ELSE Remaining(plan[t])
    <2>1. Working = {t}
      BY <1>1 DEF Serial, Working
    <2>2. Worker = t
      BY <2>1 DEF Worker
    <2>3. QED
      BY <2>1, <2>2 DEF phase, todo
  <1>2. PhaseAtWork
    <2> SUFFICES ASSUME NEW t \in Threads, InFlight(t)
                 PROVE  /\ pc[t] \in {"tasks", "pausing", "approved", "resuming"} => phase = "ready" /\ todo = Remaining(plan[t])
                        /\ pc[t] \in {"dispatching", "executing"} => phase = pc[t] /\ todo = Remaining(plan[t])
                        /\ pc[t] = "failing" => phase = "executing" /\ todo = Remaining(plan[t])
                        /\ pc[t] \in {"completing", "completed"} => phase = verdict[t] /\ todo = <<>>
                        /\ pc[t] \in {"aborting", "aborted"} => phase = "failed" /\ todo = <<>>
      BY DEF PhaseAtWork
    <2>1. phase = PhaseOf(pc[t]) /\ Worker = t
      BY <1>1
    <2>2. /\ pc[t] \in {"tasks", "pausing", "approved", "resuming"} => phase = "ready"
          /\ pc[t] \in {"dispatching", "executing"} => phase = pc[t]
          /\ pc[t] = "failing" => phase = "executing"
          /\ pc[t] \in {"completing", "completed"} => phase = verdict[t]
          /\ pc[t] \in {"aborting", "aborted"} => phase = "failed"
      BY <2>1 DEF PhaseOf
    <2>3. verdict[t] \in {"succeeded", "failed"}
      BY DEF TypeOK
    <2>4. QED
      BY <1>1, <2>2, <2>3
  <1>3. PhaseAtRest
    <2> SUFFICES ASSUME AtRest
                 PROVE  /\ row.status = "awaiting_approval" => phase = "paused" /\ todo = Remaining(row.pendingPlan)
                        /\ row.status \in {"succeeded", "failed"} => phase = row.status /\ todo = <<>>
      BY DEF PhaseAtRest
    <2>1. Working = {}
      BY DEF AtRest, Working
    <2>2. phase = IF row.status = "awaiting_approval" THEN "paused" ELSE row.status
      BY <2>1 DEF phase
    <2>3. todo = IF phase \in {"succeeded", "failed"} THEN <<>> ELSE Remaining(row.pendingPlan)
      BY <2>1 DEF todo
    <2>4. QED
      BY <2>2, <2>3
  <1>4. QED
    BY <1>2, <1>3

LEMMA PhasesAfter ==
    TypeOK' /\ Serial' /\ waiting' => PhaseAtWork' /\ PhaseAtRest'
  BY Phases, PTL

\* What is left of a plan is a sequence of tasks.
LEMMA RemainingIsPlan ==
    ASSUME NEW p \in Plans
    PROVE  Remaining(p) \in Seq(Tasks)
  <1>1. p.tasks \in Seq(Tasks) /\ p.cursor \in Nat \ {0}
    BY DEF Plans
  <1>2. Len(p.tasks) \in Nat /\ \A i \in p.cursor .. Len(p.tasks) : p.tasks[i] \in Tasks
    BY <1>1
  <1>3. QED
    BY <1>1, <1>2, SubSeqProperties DEF Remaining

\* A plan that stands at a task.
LEMMA StandsAt ==
    ASSUME NEW p \in Plans, p.cursor \in DOMAIN p.tasks
    PROVE  /\ p.tasks[p.cursor] \in Tasks
           /\ Remaining(p) # <<>>
           /\ Head(Remaining(p)) = p.tasks[p.cursor]
           /\ Tail(Remaining(p)) = Remaining(Plan(p.tasks, p.cursor + 1))
           /\ Remaining(Plan(Rescued(p.tasks, p.cursor), p.cursor + 1)) =
                 Def[p.tasks[p.cursor]].rescue \o Tail(Remaining(p))
  <1>1. p.tasks \in Seq(Tasks) /\ p.tasks[p.cursor] \in Tasks
    BY DEF Plans
  <1>2. Remaining(p) = Remaining(Plan(p.tasks, p.cursor))
    BY DEF Remaining, Plan
  <1>3. /\ Remaining(Plan(p.tasks, p.cursor)) # <<>>
        /\ Head(Remaining(Plan(p.tasks, p.cursor))) = p.tasks[p.cursor]
        /\ Tail(Remaining(Plan(p.tasks, p.cursor))) = Remaining(Plan(p.tasks, p.cursor + 1))
    BY <1>1, RemainingNext
  <1>4. Remaining(Plan(Rescued(p.tasks, p.cursor), p.cursor + 1)) =
           Def[p.tasks[p.cursor]].rescue \o Remaining(Plan(p.tasks, p.cursor + 1))
    BY <1>1, RemainingRescued
  <1>5. QED
    BY <1>1, <1>2, <1>3, <1>4

\* A thread that executes the plan does what the promise says.
LEMMA ExecutionPromised ==
    ASSUME IInv, IInv', Serial, Serial', waiting, waiting', NEW t \in Threads, ExecutePlan(t), Others(t)
    PROVE  [Promise!Next]_<<todo, phase>>
  <1> DEFINE p == plan[t]
  <1>1. /\ PhaseAtWork /\ PhaseAtRest /\ PhaseAtWork' /\ PhaseAtRest'
        /\ TypeOK /\ TypeOK' /\ AtStep /\ ~overlapped
    BY Phases, PhasesAfter DEF IInv, Serial
  <1>2. /\ p \in Plans /\ p.cursor \in Nat /\ Len(p.tasks) \in Nat
        /\ pc \in [Threads -> Steps] /\ plan \in [Threads -> Plans] /\ verdict \in [Threads -> {"succeeded", "failed"}]
    BY <1>1 DEF TypeOK, Plans
  <1>3. ~AtEnd(t) => p.cursor \in DOMAIN p.tasks
    BY <1>2 DEF AtEnd, Plans
  <1>4. /\ pc[t] \in {"tasks", "pausing"} => phase = "ready" /\ todo = Remaining(p)
        /\ pc[t] \in {"executing", "failing"} => phase = "executing" /\ todo = Remaining(p)
    BY <1>1 DEF PhaseAtWork, InFlight
  <1>5. /\ pc'[t] \in {"tasks", "pausing"} => phase' = "ready" /\ todo' = Remaining(plan'[t])
        /\ pc'[t] \in {"executing", "failing"} => phase' = "executing" /\ todo' = Remaining(plan'[t])
        /\ pc'[t] = "completing" => phase' = verdict'[t] /\ todo' = <<>>
    BY <1>1 DEF PhaseAtWork, InFlight
  <1>6. p.cursor \in DOMAIN p.tasks =>
           /\ Current(t) \in Tasks
           /\ Remaining(p) # <<>>
           /\ Head(Remaining(p)) = Current(t)
           /\ Tail(Remaining(p)) = Remaining(Plan(p.tasks, p.cursor + 1))
           /\ Remaining(Plan(Rescued(p.tasks, p.cursor), p.cursor + 1)) = Def[Current(t)].rescue \o Tail(Remaining(p))
    BY <1>2, StandsAt DEF Current
  <1> HIDE DEF p
  <1>7. CASE SkipTask(t)
    <2>1. pc[t] = "tasks" /\ pc'[t] = "tasks" /\ ~AtEnd(t) /\ Def[Current(t)].when
      BY <1>7 DEF SkipTask, recordVars
    <2>2. plan'[t] = Plan(p.tasks, p.cursor + 1)
      BY <1>2, <1>7 DEF SkipTask, NextTask, SetPlan, p
    <2>3. Promise!Skip
      BY <1>3, <1>4, <1>5, <1>6, <2>1, <2>2 DEF Promise!Skip
    <2>4. QED
      BY <2>3 DEF Promise!Next
  <1>8. CASE FindPaused(t)
    <2>1. pc[t] = "tasks" /\ pc'[t] = "pausing" /\ plan'[t] = p
      BY <1>2, <1>8 DEF FindPaused, FindRow, Goto, p
    <2>2. QED
      BY <1>4, <1>5, <2>1
  <1>9. CASE UpdatePaused(t)
    <2>1. pc[t] = "pausing" /\ pc'[t] = "done"
      BY <1>2, <1>9 DEF UpdatePaused, Goto
    <2>2. p.cursor \in DOMAIN p.tasks /\ IsGate(Current(t))
      BY <1>1, <2>1 DEF AtStep, p
    <2>3. AtRest'
      BY <2>1 DEF Others, AtRest, InFlight
    <2>4. row'.status = "awaiting_approval" /\ row'.pendingPlan = p
      BY <1>1, <1>9, RowOfOne DEF IInv, PausedRow, p
    <2>5. phase' = "paused" /\ todo' = Remaining(p)
      BY <1>1, <2>3, <2>4 DEF PhaseAtRest
    <2>6. Promise!Pause
      BY <1>4, <1>6, <2>1, <2>2, <2>5 DEF Promise!Pause, Promise!IsGate, IsGate
    <2>7. QED
      BY <2>6 DEF Promise!Next
  <1>10. CASE StartTask(t) \/ AnnounceFails(t)
    <2>1. pc[t] = "tasks" /\ pc'[t] \in {"executing", "failing"} /\ plan'[t] = p /\ ~AtEnd(t) /\ ~IsGate(Current(t))
      BY <1>2, <1>10 DEF StartTask, AnnounceFails, Goto, p
    <2>2. Promise!Start
      BY <1>3, <1>4, <1>5, <1>6, <2>1 DEF Promise!Start, Promise!IsGate, IsGate
    <2>3. QED
      BY <2>2 DEF Promise!Next
  <1>11. CASE TaskSucceeds(t)
    <2>1. pc[t] = "executing" /\ pc'[t] = "tasks"
      BY <1>2, <1>11 DEF TaskSucceeds, Goto
    <2>2. plan'[t] = Plan(p.tasks, p.cursor + 1)
      BY <1>2, <1>11 DEF TaskSucceeds, NextTask, SetPlan, p
    <2>3. p.cursor \in DOMAIN p.tasks
      BY <1>1, <2>1 DEF AtStep, p
    <2>4. Promise!Succeed
      BY <1>4, <1>5, <1>6, <2>1, <2>2, <2>3 DEF Promise!Succeed
    <2>5. QED
      BY <2>4 DEF Promise!Next
  <1>12. CASE TaskFails(t)
    <2>1. pc[t] \in {"executing", "failing"} /\ p.cursor \in DOMAIN p.tasks
      BY <1>1, <1>12 DEF TaskFails, AtStep, p
    <2>2. Head(todo) = Current(t) /\ Def[Current(t)].rescue \in Seq(Tasks)
      BY <1>4, <1>6, <2>1, TasksAssumption
    <2>3. CASE Def[Current(t)].rescue # <<>>
      <3>1. pc'[t] = "tasks" /\ plan'[t] = Plan(Rescued(p.tasks, p.cursor), p.cursor + 1)
        BY <1>2, <1>12, <2>3 DEF TaskFails, SetPlan, Goto, p
      <3>2. Promise!Fail
        BY <1>4, <1>5, <1>6, <2>1, <2>2, <2>3, <3>1 DEF Promise!Fail
      <3>3. QED
        BY <3>2 DEF Promise!Next
    <2>4. CASE Def[Current(t)].rescue = <<>> /\ Def[Current(t)].ignoreErrors
      <3>1. pc'[t] = "tasks" /\ plan'[t] = Plan(p.tasks, p.cursor + 1)
        BY <1>2, <1>12, <2>4 DEF TaskFails, NextTask, SetPlan, Goto, p
      <3>2. todo' = Def[Current(t)].rescue \o Tail(todo)
        <4>1. Remaining(Plan(p.tasks, p.cursor + 1)) \in Seq(Tasks)
          BY <1>2, <3>1, RemainingIsPlan, <1>1 DEF TypeOK
        <4>2. QED
          BY <1>4, <1>5, <1>6, <2>1, <2>4, <3>1, <4>1, ConcatEmptySeq
      <3>3. Promise!Fail
        BY <1>4, <1>5, <2>1, <2>2, <2>4, <3>1, <3>2 DEF Promise!Fail
      <3>4. QED
        BY <3>3 DEF Promise!Next
    <2>5. CASE Def[Current(t)].rescue = <<>> /\ ~Def[Current(t)].ignoreErrors
      <3>1. pc'[t] = "completing" /\ verdict'[t] = "failed"
        BY <1>2, <1>12, <2>5 DEF TaskFails, CompleteRun, Goto
      <3>2. Promise!Fail
        BY <1>4, <1>5, <2>1, <2>2, <2>5, <3>1 DEF Promise!Fail, Promise!End
      <3>3. QED
        BY <3>2 DEF Promise!Next
    <2>6. QED
      BY <2>3, <2>4, <2>5
  <1>13. CASE FinishPlan(t)
    <2>1. pc[t] = "tasks" /\ AtEnd(t) /\ pc'[t] = "completing" /\ verdict'[t] = "succeeded"
      BY <1>2, <1>13 DEF FinishPlan, CompleteRun, Goto
    <2>2. todo = <<>>
      BY <1>2, <1>4, <2>1, RemainingNone DEF AtEnd, p
    <2>3. Promise!Finish
      BY <1>4, <1>5, <2>1, <2>2 DEF Promise!Finish, Promise!End
    <2>4. QED
      BY <2>3 DEF Promise!Next
  <1>14. QED
    BY <1>7, <1>8, <1>9, <1>10, <1>11, <1>12, <1>13 DEF ExecutePlan

\* So does every other step: it begins, takes an approval, or ends the run.
LEMMA OneStepPromised ==
    ASSUME GatesNamedApart, IInv, IInv', Serial, Serial', waiting, waiting',
           NEW t \in Threads, OneStep(t), Others(t)
    PROVE  [Promise!Next]_<<todo, phase>>
  <1>1. /\ PhaseAtWork /\ PhaseAtRest /\ PhaseAtWork' /\ PhaseAtRest'
        /\ TypeOK /\ TypeOK' /\ ~overlapped
    BY Phases, PhasesAfter DEF IInv, Serial
  <1>2. /\ pc \in [Threads -> Steps] /\ plan \in [Threads -> Plans]
        /\ verdict \in [Threads -> {"succeeded", "failed"}]
    BY <1>1 DEF TypeOK
  <1>3. /\ pc[t] \in {"approved", "resuming"} => phase = "ready" /\ todo = Remaining(plan[t])
        /\ pc[t] = "dispatching" => phase = "dispatching" /\ todo = Remaining(plan[t])
        /\ pc[t] \in {"completing", "completed"} => phase = verdict[t] /\ todo = <<>>
        /\ pc[t] \in {"aborting", "aborted"} => phase = "failed" /\ todo = <<>>
    BY <1>1 DEF PhaseAtWork, InFlight
  <1>4. /\ pc'[t] \in {"tasks", "approved", "resuming"} => phase' = "ready" /\ todo' = Remaining(plan'[t])
        /\ pc'[t] \in {"completing", "completed"} => phase' = verdict'[t] /\ todo' = <<>>
        /\ pc'[t] \in {"aborting", "aborted"} => phase' = "failed" /\ todo' = <<>>
    BY <1>1 DEF PhaseAtWork, InFlight
  <1>5. CASE ExecutePlan(t)
    BY <1>5, ExecutionPromised
  <1>6. CASE t = Job /\ (DispatchFails \/ DispatchSucceeds)
    <2>1. pc[t] = "dispatching"
      BY <1>6 DEF DispatchFails, DispatchSucceeds
    <2>2. CASE DispatchFails
      <3>1. pc'[t] = "completing" /\ verdict'[t] = "failed"
        BY <1>2, <1>6, <2>2 DEF DispatchFails, CompleteRun, Goto
      <3>2. Promise!Dispatch
        BY <1>3, <1>4, <2>1, <3>1 DEF Promise!Dispatch, Promise!End
      <3>3. QED
        BY <3>2 DEF Promise!Next
    <2>3. CASE DispatchSucceeds
      <3>1. pc'[t] = "tasks" /\ plan' = plan
        BY <1>2, <1>6, <2>3 DEF DispatchSucceeds, Goto
      <3>2. Promise!Dispatch
        BY <1>3, <1>4, <2>1, <3>1 DEF Promise!Dispatch
      <3>3. QED
        BY <3>2 DEF Promise!Next
    <2>4. QED
      BY <1>6, <2>2, <2>3
  <1>7. CASE ContinueRun(t)
    <2>1. pc[t] \in {"approved", "resuming"} /\ pc'[t] \in {"resuming", "tasks"} /\ plan' = plan
      BY <1>2, <1>7 DEF ContinueRun, FindResumed, UpdateResumed, FindRow, Goto
    <2>2. QED
      BY <1>3, <1>4, <2>1
  <1>8. CASE FindCompleted(t)
    <2>1. pc[t] = "completing" /\ pc'[t] = "completed" /\ verdict' = verdict
      BY <1>2, <1>8 DEF FindCompleted, FindRow, Goto
    <2>2. QED
      BY <1>3, <1>4, <2>1
  <1>9. CASE FindAborted(t)
    <2>1. pc[t] = "aborting" /\ pc'[t] = "aborted"
      BY <1>2, <1>9 DEF FindAborted, FindRow, Goto
    <2>2. QED
      BY <1>3, <1>4, <2>1
  <1>10. CASE UpdateCompleted(t) \/ UpdateAborted(t)
    <2>1. pc[t] \in {"completed", "aborted"} /\ pc'[t] = "done"
      BY <1>2, <1>10 DEF UpdateCompleted, UpdateAborted, Return, Goto
    <2>2. AtRest'
      BY <2>1 DEF Others, AtRest, InFlight
    <2>3. phase = verdict[t] /\ todo = <<>>
      BY <1>3, <2>1 DEF Serial
    <2>4. row'.status = verdict[t] /\ verdict[t] \in {"succeeded", "failed"}
      BY <1>1, <1>2, <1>10, CompletedAlone
    <2>5. phase' = verdict[t] /\ todo' = <<>>
      BY <1>1, <2>2, <2>4 DEF PhaseAtRest
    <2>6. QED
      BY <2>3, <2>5
  <1>11. CASE AtRest /\ Approve(t)
    <2> DEFINE p == row.pendingPlan
    <2>1. row.status = "awaiting_approval" /\ p \in Plans /\ Grown(p)
      BY <1>1, <1>11 DEF Approve, Serial, TypeOK, Rows
    <2>2. p.cursor \in DOMAIN p.tasks /\ Names(p.tasks[p.cursor], row.gateStepId)
      BY <1>1, <2>1 DEF IInv, Single, Awaiting, Paired
    <2>3. pc'[t] = "approved" /\ plan'[t] = Plan(p.tasks, p.cursor + 1)
      BY <1>2, <1>11, <2>1, <2>2, AdvancedPastIt DEF Approve, Goto
    <2>4. phase = "paused" /\ todo = Remaining(p)
      BY <1>1, <1>11, <2>1 DEF PhaseAtRest
    <2>5. Remaining(Plan(p.tasks, p.cursor + 1)) = Tail(Remaining(p))
      BY <2>1, <2>2, StandsAt
    <2>6. Promise!Approve
      BY <1>4, <2>3, <2>4, <2>5 DEF Promise!Approve
    <2>7. QED
      BY <2>6 DEF Promise!Next
  <1>12. CASE AtRest /\ AbortRun(t)
    <2>1. row.status = "awaiting_approval" /\ pc'[t] = "aborting"
      BY <1>2, <1>12 DEF AbortRun, Serial, Goto
    <2>2. phase = "paused"
      BY <1>1, <1>12, <2>1 DEF PhaseAtRest
    <2>3. Promise!Abort
      BY <1>4, <2>1, <2>2 DEF Promise!Abort, Promise!End
    <2>4. QED
      BY <2>3 DEF Promise!Next
  <1>13. QED
    BY <1>5, <1>6, <1>7, <1>8, <1>9, <1>10, <1>11, <1>12 DEF OneStep, Step, Complete, Abort

\* Nothing is promised of a race, and nothing happens while nothing changes.
LEMMA NothingHappens ==
    ASSUME ~waiting \/ UNCHANGED vars, UNCHANGED waiting
    PROVE  UNCHANGED <<todo, phase>>
  <1>1. CASE ~waiting
    BY <1>1 DEF todo, phase
  <1>2. CASE UNCHANGED vars
    BY <1>2 DEF vars, recordVars, todo, phase, Working, Worker, PhaseOf, InFlight, Remaining
  <1>3. QED
    BY <1>1, <1>2

\* KeepsPromise: for every manifest that is a tree and names its gates apart, and
\* any number of requests, as long as operators make theirs while nothing works
\* on the run and no replica goes down: every step is one of the sequential plan
\* of GatedPlan, or none.
THEOREM PromiseIsKept ==
    ASSUME BlocksApart, GatesNamedApart
    PROVE  SpecOfBoth => KeepsPromise
  <1> DEFINE Inv == IInv /\ Serial
  <1>1. InitOfBoth => Inv
    BY Begins, SerialBegins DEF InitOfBoth
  <1>2. Inv /\ [NextOfBoth]_<<vars, waiting>> => Inv'
    <2> SUFFICES ASSUME Inv, [NextOfBoth]_<<vars, waiting>> PROVE Inv'
      OBVIOUS
    <2>1. [Next]_vars
      BY BothAreRuns
    <2>2. QED
      BY <2>1, IInvKept, SerialKept
  <1>3. InitOfBoth => Promise!Init
    <2> SUFFICES ASSUME InitOfBoth PROVE todo = Playbook /\ phase = "dispatching"
      BY DEF Promise!Init
    <2>1. CASE ~waiting
      BY <2>1 DEF todo, phase
    <2>2. CASE waiting
      <3>1. TypeOK /\ Serial
        BY <1>1 DEF IInv
      <3>2. Job \in Threads /\ pc[Job] = "dispatching" /\ plan[Job] = Plan(Playbook, 1)
        BY ThreadsAssumption DEF InitOfBoth, Init
      <3>3. phase = "dispatching" /\ todo = Remaining(Plan(Playbook, 1))
        BY <2>2, <3>1, <3>2, Phases DEF PhaseAtWork, InFlight
      <3>4. Remaining(Plan(Playbook, 1)) = Playbook
        BY TasksAssumption, SubSeqFull DEF Remaining, Plan
      <3>5. QED
        BY <3>3, <3>4
    <2>3. QED
      BY <2>1, <2>2
  <1>4. Inv /\ Inv' /\ [NextOfBoth]_<<vars, waiting>> => [Promise!Next]_(Promise!vars)
    <2> SUFFICES ASSUME Inv, Inv', [NextOfBoth]_<<vars, waiting>> PROVE [Promise!Next]_<<todo, phase>>
      BY DEF Promise!vars
    <2>1. CASE UNCHANGED vars \/ ~waiting
      BY <2>1, NothingHappens DEF NextOfBoth, Wait, Race
    <2>2. CASE waiting /\ ~UNCHANGED vars
      <3>1. waiting' = waiting /\ \E t \in Threads : OneStep(t) /\ Others(t)
        BY <2>2, OneMoves DEF IInv
      <3>2. QED
        BY <2>2, <3>1, OneStepPromised
    <2>3. QED
      BY <2>1, <2>2
  <1>5. QED
    BY <1>1, <1>2, <1>3, <1>4, PTL DEF SpecOfBoth, KeepsPromise, Promise!Spec
=============================================================================
