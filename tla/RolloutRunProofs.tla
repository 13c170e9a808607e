--------------------------- MODULE RolloutRunProofs ---------------------------
(***************************************************************************)
(* What success means, for any number of instances, overlapping polls and  *)
(* aborts.  Two facts carry it: a verdict is only as good as the listing   *)
(* it was taken from, and what it says of that instant stays true; and an  *)
(* instance whose failed dispatch was recorded is found failed until       *)
(* somebody touches it.                                                    *)
(***************************************************************************)
EXTENDS RolloutRun, TLAPS

Dispatching == pc[Job] \in {"dispatching", "marking"}

\* Which thread is at which step.
Roles ==
    /\ pc[Job] \notin {"idle", "listing", "deciding"}
    /\ pc[Job] = "dispatching" => unmarked = Watched
    /\ \A t \in Polls \cup Aborts : pc[t] \notin {"dispatching", "marking"}
    /\ \A t \in Aborts : pc[t] \notin {"listing", "deciding"}

\* Nothing is watched before every dispatch result is recorded.
WatchedLater ==
    armed \/ (\E t \in Polls : pc[t] # "idle") => ~Dispatching /\ unmarked = {}

\* A success in the making is claimed by a poll that listed or a thread that completes.
Success(t) == verdict[t] = "succeeded" \/ (t \in Polls /\ outcome[t] = "succeeded")
Claimed == row.status = "succeeded" \/ \E t \in Threads : Success(t)

\* A claim stands on an instant at which all were ready.
ClaimsWereReady == Claimed => Watched = {} \/ allReady
ReadySeen == AllReady => allReady

\* An instance whose failed dispatch is recorded, and that nobody touched since.
Undelivered == (Listed \ dispatched) \ touched

\* Between the read and the write of a dispatch result, an instance that nobody
\* touched is as it was found.
MarkFound ==
    \A i \in marking.instance :
        /\ i \in unmarked
        /\ i \notin touched => condition[i] \in {marking.found, "gone"}
UndeliveredFailed == \A i \in Undelivered \ unmarked : condition[i] = "failed"

ClaimsAreTouched == Claimed => ~Dispatching /\ Undelivered = {}

IInv ==
    /\ TypeOK /\ Roles /\ WatchedLater
    /\ ReadySeen /\ ClaimsWereReady
    /\ MarkFound /\ UndeliveredFailed /\ ClaimsAreTouched

(* Types *******************************************************************)

\* An update of a run's row writes the verdict or leaves the status alone.
LEMMA StatusWritten ==
    ASSUME NEW t \in Threads, UpdateCompleted(t) \/ UpdateAborted(t)
    PROVE  row'.status \in {row.status, verdict[t]}
  BY DEF UpdateCompleted, UpdateAborted, UpdateRow, Updated

\* Each step keeps the types.
LEMMA TypeKept ==
    TypeOK /\ [Next]_vars => TypeOK'
  <1> SUFFICES ASSUME TypeOK, [Next]_vars PROVE TypeOK'
    OBVIOUS
  <1> USE DEF TypeOK, watchVars, history, recordVars, Goto
  <1>1. CASE DispatchPlans
    BY <1>1 DEF DispatchPlans
  <1>2. CASE Watch
    BY <1>2 DEF Watch, CompleteRun
  <1>3. ASSUME NEW i \in Watched, FindInstance(i) PROVE TypeOK'
    BY <1>3 DEF FindInstance
  <1>4. ASSUME NEW i \in Watched, UpdateInstance(i) PROVE TypeOK'
    <2>1. condition' \in [Watched -> Conditions]
      BY <1>4 DEF UpdateInstance, Conditions
    <2>2. {armed, expired, caught, allReady}' \subseteq BOOLEAN
      BY <1>4 DEF UpdateInstance, Observe
    <2>3. QED
      BY <1>4, <2>1, <2>2 DEF UpdateInstance, NoMark, Conditions
  <1>5. CASE Throw
    BY <1>5 DEF Throw, CompleteRun
  <1>6. ASSUME NEW t \in Polls, Fire(t) PROVE TypeOK'
    BY <1>6 DEF Fire
  <1>7. ASSUME NEW t \in Polls, ListInstances(t) PROVE TypeOK'
    BY <1>7 DEF ListInstances, Outcome, Outcomes
  <1>8. ASSUME NEW t \in Polls, Decide(t) PROVE TypeOK'
    BY <1>8 DEF Decide, Settle, CompleteRun, Outcomes
  <1>9. ASSUME NEW t \in Polls, PollRejected(t) PROVE TypeOK'
    BY <1>9 DEF PollRejected
  <1>10. ASSUME NEW t \in Threads, CompleteStep(t) PROVE TypeOK'
    <2>1. CASE FindCompleted(t) \/ FindAborted(t)
      BY <1>10, <2>1 DEF CompleteStep, FindCompleted, FindAborted, FindRow
    <2>2. CASE UpdateCompleted(t) \/ UpdateAborted(t)
      BY <1>10, <2>2, StatusWritten DEF CompleteStep, UpdateCompleted, UpdateAborted, Return, Statuses
    <2>3. QED
      BY <1>10, <2>1, <2>2 DEF CompleteStep, Complete, Abort
  <1>11. CASE Expire
    BY <1>11 DEF Expire
  <1>12. ASSUME NEW i \in Watched, Report(i) PROVE TypeOK'
    <2>1. {armed, expired, caught, allReady}' \subseteq BOOLEAN
      <3>1. armed' = armed /\ expired' = expired /\ caught' = caught
        BY <1>12 DEF Report
      <3>2. allReady' \in BOOLEAN
        BY <1>12, Zenon DEF Report, Observe
      <3>3. QED
        BY <3>1, <3>2
    <2>2. QED
      BY <1>12, <2>1 DEF Report
  <1>13. ASSUME NEW i \in Watched, DeleteInstance(i) PROVE TypeOK'
    <2>1. {armed, expired, caught, allReady}' \subseteq BOOLEAN
      <3>1. armed' = armed /\ expired' = expired /\ caught' = caught
        BY <1>13 DEF DeleteInstance
      <3>2. allReady' \in BOOLEAN
        BY <1>13, Zenon DEF DeleteInstance, Observe
      <3>3. QED
        BY <3>1, <3>2
    <2>2. QED
      BY <1>13, <2>1 DEF DeleteInstance, Conditions
  <1>14. ASSUME NEW t \in Aborts, AbortRun(t), UNCHANGED <<condition, watchVars, history>> PROVE TypeOK'
    BY <1>14 DEF AbortRun
  <1>15. CASE Finish
    BY <1>15 DEF Finish
  <1>16. ASSUME NEW t \in Aborts, AbortRejected(t) PROVE TypeOK'
    BY <1>16 DEF AbortRejected, Return
  <1>17. ASSUME NEW r \in Replicas, Crash(r) PROVE TypeOK'
    BY <1>17 DEF Crash
  <1>18. CASE UNCHANGED vars
    BY <1>18 DEF vars
  <1>19. QED
    BY <1>1, <1>2, <1>3, <1>4, <1>5, <1>6, <1>7, <1>8, <1>9, <1>10, <1>11, <1>12, <1>13, <1>14,
      <1>15, <1>16, <1>17, <1>18 DEF Next, ExecuteStep, PollStep, Environment

(* Roles *******************************************************************)

\* Steps keep the threads at steps of their own, and the watch behind the marking.
LEMMA RolesKept ==
    TypeOK /\ Roles /\ WatchedLater /\ [Next]_vars => Roles' /\ WatchedLater'
  <1> SUFFICES ASSUME TypeOK, Roles, WatchedLater, [Next]_vars PROVE Roles' /\ WatchedLater'
    OBVIOUS
  <1> USE ThreadsAssumption DEF TypeOK, Roles, WatchedLater, Dispatching, watchVars, history,
      recordVars, Goto
  <1>1. CASE DispatchPlans
    BY <1>1 DEF DispatchPlans
  <1>2. CASE Watch
    <2>1. pc[Job] = "marking" /\ unmarked = {} /\ unmarked' = unmarked
      BY <1>2 DEF Watch
    <2>2. \E to \in {"completing", "finishing"}, t \in Polls :
             pc' \in {[pc EXCEPT ![Job] = to], [pc EXCEPT ![t] = "completing", ![Job] = to]}
      BY <1>2 DEF Watch, CompleteRun
    <2>3. \A t \in Threads : t # Job => pc'[t] \in {pc[t], "completing"}
      BY <2>2
    <2>4. pc'[Job] \in {"completing", "finishing"}
      BY <2>2
    <2> QED
      BY <2>1, <2>3, <2>4
  <1>3. ASSUME NEW i \in Watched, FindInstance(i) PROVE Roles' /\ WatchedLater'
    BY <1>3 DEF FindInstance
  <1>4. ASSUME NEW i \in Watched, UpdateInstance(i) PROVE Roles' /\ WatchedLater'
    BY <1>4 DEF UpdateInstance
  <1>5. CASE Throw
    <2>1. \E to \in {"completing", "done", "cut off"} : pc' = [pc EXCEPT ![Job] = to]
      BY <1>5 DEF Throw, CompleteRun
    <2>2. UNCHANGED <<armed, unmarked>>
      BY <1>5 DEF Throw
    <2> QED
      BY <2>1, <2>2
  <1>6. ASSUME NEW t \in Polls, Fire(t) PROVE Roles' /\ WatchedLater'
    BY <1>6 DEF Fire
  <1>7. ASSUME NEW t \in Polls, ListInstances(t) PROVE Roles' /\ WatchedLater'
    BY <1>7 DEF ListInstances
  <1>8. ASSUME NEW t \in Polls, Decide(t) PROVE Roles' /\ WatchedLater'
    <2>1. \E to \in {"completing", "idle"} : pc' = [pc EXCEPT ![t] = to]
      BY <1>8 DEF Decide, Settle, CompleteRun
    <2>2. unmarked' = unmarked /\ (armed' = FALSE \/ armed' = armed)
      BY <1>8, Zenon DEF Decide, Settle
    <2>3. pc[t] = "deciding"
      BY <1>8 DEF Decide
    <2> QED
      BY <2>1, <2>2, <2>3
  <1>9. ASSUME NEW t \in Polls, PollRejected(t) PROVE Roles' /\ WatchedLater'
    BY <1>9 DEF PollRejected
  <1>10. ASSUME NEW t \in Threads, CompleteStep(t) PROVE Roles' /\ WatchedLater'
    <2>1. UNCHANGED <<armed, unmarked>>
      BY <1>10 DEF CompleteStep, Complete, Abort, FindCompleted, UpdateCompleted, FindAborted,
        UpdateAborted
    <2>2. CASE FindCompleted(t) \/ FindAborted(t)
      <3>1. /\ pc[t] \in {"completing", "aborting"}
            /\ pc' \in {[pc EXCEPT ![t] = "completed"], [pc EXCEPT ![t] = "aborted"]}
        BY <2>2 DEF FindCompleted, FindAborted, FindRow
      <3>2. QED
        BY <2>1, <3>1
    <2>3. CASE UpdateCompleted(t) \/ UpdateAborted(t)
      BY <2>1, <2>3 DEF UpdateCompleted, UpdateAborted, Return
    <2>4. QED
      BY <1>10, <2>2, <2>3 DEF CompleteStep, Complete, Abort
  <1>11. CASE Environment \/ UNCHANGED vars
    <2>1. CASE UNCHANGED <<pc, armed, unmarked>>
      BY <2>1
    <2>2. Expire \/ (\E i \in Watched : Report(i) \/ DeleteInstance(i)) \/ UNCHANGED vars
            => UNCHANGED <<pc, armed, unmarked>>
      BY DEF Expire, Report, DeleteInstance, vars
    <2>3. ASSUME NEW t \in Aborts, AbortRun(t), UNCHANGED watchVars PROVE Roles' /\ WatchedLater'
      <3>1. pc' = pc \/ pc' = [pc EXCEPT ![t] = "aborting"]
        BY <2>3 DEF AbortRun, CompleteRun
      <3>2. UNCHANGED <<armed, unmarked>>
        BY <2>3
      <3>3. \A u \in Threads : u # t => pc'[u] = pc[u]
        BY <3>1
      <3>4. pc'[t] \in {pc[t], "aborting"}
        BY <3>1
      <3>5. pc'[Job] = pc[Job] /\ \A u \in Polls : pc'[u] = pc[u]
        BY <3>3
      <3>6. Roles'
        BY <3>2, <3>3, <3>4, <3>5
      <3> QED
        BY <3>2, <3>5, <3>6
    <2>4. ASSUME NEW t \in Aborts, AbortRejected(t) PROVE Roles' /\ WatchedLater'
      BY <2>4 DEF AbortRejected, Return
    <2>5. ASSUME NEW r \in Replicas, Crash(r) PROVE Roles' /\ WatchedLater'
      <3>1. \A t \in Threads : pc'[t] \in {pc[t], "cut off"}
        BY <2>5 DEF Crash
      <3>2. (armed' => armed) /\ unmarked' = unmarked
        BY <2>5 DEF Crash
      <3>3. \A t \in Polls : pc'[t] # "idle" => pc[t] # "idle"
        BY <2>5 DEF Crash, InFlight
      <3>4. QED
        BY <3>1, <3>2, <3>3
    <2>6. QED
      BY <1>11, <2>1, <2>2, <2>3, <2>4, <2>5 DEF Environment
  <1>12. CASE Finish
    BY <1>12 DEF Finish
  <1>13. QED
    BY <1>1, <1>2, <1>3, <1>4, <1>5, <1>6, <1>7, <1>8, <1>9, <1>10, <1>11, <1>12
      DEF Next, ExecuteStep, PollStep

(* Instances ***************************************************************)

\* The steps that change an instance or what is known of it.
LEMMA InstanceSteps ==
    [Next]_vars =>
        \/ DispatchPlans
        \/ \E i \in Watched :
              FindInstance(i) \/ UpdateInstance(i) \/ Report(i) \/ DeleteInstance(i)
        \/ UNCHANGED <<condition, unmarked, marking, dispatched, touched, allReady>>
  BY DEF Next, ExecuteStep, PollStep, Environment, CompleteStep, Watch, Finish, Throw, Fire,
    ListInstances, Decide, PollRejected, AbortRejected, Crash, Expire, watchVars, history, vars

\* An instant at which all are ready is noticed.
LEMMA ReadySeenKept ==
    TypeOK /\ ReadySeen /\ [Next]_vars => ReadySeen' /\ (allReady => allReady')
  <1> SUFFICES ASSUME TypeOK, ReadySeen, [Next]_vars PROVE ReadySeen' /\ (allReady => allReady')
    OBVIOUS
  <1>1. (UNCHANGED condition /\ UNCHANGED allReady) \/ Observe
    BY InstanceSteps DEF DispatchPlans, FindInstance, UpdateInstance, Report, DeleteInstance, history
  <1>2. UNCHANGED condition => (AllReady <=> AllReady')
    BY DEF AllReady, Listed
  <1>3. QED
    BY <1>1, <1>2 DEF TypeOK, ReadySeen, Observe

Marks == MarkFound /\ UndeliveredFailed

\* An instance whose failed dispatch is recorded stays failed until it is touched.
LEMMA MarksKept ==
    TypeOK /\ Roles /\ Marks /\ [Next]_vars => Marks'
  <1> SUFFICES ASSUME TypeOK, Roles, Marks, [Next]_vars PROVE Marks'
    OBVIOUS
  <1> USE DEF TypeOK, Marks, MarkFound, UndeliveredFailed, Undelivered, Listed, watchVars, history
  <1>1. CASE DispatchPlans
    BY <1>1 DEF DispatchPlans, Roles
  <1>2. ASSUME NEW i \in Watched, FindInstance(i) PROVE Marks'
    BY <1>2 DEF FindInstance
  <1>3. ASSUME NEW i \in Watched, UpdateInstance(i) PROVE Marks'
    <2>1. marking'.instance = {}
      BY <1>3 DEF UpdateInstance, NoMark
    <2>2. ASSUME NEW n \in Undelivered' \ unmarked' PROVE condition'[n] = "failed"
      <3>1. CASE n = i
        <4>1. condition[i] # "gone" /\ i \notin dispatched /\ i \notin touched
          BY <1>3, <2>2, <3>1 DEF UpdateInstance
        <4>2. condition[i] = marking.found
          BY <1>3, <4>1 DEF UpdateInstance
        <4>3. QED
          BY <1>3, <3>1, <4>1, <4>2 DEF UpdateInstance
      <3>2. CASE n # i
        BY <1>3, <2>2, <3>2 DEF UpdateInstance
      <3>3. QED
        BY <3>1, <3>2
    <2>3. QED
      BY <2>1, <2>2
  <1>4. ASSUME NEW i \in Watched, Report(i) PROVE Marks'
    <2>1. touched' = touched \cup {i} /\ UNCHANGED <<unmarked, marking, dispatched>>
      BY <1>4 DEF Report
    <2>2. \A n \in Watched \ {i} : condition'[n] = condition[n]
      BY <1>4 DEF Report
    <2>3. QED
      BY <2>1, <2>2
  <1>5. ASSUME NEW i \in Watched, DeleteInstance(i) PROVE Marks'
    BY <1>5 DEF DeleteInstance
  <1>6. CASE UNCHANGED <<condition, unmarked, marking, dispatched, touched, allReady>>
    BY <1>6
  <1>7. QED
    BY <1>1, <1>2, <1>3, <1>4, <1>5, <1>6, InstanceSteps

\* Once the dispatch is over, an undelivered instance that nobody touched stays one.
LEMMA UndeliveredShrinks ==
    TypeOK /\ ~Dispatching /\ [Next]_vars => Undelivered' \subseteq Undelivered
  <1> SUFFICES ASSUME TypeOK, ~Dispatching, [Next]_vars PROVE Undelivered' \subseteq Undelivered
    OBVIOUS
  <1> USE DEF TypeOK, Undelivered, Listed, watchVars, history
  <1>1. ASSUME NEW i \in Watched, Report(i) \/ DeleteInstance(i)
        PROVE  Undelivered' \subseteq Undelivered
    BY <1>1 DEF Report, DeleteInstance
  <1>2. ~DispatchPlans /\ \A i \in Watched : ~FindInstance(i) /\ ~UpdateInstance(i)
    BY DEF DispatchPlans, FindInstance, UpdateInstance, Dispatching
  <1>3. QED
    BY <1>1, <1>2, InstanceSteps

(* Claims ******************************************************************)

Claims == ClaimsWereReady /\ ClaimsAreTouched

\* A success is claimed for want of instances, or by a poll that found all ready.
LEMMA ClaimsMade ==
    ASSUME TypeOK, Roles, WatchedLater, [Next]_vars, Claimed'
    PROVE  \/ Claimed
           \/ Watch /\ Watched = {}
           \/ \E t \in Polls : ListInstances(t) /\ pc[t] = "listing" /\ Outcome = "succeeded"
  <1> USE ThreadsAssumption DEF TypeOK, Claimed, Success, watchVars, history, recordVars, Goto
  <1>1. CASE UNCHANGED <<row, verdict, outcome>>
    BY <1>1
  <1>2. CASE Watch
    BY <1>2 DEF Watch, CompleteRun
  <1>3. CASE Throw
    BY <1>3 DEF Throw, CompleteRun
  <1>4. ASSUME NEW t \in Polls, ListInstances(t) PROVE Claimed \/ (pc[t] = "listing" /\ Outcome = "succeeded")
    BY <1>4 DEF ListInstances
  <1>5. ASSUME NEW t \in Polls, Decide(t) PROVE Claimed
    <2>1. row' = row /\ outcome' = [outcome EXCEPT ![t] = "open"]
      BY <1>5 DEF Decide
    <2>2. \/ verdict' = verdict
          \/ verdict' = [verdict EXCEPT ![t] = "failed"]
          \/ verdict' = [verdict EXCEPT ![t] = outcome[t]]
      BY <1>5 DEF Decide, Settle, CompleteRun
    <2>3. t \in Threads
      BY ThreadsAssumption
    <2>4. ASSUME NEW u \in Threads, Success(u)' PROVE Success(u) \/ Success(t)
      <3>1. verdict'[u] = "succeeded" => Success(u) \/ Success(t)
        BY <2>2, <2>3
      <3>2. u \in Polls /\ outcome'[u] = "succeeded" => Success(u)
        BY <2>1
      <3> QED
        BY <2>4, <3>1, <3>2
    <2> QED
      BY <2>1, <2>3, <2>4
  <1>6. ASSUME NEW t \in Threads, UpdateCompleted(t) \/ UpdateAborted(t), UNCHANGED outcome PROVE Claimed
    BY <1>6, StatusWritten DEF UpdateCompleted, UpdateAborted, Return
  <1>7. ASSUME NEW t \in Aborts, AbortRun(t), UNCHANGED outcome PROVE Claimed
    BY <1>7 DEF AbortRun
  <1>8. ASSUME NEW t \in Aborts, AbortRejected(t) PROVE Claimed
    BY <1>8 DEF AbortRejected, Return
  <1>9. QED
    BY <1>1, <1>2, <1>3, <1>4, <1>5, <1>6, <1>7, <1>8 DEF Next, ExecuteStep, PollStep, CompleteStep,
      Complete, Abort, Environment, DispatchPlans, FindInstance, UpdateInstance, Finish, Fire,
      PollRejected, FindCompleted, FindAborted, FindRow, Expire, Report, DeleteInstance, Crash, vars

\* The job only ever moves away from the dispatch.
LEMMA DispatchEnds ==
    TypeOK /\ Roles /\ ~Dispatching /\ [Next]_vars => ~Dispatching'
  <1> SUFFICES ASSUME TypeOK, Roles, ~Dispatching, [Next]_vars PROVE ~Dispatching'
    OBVIOUS
  <1> USE ThreadsAssumption DEF TypeOK, Dispatching, Goto, recordVars
  <1>1. ASSUME ExecuteStep \/ Throw PROVE ~Dispatching'
    BY <1>1 DEF Roles, ExecuteStep, DispatchPlans, FindInstance, UpdateInstance, Watch, Finish, Throw,
      CompleteRun
  <1>2. ASSUME NEW t \in Polls, Fire(t) \/ PollStep(t) \/ PollRejected(t) PROVE ~Dispatching'
    BY <1>2 DEF Fire, PollStep, ListInstances, Decide, Settle, PollRejected, CompleteRun
  <1>3. ASSUME NEW t \in Threads, CompleteStep(t) PROVE ~Dispatching'
    BY <1>3 DEF CompleteStep, Complete, Abort, FindCompleted, UpdateCompleted, FindAborted, UpdateAborted,
      FindRow, Return
  <1>4. ASSUME NEW t \in Aborts, AbortRun(t) \/ AbortRejected(t) PROVE ~Dispatching'
    BY <1>4 DEF AbortRun, AbortRejected, CompleteRun, Return
  <1>5. ASSUME NEW r \in Replicas, Crash(r) PROVE ~Dispatching'
    BY <1>5 DEF Crash
  <1>6. Expire \/ (\E i \in Watched : Report(i) \/ DeleteInstance(i)) \/ UNCHANGED vars => pc' = pc
    BY DEF Expire, Report, DeleteInstance, vars
  <1> QED
    BY <1>1, <1>2, <1>3, <1>4, <1>5, <1>6 DEF Next, Environment

\* What a claim stands on when it is made stays true.
LEMMA ClaimsKept ==
    IInv /\ [Next]_vars => Claims'
  <1> SUFFICES ASSUME IInv, [Next]_vars, Claimed'
               PROVE  /\ Watched = {} \/ allReady'
                      /\ ~Dispatching' /\ Undelivered' = {}
    BY DEF Claims, ClaimsWereReady, ClaimsAreTouched
  <1>1. allReady => allReady'
    BY ReadySeenKept DEF IInv
  <1>2. CASE Claimed
    BY <1>1, <1>2, DispatchEnds, UndeliveredShrinks DEF IInv, ClaimsWereReady, ClaimsAreTouched
  <1>3. CASE Watch /\ Watched = {}
    BY <1>3, ThreadsAssumption
      DEF IInv, TypeOK, Watch, CompleteRun, Goto, Dispatching, Undelivered, Listed
  <1>4. ASSUME NEW t \in Polls, ListInstances(t), pc[t] = "listing", Outcome = "succeeded"
        PROVE  (Watched = {} \/ allReady') /\ ~Dispatching' /\ Undelivered' = {}
    <2>1. AllReady
      BY <1>4 DEF Outcome
    <2>2. ~Dispatching /\ unmarked = {}
      BY <1>4 DEF IInv, WatchedLater
    <2>3. Undelivered = {}
      BY <2>1, <2>2 DEF IInv, UndeliveredFailed, AllReady, Undelivered
    <2>4. allReady
      BY <2>1 DEF IInv, ReadySeen
    <2>5. QED
      BY <1>1, <2>2, <2>3, <2>4, DispatchEnds, UndeliveredShrinks DEF IInv
  <1>5. QED
    BY <1>2, <1>3, <1>4, ClaimsMade DEF IInv

(* The invariant ***********************************************************)

\* The invariant holds at first: nothing is claimed.
LEMMA InitInv ==
    Init => IInv
  <1> SUFFICES ASSUME Init PROVE IInv
    OBVIOUS
  <1> USE ThreadsAssumption DEF Init
  <1>1. TypeOK
    BY DEF TypeOK, StartedRow, Statuses, Conditions, NoMark, Outcomes, AllReady
  <1>2. Roles /\ WatchedLater
    BY DEF Roles, WatchedLater
  <1>3. ReadySeen /\ ~Claimed
    BY DEF ReadySeen, Claimed, Success, StartedRow
  <1>4. MarkFound /\ UndeliveredFailed
    BY DEF MarkFound, UndeliveredFailed, Undelivered, Listed, NoMark
  <1>5. QED
    BY <1>1, <1>2, <1>3, <1>4 DEF IInv, ClaimsWereReady, ClaimsAreTouched

\* Each step keeps the invariant.
LEMMA NextInv ==
    IInv /\ [Next]_vars => IInv'
  BY TypeKept, RolesKept, ReadySeenKept, MarksKept, ClaimsKept DEF IInv, Marks, Claims

\* The strengthened invariant holds in every reachable state.
LEMMA Inductive ==
    Spec => []IInv
  BY InitInv, NextInv, PTL DEF Spec

\* The values that the variables of the watch range over.
THEOREM TypeCorrect ==
    Spec => []TypeOK
  <1>1. IInv => TypeOK
    BY DEF IInv
  <1>2. QED
    BY <1>1, Inductive, PTL

\* However polls overlap with each other, with reports, removals and aborts: a
\* run succeeds only if all instances left were ready at one instant.
THEOREM RolloutSucceedsReady ==
    Spec => []SuccessMeansReadyTogether
  <1>1. IInv => SuccessMeansReadyTogether
    BY DEF IInv, ClaimsWereReady, Claimed, SuccessMeansReadyTogether
  <1>2. QED
    BY <1>1, Inductive, PTL

\* A run succeeds over an instance whose node did not take its plan only if
\* somebody touched that instance since.
THEOREM RolloutSucceedsDelivered ==
    Spec => []FailedDispatchBlocksSuccess
  <1>1. IInv => FailedDispatchBlocksSuccess
    BY DEF IInv, ClaimsAreTouched, Claimed, Undelivered, FailedDispatchBlocksSuccess
  <1>2. QED
    BY <1>1, Inductive, PTL
=============================================================================
