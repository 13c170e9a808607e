--------------------------- MODULE LeaderLeaseProofs ---------------------------
(* Proofs about LeaderLease for every set of replicas, every number of     *)
(* overlapping renewals and every schedule, and about TimedLeaderLease for *)
(* every value of its times.                                               *)
EXTENDS TimedLeaderLease, TLAPS

\* Term t of the row belongs to replica i.
Owns(i, t) == t \in 1..Len(holders) /\ holders[t] = i

\* The row's holder is the last one of its history.
RowMatchesHistory ==
    /\ leaseHolder = NoInstance => holders = <<>>
    /\ leaseHolder # NoInstance => Owns(leaseHolder, Len(holders))

\* A write that took effect, or a second read that found the replica's own
\* unexpired lease, names a term that belongs to the replica.
GroundedReply ==
    \A i \in Instances, c \in Slots :
        (pc[i][c] \in {"created", "granted"} \/ mine[i][c]) => Owns(i, basis[i][c])

\* The same of the flag computed from such a reply.
GroundedBelief ==
    \A i \in Instances : isCurrentLeader[i] => Owns(i, beliefTerm[i])

Grounded == RowMatchesHistory /\ GroundedReply /\ GroundedBelief

-----------------------------------------------------------------------------
\* Assigning one renewal's field keeps the field's type.
LEMMA PerCycleUpdate ==
    ASSUME NEW S, NEW f \in PerCycle(S), NEW i \in Instances, NEW c \in Slots, NEW v \in S
    PROVE  [f EXCEPT ![i][c] = v] \in PerCycle(S)
BY DEF PerCycle

LEMMA GotoTyped ==
    ASSUME pc \in PerCycle(Statements \cup {"idle"}), NEW i \in Instances, NEW c \in Slots,
           NEW s \in Statements \cup {"idle"}, Goto(i, c, s)
    PROVE  pc' \in PerCycle(Statements \cup {"idle"})
BY PerCycleUpdate DEF Goto

LEMMA DoneTyped ==
    ASSUME TypeOK, NEW i \in Instances, NEW c \in Slots, Done(i, c)
    PROVE  /\ pc' \in PerCycle(Statements \cup {"idle"})
           /\ now' \in PerCycle(Int)
           /\ mine' \in PerCycle(BOOLEAN)
           /\ seen' \in PerCycle(Instances \cup {NoInstance})
           /\ basis' \in PerCycle(Nat)
<1>1. pc' \in PerCycle(Statements \cup {"idle"})
  BY GotoTyped DEF TypeOK, Done
<1>2. now' \in PerCycle(Int)
  BY PerCycleUpdate, 0 \in Int DEF TypeOK, Done
<1>3. mine' \in PerCycle(BOOLEAN)
  BY PerCycleUpdate DEF TypeOK, Done
<1>4. seen' \in PerCycle(Instances \cup {NoInstance})
  BY PerCycleUpdate DEF TypeOK, Done
<1>5. basis' \in PerCycle(Nat)
  BY PerCycleUpdate DEF TypeOK, Done
<1> QED
  BY <1>1, <1>2, <1>3, <1>4, <1>5

LEMMA WriteLeaseTyped ==
    ASSUME TypeOK, NEW i \in Instances, NEW c \in Slots, NEW s \in Statements,
           WriteLease(i, c, s)
    PROVE  /\ leaseHolder' \in Instances \cup {NoInstance}
           /\ leaseExpiresAt' \in Int
           /\ holders' \in Seq(Instances)
           /\ pc' \in PerCycle(Statements \cup {"idle"})
           /\ basis' \in PerCycle(Nat)
<1>1. leaseHolder' \in Instances \cup {NoInstance} /\ leaseExpiresAt' \in Int
  BY TimeAssumption DEF TypeOK, WriteLease, PerCycle
<1>2. holders' \in Seq(Instances) /\ Len(holders') \in Nat
  BY DEF TypeOK, WriteLease
<1>3. pc' \in PerCycle(Statements \cup {"idle"})
  BY GotoTyped DEF TypeOK, WriteLease
<1>4. basis' \in PerCycle(Nat)
  BY <1>2, PerCycleUpdate DEF TypeOK, WriteLease
<1> QED
  BY <1>1, <1>2, <1>3, <1>4

\* Every step keeps every variable in its type.
THEOREM TypeCorrect == Spec => []TypeOK
<1>1. Init => TypeOK
  BY InstancesAssumption, TimeAssumption DEF Init, TypeOK, PerCycle, Statements
<1>2. TypeOK /\ [Next]_vars => TypeOK'
  <2> SUFFICES ASSUME TypeOK, [Next]_vars
               PROVE  TypeOK'
    OBVIOUS
  <2> USE InstancesAssumption, TimeAssumption DEF TypeOK, lease, flags
  <2>1. CASE Tick
    BY <2>1 DEF Tick, cycle
  <2>2. ASSUME NEW i \in Instances, Admit(i) PROVE TypeOK'
    BY <2>2 DEF Admit, cycle
  <2>3. ASSUME NEW i \in Instances, Respond(i) PROVE TypeOK'
    BY <2>3 DEF Respond, cycle
  <2>4. ASSUME NEW i \in Instances, Stop(i) PROVE TypeOK'
    BY <2>4 DEF Stop, cycle
  <2>5. ASSUME NEW i \in Instances, Exit(i) PROVE TypeOK'
    BY <2>5 DEF Exit, PerCycle, Statements
  <2>6. ASSUME NEW i \in Instances, Restart(i) PROVE TypeOK'
    BY <2>6 DEF Restart, cycle
  <2>7. ASSUME NEW i \in Instances, NEW c \in Slots, Begin(i, c) PROVE TypeOK'
    <3>1. Now(i) \in Int
      BY DEF Now
    <3>2. now' \in PerCycle(Int)
      BY <2>7, <3>1, PerCycleUpdate DEF Begin
    <3>3. pc' \in PerCycle(Statements \cup {"idle"})
      BY <2>7, GotoTyped DEF Begin, Statements
    <3> QED
      BY <2>7, <3>2, <3>3 DEF Begin
  <2>8. ASSUME NEW i \in Instances, NEW c \in Slots, FindByPk(i, c) PROVE TypeOK'
    <3>1. pc' \in PerCycle(Statements \cup {"idle"})
      BY <2>8, GotoTyped DEF FindByPk, Statements
    <3> QED
      BY <2>8, <3>1 DEF FindByPk
  <2>9. ASSUME NEW i \in Instances, NEW c \in Slots, Create(i, c) PROVE TypeOK'
    <3>1. CASE WriteLease(i, c, "created") /\ UNCHANGED isCurrentLeader
      BY <2>9, <3>1, WriteLeaseTyped DEF Create, Statements
    <3>2. CASE /\ isCurrentLeader' = [isCurrentLeader EXCEPT ![i] = FALSE]
               /\ Goto(i, c, "reread")
               /\ UNCHANGED <<lease, basis>>
      <4>1. pc' \in PerCycle(Statements \cup {"idle"})
        BY <3>2, GotoTyped DEF Statements
      <4> QED
        BY <2>9, <3>2, <4>1 DEF Create
    <3> QED
      BY <2>9, <3>1, <3>2 DEF Create
  <2>10. ASSUME NEW i \in Instances, NEW c \in Slots, TakeOver(i, c) PROVE TypeOK'
    BY <2>10, WriteLeaseTyped DEF TakeOver, Statements
  <2>11. ASSUME NEW i \in Instances, NEW c \in Slots, Extend(i, c) PROVE TypeOK'
    <3>1. CASE WriteLease(i, c, "granted")
      BY <2>11, <3>1, WriteLeaseTyped DEF Extend, Statements
    <3>2. CASE Goto(i, c, "reread") /\ UNCHANGED <<lease, basis>>
      <4>1. pc' \in PerCycle(Statements \cup {"idle"})
        BY <3>2, GotoTyped DEF Statements
      <4> QED
        BY <2>11, <3>2, <4>1 DEF Extend
    <3> QED
      BY <2>11, <3>1, <3>2 DEF Extend
  <2>12. ASSUME NEW i \in Instances, NEW c \in Slots, Granted(i, c) PROVE TypeOK'
    <3>1. basis[i][c] \in Nat
      BY DEF PerCycle
    <3> QED
      BY <2>12, <3>1, DoneTyped DEF Granted
  <2>13. ASSUME NEW i \in Instances, NEW c \in Slots, Reread(i, c) PROVE TypeOK'
    <3>1. pc' \in PerCycle(Statements \cup {"idle"})
      BY <2>13, GotoTyped DEF Reread, Statements
    <3>2. mine' \in PerCycle(BOOLEAN)
      BY <2>13, PerCycleUpdate DEF Reread
    <3>3. seen' \in PerCycle(Instances \cup {NoInstance})
      BY <2>13, PerCycleUpdate DEF Reread
    <3>4. basis' \in PerCycle(Nat)
      BY <2>13, PerCycleUpdate, Len(holders) \in Nat DEF Reread, term
    <3> QED
      BY <2>13, <3>1, <3>2, <3>3, <3>4 DEF Reread
  <2>14. ASSUME NEW i \in Instances, NEW c \in Slots, Observe(i, c) PROVE TypeOK'
    <3>1. basis[i][c] \in Nat /\ mine[i][c] \in BOOLEAN /\ seen[i][c] \in Instances \cup {NoInstance}
      BY DEF PerCycle
    <3>2. /\ isCurrentLeader' \in [Instances -> BOOLEAN]
          /\ leaderInstanceId' \in [Instances -> Instances]
          /\ wasLeader' \in [Instances -> BOOLEAN]
          /\ beliefTerm' \in [Instances -> Nat]
      BY <2>14, <3>1 DEF Observe
    <3>3. promotions' \in [Instances -> Nat]
      BY <2>14 DEF Observe
    <3> QED
      BY <2>14, <3>2, <3>3, DoneTyped DEF Observe
  <2>15. ASSUME NEW i \in Instances, NEW c \in Slots, Reject(i, c) PROVE TypeOK'
    <3>1. CASE Done(i, c) /\ UNCHANGED isCurrentLeader
      BY <2>15, <3>1, DoneTyped DEF Reject
    <3>2. CASE /\ isCurrentLeader' = [isCurrentLeader EXCEPT ![i] = FALSE]
               /\ Goto(i, c, "reread")
               /\ UNCHANGED <<now, mine, seen, basis>>
      <4>1. pc' \in PerCycle(Statements \cup {"idle"})
        BY <3>2, GotoTyped DEF Statements
      <4> QED
        BY <2>15, <3>2, <4>1 DEF Reject
    <3> QED
      BY <2>15, <3>1, <3>2 DEF Reject
  <2>16. CASE UNCHANGED vars
    BY <2>16 DEF vars, cycle
  <2> QED
    BY <2>1, <2>2, <2>3, <2>4, <2>5, <2>6, <2>7, <2>8, <2>9, <2>10, <2>11,
       <2>12, <2>13, <2>14, <2>15, <2>16 DEF Next, Renewal
<1> QED
  BY <1>1, <1>2, PTL DEF Spec

-----------------------------------------------------------------------------
(* The election argument.  History only grows, so a term keeps its owner;   *)
(* every reply and every flag rests on a term its replica owns.             *)

\* The row's history only grows, so what a replica owned it still owns.
LEMMA OwnsStable ==
    ASSUME holders \in Seq(Instances),
           holders' = holders \/ (\E j \in Instances : holders' = Append(holders, j)),
           NEW i, NEW t, Owns(i, t)
    PROVE  Owns(i, t)'
BY DEF Owns

\* A write makes its replica the owner of the latest term and leaves the
\* replies of the other renewals alone.
LEMMA WriteGrounded ==
    ASSUME TypeOK, Grounded, NEW i \in Instances, NEW c \in Slots, NEW s \in Statements,
           WriteLease(i, c, s), mine' = mine,
           isCurrentLeader' = isCurrentLeader, beliefTerm' = beliefTerm
    PROVE  Grounded'
<1> USE InstancesAssumption
<1>1. holders \in Seq(Instances) /\ (holders' = holders \/ holders' = Append(holders, i))
  BY DEF TypeOK, WriteLease
<1>2. Owns(i, Len(holders))'
  BY <1>1 DEF WriteLease, Grounded, RowMatchesHistory, Owns
<1>3. RowMatchesHistory'
  BY <1>2 DEF RowMatchesHistory, WriteLease
<1>4. GroundedReply'
  <2> SUFFICES ASSUME NEW j \in Instances, NEW d \in Slots,
                      (pc[j][d] \in {"created", "granted"} \/ mine[j][d])'
               PROVE  Owns(j, basis[j][d])'
    BY DEF GroundedReply
  <2>1. CASE j = i /\ d = c
    <3>1. basis'[i][c] = Len(holders')
      BY DEF WriteLease, TypeOK, PerCycle
    <3> QED
      BY <2>1, <3>1, <1>2 DEF Owns
  <2>2. CASE j # i \/ d # c
    <3>1. pc'[j][d] = pc[j][d] /\ basis'[j][d] = basis[j][d]
      BY <2>2 DEF WriteLease, Goto, TypeOK, PerCycle
    <3>2. Owns(j, basis[j][d])
      BY <3>1 DEF Grounded, GroundedReply
    <3> QED
      BY <1>1, <3>1, <3>2, OwnsStable DEF Owns
  <2> QED
    BY <2>1, <2>2
<1>5. GroundedBelief'
  BY <1>1, OwnsStable DEF Grounded, GroundedBelief, Owns
<1> QED
  BY <1>3, <1>4, <1>5 DEF Grounded

\* A step that does not write the row, in which each renewal keeps its reply
\* or drops it, and each flag stays, is cleared or takes a grounded reply.
LEMMA NoWriteGrounded ==
    ASSUME Grounded, UNCHANGED lease,
           \A i \in Instances, c \in Slots :
              \/ ~(pc'[i][c] \in {"created", "granted"} \/ mine'[i][c])
              \/ /\ pc[i][c] \in {"created", "granted"} \/ mine[i][c]
                 /\ basis'[i][c] = basis[i][c]
              \/ leaseHolder = i /\ basis'[i][c] = Len(holders),
           \A i \in Instances :
              \/ ~isCurrentLeader'[i]
              \/ isCurrentLeader[i] /\ beliefTerm'[i] = beliefTerm[i]
              \/ \E c \in Slots :
                    /\ pc[i][c] \in {"created", "granted"} \/ mine[i][c]
                    /\ beliefTerm'[i] = basis[i][c]
    PROVE  Grounded'
<1>1. RowMatchesHistory'
  BY DEF Grounded, RowMatchesHistory, lease, Owns
<1>2. GroundedReply'
  BY InstancesAssumption DEF Grounded, GroundedReply, RowMatchesHistory, lease, Owns
<1>3. GroundedBelief'
  BY DEF Grounded, GroundedReply, GroundedBelief, lease, Owns
<1> QED
  BY <1>1, <1>2, <1>3 DEF Grounded

\* Every reply that makes a replica a leader names a term it owned, and so
\* does every believer's flag.
THEOREM BeliefsAreGrounded == Spec => []Grounded
<1>1. Init => Grounded
  BY DEF Init, Grounded, RowMatchesHistory, GroundedReply, GroundedBelief
<1>2. TypeOK /\ Grounded /\ [Next]_vars => Grounded'
  <2> SUFFICES ASSUME TypeOK, Grounded, [Next]_vars
               PROVE  Grounded'
    OBVIOUS
  <2>1. CASE Tick
    BY <2>1, NoWriteGrounded DEF Tick, flags, cycle
  <2>2. ASSUME NEW i \in Instances, Admit(i) PROVE Grounded'
    BY <2>2, NoWriteGrounded DEF Admit, flags, cycle
  <2>3. ASSUME NEW i \in Instances, Respond(i) PROVE Grounded'
    BY <2>3, NoWriteGrounded DEF Respond, flags, cycle
  <2>4. ASSUME NEW i \in Instances, Stop(i) PROVE Grounded'
    BY <2>4, NoWriteGrounded DEF Stop, flags, cycle
  <2>5. ASSUME NEW i \in Instances, Exit(i) PROVE Grounded'
    BY <2>5, NoWriteGrounded DEF Exit, TypeOK, PerCycle
  <2>6. ASSUME NEW i \in Instances, Restart(i) PROVE Grounded'
    BY <2>6, NoWriteGrounded DEF Restart, flags, cycle
  <2>7. ASSUME NEW i \in Instances, NEW c \in Slots, Begin(i, c) PROVE Grounded'
    BY <2>7, NoWriteGrounded DEF Begin, Goto, flags, TypeOK, PerCycle
  <2>8. ASSUME NEW i \in Instances, NEW c \in Slots, FindByPk(i, c) PROVE Grounded'
    <3>1. PICK s \in {"create", "takeover", "extend", "reread"} : Goto(i, c, s)
      BY <2>8 DEF FindByPk
    <3> QED
      BY <2>8, <3>1, NoWriteGrounded DEF FindByPk, Goto, flags, TypeOK, PerCycle
  <2>9. ASSUME NEW i \in Instances, NEW c \in Slots, Create(i, c) PROVE Grounded'
    <3>1. CASE WriteLease(i, c, "created") /\ UNCHANGED isCurrentLeader
      BY <2>9, <3>1, WriteGrounded DEF Create, Statements
    <3>2. CASE /\ isCurrentLeader' = [isCurrentLeader EXCEPT ![i] = FALSE]
               /\ Goto(i, c, "reread")
               /\ UNCHANGED <<lease, basis>>
      BY <2>9, <3>2, NoWriteGrounded DEF Create, Goto, TypeOK, PerCycle
    <3> QED
      BY <2>9, <3>1, <3>2 DEF Create
  <2>10. ASSUME NEW i \in Instances, NEW c \in Slots, TakeOver(i, c) PROVE Grounded'
    BY <2>10, WriteGrounded DEF TakeOver, Statements, flags
  <2>11. ASSUME NEW i \in Instances, NEW c \in Slots, Extend(i, c) PROVE Grounded'
    <3>1. CASE WriteLease(i, c, "granted")
      BY <2>11, <3>1, WriteGrounded DEF Extend, Statements, flags
    <3>2. CASE Goto(i, c, "reread") /\ UNCHANGED <<lease, basis>>
      BY <2>11, <3>2, NoWriteGrounded DEF Extend, Goto, flags, TypeOK, PerCycle
    <3> QED
      BY <2>11, <3>1, <3>2 DEF Extend
  <2>12. ASSUME NEW i \in Instances, NEW c \in Slots, Granted(i, c) PROVE Grounded'
    BY <2>12, NoWriteGrounded DEF Granted, Done, Goto, TypeOK, PerCycle
  <2>13. ASSUME NEW i \in Instances, NEW c \in Slots, Reread(i, c) PROVE Grounded'
    BY <2>13, NoWriteGrounded DEF Reread, Goto, flags, term, TypeOK, PerCycle
  <2>14. ASSUME NEW i \in Instances, NEW c \in Slots, Observe(i, c) PROVE Grounded'
    BY <2>14, NoWriteGrounded DEF Observe, Done, Goto, TypeOK, PerCycle
  <2>15. ASSUME NEW i \in Instances, NEW c \in Slots, Reject(i, c) PROVE Grounded'
    <3>1. CASE Done(i, c) /\ UNCHANGED isCurrentLeader
      BY <2>15, <3>1, NoWriteGrounded DEF Reject, Done, Goto, TypeOK, PerCycle
    <3>2. CASE /\ isCurrentLeader' = [isCurrentLeader EXCEPT ![i] = FALSE]
               /\ Goto(i, c, "reread")
               /\ UNCHANGED <<now, mine, seen, basis>>
      BY <2>15, <3>2, NoWriteGrounded DEF Reject, Goto, TypeOK, PerCycle
    <3> QED
      BY <2>15, <3>1, <3>2 DEF Reject
  <2>16. CASE UNCHANGED vars
    BY <2>16, NoWriteGrounded DEF vars, flags, cycle
  <2> QED
    BY <2>1, <2>2, <2>3, <2>4, <2>5, <2>6, <2>7, <2>8, <2>9, <2>10, <2>11,
       <2>12, <2>13, <2>14, <2>15, <2>16 DEF Next, Renewal
<1> QED
  BY <1>1, <1>2, TypeCorrect, PTL DEF Spec

\* Of two replicas that believe they lead, one believes it of an earlier
\* tenure of the row: two owners of one term would be the same replica.
THEOREM LeadersDifferInTerm == Spec => []AtMostOneLeaderPerTerm
<1>1. Grounded => AtMostOneLeaderPerTerm
  BY DEF Grounded, GroundedBelief, Owns, AtMostOneLeaderPerTerm
<1> QED
  BY <1>1, BeliefsAreGrounded, PTL

-----------------------------------------------------------------------------
(* With a schedule: how long two replicas can both act as leader, when a   *)
(* leader can be deposed, and how long there is none.                      *)

\* A running replica keeps to the schedule; a process that is down has no
\* renewal in flight and no belief.
OnSchedule(i) ==
    /\ begun[i] <= clock /\ renewedFrom[i] <= clock
    /\ process[i] = "up" => clock - renewedFrom[i] <= Gap
    /\ process[i] = "down" => ~isCurrentLeader[i]
    /\ \A c \in Slots : pc[i][c] # "idle" =>
          /\ process[i] # "down"
          /\ renewedFrom[i] <= begun[i]
          /\ clock - begun[i] <= Latency
          /\ now[i][c] = begun[i] + Skew[i]

\* A renewal about to make its replica a leader.
Grants(i, c) == pc[i][c] \in {"created", "granted"} \/ (pc[i][c] = "observed" /\ mine[i][c])

\* A replica that does not hold the row began its last successful renewal,
\* and any that is about to succeed, before it lost the row.
StaleSinceLoss(i) == leaseHolder # i =>
    /\ isCurrentLeader[i] => renewedFrom[i] <= lastChange
    /\ \A c \in Slots : Grants(i, c) => begun[i] <= lastChange

TimedInv ==
    /\ TimedTypeOK
    /\ lastChange <= clock
    /\ \A i \in Instances : OnSchedule(i) /\ StaleSinceLoss(i)

\* A step that leaves replica i's own state alone.
Same(i) ==
    /\ begun'[i] = begun[i] /\ renewedFrom'[i] = renewedFrom[i]
    /\ process'[i] = process[i] /\ isCurrentLeader'[i] = isCurrentLeader[i]
    /\ pc'[i] = pc[i] /\ now'[i] = now[i] /\ mine'[i] = mine[i] /\ seen'[i] = seen[i]

-----------------------------------------------------------------------------
\* Restricting the passage of time adds no behaviour.
LEMMA TimedSpecImpliesSpec == TimedSpec => Spec
<1>1. TimedInit => Init
  BY DEF TimedInit
<1>2. [TimedNext]_timedVars => [Next]_vars
  BY DEF TimedNext, TimedTick, TimedStop, TimedRestart, TimedRequest, TimedBegin,
         TimedRenewal, TimedReject, timedVars, Next
<1> QED
  BY <1>1, <1>2, PTL DEF TimedSpec, Spec

LEMMA TimedTypeInductive ==
    ASSUME TypeOK, TypeOK', TimedTypeOK, [TimedNext]_timedVars
    PROVE  TimedTypeOK'
<1> USE DEF TypeOK, TimedTypeOK
<1>1. ASSUME Record PROVE lastChange' \in Nat /\ lastServed' \in Nat
  BY <1>1 DEF Record
<1>2. CASE TimedTick
  BY <1>1, <1>2 DEF TimedTick
<1>3. ASSUME NEW i \in Instances, TimedStop(i) PROVE TimedTypeOK'
  BY <1>1, <1>3 DEF TimedStop
<1>4. ASSUME NEW i \in Instances, TimedRestart(i) PROVE TimedTypeOK'
  BY <1>1, <1>4 DEF TimedRestart
<1>5. ASSUME NEW i \in Instances, TimedRequest(i) PROVE TimedTypeOK'
  BY <1>1, <1>5 DEF TimedRequest
<1>6. ASSUME NEW i \in Instances, NEW c \in Slots, TimedBegin(i, c) PROVE TimedTypeOK'
  BY <1>1, <1>6 DEF TimedBegin
<1>7. ASSUME NEW i \in Instances, NEW c \in Slots, TimedRenewal(i, c) PROVE TimedTypeOK'
  <2>1. renewedFrom' \in [Instances -> Nat]
    BY <1>7 DEF TimedRenewal
  <2>2. interrupted' \in BOOLEAN
    BY <1>7 DEF TimedRenewal
  <2> QED
    BY <1>1, <1>7, <2>1, <2>2 DEF TimedRenewal
<1>8. ASSUME NEW i \in Instances, NEW c \in Slots, TimedReject(i, c) PROVE TimedTypeOK'
  BY <1>1, <1>8 DEF TimedReject
<1>9. CASE UNCHANGED timedVars
  BY <1>9 DEF timedVars, timing
<1> QED
  BY <1>2, <1>3, <1>4, <1>5, <1>6, <1>7, <1>8, <1>9 DEF TimedNext


\* The timed steps of replica i, and of its renewal in slot c.
TimedStepOf(i) ==
    \/ TimedStop(i) \/ TimedRestart(i) \/ TimedRequest(i)
    \/ \E c \in Slots : TimedBegin(i, c) \/ TimedRenewal(i, c) \/ TimedReject(i, c)

\* A step of one replica changes no other replica and takes no time.
LEMMA Frame ==
    ASSUME TypeOK, TimedTypeOK, NEW i \in Instances, TimedStepOf(i)
    PROVE  clock' = clock /\ \A j \in Instances : j # i => Same(j)
<1> USE DEF TypeOK, TimedTypeOK, PerCycle, Same
<1>1. CASE TimedStop(i)
  BY <1>1 DEF TimedStop, Stop, Exit, flags, cycle
<1>2. CASE TimedRestart(i)
  BY <1>2 DEF TimedRestart, Restart, flags, cycle
<1>3. CASE TimedRequest(i)
  BY <1>3 DEF TimedRequest, Admit, Respond, flags, cycle
<1>4. ASSUME NEW c \in Slots, TimedBegin(i, c)
      PROVE  clock' = clock /\ \A j \in Instances : j # i => Same(j)
  BY <1>4 DEF TimedBegin, Begin, Goto, flags
<1>5. ASSUME NEW c \in Slots, Renewal(i, c) \/ Reject(i, c)
      PROVE  /\ clock' = clock /\ process' = process
             /\ \A j \in Instances : j # i =>
                   /\ isCurrentLeader'[j] = isCurrentLeader[j]
                   /\ pc'[j] = pc[j] /\ now'[j] = now[j]
                   /\ mine'[j] = mine[j] /\ seen'[j] = seen[j]
  <2> USE DEF flags, cycle, Goto, Done
  <2>1. CASE FindByPk(i, c)
    BY <2>1 DEF FindByPk
  <2>2. CASE Create(i, c)
    BY <2>2 DEF Create, WriteLease
  <2>3. CASE TakeOver(i, c)
    BY <2>3 DEF TakeOver, WriteLease
  <2>4. CASE Extend(i, c)
    BY <2>4 DEF Extend, WriteLease
  <2>5. CASE Granted(i, c)
    BY <2>5 DEF Granted
  <2>6. CASE Reread(i, c)
    BY <2>6 DEF Reread
  <2>7. CASE Observe(i, c)
    BY <2>7 DEF Observe
  <2>8. CASE Reject(i, c)
    BY <2>8 DEF Reject
  <2> QED
    BY <1>5, <2>1, <2>2, <2>3, <2>4, <2>5, <2>6, <2>7, <2>8 DEF Renewal
<1>6. ASSUME NEW c \in Slots, TimedRenewal(i, c) \/ TimedReject(i, c)
      PROVE  \A j \in Instances : j # i =>
                begun'[j] = begun[j] /\ renewedFrom'[j] = renewedFrom[j]
  BY <1>6 DEF TimedRenewal, TimedReject
<1> QED
  BY <1>1, <1>2, <1>3, <1>4, <1>5, <1>6 DEF TimedStepOf, TimedRenewal, TimedReject

\* What one renewal step does to its own replica, slot c being its only one.
LEMMA RenewalStep ==
    ASSUME TypeOK, NEW i \in Instances, NEW c \in Slots, Renewal(i, c)
    PROVE  /\ pc[i][c] # "idle"
           /\ process'[i] = process[i]
           /\ isCurrentLeader'[i] => isCurrentLeader[i] \/ Granted(i, c) \/ Observe(i, c)
           /\ \A d \in Slots :
                 \/ pc'[i][d] = "idle" /\ ~mine'[i][d]
                 \/ /\ now'[i][d] = now[i][d]
                    /\ ~Granted(i, c) /\ ~Observe(i, c)
<1> USE NoOverlapAssumption DEF TypeOK, PerCycle, flags, cycle, Goto, Done
<1>1. CASE FindByPk(i, c)
  BY <1>1 DEF FindByPk, Granted, Observe
<1>2. CASE Create(i, c)
  BY <1>2 DEF Create, WriteLease, Granted, Observe
<1>3. CASE TakeOver(i, c)
  BY <1>3 DEF TakeOver, WriteLease, Granted, Observe
<1>4. CASE Extend(i, c)
  BY <1>4 DEF Extend, WriteLease, Granted, Observe
<1>5. CASE Granted(i, c)
  BY <1>5 DEF Granted, Observe
<1>6. CASE Reread(i, c)
  BY <1>6 DEF Reread, Granted, Observe
<1>7. CASE Observe(i, c)
  BY <1>7 DEF Observe, Granted
<1> QED
  BY <1>1, <1>2, <1>3, <1>4, <1>5, <1>6, <1>7 DEF Renewal

LEMMA OnScheduleStep ==
    ASSUME TypeOK, TypeOK', TimedTypeOK, TimedTypeOK',
           NEW i \in Instances, TimedStepOf(i), OnSchedule(i)
    PROVE  OnSchedule(i)'
<1> USE NoOverlapAssumption, ScheduleAssumption, TimeAssumption
    DEF TypeOK, TimedTypeOK, PerCycle, OnSchedule
<1>1. CASE TimedStop(i)
  BY <1>1 DEF TimedStop, Stop, Exit, flags, cycle
<1>2. CASE TimedRestart(i)
  <2>1. process[i] = "down" /\ process'[i] = "up" /\ renewedFrom'[i] = clock
        /\ clock' = clock /\ begun' = begun /\ isCurrentLeader' = isCurrentLeader
        /\ pc' = pc
    BY <1>2 DEF TimedRestart, Restart, flags, cycle
  <2> QED
    BY <2>1
<1>3. CASE TimedRequest(i)
  BY <1>3 DEF TimedRequest, Admit, Respond, flags, cycle
<1>4. ASSUME NEW c \in Slots, TimedBegin(i, c) PROVE OnSchedule(i)'
  <2>1. process[i] = "up" /\ process' = process /\ begun'[i] = clock /\ clock' = clock
        /\ renewedFrom' = renewedFrom /\ isCurrentLeader' = isCurrentLeader
    BY <1>4 DEF TimedBegin, Begin, flags
  <2>2. now'[i][c] = clock + Skew[i]
    BY <1>4 DEF TimedBegin, Begin, Now
  <2> QED
    BY <2>1, <2>2
<1>5. ASSUME NEW c \in Slots, TimedRenewal(i, c) PROVE OnSchedule(i)'
  <2>1. begun' = begun /\ clock' = clock
    BY <1>5, Frame DEF TimedRenewal, TimedStepOf
  <2>2. \/ renewedFrom'[i] = renewedFrom[i]
        \/ renewedFrom'[i] = begun[i] /\ (Granted(i, c) \/ Observe(i, c))
    BY <1>5 DEF TimedRenewal, Completes
  <2>3. /\ pc[i][c] # "idle" /\ process'[i] = process[i]
        /\ \A d \in Slots : \/ pc'[i][d] = "idle"
                            \/ now'[i][d] = now[i][d] /\ ~Granted(i, c) /\ ~Observe(i, c)
    BY <1>5, RenewalStep DEF TimedRenewal
  <2>4. /\ process[i] # "down" /\ renewedFrom[i] <= begun[i]
        /\ clock - begun[i] <= Latency /\ now[i][c] = begun[i] + Skew[i]
    BY <2>3
  <2>5. ASSUME NEW d \in Slots, pc'[i][d] # "idle"
        PROVE  now'[i][d] = begun[i] + Skew[i] /\ renewedFrom'[i] = renewedFrom[i]
    <3>1. d = c
      OBVIOUS
    <3> QED
      BY <2>2, <2>3, <2>4, <2>5, <3>1
  <2>6. begun'[i] <= clock' /\ renewedFrom'[i] <= clock'
    BY <2>1, <2>2
  <2>7. process'[i] = "up" => clock' - renewedFrom'[i] <= Gap
    <3> SUFFICES ASSUME process[i] = "up" PROVE clock - renewedFrom'[i] <= Gap
      BY <2>1, <2>3
    <3>1. begun[i] \in Nat /\ renewedFrom[i] \in Nat /\ clock \in Nat /\ Gap \in Nat
      OBVIOUS
    <3>2. clock - renewedFrom[i] <= Gap
      OBVIOUS
    <3>3. clock - begun[i] <= Gap
      <4>1. \A r, b, t, g \in Nat : r <= b /\ t - r <= g => t - b <= g
        OBVIOUS
      <4> HIDE DEF OnSchedule, TypeOK, TimedTypeOK
      <4> QED
        BY <2>4, <3>1, <3>2, <4>1
    <3> QED
      BY <2>2, <3>2, <3>3
  <2> QED
    BY <2>1, <2>3, <2>4, <2>5, <2>6, <2>7
<1>6. ASSUME NEW c \in Slots, TimedReject(i, c) PROVE OnSchedule(i)'
  <2>1. begun' = begun /\ clock' = clock /\ renewedFrom' = renewedFrom /\ process' = process
    BY <1>6 DEF TimedReject, Reject
  <2>2. isCurrentLeader'[i] => isCurrentLeader[i]
    BY <1>6 DEF TimedReject, Reject
  <2>3. \A d \in Slots : /\ pc[i][d] # "idle"
                         /\ pc'[i][d] = "idle" \/ now'[i][d] = now[i][d]
    <3> SUFFICES pc[i][c] # "idle" /\ (pc'[i][c] = "idle" \/ now' = now)
      OBVIOUS
    <3>1. pc[i][c] # "idle"
      BY <1>6 DEF TimedReject, Reject, Statements
    <3>2. now' = now \/ pc' = [pc EXCEPT ![i][c] = "idle"]
      BY <1>6 DEF TimedReject, Reject, Done, Goto
    <3> QED
      BY <3>1, <3>2
  <2> QED
    BY <2>1, <2>2, <2>3
<1> QED
  BY <1>1, <1>2, <1>3, <1>4, <1>5, <1>6 DEF TimedStepOf

\* Only replica i can appear in the row after a step of i.
LEMMA RowStep ==
    ASSUME TypeOK, TimedTypeOK, NEW i \in Instances, TimedStepOf(i)
    PROVE  /\ leaseHolder' \in {leaseHolder, i}
           /\ lastChange' = IF leaseHolder' = leaseHolder THEN lastChange ELSE clock
<1> USE DEF lease
<1>1. CASE TimedStop(i)
  BY <1>1 DEF TimedStop, Record, Stop, Exit
<1>2. CASE TimedRestart(i)
  BY <1>2 DEF TimedRestart, Record, Restart
<1>3. CASE TimedRequest(i)
  BY <1>3 DEF TimedRequest, Record, Admit, Respond
<1>4. ASSUME NEW c \in Slots, TimedBegin(i, c) PROVE leaseHolder' = leaseHolder /\ Record
  BY <1>4 DEF TimedBegin, Begin
<1>5. ASSUME NEW c \in Slots, TimedRenewal(i, c) PROVE leaseHolder' \in {leaseHolder, i} /\ Record
  BY <1>5 DEF TimedRenewal, Renewal, FindByPk, Create, TakeOver, Extend, Granted, Reread,
              Observe, WriteLease
<1>6. ASSUME NEW c \in Slots, TimedReject(i, c) PROVE leaseHolder' = leaseHolder /\ Record
  BY <1>6 DEF TimedReject, Reject
<1> QED
  BY <1>1, <1>2, <1>3, <1>4, <1>5, <1>6 DEF TimedStepOf, Record

LEMMA StaleSinceLossStep ==
    ASSUME TypeOK, TypeOK', TimedTypeOK, TimedTypeOK', lastChange <= clock,
           NEW i \in Instances, TimedStepOf(i), OnSchedule(i), StaleSinceLoss(i)
    PROVE  StaleSinceLoss(i)'
<1> SUFFICES ASSUME leaseHolder' # i
             PROVE  /\ isCurrentLeader'[i] => renewedFrom'[i] <= lastChange'
                    /\ \A c \in Slots : Grants(i, c)' => begun'[i] <= lastChange'
  BY DEF StaleSinceLoss, Grants
<1>1. leaseHolder # i /\ lastChange' = lastChange
  BY RowStep
<1>2. /\ isCurrentLeader[i] => renewedFrom[i] <= lastChange
      /\ \A c \in Slots : Grants(i, c) => begun[i] <= lastChange
  BY <1>1 DEF StaleSinceLoss
<1> USE NoOverlapAssumption DEF TypeOK, TimedTypeOK, PerCycle
<1>3. CASE TimedStop(i)
  <2>1. UNCHANGED <<begun, renewedFrom>>
    BY <1>3 DEF TimedStop
  <2>2. CASE Stop(i)
    <3>1. isCurrentLeader' = isCurrentLeader /\ pc' = pc /\ mine' = mine
      BY <2>2 DEF Stop, flags, cycle
    <3> QED
      BY <1>1, <1>2, <2>1, <3>1 DEF Grants
  <2>3. CASE Exit(i)
    <3>1. ~isCurrentLeader'[i] /\ \A c \in Slots : pc'[i][c] = "idle"
      BY <2>3 DEF Exit
    <3> QED
      BY <3>1 DEF Grants
  <2> QED
    BY <1>3, <2>2, <2>3 DEF TimedStop
<1>4. CASE TimedRestart(i)
  <2>1. /\ isCurrentLeader' = isCurrentLeader /\ pc' = pc /\ mine' = mine /\ begun' = begun
        /\ process[i] = "down"
    BY <1>4 DEF TimedRestart, Restart, flags, cycle
  <2>2. ~isCurrentLeader[i] /\ \A c \in Slots : ~Grants(i, c)
    BY <2>1 DEF OnSchedule, Grants
  <2> QED
    BY <2>1, <2>2 DEF Grants
<1>5. CASE TimedRequest(i)
  BY <1>1, <1>2, <1>5 DEF TimedRequest, Admit, Respond, flags, cycle, Grants
<1>6. ASSUME NEW c \in Slots, TimedBegin(i, c)
      PROVE  /\ isCurrentLeader' = isCurrentLeader /\ renewedFrom' = renewedFrom
             /\ \A d \in Slots : ~Grants(i, d)'
  <2>1. isCurrentLeader' = isCurrentLeader /\ renewedFrom' = renewedFrom
    BY <1>6 DEF TimedBegin, Begin, flags
  <2>2. pc'[i][c] = "find"
    BY <1>6 DEF TimedBegin, Begin, Goto
  <2> QED
    BY <2>1, <2>2 DEF Grants
<1>7. ASSUME NEW c \in Slots, TimedRenewal(i, c)
      PROVE  /\ isCurrentLeader'[i] => renewedFrom'[i] <= lastChange
             /\ Grants(i, c)' => Grants(i, c)
             /\ begun' = begun
  <2>1. begun' = begun /\ Renewal(i, c)
    BY <1>7 DEF TimedRenewal
  <2>2. pc[i][c] # "idle" /\ renewedFrom[i] <= begun[i]
    <3>1. pc[i][c] # "idle"
      BY <2>1, RenewalStep
    <3> QED
      BY <3>1 DEF OnSchedule
  <2>3. renewedFrom'[i] = renewedFrom[i] \/ renewedFrom'[i] = begun[i]
    BY <1>7 DEF TimedRenewal
  <2>4. Grants(i, c)' => Grants(i, c)
    <3> USE DEF Grants, Goto, Done
    <3>1. CASE FindByPk(i, c)
      BY <3>1 DEF FindByPk
    <3>2. CASE Create(i, c) \/ TakeOver(i, c) \/ Extend(i, c)
      <4>1. leaseHolder' # i
        BY <1>1
      <4> QED
        BY <3>2, <4>1 DEF Create, TakeOver, Extend, WriteLease
    <3>3. CASE Granted(i, c) \/ Observe(i, c)
      BY <3>3 DEF Granted, Observe
    <3>4. CASE Reread(i, c)
      <4>1. (leaseHolder = i /\ ~Lapsed(now[i][c])) = FALSE
        BY <1>1
      <4>2. mine' = [mine EXCEPT ![i][c] = FALSE]
        BY <3>4, <4>1, Zenon DEF Reread
      <4>3. mine'[i][c] = FALSE /\ pc'[i][c] = "observed"
        BY <3>4, <4>2 DEF Reread
      <4> QED
        BY <4>3, Zenon
    <3> QED
      BY <2>1, <3>1, <3>2, <3>3, <3>4 DEF Renewal
  <2>5. Granted(i, c) \/ (Observe(i, c) /\ isCurrentLeader'[i]) => Grants(i, c)
    BY DEF Granted, Observe, Grants
  <2>6. isCurrentLeader'[i] => renewedFrom'[i] <= lastChange
    <3> SUFFICES ASSUME isCurrentLeader'[i] PROVE renewedFrom'[i] <= lastChange
      OBVIOUS
    <3>1. CASE Grants(i, c)
      <4>1. \A r, b, t \in Nat : r <= b /\ b <= t => r <= t
        OBVIOUS
      <4>2. renewedFrom[i] \in Nat /\ begun[i] \in Nat /\ lastChange \in Nat
        OBVIOUS
      <4> HIDE DEF TypeOK, TimedTypeOK
      <4>3. begun[i] <= lastChange
        BY <1>2, <3>1
      <4> QED
        BY <2>2, <2>3, <4>1, <4>2, <4>3
    <3>2. CASE ~Grants(i, c)
      <4>1. isCurrentLeader[i] /\ ~Granted(i, c) /\ ~Observe(i, c)
        <5>1. ~Granted(i, c) /\ ~Observe(i, c)
          BY <2>5, <3>2
        <5> QED
          BY <2>1, <5>1, RenewalStep
      <4>2. renewedFrom' = renewedFrom
        BY <1>7, <4>1 DEF TimedRenewal, Completes
      <4> HIDE DEF TypeOK, TimedTypeOK
      <4> QED
        BY <1>2, <4>1, <4>2
    <3> QED
      BY <3>1, <3>2
  <2> QED
    BY <2>1, <2>4, <2>6
<1>8. ASSUME NEW c \in Slots, TimedReject(i, c)
      PROVE  /\ isCurrentLeader'[i] => isCurrentLeader[i]
             /\ renewedFrom' = renewedFrom /\ begun' = begun
             /\ ~Grants(i, c)'
  <2>1. renewedFrom' = renewedFrom /\ begun' = begun /\ Reject(i, c)
    BY <1>8 DEF TimedReject
  <2>2. (isCurrentLeader'[i] => isCurrentLeader[i]) /\ pc'[i][c] \in {"idle", "reread"}
    BY <2>1 DEF Reject, Done, Goto
  <2> QED
    BY <2>1, <2>2 DEF Grants
<1> QED
  BY <1>1, <1>2, <1>3, <1>4, <1>5, <1>6, <1>7, <1>8 DEF TimedStepOf

LEMMA TimedInductive ==
    ASSUME TypeOK, TypeOK', TimedInv, [TimedNext]_timedVars
    PROVE  TimedInv'
<1>1. TimedTypeOK /\ TimedTypeOK' /\ lastChange <= clock
  BY TimedTypeInductive DEF TimedInv
<1>2. CASE TimedTick
  <2>1. /\ clock' = clock + 1 /\ lastChange' = lastChange
        /\ UNCHANGED <<lease, process, flags, cycle, begun, renewedFrom>>
    BY <1>2 DEF TimedTick, Tick, Record, lease
  <2>2. ASSUME NEW i \in Instances PROVE OnSchedule(i)' /\ StaleSinceLoss(i)'
    <3>1. OnSchedule(i) /\ StaleSinceLoss(i)
      BY DEF TimedInv
    <3>2. /\ process[i] = "up" => clock - renewedFrom[i] < Gap
          /\ \A c \in Slots : pc[i][c] # "idle" => clock - begun[i] < Latency
      BY <1>2 DEF TimedTick, InFlight
    <3>3. StaleSinceLoss(i)'
      BY <2>1, <3>1 DEF StaleSinceLoss, Grants, lease, flags, cycle
    <3>4. OnSchedule(i)'
      <4>1. /\ UNCHANGED <<process, isCurrentLeader, pc, now, begun, renewedFrom>>
            /\ clock' = clock + 1
        BY <2>1 DEF flags, cycle
      <4>2. /\ begun[i] \in Int /\ renewedFrom[i] \in Int /\ clock \in Int
            /\ Gap \in Int /\ Latency \in Int
        BY <1>1, ScheduleAssumption DEF TypeOK, TimedTypeOK
      <4>3. /\ begun'[i] <= clock' /\ renewedFrom'[i] <= clock'
            /\ process'[i] = "up" => clock' - renewedFrom'[i] <= Gap
        BY <3>1, <3>2, <4>1, <4>2 DEF OnSchedule
      <4>4. ASSUME NEW c \in Slots, pc'[i][c] # "idle" PROVE clock' - begun'[i] <= Latency
        BY <3>2, <4>1, <4>2, <4>4
      <4> QED
        BY <3>1, <4>1, <4>3, <4>4 DEF OnSchedule
    <3> QED
      BY <3>3, <3>4
  <2>3. lastChange' <= clock'
    <3>1. clock \in Int /\ lastChange \in Int
      BY <1>1 DEF TypeOK, TimedTypeOK
    <3> QED
      BY <1>1, <2>1, <3>1
  <2> QED
    BY <1>1, <2>2, <2>3 DEF TimedInv
<1>3. ASSUME NEW i \in Instances, TimedStepOf(i) PROVE TimedInv'
  <2>1. clock' = clock /\ lastChange' <= clock'
    <3>1. clock' = clock
      BY <1>1, <1>3, Frame
    <3>2. lastChange' \in {lastChange, clock}
      BY <1>1, <1>3, RowStep
    <3>3. clock <= clock
      BY DEF TypeOK
    <3> QED
      BY <1>1, <3>1, <3>2, <3>3
  <2>2. OnSchedule(i)' /\ StaleSinceLoss(i)'
    BY <1>1, <1>3, OnScheduleStep, StaleSinceLossStep DEF TimedInv
  <2>3. ASSUME NEW j \in Instances, j # i PROVE OnSchedule(j)' /\ StaleSinceLoss(j)'
    <3>1. OnSchedule(j) /\ StaleSinceLoss(j)
      BY DEF TimedInv
    <3>2. Same(j)
      BY <1>1, <1>3, <2>3, Frame
    <3>3. OnSchedule(j)'
      BY <2>1, <3>1, <3>2 DEF OnSchedule, Same
    <3>4. leaseHolder' = leaseHolder \/ lastChange' = clock
      BY <1>1, <1>3, RowStep
    <3>5. leaseHolder' = leaseHolder => lastChange' = lastChange
      BY <1>1, <1>3, RowStep
    <3>6. StaleSinceLoss(j)'
      BY <3>1, <3>2, <3>4, <3>5 DEF StaleSinceLoss, Same, Grants, OnSchedule
    <3> QED
      BY <3>3, <3>6
  <2> QED
    BY <1>1, <2>1, <2>2, <2>3 DEF TimedInv
<1>4. CASE UNCHANGED timedVars
  BY <1>4 DEF timedVars, timing, vars, lease, flags, cycle, TimedInv, TimedTypeOK,
              OnSchedule, StaleSinceLoss, Grants
<1> QED
  BY <1>2, <1>3, <1>4 DEF TimedNext, TimedStepOf

LEMMA TimedInitially == TimedInit => TimedInv
<1> SUFFICES ASSUME TimedInit PROVE TimedInv
  OBVIOUS
<1>1. TimedTypeOK /\ lastChange <= clock
  <2>1. /\ clock = 0 /\ lastChange = 0 /\ lastServed = 0 /\ interrupted = FALSE
        /\ begun = [i \in Instances |-> 0] /\ renewedFrom = [i \in Instances |-> 0]
    BY DEF TimedInit, Init
  <2>2. interrupted \in BOOLEAN
    BY <2>1
  <2>3. begun \in [Instances -> Nat] /\ renewedFrom \in [Instances -> Nat]
    BY <2>1
  <2>4. lastChange \in Nat /\ lastServed \in Nat /\ lastChange <= clock
    BY <2>1
  <2> QED
    BY <2>2, <2>3, <2>4 DEF TimedTypeOK
<1>2. ASSUME NEW i \in Instances PROVE OnSchedule(i) /\ StaleSinceLoss(i)
  <2>1. /\ begun[i] = 0 /\ renewedFrom[i] = 0 /\ clock = 0 /\ lastChange = 0
        /\ process[i] = "up" /\ \A c \in Slots : pc[i][c] = "idle"
    BY DEF TimedInit, Init
  <2>2. OnSchedule(i)
    BY <2>1, ScheduleAssumption DEF OnSchedule
  <2>3. StaleSinceLoss(i)
    BY <2>1 DEF StaleSinceLoss, Grants
  <2> QED
    BY <2>2, <2>3
<1> QED
  BY <1>1, <1>2 DEF TimedInv

\* The history variables of the timed specification keep their types.
THEOREM TimedTypeCorrect == TimedSpec => []TimedTypeOK
<1>1. TimedSpec => []TypeOK
  BY TimedSpecImpliesSpec, TypeCorrect, PTL
<1>2. TypeOK /\ TypeOK' /\ TimedInv /\ [TimedNext]_timedVars => TimedInv'
  BY TimedInductive
<1>3. TimedInv => TimedTypeOK
  BY DEF TimedInv
<1> QED
  BY <1>1, <1>2, <1>3, TimedInitially, PTL DEF TimedSpec

\* A running replica that lost the row acts as leader for at most Gap more,
\* whatever the number of replicas, their clocks and the other times.
THEOREM StaleLeadersStepDown == TimedSpec => []StaleLeaderBounded
<1>1. TimedSpec => []TypeOK
  BY TimedSpecImpliesSpec, TypeCorrect, PTL
<1>2. TypeOK /\ TypeOK' /\ TimedInv /\ [TimedNext]_timedVars => TimedInv'
  BY TimedInductive
<1>3. TypeOK /\ TimedInv => StaleLeaderBounded
  <2> SUFFICES ASSUME TypeOK, TimedInv, NEW i \in Instances,
                      process[i] = "up", isCurrentLeader[i], leaseHolder # i
               PROVE  clock - lastChange <= Gap
    BY DEF StaleLeaderBounded
  <2>1. renewedFrom[i] <= lastChange /\ clock - renewedFrom[i] <= Gap
    BY DEF TimedInv, OnSchedule, StaleSinceLoss
  <2>2. clock \in Nat /\ lastChange \in Nat /\ renewedFrom[i] \in Nat /\ Gap \in Nat
    BY ScheduleAssumption DEF TimedInv, TimedTypeOK, TypeOK
  <2> QED
    BY <2>1, <2>2
<1> QED
  BY <1>1, <1>2, <1>3, TimedInitially, PTL DEF TimedSpec

-----------------------------------------------------------------------------
(* When a leader is deposed.  A write leaves an expiry one TTL after its   *)
(* renewal began, so the row of a holder on schedule looks expired to no   *)
(* other replica while Gap + Spread < TTL.                                 *)

\* What a step of replica i does to the row: nothing, but for the note that
\* its holder stopped, or a write by i.
KeepsRow(i) ==
    /\ leaseHolder' = leaseHolder /\ leaseExpiresAt' = leaseExpiresAt
    /\ lastChange' = lastChange
    /\ interrupted' \in {interrupted, interrupted \/ leaseHolder = i}

Writes(i) ==
    /\ process'[i] # "down"
    /\ clock - begun[i] <= Latency
    /\ leaseHolder' = i
    /\ leaseExpiresAt' = begun[i] + Skew[i] + TTL
    /\ lastChange' = IF leaseHolder = i THEN lastChange ELSE clock
    /\ interrupted' = IF leaseHolder = i THEN interrupted ELSE process[i] # "up"
    /\ \/ leaseHolder \in {i, NoInstance}
       \/ \E c \in Slots : pc[i][c] = "takeover"

LEMMA RowWrite ==
    ASSUME TypeOK, TimedTypeOK, NEW i \in Instances, TimedStepOf(i), OnSchedule(i)
    PROVE  KeepsRow(i) \/ Writes(i)
<1> USE DEF lease, KeepsRow
<1>1. CASE TimedStop(i)
  <2>1. leaseHolder' = leaseHolder /\ leaseExpiresAt' = leaseExpiresAt
    BY <1>1 DEF TimedStop, Stop, Exit
  <2> QED
    BY <1>1, <2>1 DEF TimedStop, Record
<1>2. CASE TimedRestart(i)
  BY <1>2 DEF TimedRestart, Record, Restart
<1>3. CASE TimedRequest(i)
  BY <1>3 DEF TimedRequest, Record, Admit, Respond
<1>4. ASSUME NEW c \in Slots, TimedBegin(i, c) PROVE KeepsRow(i)
  BY <1>4 DEF TimedBegin, Begin, Record
<1>5. ASSUME NEW c \in Slots, TimedReject(i, c) PROVE KeepsRow(i)
  BY <1>5 DEF TimedReject, Reject, Record
<1>6. ASSUME NEW c \in Slots, TimedRenewal(i, c) PROVE KeepsRow(i) \/ Writes(i)
  <2>1. /\ lastChange' = IF leaseHolder' = leaseHolder THEN lastChange ELSE clock
        /\ interrupted' = IF leaseHolder' = leaseHolder THEN interrupted
                                                       ELSE process[i] # "up"
    BY <1>6 DEF TimedRenewal, Record
  <2>2. /\ process'[i] # "down" /\ clock - begun[i] <= Latency
        /\ now[i][c] = begun[i] + Skew[i]
    BY <1>6, RenewalStep DEF TimedRenewal, OnSchedule
  <2>3. \/ leaseHolder' = leaseHolder /\ leaseExpiresAt' = leaseExpiresAt
        \/ /\ leaseHolder' = i /\ leaseExpiresAt' = now[i][c] + TTL
           /\ leaseHolder \in {i, NoInstance} \/ pc[i][c] = "takeover"
    BY <1>6 DEF TimedRenewal, Renewal, FindByPk, Create, TakeOver, Extend, Granted, Reread,
                Observe, WriteLease
  <2>4. CASE leaseHolder' = leaseHolder /\ leaseExpiresAt' = leaseExpiresAt
    BY <2>1, <2>4
  <2>5. CASE /\ leaseHolder' = i /\ leaseExpiresAt' = now[i][c] + TTL
             /\ leaseHolder \in {i, NoInstance} \/ pc[i][c] = "takeover"
    BY <2>1, <2>2, <2>5 DEF Writes
  <2> QED
    BY <2>3, <2>4, <2>5
<1> QED
  BY <1>1, <1>2, <1>3, <1>4, <1>5, <1>6 DEF TimedStepOf

\* What keeps replica i the leader: the row it holds expires one TTL after the
\* renewal in flight, and after its last completed one, began.
Covers(i) == leaseHolder = i =>
    /\ \A c \in Slots :
          /\ pc[i][c] # "create"
          /\ pc[i][c] \in {"created", "granted", "reread", "observed"} =>
                leaseExpiresAt >= begun[i] + Skew[i] + TTL
    /\ ~interrupted =>
          process[i] = "up" /\ leaseExpiresAt >= renewedFrom[i] + Skew[i] + TTL

\* A renewal that is about to overwrite a running leader's row had read the
\* row before it was that leader's.
LateTakeOver(i) == leaseHolder \notin {i, NoInstance} /\ ~interrupted =>
    \A c \in Slots : pc[i][c] = "takeover" => begun[i] <= lastChange

\* A holder on schedule is not expired for anyone.
LEMMA NotLapsed ==
    ASSUME TypeOK, TimedTypeOK, Gap + Spread < TTL,
           NEW i \in Instances, NEW h \in Instances,
           OnSchedule(i), OnSchedule(h), Covers(h), leaseHolder = h, ~interrupted
    PROVE  ~Lapsed(begun[i] + Skew[i])
<1>1. /\ clock \in Nat /\ begun[i] \in Nat /\ renewedFrom[h] \in Nat
      /\ Skew[i] \in Int /\ Skew[h] \in Int /\ leaseExpiresAt \in Int
      /\ TTL \in Nat /\ Gap \in Nat /\ Spread \in Nat
  BY TimeAssumption, ScheduleAssumption DEF TypeOK, TimedTypeOK
<1>2. process[h] = "up" /\ leaseExpiresAt >= renewedFrom[h] + Skew[h] + TTL
  BY DEF Covers
<1>3. clock - renewedFrom[h] <= Gap /\ begun[i] <= clock
  BY <1>2 DEF OnSchedule
<1>4. Skew[i] - Skew[h] <= Spread
  BY ScheduleAssumption
<1> QED
  BY <1>1, <1>2, <1>3, <1>4 DEF Lapsed

\* A step of i keeps what makes i the leader.
LEMMA CoversStep ==
    ASSUME TypeOK, TypeOK', TimedTypeOK, TimedTypeOK',
           NEW i \in Instances, TimedStepOf(i), OnSchedule(i), Covers(i)
    PROVE  Covers(i)'
<1> SUFFICES ASSUME leaseHolder' = i PROVE Covers(i)'
  BY DEF Covers
<1> USE NoOverlapAssumption, InstancesAssumption, TimeAssumption
    DEF TypeOK, TimedTypeOK, PerCycle, flags, cycle, lease
<1>1. CASE TimedStop(i)
  <2>1. /\ leaseHolder = i /\ leaseExpiresAt' = leaseExpiresAt /\ interrupted'
        /\ begun' = begun
    BY <1>1 DEF TimedStop, Stop, Exit
  <2>2. \A c \in Slots : pc'[i][c] = pc[i][c] \/ pc'[i][c] = "idle"
    BY <1>1 DEF TimedStop, Stop, Exit
  <2> QED
    BY <2>1, <2>2 DEF Covers
<1>2. CASE TimedRestart(i)
  <2>1. /\ process[i] = "down" /\ leaseHolder = i /\ leaseExpiresAt' = leaseExpiresAt
        /\ interrupted' = interrupted /\ begun' = begun /\ pc' = pc
    BY <1>2 DEF TimedRestart, Restart
  <2> QED
    BY <2>1 DEF Covers
<1>3. CASE TimedRequest(i)
  BY <1>3 DEF TimedRequest, Admit, Respond, Covers
<1>4. ASSUME NEW c \in Slots, TimedBegin(i, c) PROVE Covers(i)'
  <2>1. /\ leaseHolder = i /\ leaseExpiresAt' = leaseExpiresAt /\ process' = process
        /\ interrupted' = interrupted /\ renewedFrom' = renewedFrom
    BY <1>4 DEF TimedBegin, Begin
  <2>2. \A d \in Slots : pc'[i][d] = "find"
    BY <1>4 DEF TimedBegin, Begin, Goto
  <2> QED
    BY <2>1, <2>2 DEF Covers
<1>5. ASSUME NEW c \in Slots, TimedReject(i, c) PROVE Covers(i)'
  <2>1. /\ leaseHolder = i /\ leaseExpiresAt' = leaseExpiresAt /\ process' = process
        /\ interrupted' = interrupted /\ renewedFrom' = renewedFrom /\ begun' = begun
    BY <1>5 DEF TimedReject, Reject
  <2>2. \/ pc'[i][c] = "idle"
        \/ pc[i][c] \in {"create", "created"} /\ pc'[i][c] = "reread"
    BY <1>5 DEF TimedReject, Reject, Done, Goto
  <2> QED
    BY <2>1, <2>2 DEF Covers
<1>6. ASSUME NEW c \in Slots, TimedRenewal(i, c) PROVE Covers(i)'
  <2> HIDE TimeAssumption
  <2>1. /\ begun' = begun /\ process'[i] = process[i]
        /\ now[i][c] = begun[i] + Skew[i] /\ renewedFrom[i] <= begun[i]
    BY <1>6, RenewalStep DEF TimedRenewal, OnSchedule
  <2>2. CASE leaseHolder' = i /\ leaseExpiresAt' = now[i][c] + TTL
             /\ pc'[i][c] \in {"created", "granted"}
             /\ ~Completes(i, c)
    <3>1. leaseExpiresAt' = begun[i] + Skew[i] + TTL
      BY <2>1, <2>2, TimeAssumption
    <3>2. renewedFrom' = renewedFrom
      BY <1>6, <2>2 DEF TimedRenewal
    <3>3. leaseExpiresAt' >= renewedFrom'[i] + Skew[i] + TTL
      <4>1. \A r, b \in Nat, k, t \in Int : r <= b => b + k + t >= r + k + t
        OBVIOUS
      <4>2. renewedFrom[i] \in Nat /\ begun[i] \in Nat /\ Skew[i] \in Int /\ TTL \in Int
        BY TimeAssumption
      <4> HIDE DEF TypeOK, TimedTypeOK
      <4> QED
        BY <2>1, <3>1, <3>2, <4>1, <4>2
    <3>4. interrupted' = IF leaseHolder = i THEN interrupted ELSE process[i] # "up"
      BY <1>6, <2>2 DEF TimedRenewal
    <3>5. ~interrupted' => process'[i] = "up"
      BY <2>1, <3>4 DEF Covers
    <3>6. leaseExpiresAt' >= begun'[i] + Skew[i] + TTL
      BY <2>1, <3>1, TimeAssumption
    <3>7. \A d \in Slots : pc'[i][d] # "create"
      BY <2>2
    <3> HIDE DEF TypeOK, TimedTypeOK
    <3> QED
      BY <3>3, <3>5, <3>6, <3>7 DEF Covers
  <2>3. CASE /\ leaseHolder' = leaseHolder /\ leaseExpiresAt' = leaseExpiresAt
             /\ \/ pc'[i][c] \in {"takeover", "extend"} /\ ~Completes(i, c)
                \/ /\ pc[i][c] = "reread" /\ pc'[i][c] = "observed"
                   /\ ~Completes(i, c)
                \/ /\ pc[i][c] \in {"created", "granted", "observed"}
                   /\ pc'[i][c] = "idle"
    <3>1. interrupted' = interrupted
      BY <1>6, <2>3 DEF TimedRenewal
    <3>2. \/ renewedFrom' = renewedFrom
          \/ /\ pc[i][c] \in {"created", "granted", "observed"}
             /\ renewedFrom'[i] = begun[i]
      BY <1>6, <2>3 DEF TimedRenewal, Completes, Granted, Observe
    <3>3. pc'[i][c] \in {"created", "granted", "reread", "observed"} => pc[i][c] = "reread"
      BY <2>3
    <3>4. pc'[i][c] # "create"
      BY <2>3
    <3> HIDE DEF TypeOK, TimedTypeOK
    <3> QED
      BY <2>1, <2>3, <3>1, <3>2, <3>3, <3>4 DEF Covers
  <2>4. leaseHolder = i => pc[i][c] # "create"
    BY DEF Covers
  <2> USE DEF Goto, Done
  <2>5. CASE FindByPk(i, c)
    BY <2>3, <2>5 DEF FindByPk, Completes, Granted, Observe
  <2>6. CASE Create(i, c) \/ TakeOver(i, c) \/ Extend(i, c)
    <3>1. PICK s \in {"created", "granted"} : WriteLease(i, c, s)
      BY <2>4, <2>6 DEF Create, TakeOver, Extend
    <3>2. pc'[i][c] \in {"created", "granted"}
      BY <3>1 DEF WriteLease
    <3>3. ~Completes(i, c)
      BY <2>6 DEF Create, TakeOver, Extend, Completes, Granted, Observe
    <3> QED
      BY <2>2, <3>1, <3>2, <3>3 DEF WriteLease
  <2>7. CASE Granted(i, c) \/ Observe(i, c)
    BY <2>3, <2>7 DEF Granted, Observe
  <2>8. CASE Reread(i, c)
    BY <2>3, <2>8 DEF Reread, Completes, Granted, Observe
  <2> QED
    BY <1>6, <2>5, <2>6, <2>7, <2>8 DEF TimedRenewal, Renewal
<1> QED
  BY <1>1, <1>2, <1>3, <1>4, <1>5, <1>6 DEF TimedStepOf

\* A renewal does not set out to overwrite the row of a leader on schedule.
LEMMA LateTakeOverStep ==
    ASSUME TypeOK, TypeOK', TimedTypeOK, TimedTypeOK', Gap + Spread < TTL,
           NEW i \in Instances, TimedStepOf(i), LateTakeOver(i),
           \A j \in Instances : OnSchedule(j) /\ Covers(j)
    PROVE  LateTakeOver(i)'
<1> SUFFICES ASSUME leaseHolder' \notin {i, NoInstance}, ~interrupted',
                    NEW c \in Slots, pc'[i][c] = "takeover"
             PROVE  begun'[i] <= lastChange'
  BY DEF LateTakeOver
<1>1. KeepsRow(i)
  BY RowWrite DEF Writes
<1>2. /\ leaseHolder' = leaseHolder /\ lastChange' = lastChange /\ ~interrupted
      /\ leaseHolder \in Instances
  BY <1>1 DEF KeepsRow, TypeOK
<1>3. pc[i][c] = "takeover" => begun[i] <= lastChange
  BY <1>2 DEF LateTakeOver
<1> USE NoOverlapAssumption DEF TypeOK, TimedTypeOK, PerCycle, flags, cycle, Goto, Done
<1>4. CASE TimedStop(i) \/ TimedRestart(i) \/ TimedRequest(i)
  <2>1. begun' = begun
    BY <1>4 DEF TimedStop, TimedRestart, TimedRequest
  <2>2. pc' = pc
    <3>1. CASE TimedStop(i)
      BY <3>1 DEF TimedStop, Stop, Exit
    <3>2. CASE TimedRestart(i) \/ TimedRequest(i)
      BY <3>2 DEF TimedRestart, Restart, TimedRequest, Admit, Respond
    <3> QED
      BY <1>4, <3>1, <3>2
  <2> QED
    BY <1>2, <1>3, <2>1, <2>2
<1>5. ASSUME NEW d \in Slots, TimedBegin(i, d) PROVE FALSE
  BY <1>5 DEF TimedBegin, Begin
<1>6. ASSUME NEW d \in Slots, TimedReject(i, d) PROVE FALSE
  <2>1. pc'[i][d] \in {"idle", "reread"}
    BY <1>6 DEF TimedReject, Reject
  <2> QED
    BY <2>1
<1>7. ASSUME NEW d \in Slots, TimedRenewal(i, d) PROVE begun'[i] <= lastChange'
  <2>1. FindByPk(i, c)
    <3>1. d = c /\ Renewal(i, c)
      BY <1>7 DEF TimedRenewal
    <3>2. ~Create(i, c) /\ ~TakeOver(i, c) /\ ~Extend(i, c)
      BY DEF Create, TakeOver, Extend, WriteLease
    <3>3. ~Reread(i, c)
      BY DEF Reread
    <3>4. ~Done(i, c)
      OBVIOUS
    <3> HIDE DEF Done, TypeOK, TimedTypeOK
    <3> QED
      BY <3>1, <3>2, <3>3, <3>4 DEF Renewal, Granted, Observe
  <2>2. Lapsed(now[i][c]) /\ pc[i][c] = "find"
    <3>1. \A s : Goto(i, c, s) => s = "takeover"
      OBVIOUS
    <3> HIDE DEF Goto, TypeOK, TimedTypeOK
    <3> QED
      BY <2>1, <3>1 DEF FindByPk
  <2>3. now[i][c] = begun[i] + Skew[i]
    BY <2>2 DEF OnSchedule
  <2>4. ~Lapsed(begun[i] + Skew[i])
    BY <1>2, NotLapsed
  <2> QED
    BY <2>2, <2>3, <2>4
<1> QED
  BY <1>4, <1>5, <1>6, <1>7 DEF TimedStepOf

\* A step of another replica leaves i its row, or takes it away now.
LEMMA OthersKept ==
    ASSUME TypeOK, TimedTypeOK, TimedTypeOK', NEW i \in Instances, TimedStepOf(i), OnSchedule(i),
           NEW j \in Instances, j # i, OnSchedule(j), Covers(j), LateTakeOver(j)
    PROVE  Covers(j)' /\ LateTakeOver(j)'
<1>1. Same(j)
  BY Frame
<1>2. CASE KeepsRow(i)
  <2>1. /\ leaseHolder' = leaseHolder /\ leaseExpiresAt' = leaseExpiresAt
        /\ lastChange' = lastChange /\ (~interrupted' => ~interrupted)
    BY <1>2 DEF KeepsRow
  <2> QED
    BY <1>1, <2>1 DEF Covers, LateTakeOver, Same
<1>3. CASE Writes(i)
  <2>1. Covers(j)'
    BY <1>3 DEF Covers, Writes
  <2>2. ASSUME leaseHolder' # leaseHolder PROVE LateTakeOver(j)'
    BY <1>1, <1>3, <2>2 DEF LateTakeOver, Writes, Same, OnSchedule
  <2>3. ASSUME leaseHolder' = leaseHolder PROVE LateTakeOver(j)'
    BY <1>1, <1>3, <2>3 DEF LateTakeOver, Writes, Same
  <2> QED
    BY <2>1, <2>2, <2>3
<1> QED
  BY <1>2, <1>3, RowWrite

KeptInv == \A i \in Instances : Covers(i) /\ LateTakeOver(i)

LEMMA KeptInductive ==
    ASSUME TypeOK, TypeOK', TimedInv, TimedInv', KeptInv, Gap + Spread < TTL,
           [TimedNext]_timedVars
    PROVE  KeptInv'
<1>1. TimedTypeOK /\ TimedTypeOK'
  BY DEF TimedInv
<1>2. CASE TimedTick
  BY <1>2 DEF TimedTick, Tick, Record, KeptInv, Covers, LateTakeOver, lease, flags, cycle
<1>3. ASSUME NEW i \in Instances, TimedStepOf(i) PROVE KeptInv'
  <2>1. Covers(i)' /\ LateTakeOver(i)'
    BY <1>1, <1>3, CoversStep, LateTakeOverStep DEF TimedInv, KeptInv
  <2>2. \A j \in Instances : j # i => Covers(j)' /\ LateTakeOver(j)'
    BY <1>1, <1>3, OthersKept DEF TimedInv, KeptInv
  <2> QED
    BY <2>1, <2>2 DEF KeptInv
<1>4. CASE UNCHANGED timedVars
  BY <1>4 DEF timedVars, timing, vars, KeptInv, Covers, LateTakeOver, lease, flags, cycle
<1> QED
  BY <1>2, <1>3, <1>4 DEF TimedNext, TimedStepOf

\* A leader on schedule keeps the row, for every number of replicas, clocks
\* and times, as long as a TTL is longer than a gap between renewals plus the
\* clocks' spread: it loses the row only by stopping, or within Latency of
\* having taken it, to a renewal that read the row before.
THEOREM PunctualLeadersStay ==
    ASSUME Gap + Spread < TTL
    PROVE  TimedSpec => PunctualLeaderKept
<1> DEFINE Kept == \/ leaseHolder = NoInstance
                   \/ interrupted
                   \/ clock - lastChange <= Latency
<1>1. TimedSpec => []TypeOK
  BY TimedSpecImpliesSpec, TypeCorrect, PTL
<1>2. TypeOK /\ TypeOK' /\ TimedInv /\ [TimedNext]_timedVars => TimedInv'
  BY TimedInductive
<1>3. TimedInit => KeptInv
  BY InstancesAssumption DEF TimedInit, Init, KeptInv, Covers, LateTakeOver
<1>4. /\ TypeOK /\ TypeOK' /\ TimedInv /\ TimedInv' /\ KeptInv /\ [TimedNext]_timedVars
      => KeptInv'
  BY KeptInductive
<1>5. TypeOK /\ TimedInv /\ KeptInv /\ [TimedNext]_timedVars
      => (leaseHolder' # leaseHolder => Kept)
  <2> SUFFICES ASSUME TypeOK, TimedInv, KeptInv, [TimedNext]_timedVars,
                      leaseHolder' # leaseHolder, leaseHolder # NoInstance, ~interrupted
               PROVE  clock - lastChange <= Latency
    OBVIOUS
  <2>1. PICK i \in Instances : TimedStepOf(i)
    BY DEF TimedNext, TimedStepOf, TimedTick, Tick, timedVars, vars, lease
  <2>2. Writes(i) /\ leaseHolder \notin {i, NoInstance}
    BY <2>1, RowWrite DEF TimedInv, KeepsRow, Writes
  <2>3. PICK c \in Slots : pc[i][c] = "takeover"
    BY <2>2 DEF Writes
  <2>4. begun[i] <= lastChange
    BY <2>2, <2>3 DEF KeptInv, LateTakeOver
  <2>5. clock - begun[i] <= Latency
    BY <2>2 DEF Writes
  <2>6. begun[i] \in Nat /\ lastChange \in Nat /\ clock \in Nat /\ Latency \in Nat
    BY ScheduleAssumption DEF TypeOK, TimedInv, TimedTypeOK
  <2> QED
    BY <2>4, <2>5, <2>6
<1> QED
  BY <1>1, <1>2, <1>3, <1>4, <1>5, TimedInitially, PTL DEF TimedSpec, PunctualLeaderKept

-----------------------------------------------------------------------------
(* How long the cluster is without a leader.  Every write is made by a      *)
(* running replica and outlives it, so the row of a cluster without leader  *)
(* expires within a TTL of the last moment it had one; a replica that stays *)
(* up would have taken the row at its first renewal after that.             *)

\* The last moment is past, and the row does not outlive it by more than a TTL.
RowEnds ==
    /\ lastServed <= clock
    /\ leaseHolder # NoInstance => leaseExpiresAt <= lastServed + Skew[leaseHolder] + TTL

\* A renewal that wrote the row, or found one that has not expired.
Informed(i, c) ==
    \/ pc[i][c] \in {"created", "granted", "extend"}
    \/ pc[i][c] \in {"create", "reread"} /\ leaseHolder # NoInstance
    \/ pc[i][c] = "observed" /\ seen[i][c] # NoInstance

\* A replica's last completed renewal, and any that is about to complete,
\* began before the last row could have expired.
SeesRow(i) ==
    /\ process[i] = "up"
    /\ renewedFrom[i] < lastServed + TTL + Spread
    /\ \A c \in Slots : Informed(i, c) => begun[i] < lastServed + TTL + Spread

\* A step of a replica leaves the row alone or makes it a running replica's,
\* unexpired.
LEMMA ServedStep ==
    ASSUME TypeOK, TypeOK', TimedTypeOK, TimedTypeOK', Latency < TTL,
           NEW i \in Instances, TimedStepOf(i), OnSchedule(i), RowEnds
    PROVE  /\ RowEnds'
           /\ lastServed <= lastServed'
           /\ leaseHolder' = leaseHolder \/ lastServed' = clock
           /\ Writes(i) => lastServed' = clock
<1>1. clock' = clock /\ lastServed' = IF Served' THEN clock ELSE lastServed
  BY Frame DEF TimedStepOf, TimedStop, TimedRestart, TimedRequest, TimedBegin, TimedRenewal,
               TimedReject, Record
<1>2. /\ clock \in Nat /\ lastServed \in Nat /\ lastServed <= clock /\ begun[i] \in Nat
      /\ Skew[i] \in Int /\ TTL \in Nat /\ Latency \in Nat
  BY TimeAssumption, ScheduleAssumption DEF TypeOK, TimedTypeOK, RowEnds
<1>3. lastServed <= lastServed' /\ lastServed' <= clock'
  BY <1>1, <1>2
<1>4. CASE KeepsRow(i) /\ ~Writes(i)
  <2>1. leaseHolder' = leaseHolder /\ leaseExpiresAt' = leaseExpiresAt
    BY <1>4 DEF KeepsRow
  <2>2. ASSUME leaseHolder # NoInstance
        PROVE  leaseExpiresAt <= lastServed' + Skew[leaseHolder] + TTL
    <3>1. leaseExpiresAt \in Int /\ Skew[leaseHolder] \in Int /\ lastServed' \in Nat
      BY <2>2, TimeAssumption DEF TypeOK, TimedTypeOK
    <3> QED
      BY <1>2, <1>3, <2>2, <3>1 DEF RowEnds
  <2> QED
    BY <1>3, <1>4, <2>1, <2>2 DEF RowEnds
<1>5. CASE Writes(i)
  <2>1. /\ leaseHolder' = i /\ process'[i] # "down" /\ begun[i] <= clock
        /\ leaseExpiresAt' = begun[i] + Skew[i] + TTL /\ clock - begun[i] <= Latency
    BY <1>5 DEF Writes, OnSchedule
  <2>2. ~(leaseExpiresAt' <= clock + Skew[i]) /\ leaseExpiresAt' <= clock + Skew[i] + TTL
    BY <1>2, <2>1
  <2>3. Served'
    BY <1>1, <2>1, <2>2, InstancesAssumption DEF Served, Lapsed, Now
  <2> QED
    BY <1>1, <1>2, <1>3, <2>1, <2>2, <2>3 DEF RowEnds
<1> QED
  BY <1>4, <1>5, RowWrite

\* Waiting longer only leaves more room.
LEMMA SeesRowLater ==
    ASSUME TimedTypeOK, TimedTypeOK', NEW i \in Instances, SeesRow(i),
           lastServed <= lastServed'
    PROVE  /\ renewedFrom[i] < lastServed' + TTL + Spread
           /\ \A c \in Slots : Informed(i, c) => begun[i] < lastServed' + TTL + Spread
<1>1. \A b, s, t, k, d \in Nat : b < s + k + d /\ s <= t => b < t + k + d
  OBVIOUS
<1>2. /\ renewedFrom[i] \in Nat /\ begun[i] \in Nat /\ lastServed \in Nat
      /\ lastServed' \in Nat /\ TTL \in Nat /\ Spread \in Nat
  BY TimeAssumption, ScheduleAssumption DEF TimedTypeOK
<1> QED
  BY <1>1, <1>2 DEF SeesRow

\* A renewal that began before a moment with a leader has seen enough.
LEMMA SoonEnough ==
    ASSUME TimedTypeOK', NEW b \in Nat, b <= lastServed'
    PROVE  b < lastServed' + TTL + Spread
<1>1. lastServed' \in Nat /\ TTL \in Nat /\ TTL # 0 /\ Spread \in Nat
  BY TimeAssumption, ScheduleAssumption DEF TimedTypeOK
<1>2. \A s, k, d \in Nat : b <= s /\ k # 0 => b < s + k + d
  OBVIOUS
<1> QED
  BY <1>1, <1>2

\* So has one that found a row that had not expired.
LEMMA FoundUnexpired ==
    ASSUME TypeOK, TimedTypeOK, RowEnds, NEW i \in Instances,
           leaseHolder # NoInstance, ~Lapsed(begun[i] + Skew[i])
    PROVE  begun[i] < lastServed + TTL + Spread
<1>1. leaseHolder \in Instances
  BY DEF TypeOK
<1>2. /\ leaseExpiresAt \in Int /\ begun[i] \in Nat /\ lastServed \in Nat
      /\ Skew[i] \in Int /\ Skew[leaseHolder] \in Int /\ TTL \in Nat /\ Spread \in Nat
  BY <1>1, TimeAssumption, ScheduleAssumption DEF TypeOK, TimedTypeOK
<1>3. Skew[leaseHolder] - Skew[i] <= Spread
  BY <1>1, ScheduleAssumption
<1>4. leaseExpiresAt <= lastServed + Skew[leaseHolder] + TTL
  BY DEF RowEnds
<1> QED
  BY <1>2, <1>3, <1>4 DEF Lapsed

LEMMA SeesRowStep ==
    ASSUME TypeOK, TypeOK', TimedTypeOK, TimedTypeOK', Latency < TTL, RowEnds,
           NEW i \in Instances \ Mortal, TimedStepOf(i), OnSchedule(i), SeesRow(i)
    PROVE  SeesRow(i)'
<1>1. process[i] = "up"
  BY DEF SeesRow
<1>2. /\ renewedFrom[i] < lastServed' + TTL + Spread
      /\ \A c \in Slots : Informed(i, c) => begun[i] < lastServed' + TTL + Spread
  BY ServedStep, SeesRowLater
<1>3. begun[i] < lastServed + TTL + Spread => begun[i] < lastServed' + TTL + Spread
  <2>1. \A b, s, t, k, d \in Nat : b < s + k + d /\ s <= t => b < t + k + d
    OBVIOUS
  <2>2. /\ begun[i] \in Nat /\ lastServed \in Nat /\ lastServed' \in Nat
        /\ TTL \in Nat /\ Spread \in Nat
    BY TimeAssumption, ScheduleAssumption DEF TimedTypeOK
  <2>3. lastServed <= lastServed'
    BY ServedStep
  <2> QED
    BY <2>1, <2>2, <2>3
<1> USE NoOverlapAssumption DEF TypeOK, TimedTypeOK, PerCycle, flags, cycle, lease
<1>4. ~TimedStop(i) /\ ~TimedRestart(i)
  BY <1>1 DEF TimedStop, TimedRestart, Restart
<1>5. CASE TimedRequest(i)
  <2>1. /\ process' = process /\ renewedFrom' = renewedFrom /\ begun' = begun
        /\ pc' = pc /\ seen' = seen /\ leaseHolder' = leaseHolder
    BY <1>5 DEF TimedRequest, Admit, Respond
  <2> HIDE DEF TypeOK, TimedTypeOK
  <2> QED
    BY <1>1, <1>2, <2>1 DEF SeesRow, Informed
<1>6. ASSUME NEW c \in Slots, TimedBegin(i, c) PROVE SeesRow(i)'
  <2>1. process' = process /\ renewedFrom' = renewedFrom
    BY <1>6 DEF TimedBegin, Begin
  <2>2. \A d \in Slots : pc'[i][d] = "find"
    BY <1>6 DEF TimedBegin, Begin, Goto
  <2> HIDE DEF TypeOK, TimedTypeOK
  <2> QED
    BY <1>1, <1>2, <2>1, <2>2 DEF SeesRow, Informed
<1>7. ASSUME NEW c \in Slots, TimedReject(i, c) PROVE SeesRow(i)'
  <2>1. /\ process' = process /\ renewedFrom' = renewedFrom /\ begun' = begun
        /\ leaseHolder' = leaseHolder
    BY <1>7 DEF TimedReject, Reject
  <2>2. \/ pc'[i][c] = "idle"
        \/ pc[i][c] \in {"create", "created"} /\ pc'[i][c] = "reread"
    BY <1>7 DEF TimedReject, Reject, Done, Goto
  <2>3. \A d \in Slots : Informed(i, d)' => Informed(i, d)
    BY <2>1, <2>2 DEF Informed
  <2> HIDE DEF TypeOK, TimedTypeOK
  <2> QED
    BY <1>1, <1>2, <2>1, <2>3 DEF SeesRow
<1>8. ASSUME NEW c \in Slots, TimedRenewal(i, c) PROVE SeesRow(i)'
  <2>1. /\ Renewal(i, c) /\ begun' = begun /\ process'[i] = "up" /\ pc[i][c] # "idle"
        /\ now[i][c] = begun[i] + Skew[i] /\ begun[i] <= clock
    BY <1>1, <1>8, RenewalStep DEF TimedRenewal, OnSchedule
  <2>2. renewedFrom'[i] = renewedFrom[i] \/ (Completes(i, c) /\ renewedFrom'[i] = begun[i])
    BY <1>8 DEF TimedRenewal
  <2>3. Completes(i, c) => Informed(i, c)
    BY DEF Completes, Granted, Observe, Informed
  <2>4. renewedFrom'[i] < lastServed' + TTL + Spread
    <3> HIDE DEF TypeOK, TimedTypeOK
    <3> QED
      BY <1>2, <2>2, <2>3
  <2>5. Informed(i, c)' => begun[i] < lastServed' + TTL + Spread
    <3> USE DEF Goto
    <3>1. CASE FindByPk(i, c)
      <4>1. leaseHolder' = leaseHolder
        BY <3>1 DEF FindByPk
      <4>2. Informed(i, c)' => leaseHolder # NoInstance /\ ~Lapsed(now[i][c])
        <5>1. /\ leaseHolder = NoInstance => pc'[i][c] = "create"
              /\ leaseHolder # NoInstance /\ Lapsed(now[i][c]) => pc'[i][c] = "takeover"
          BY <3>1, InstancesAssumption DEF FindByPk
        <5> HIDE DEF TypeOK, TimedTypeOK, Goto
        <5> QED
          BY <4>1, <5>1 DEF Informed
      <4> HIDE DEF TypeOK, TimedTypeOK
      <4> QED
        BY <1>3, <2>1, <4>2, FoundUnexpired
    <3>2. CASE Create(i, c) \/ TakeOver(i, c) \/ Extend(i, c)
      <4>1. CASE leaseHolder' # leaseHolder
        <5>1. lastServed' = clock
          BY <4>1, ServedStep
        <5> QED
          BY <2>1, <5>1, SoonEnough
      <4>2. CASE Informed(i, c)
        BY <1>2, <4>2
      <4>3. CASE leaseHolder' = leaseHolder /\ ~Informed(i, c)
        <5>1. TakeOver(i, c) /\ leaseHolder = i
          <6>1. Create(i, c) => leaseHolder' # leaseHolder \/ Informed(i, c)
            BY InstancesAssumption DEF Create, WriteLease, Informed
          <6>2. Extend(i, c) => Informed(i, c)
            BY DEF Extend, Informed
          <6> QED
            BY <3>2, <4>3, <6>1, <6>2 DEF TakeOver, WriteLease
        <5>2. Writes(i)
          <6>1. /\ leaseHolder' = i /\ leaseExpiresAt' = begun[i] + Skew[i] + TTL
                /\ clock - begun[i] <= Latency
            BY <2>1, <5>1 DEF TakeOver, WriteLease, OnSchedule
          <6>2. lastChange' = lastChange /\ interrupted' = interrupted
            BY <1>8, <4>3 DEF TimedRenewal, Record
          <6> QED
            BY <2>1, <5>1, <6>1, <6>2 DEF Writes
        <5>3. lastServed' = clock
          BY <5>2, ServedStep
        <5> QED
          BY <2>1, <5>3, SoonEnough
      <4> QED
        BY <4>1, <4>2, <4>3
    <3>3. CASE Granted(i, c) \/ Observe(i, c)
      <4>1. pc'[i][c] = "idle"
        BY <3>3 DEF Granted, Observe, Done
      <4> HIDE DEF TypeOK, TimedTypeOK, Goto
      <4> QED
        BY <4>1 DEF Informed
    <3>4. CASE Reread(i, c)
      <4>1. Informed(i, c)' => Informed(i, c)
        BY <3>4 DEF Reread, Informed
      <4> QED
        BY <1>2, <4>1
    <3> QED
      BY <2>1, <3>1, <3>2, <3>3, <3>4 DEF Renewal
  <2>6. \A d \in Slots : d = c
    OBVIOUS
  <2> HIDE DEF TypeOK, TimedTypeOK
  <2> QED
    BY <2>1, <2>4, <2>5, <2>6 DEF SeesRow
<1> QED
  BY <1>4, <1>5, <1>6, <1>7, <1>8 DEF TimedStepOf

ServedInv == RowEnds /\ \A i \in Instances \ Mortal : SeesRow(i)

LEMMA ServedInductive ==
    ASSUME TypeOK, TypeOK', TimedInv, TimedInv', ServedInv, Latency < TTL,
           [TimedNext]_timedVars
    PROVE  ServedInv'
<1>1. TimedTypeOK /\ TimedTypeOK' /\ RowEnds
  BY DEF TimedInv, ServedInv
<1>2. CASE TimedTick
  <2>1. /\ clock' = clock + 1 /\ lastServed' \in {lastServed, clock'}
        /\ leaseHolder' = leaseHolder /\ leaseExpiresAt' = leaseExpiresAt
        /\ process' = process /\ pc' = pc /\ seen' = seen
        /\ begun' = begun /\ renewedFrom' = renewedFrom
    BY <1>2 DEF TimedTick, Tick, Record, lease, cycle
  <2>2. lastServed <= lastServed' /\ lastServed' <= clock'
    BY <1>1, <2>1 DEF RowEnds, TypeOK, TimedTypeOK
  <2>3. RowEnds'
    <3> SUFFICES ASSUME leaseHolder # NoInstance
                 PROVE  leaseExpiresAt <= lastServed' + Skew[leaseHolder] + TTL
      BY <2>1, <2>2 DEF RowEnds
    <3>1. /\ leaseExpiresAt \in Int /\ Skew[leaseHolder] \in Int /\ TTL \in Nat
          /\ lastServed \in Nat /\ lastServed' \in Nat
      BY <1>1, TimeAssumption DEF TypeOK, TimedTypeOK
    <3> QED
      BY <1>1, <2>2, <3>1 DEF RowEnds
  <2>4. ASSUME NEW i \in Instances \ Mortal PROVE SeesRow(i)'
    <3>1. SeesRow(i)
      BY DEF ServedInv
    <3>2. /\ renewedFrom[i] < lastServed' + TTL + Spread
          /\ \A c \in Slots : Informed(i, c) => begun[i] < lastServed' + TTL + Spread
      BY <1>1, <2>2, <3>1, SeesRowLater
    <3> QED
      BY <2>1, <3>1, <3>2 DEF SeesRow, Informed
  <2> QED
    BY <2>3, <2>4 DEF ServedInv
<1>3. ASSUME NEW i \in Instances, TimedStepOf(i) PROVE ServedInv'
  <2>1. /\ RowEnds' /\ lastServed <= lastServed'
        /\ leaseHolder' = leaseHolder \/ lastServed' = clock
    BY <1>1, <1>3, ServedStep DEF TimedInv
  <2>2. ASSUME i \notin Mortal PROVE SeesRow(i)'
    BY <1>1, <1>3, <2>2, SeesRowStep DEF TimedInv, ServedInv
  <2>3. ASSUME NEW j \in Instances \ Mortal, j # i PROVE SeesRow(j)'
    <3>1. SeesRow(j) /\ Same(j) /\ begun[j] <= clock /\ begun[j] \in Nat
      BY <1>1, <1>3, <2>3, Frame DEF ServedInv, TimedInv, OnSchedule, TimedTypeOK
    <3>2. /\ renewedFrom[j] < lastServed' + TTL + Spread
          /\ \A c \in Slots : Informed(j, c) => begun[j] < lastServed' + TTL + Spread
      BY <1>1, <2>1, <3>1, SeesRowLater
    <3>3. lastServed' = clock => begun[j] < lastServed' + TTL + Spread
      BY <1>1, <3>1, SoonEnough
    <3>4. leaseHolder' = leaseHolder => \A c \in Slots : Informed(j, c)' => Informed(j, c)
      BY <3>1 DEF Informed, Same
    <3> QED
      BY <2>1, <3>1, <3>2, <3>3, <3>4 DEF SeesRow, Same
  <2> QED
    BY <2>1, <2>2, <2>3 DEF ServedInv
<1>4. CASE UNCHANGED timedVars
  BY <1>4 DEF timedVars, timing, vars, ServedInv, RowEnds, SeesRow, Informed, lease, flags, cycle
<1> QED
  BY <1>2, <1>3, <1>4 DEF TimedNext, TimedStepOf

\* With one replica that stays up, and statements answered within a TTL, the
\* cluster is without leader for less than TTL + Gap + Spread, however many
\* other replicas stop, crash and restart.
THEOREM FailoverEnds ==
    ASSUME Latency < TTL, NEW survivor \in Instances \ Mortal
    PROVE  TimedSpec => []FailoverBounded
<1>1. TimedSpec => []TypeOK
  BY TimedSpecImpliesSpec, TypeCorrect, PTL
<1>2. TypeOK /\ TypeOK' /\ TimedInv /\ [TimedNext]_timedVars => TimedInv'
  BY TimedInductive
<1>3. TimedInit => ServedInv
  <2> SUFFICES ASSUME TimedInit PROVE ServedInv
    OBVIOUS
  <2>1. clock = 0 /\ lastServed = 0 /\ leaseHolder = NoInstance
    BY DEF TimedInit, Init
  <2>2. ASSUME NEW i \in Instances
        PROVE  /\ process[i] = "up" /\ renewedFrom[i] = 0
               /\ \A c \in Slots : ~Informed(i, c)
    BY DEF TimedInit, Init, Informed
  <2>3. 0 < 0 + TTL + Spread
    BY TimeAssumption, ScheduleAssumption
  <2> QED
    BY <2>1, <2>2, <2>3 DEF ServedInv, RowEnds, SeesRow
<1>4. /\ TypeOK /\ TypeOK' /\ TimedInv /\ TimedInv' /\ ServedInv /\ [TimedNext]_timedVars
      => ServedInv'
  BY ServedInductive
<1>5. TypeOK /\ TimedInv /\ ServedInv => FailoverBounded
  <2> SUFFICES ASSUME TypeOK, TimedInv, ServedInv PROVE FailoverBounded
    OBVIOUS
  <2>1. process[survivor] = "up" /\ renewedFrom[survivor] < lastServed + TTL + Spread
    BY DEF ServedInv, SeesRow
  <2>2. clock - renewedFrom[survivor] <= Gap
    BY <2>1 DEF TimedInv, OnSchedule
  <2>3. /\ clock \in Nat /\ renewedFrom[survivor] \in Nat /\ lastServed \in Nat
        /\ Gap \in Nat /\ TTL \in Nat /\ Spread \in Nat
    BY TimeAssumption, ScheduleAssumption DEF TypeOK, TimedInv, TimedTypeOK
  <2> QED
    BY <2>1, <2>2, <2>3 DEF FailoverBounded
<1> QED
  BY <1>1, <1>2, <1>3, <1>4, <1>5, TimedInitially, PTL DEF TimedSpec
=============================================================================
