---------------------------- MODULE EventBusProofs ----------------------------
(* Proofs about EventBus for every number of replicas, of overlapping polls *)
(* and of operations.                                                       *)
EXTENDS EventBus, FiniteSetTheorems, TLAPS

\* A non-empty set of bounded numbers has a largest element: of the sets of
\* numbers above an element, one has no strict subset among them.
LEMMA MaxOf ==
    ASSUME NEW n \in Nat, NEW S, S \subseteq 0 .. n, S # {}
    PROVE  Max(S) \in S /\ \A y \in S : y <= Max(S)
<1> DEFINE Higher(x) == {z \in 0 .. n : z > x}
           T == {Higher(x) : x \in S}
<1>1. IsFiniteSet(0 .. n)
  BY FS_Interval
<1>2. IsWellFoundedOn(StrictSubsetOrdering(0 .. n), FiniteSubsetsOf(0 .. n))
  BY FS_StrictSubsetOrderingWellFounded
<1>3. FiniteSubsetsOf(0 .. n) = SUBSET (0 .. n)
  BY <1>1, FS_FiniteSubsetsOfFinite
<1>4. T \subseteq SUBSET (0 .. n) /\ T # {}
  OBVIOUS
<1>5. \E t \in T : \A u \in T : <<u, t>> \notin StrictSubsetOrdering(0 .. n)
  <2> DEFINE R == StrictSubsetOrdering(0 .. n)
             All == FiniteSubsetsOf(0 .. n)
  <2>1. IsWellFoundedOn(R, All) /\ T \subseteq All /\ T # {}
    BY <1>2, <1>3, <1>4
  <2> HIDE DEF T, R, All
  <2>2. \E t \in T : \A u \in T : <<u, t>> \notin R
    BY <2>1, WFMin
  <2> QED
    BY <2>2 DEF R
<1>6. PICK x \in S : \A u \in T : <<u, Higher(x)>> \notin StrictSubsetOrdering(0 .. n)
  BY <1>5
<1>7. ASSUME NEW y \in S, y > x PROVE FALSE
  <2>1. Higher(y) \subseteq Higher(x) /\ Higher(y) # Higher(x)
    <3>1. y \in Higher(x) /\ y \notin Higher(y)
      BY <1>7
    <3>2. Higher(y) \subseteq Higher(x)
      BY <1>7
    <3> QED
      BY <3>1, <3>2
  <2>2. <<Higher(y), Higher(x)>> \in StrictSubsetOrdering(0 .. n)
    <3>1. Higher(y) \in SUBSET (0 .. n) /\ Higher(x) \in SUBSET (0 .. n)
      OBVIOUS
    <3> HIDE DEF Higher
    <3> QED
      BY <2>1, <3>1 DEF StrictSubsetOrdering
  <2>3. Higher(y) \in T
    BY <1>7
  <2> QED
    BY <1>6, <2>2, <2>3
<1>8. \E m \in S : \A y \in S : m >= y
  BY <1>7
<1>9. \A y \in S : Max(S) >= y /\ Max(S) \in S
  BY <1>8 DEF Max
<1> QED
  BY <1>9

-----------------------------------------------------------------------------
(* Types. *)

Event == [kind : Kinds, revision : Nat, source : Replicas]

\* The values that the variables range over; nobody has read or passed an
\* event that does not exist, or listed a change that is still to come.
Typed ==
    /\ events \in Seq(Event)
    /\ committed \subseteq Ids
    /\ cursor \in [Replicas -> Nat]
    /\ rows \in [Replicas -> [Polls -> SUBSET Nat]]
    /\ rev \in [Replicas -> Nat]
    /\ counter \in Nat
    /\ apply \in [Replicas -> {"idle", "saving", "saved"}]
    /\ value \in [Replicas -> Nat]
    /\ saves \in [Replicas -> SUBSET Nat]
    /\ leader \in Replicas \cup {NoReplica}
    /\ routes \in Nat
    /\ change \in [Replicas -> [Changes -> {"idle", "listing", "pushing", "publishing"}]]
    /\ calls \in [Replicas -> Nat]
    /\ lists \in [Replicas -> SUBSET Nat]
    /\ listed \in [Replicas -> [Changes -> Nat]]
    /\ pushed \in Nat
    /\ faults \in Nat
    /\ increments \in Nat
    /\ handled \in [Replicas -> SUBSET Nat]
    /\ passed \in [Replicas -> SUBSET Nat]

\* What is read or listed exists.
Bounded ==
    /\ \A r \in Replicas : cursor[r] <= Len(events) /\ \A p \in Polls : rows[r][p] \subseteq committed
    /\ pushed <= routes
    /\ \A r \in Replicas : /\ \A v \in lists[r] : v <= routes
                           /\ \A k \in Changes : listed[r][k] <= routes
    /\ increments + routes + faults <= MaxOperations

\* Facts about the log used throughout.
LEMMA LogFacts ==
    ASSUME Typed
    PROVE  /\ Ids = 1 .. Len(events) /\ Len(events) \in Nat /\ Ids \subseteq Nat
           /\ \A id \in Ids : events[id] \in Event
BY DEF Typed, Ids

\* publish() adds one event, above every cursor and every row read.
LEMMA PublishFacts ==
    ASSUME Typed, NEW r \in Replicas, NEW k \in Kinds, NEW v \in Nat, Publish(r, k, v)
    PROVE  /\ events' \in Seq(Event)
           /\ Ids' = Ids \cup {Len(events) + 1}
           /\ Len(events') = Len(events) + 1
           /\ \A id \in Ids : events'[id] = events[id]
           /\ events'[Len(events) + 1] = [kind |-> k, revision |-> v, source |-> r]
<1>1. [kind |-> k, revision |-> v, source |-> r] \in Event
  BY DEF Event
<1>2. events \in Seq(Event)
  BY DEF Typed
<1> QED
  BY <1>1, <1>2 DEF Publish, Ids

\* What is above a cursor, or read by a poll, has a largest id.
LEMMA LargestAbove ==
    ASSUME Typed, NEW r \in Replicas, Above(r) # {}
    PROVE  /\ Max(Above(r)) \in Above(r)
           /\ \A id \in Above(r) : id <= Max(Above(r))
<1>1. Above(r) \subseteq 0 .. Len(events)
  BY LogFacts DEF Above, Typed
<1> QED
  BY <1>1, MaxOf, LogFacts

LEMMA LargestRead ==
    ASSUME Typed, Bounded, NEW r \in Replicas, NEW p \in Polls
    PROVE  LET c == Max(rows[r][p] \cup {cursor[r]})
           IN  /\ c \in rows[r][p] \cup {cursor[r]}
               /\ cursor[r] <= c
               /\ \A id \in rows[r][p] : id <= c
<1>1. rows[r][p] \cup {cursor[r]} \subseteq 0 .. Len(events)
  <2>1. rows[r][p] \subseteq Ids /\ cursor[r] \in Nat /\ cursor[r] <= Len(events)
    BY DEF Bounded, Typed
  <2> QED
    BY <2>1, LogFacts
<1> QED
  BY <1>1, MaxOf, LogFacts

\* The newest of the revisions a poll has read is one of them.
LEMMA LargestRevision ==
    ASSUME Typed, Bounded, NEW r \in Replicas, NEW p \in Polls,
           NEW ids, ids \subseteq rows[r][p], ids # {}
    PROVE  Max(ids) \in ids /\ Max(ids) \in Ids
<1>1. ids \subseteq 0 .. Len(events) /\ ids \subseteq Ids
  <2>1. rows[r][p] \subseteq Ids
    BY DEF Bounded, Typed
  <2> QED
    BY <2>1, LogFacts
<1> QED
  BY <1>1, MaxOf, LogFacts

LEMMA HandleTyped ==
    ASSUME Typed, Bounded, NEW r \in Replicas, NEW p \in Polls, Handle(r, p)
    PROVE  /\ cursor' \in [Replicas -> Nat]
           /\ rows' \in [Replicas -> [Polls -> SUBSET Nat]]
           /\ handled' \in [Replicas -> SUBSET Nat]
           /\ rev' \in [Replicas -> Nat]
           /\ saves' \in [Replicas -> SUBSET Nat]
           /\ calls' \in [Replicas -> Nat]
           /\ cursor'[r] = cursor[r] \/ cursor'[r] \in rows[r][p]
<1> DEFINE ids == rows[r][p]
           revisions == Foreign(r, ids, {"revision"})
           reloads == Foreign(r, ids, {"routes", "leader"})
<1>1. ids \subseteq Ids /\ ids \in SUBSET Nat
  BY DEF Typed, Bounded
<1>2. revisions \subseteq ids /\ reloads \subseteq ids /\ Foreign(r, ids, Kinds) \subseteq ids
  BY DEF Foreign
<1>3. Max(ids \cup {cursor[r]}) \in Nat /\ Max(ids \cup {cursor[r]}) \in ids \cup {cursor[r]}
  BY <1>1, LargestRead DEF Typed
<1>4. IsFiniteSet(reloads)
  <2>1. IsFiniteSet(1 .. Len(events))
    BY LogFacts, FS_Interval
  <2> QED
    BY <1>1, <1>2, <2>1, LogFacts, FS_Subset
<1>5. Cardinality(reloads) \in Nat
  BY <1>4, FS_CardinalityType
<1>6. revisions # {} => events[Max(revisions)].revision \in Nat
  <2> SUFFICES ASSUME revisions # {} PROVE events[Max(revisions)] \in Event
    BY DEF Event
  <2>1. Max(revisions) \in Ids
    BY <1>2, LargestRevision
  <2> QED
    BY <2>1, LogFacts
<1>7. {events[id].revision : id \in revisions} \in SUBSET Nat
  BY <1>1, <1>2, LogFacts DEF Event
<1> USE DEF Typed
<1>8. cursor' \in [Replicas -> Nat] /\ (cursor'[r] = cursor[r] \/ cursor'[r] \in rows[r][p])
  BY <1>3 DEF Handle
<1>9. rows' \in [Replicas -> [Polls -> SUBSET Nat]]
  BY DEF Handle
<1>10. handled' \in [Replicas -> SUBSET Nat]
  <2>1. handled' = [handled EXCEPT ![r] = @ \cup Foreign(r, ids, Kinds)]
    BY DEF Handle
  <2>2. Foreign(r, ids, Kinds) \in SUBSET Nat
    BY <1>1, <1>2
  <2> QED
    BY <2>1, <2>2
<1>11. rev' \in [Replicas -> Nat]
  <2>1. rev' = [rev EXCEPT ![r] = IF revisions = {} THEN @ ELSE events[Max(revisions)].revision]
    BY DEF Handle
  <2> QED
    BY <1>6, <2>1
<1>12. saves' \in [Replicas -> SUBSET Nat]
  <2>1. saves' = [saves EXCEPT ![r] = @ \cup {events[id].revision : id \in revisions}]
    BY DEF Handle
  <2> HIDE DEF revisions
  <2> QED
    BY <1>7, <2>1
<1>13. calls' \in [Replicas -> Nat]
  <2>1. calls' = [calls EXCEPT ![r] = @ + IF leader = r THEN Cardinality(reloads) ELSE 0]
    BY DEF Handle
  <2> HIDE DEF reloads
  <2> QED
    BY <1>5, <2>1
<1> QED
  BY <1>8, <1>9, <1>10, <1>11, <1>12, <1>13

LEMMA TypedInductive ==
    ASSUME Typed, Bounded, [Next]_vars
    PROVE  Typed'
<1> USE EventBusAssumption DEF Bus, Revision, Gateway, Goes, Push
<1>1. ASSUME NEW id \in Ids, Commit(id) PROVE Typed'
  BY <1>1 DEF Commit, Typed, Ids
<1>2. ASSUME NEW r \in Replicas, NEW p \in Polls, Query(r, p) PROVE Typed'
  <2>1. Above(r) \in SUBSET Nat /\ Passes(r) \in SUBSET Nat
    <3>1. Above(r) \in SUBSET Nat
      BY LogFacts DEF Above, Typed
    <3>2. Max(Above(r)) \in Nat
      BY <1>2, <3>1, LargestAbove DEF Query
    <3> QED
      BY <3>1, <3>2 DEF Passes
  <2>2. rows' \in [Replicas -> [Polls -> SUBSET Nat]] /\ passed' \in [Replicas -> SUBSET Nat]
    BY <1>2, <2>1 DEF Query, Typed
  <2> QED
    BY <1>2, <2>2 DEF Query, Typed, Ids
<1>3. ASSUME NEW r \in Replicas, NEW p \in Polls, Handle(r, p) PROVE Typed'
  <2>1. UNCHANGED <<events, committed, passed, counter, apply, value, increments,
                    routes, change, lists, listed, pushed, leader, faults>>
    BY <1>3 DEF Handle
  <2> QED
    BY <1>3, <2>1, HandleTyped DEF Typed, Ids
<1>4. ASSUME NEW r \in Replicas, SaveCounter(r) PROVE Typed'
  BY <1>4 DEF SaveCounter, Typed, Ids
<1>5. ASSUME NEW r \in Replicas, PublishRevision(r) PROVE Typed'
  <2>1. /\ events' \in Seq(Event) /\ Ids' = Ids \cup {Len(events) + 1}
    BY <1>5, PublishFacts DEF PublishRevision, Typed, Kinds
  <2> QED
    BY <1>5, <2>1 DEF PublishRevision, Typed
<1>6. ASSUME NEW r \in Replicas, SaveHandled(r) PROVE Typed'
  <2>1. saves \in [Replicas -> SUBSET Nat]
    BY DEF Typed
  <2>2. PICK v \in saves[r] : counter' = v /\ saves' = [saves EXCEPT ![r] = @ \ {v}]
    BY <1>6 DEF SaveHandled
  <2>3. counter' \in Nat /\ saves' \in [Replicas -> SUBSET Nat]
    BY <2>1, <2>2
  <2>4. UNCHANGED <<events, committed, Bus, rev, apply, value, increments, Gateway, leader, faults>>
    BY <1>6 DEF SaveHandled
  <2> QED
    BY <2>3, <2>4 DEF Typed, Ids
<1>7. ASSUME NEW r \in Replicas, NEW k \in Changes, List(r, k) PROVE Typed'
  <2>1. change' \in [Replicas -> [Changes -> {"idle", "listing", "pushing", "publishing"}]]
    BY <1>7 DEF List, Typed
  <2>2. listed' \in [Replicas -> [Changes -> Nat]]
    BY <1>7 DEF List, Typed
  <2>3. UNCHANGED <<events, committed, Bus, Revision, routes, calls, lists, pushed, leader, faults>>
    BY <1>7 DEF List
  <2> QED
    BY <2>1, <2>2, <2>3 DEF Typed, Ids
<1>8. ASSUME NEW r \in Replicas, NEW k \in Changes, PushList(r, k) PROVE Typed'
  <2>1. change' \in [Replicas -> [Changes -> {"idle", "listing", "pushing", "publishing"}]]
    BY <1>8 DEF PushList, Typed
  <2>2. listed' \in [Replicas -> [Changes -> Nat]] /\ pushed' \in Nat
    BY <1>8 DEF PushList, Typed
  <2>3. UNCHANGED <<events, committed, Bus, Revision, routes, calls, lists, leader, faults>>
    BY <1>8 DEF PushList
  <2> QED
    BY <2>1, <2>2, <2>3 DEF Typed, Ids
<1>9. ASSUME NEW r \in Replicas, NEW k \in Changes, PublishChange(r, k) PROVE Typed'
  <2>1. /\ events' \in Seq(Event) /\ Ids' = Ids \cup {Len(events) + 1}
    BY <1>9, PublishFacts DEF PublishChange, Kinds
  <2> QED
    BY <1>9, <2>1 DEF PublishChange, Typed
<1>10. ASSUME NEW r \in Replicas, ListForEvent(r) PROVE Typed'
  <2>1. calls' \in [Replicas -> Nat] /\ lists' \in [Replicas -> SUBSET Nat]
    BY <1>10 DEF ListForEvent, Typed
  <2> QED
    BY <1>10, <2>1 DEF ListForEvent, Typed, Ids
<1>11. ASSUME NEW r \in Replicas, PushForEvent(r) PROVE Typed'
  <2>1. lists \in [Replicas -> SUBSET Nat]
    BY DEF Typed
  <2>2. PICK v \in lists[r] : pushed' = v /\ lists' = [lists EXCEPT ![r] = @ \ {v}]
    BY <1>11 DEF PushForEvent
  <2>3. pushed' \in Nat /\ lists' \in [Replicas -> SUBSET Nat]
    BY <2>1, <2>2
  <2>4. UNCHANGED <<events, committed, Bus, Revision, routes, change, calls, listed, leader, faults>>
    BY <1>11 DEF PushForEvent
  <2> QED
    BY <2>3, <2>4 DEF Typed, Ids
<1>12. ASSUME NEW r \in Replicas, Increment(r) PROVE Typed'
  <2>1. increments' \in Nat /\ rev' \in [Replicas -> Nat] /\ value' \in [Replicas -> Nat]
    BY <1>12 DEF Increment, Typed
  <2>2. apply' \in [Replicas -> {"idle", "saving", "saved"}]
    BY <1>12 DEF Increment, Typed
  <2>3. UNCHANGED <<events, committed, Bus, counter, saves, Gateway, leader, faults>>
    BY <1>12 DEF Increment
  <2> QED
    BY <2>1, <2>2, <2>3 DEF Typed, Ids
<1>13. ASSUME NEW r \in Replicas, ChangeRoutes(r) PROVE Typed'
  <2>1. routes' \in Nat
    BY <1>13 DEF ChangeRoutes, Typed
  <2>2. change' \in [Replicas -> [Changes -> {"idle", "listing", "pushing", "publishing"}]]
    BY <1>13 DEF ChangeRoutes, Typed, Changes
  <2> QED
    BY <1>13, <2>1, <2>2 DEF ChangeRoutes, Typed, Ids
<1>14. ASSUME NEW r \in Replicas, PushForEventFails(r) PROVE Typed'
  <2>1. faults' \in Nat /\ lists \in [Replicas -> SUBSET Nat]
    <3>1. faults' = faults + 1
      BY <1>14 DEF PushForEventFails
    <3>2. faults \in Nat /\ lists \in [Replicas -> SUBSET Nat]
      BY DEF Typed
    <3> QED
      BY <3>1, <3>2
  <2>2. PICK v \in lists[r] : lists' = [lists EXCEPT ![r] = @ \ {v}]
    BY <1>14 DEF PushForEventFails
  <2>3. lists' \in [Replicas -> SUBSET Nat]
    BY <2>1, <2>2
  <2> QED
    BY <1>14, <2>1, <2>3 DEF PushForEventFails, Typed, Ids
<1>15. ASSUME NEW r \in Replicas, NEW k \in Changes, PushFails(r, k) PROVE Typed'
  <2>1. faults' \in Nat
    <3>1. faults' = faults + 1
      BY <1>15 DEF PushFails
    <3>2. faults \in Nat
      BY DEF Typed
    <3> QED
      BY <3>1, <3>2
  <2>3. listed' \in [Replicas -> [Changes -> Nat]]
    BY <1>15 DEF PushFails, Typed
  <2>2. change' \in [Replicas -> [Changes -> {"idle", "listing", "pushing", "publishing"}]]
    BY <1>15 DEF PushFails, Typed
  <2> QED
    BY <1>15, <2>1, <2>2, <2>3 DEF PushFails, Typed, Ids
<1>16. ASSUME NEW r \in Replicas, BecomeLeader(r) PROVE Typed'
  <2>1. change' \in [Replicas -> [Changes -> {"idle", "listing", "pushing", "publishing"}]]
    BY <1>16 DEF BecomeLeader, Typed, Changes
  <2>2. leader' = r /\ faults' \in Nat
    <3>1. faults \in Nat
      BY DEF Typed
    <3> QED
      BY <1>16, <3>1 DEF BecomeLeader
  <2>3. UNCHANGED <<events, committed, Bus, Revision, routes, calls, lists, listed, pushed>>
    BY <1>16 DEF BecomeLeader
  <2> QED
    BY <2>1, <2>2, <2>3 DEF Typed, Ids
<1>17. ASSUME NEW r \in Replicas, BecomeLeaderUnnoticed(r) PROVE Typed'
  <2>1. leader' = r /\ faults' \in Nat
    <3>1. faults \in Nat
      BY DEF Typed
    <3> QED
      BY <1>17, <3>1 DEF BecomeLeaderUnnoticed
  <2>2. UNCHANGED <<events, committed, Bus, Revision, Gateway>>
    BY <1>17 DEF BecomeLeaderUnnoticed
  <2> QED
    BY <2>1, <2>2 DEF Typed, Ids
<1>18. ASSUME NEW r \in Replicas, Restart(r) PROVE Typed'
  <2>1. /\ cursor' \in [Replicas -> Nat] /\ rev' \in [Replicas -> Nat]
        /\ value' \in [Replicas -> Nat] /\ calls' \in [Replicas -> Nat] /\ faults' \in Nat
    BY <1>18 DEF Restart, Typed
  <2>2. /\ rows' \in [Replicas -> [Polls -> SUBSET Nat]]
        /\ handled' \in [Replicas -> SUBSET Nat] /\ passed' \in [Replicas -> SUBSET Nat]
        /\ saves' \in [Replicas -> SUBSET Nat] /\ lists' \in [Replicas -> SUBSET Nat]
    BY <1>18 DEF Restart, Typed
  <2>3. /\ change' \in [Replicas -> [Changes -> {"idle", "listing", "pushing", "publishing"}]]
        /\ listed' \in [Replicas -> [Changes -> Nat]]
        /\ apply' \in [Replicas -> {"idle", "saving", "saved"}]
        /\ leader' \in Replicas \cup {NoReplica}
    BY <1>18 DEF Restart, Typed
  <2> QED
    BY <1>18, <2>1, <2>2, <2>3 DEF Restart, Typed, Ids
<1>19. ASSUME NEW r \in Replicas, SaveCounterRejected(r) \/ PublishRevisionRejected(r) PROVE Typed'
  <2>1. UNCHANGED <<events, committed, Bus, rev, saves, increments, Gateway, leader, faults>>
    BY <1>19 DEF SaveCounterRejected, PublishRevisionRejected
  <2>2. /\ apply' \in [Replicas -> {"idle", "saving", "saved"}] /\ value' \in [Replicas -> Nat]
        /\ counter' \in Nat
    <3>1. CASE SaveCounterRejected(r)
      BY <3>1 DEF SaveCounterRejected, Typed
    <3>2. CASE PublishRevisionRejected(r)
      BY <3>2 DEF PublishRevisionRejected, Typed
    <3> QED
      BY <1>19, <3>1, <3>2
  <2> QED
    BY <2>1, <2>2 DEF Typed, Ids
<1>20. ASSUME NEW r \in Replicas, SaveHandledRejected(r) PROVE Typed'
  <2>1. saves \in [Replicas -> SUBSET Nat] /\ counter \in Nat
    BY DEF Typed
  <2>2. PICK v \in saves[r] : counter' \in {counter, v} /\ saves' = [saves EXCEPT ![r] = @ \ {v}]
    BY <1>20 DEF SaveHandledRejected
  <2>3. counter' \in Nat /\ saves' \in [Replicas -> SUBSET Nat]
    BY <2>1, <2>2
  <2>4. UNCHANGED <<events, committed, Bus, rev, apply, value, increments, Gateway, leader, faults>>
    BY <1>20 DEF SaveHandledRejected
  <2> QED
    BY <2>3, <2>4 DEF Typed, Ids
<1>21. ASSUME NEW r \in Replicas, NEW k \in Changes, PublishChangeRejected(r, k) PROVE Typed'
  <2>1. change' \in [Replicas -> [Changes -> {"idle", "listing", "pushing", "publishing"}]]
    BY <1>21 DEF PublishChangeRejected, Typed
  <2> QED
    BY <1>21, <2>1 DEF PublishChangeRejected, Typed, Ids
<1>22. ASSUME NEW r \in Replicas, StepDown(r) PROVE Typed'
  BY <1>22 DEF StepDown, Typed, Ids
<1>23. CASE UNCHANGED vars
  BY <1>23 DEF vars, Typed, Ids
<1> QED
  BY <1>1, <1>2, <1>3, <1>4, <1>5, <1>6, <1>7, <1>8, <1>9, <1>10, <1>11, <1>12, <1>13,
     <1>14, <1>15, <1>16, <1>17, <1>18, <1>19, <1>20, <1>21, <1>22, <1>23
     DEF Next, Progress, Rejected

LEMMA BoundedInductive ==
    ASSUME Typed, Typed', Bounded, [Next]_vars
    PROVE  Bounded'
<1> USE EventBusAssumption DEF Bus, Revision, Gateway, Goes, Push, MoreOperations
<1>1. ASSUME NEW id \in Ids, Commit(id) PROVE Bounded'
  BY <1>1 DEF Commit, Typed, Bounded
<1>2. ASSUME NEW r \in Replicas, NEW p \in Polls, Query(r, p) PROVE Bounded'
  <2>1. Above(r) \subseteq committed
    BY DEF Above
  <2> QED
    BY <1>2, <2>1 DEF Query, Typed, Bounded
<1>3. ASSUME NEW r \in Replicas, NEW p \in Polls, Handle(r, p) PROVE Bounded'
  <2>1. UNCHANGED <<events, committed, increments, routes, lists, listed, pushed, faults>>
    BY <1>3 DEF Handle
  <2>2. \A q \in Replicas : \A o \in Polls : rows'[q][o] \subseteq rows[q][o]
    BY <1>3 DEF Handle, Typed
  <2>3. cursor'[r] <= Len(events)
    <3>1. cursor'[r] = cursor[r] \/ cursor'[r] \in rows[r][p]
      BY <1>3, HandleTyped
    <3>2. rows[r][p] \subseteq Ids /\ cursor[r] <= Len(events)
      BY DEF Bounded, Typed
    <3> QED
      BY <3>1, <3>2, LogFacts
  <2>4. \A q \in Replicas : q # r => cursor'[q] = cursor[q]
    BY <1>3 DEF Handle, Typed
  <2> QED
    BY <2>1, <2>2, <2>3, <2>4 DEF Bounded
<1>4. ASSUME NEW r \in Replicas, SaveCounter(r) PROVE Bounded'
  BY <1>4 DEF SaveCounter, Bounded
<1>5. ASSUME NEW r \in Replicas, PublishRevision(r) PROVE Bounded'
  <2>1. Len(events') = Len(events) + 1 /\ Len(events) \in Nat
    BY <1>5, PublishFacts, LogFacts DEF PublishRevision, Typed, Kinds
  <2> QED
    <3>1. UNCHANGED <<committed, cursor, rows, increments, routes, lists, listed, pushed, faults>>
      BY <1>5 DEF PublishRevision
    <3>2. cursor \in [Replicas -> Nat]
      BY DEF Typed
    <3> QED
      BY <2>1, <3>1, <3>2 DEF Bounded
<1>6. ASSUME NEW r \in Replicas, SaveHandled(r) PROVE Bounded'
  BY <1>6 DEF SaveHandled, Bounded
<1>7. ASSUME NEW r \in Replicas, NEW k \in Changes, List(r, k) PROVE Bounded'
  <2>1. UNCHANGED <<events, committed, cursor, rows, increments, routes, lists, pushed, faults>>
    BY <1>7 DEF List
  <2>2. \A q \in Replicas : \A j \in Changes : listed'[q][j] = listed[q][j] \/ listed'[q][j] = routes
    BY <1>7 DEF List, Typed
  <2>3. routes \in Nat
    BY DEF Typed
  <2> QED
    BY <2>1, <2>2, <2>3 DEF Bounded
<1>8. ASSUME NEW r \in Replicas, NEW k \in Changes, PushList(r, k) PROVE Bounded'
  <2>1. UNCHANGED <<events, committed, cursor, rows, increments, routes, lists, faults>>
    BY <1>8 DEF PushList
  <2>2. /\ \A q \in Replicas : \A j \in Changes : listed'[q][j] = listed[q][j] \/ listed'[q][j] = 0
        /\ pushed' = listed[r][k]
    BY <1>8 DEF PushList, Typed
  <2>3. routes \in Nat
    BY DEF Typed
  <2> QED
    BY <2>1, <2>2, <2>3 DEF Bounded
<1>9. ASSUME NEW r \in Replicas, NEW k \in Changes, PublishChange(r, k) PROVE Bounded'
  <2>1. Len(events') = Len(events) + 1 /\ Len(events) \in Nat
    BY <1>9, PublishFacts, LogFacts DEF PublishChange, Kinds
  <2> QED
    <3>1. UNCHANGED <<cursor, rows, committed, routes, lists, listed, pushed, increments, faults>>
      BY <1>9 DEF PublishChange
    <3>2. \A q \in Replicas : cursor[q] \in Nat
      BY DEF Typed
    <3> QED
      BY <2>1, <3>1, <3>2 DEF Bounded
<1>10. ASSUME NEW r \in Replicas, ListForEvent(r) PROVE Bounded'
  <2>1. UNCHANGED <<events, committed, cursor, rows, increments, routes, listed, pushed, faults>>
    BY <1>10 DEF ListForEvent
  <2>2. \A q \in Replicas : lists'[q] \subseteq lists[q] \cup {routes}
    BY <1>10 DEF ListForEvent, Typed
  <2>3. routes \in Nat
    BY DEF Typed
  <2> QED
    BY <2>1, <2>2, <2>3 DEF Bounded
<1>11. ASSUME NEW r \in Replicas, PushForEvent(r) PROVE Bounded'
  BY <1>11 DEF PushForEvent, Typed, Bounded
<1>12. ASSUME NEW r \in Replicas, Increment(r) PROVE Bounded'
  BY <1>12 DEF Increment, Typed, Bounded
<1>13. ASSUME NEW r \in Replicas, ChangeRoutes(r) PROVE Bounded'
  <2>1. /\ routes' = routes + 1 /\ UNCHANGED <<events, committed, cursor, rows, pushed, lists, listed>>
        /\ increments' + routes' + faults' <= MaxOperations
    BY <1>13 DEF ChangeRoutes, Typed
  <2>2. /\ \A q \in Replicas : \A v \in lists[q] : v \in Nat
        /\ \A q \in Replicas : \A k \in Changes : listed[q][k] \in Nat
        /\ routes \in Nat /\ pushed \in Nat
    <3>1. lists \in [Replicas -> SUBSET Nat] /\ listed \in [Replicas -> [Changes -> Nat]]
      BY DEF Typed
    <3>2. routes \in Nat /\ pushed \in Nat
      BY DEF Typed
    <3> QED
      BY <3>1, <3>2
  <2>3. \A n \in Nat : n <= routes => n <= routes'
    BY <2>1, <2>2
  <2> QED
    BY <2>1, <2>2, <2>3 DEF Bounded
<1>14. ASSUME NEW r \in Replicas, PushForEventFails(r) PROVE Bounded'
  <2>1. UNCHANGED <<events, committed, cursor, rows, routes, pushed, listed>>
    BY <1>14 DEF PushForEventFails
  <2>2. increments' + routes' + faults' <= MaxOperations
    <3>1. /\ increments' = increments /\ faults' = faults + 1
          /\ increments + routes + faults < MaxOperations
      BY <1>14 DEF PushForEventFails
    <3>2. increments \in Nat /\ routes \in Nat /\ faults \in Nat
      BY DEF Typed
    <3> QED
      BY <2>1, <3>1, <3>2
  <2>3. \A q \in Replicas : lists'[q] \subseteq lists[q]
    <3>1. lists \in [Replicas -> SUBSET Nat]
      BY DEF Typed
    <3> QED
      BY <1>14, <3>1 DEF PushForEventFails
  <2> QED
    BY <2>1, <2>2, <2>3 DEF Bounded
<1>15. ASSUME NEW r \in Replicas, NEW k \in Changes, PushFails(r, k) PROVE Bounded'
  <2>1. UNCHANGED <<events, committed, cursor, rows, routes, pushed, lists>>
    BY <1>15 DEF PushFails
  <2>2. increments' + routes' + faults' <= MaxOperations
    <3>1. /\ increments' = increments /\ faults' = faults + 1
          /\ increments + routes + faults < MaxOperations
      BY <1>15 DEF PushFails
    <3>2. increments \in Nat /\ routes \in Nat /\ faults \in Nat
      BY DEF Typed
    <3> QED
      BY <2>1, <3>1, <3>2
  <2>3. \A q \in Replicas : \A o \in Changes : listed'[q][o] \in {listed[q][o], 0}
    <3>1. listed \in [Replicas -> [Changes -> Nat]]
      BY DEF Typed
    <3> QED
      BY <1>15, <3>1 DEF PushFails
  <2>4. 0 <= routes
    BY DEF Typed
  <2> QED
    BY <2>1, <2>2, <2>3, <2>4 DEF Bounded
<1>16. ASSUME NEW r \in Replicas, BecomeLeader(r) PROVE Bounded'
  <2>1. UNCHANGED <<events, committed, cursor, rows, increments, routes, lists, listed, pushed>>
    BY <1>16 DEF BecomeLeader
  <2>2. faults' = faults + 1 /\ increments + routes + faults < MaxOperations
    BY <1>16 DEF BecomeLeader
  <2>3. increments \in Nat /\ routes \in Nat /\ faults \in Nat
    BY DEF Typed
  <2> QED
    BY <2>1, <2>2, <2>3 DEF Bounded
<1>17. ASSUME NEW r \in Replicas, BecomeLeaderUnnoticed(r) PROVE Bounded'
  <2>1. UNCHANGED <<events, committed, cursor, rows, increments, routes, lists, listed, pushed>>
    BY <1>17 DEF BecomeLeaderUnnoticed
  <2>2. faults' = faults + 1 /\ increments + routes + faults < MaxOperations
    BY <1>17 DEF BecomeLeaderUnnoticed
  <2>3. increments \in Nat /\ routes \in Nat /\ faults \in Nat
    BY DEF Typed
  <2> QED
    BY <2>1, <2>2, <2>3 DEF Bounded
<1>18. ASSUME NEW r \in Replicas, Restart(r) PROVE Bounded'
  <2>1. UNCHANGED <<events, committed, increments, routes, pushed>>
    BY <1>18 DEF Restart
  <2>2. /\ \A q \in Replicas : cursor'[q] = cursor[q] \/ cursor'[q] = 0
        /\ \A q \in Replicas : \A p \in Polls : rows'[q][p] \subseteq rows[q][p]
    BY <1>18 DEF Restart, Typed
  <2>3. /\ \A q \in Replicas : lists'[q] \subseteq lists[q]
        /\ \A q \in Replicas : \A j \in Changes : listed'[q][j] = listed[q][j] \/ listed'[q][j] = 0
    BY <1>18 DEF Restart, Typed
  <2>4. faults' = faults + 1 /\ increments + routes + faults < MaxOperations
    BY <1>18 DEF Restart
  <2>5. increments \in Nat /\ routes \in Nat /\ faults \in Nat /\ Len(events) \in Nat
    BY LogFacts DEF Typed
  <2> QED
    BY <2>1, <2>2, <2>3, <2>4, <2>5 DEF Bounded
<1>19. ASSUME NEW r \in Replicas,
              \/ SaveCounterRejected(r) \/ PublishRevisionRejected(r) \/ SaveHandledRejected(r)
              \/ StepDown(r) \/ \E k \in Changes : PublishChangeRejected(r, k)
       PROVE  Bounded'
  <2>1. UNCHANGED <<events, committed, cursor, rows, increments, routes, lists, listed, pushed, faults>>
    BY <1>19 DEF SaveCounterRejected, PublishRevisionRejected, SaveHandledRejected, StepDown,
                 PublishChangeRejected
  <2> QED
    BY <2>1 DEF Bounded
<1>20. CASE UNCHANGED vars
  BY <1>20 DEF vars, Bounded
<1> QED
  BY <1>1, <1>2, <1>3, <1>4, <1>5, <1>6, <1>7, <1>8, <1>9, <1>10, <1>11, <1>12, <1>13,
     <1>14, <1>15, <1>16, <1>17, <1>18, <1>19, <1>20 DEF Next, Progress, Rejected

\* The initial state has nothing in it.
LEMMA TypedInitially == Init => Typed /\ Bounded
<1> SUFFICES ASSUME Init PROVE Typed /\ Bounded
  OBVIOUS
<1> USE EventBusAssumption DEF Init
<1>1. events \in Seq(Event) /\ Len(events) = 0 /\ committed \subseteq Ids
  OBVIOUS
<1>2. /\ cursor \in [Replicas -> Nat] /\ rev \in [Replicas -> Nat] /\ value \in [Replicas -> Nat]
      /\ calls \in [Replicas -> Nat] /\ leader \in Replicas \cup {NoReplica}
  OBVIOUS
<1>3. /\ rows \in [Replicas -> [Polls -> SUBSET Nat]] /\ saves \in [Replicas -> SUBSET Nat]
      /\ lists \in [Replicas -> SUBSET Nat] /\ handled \in [Replicas -> SUBSET Nat]
      /\ passed \in [Replicas -> SUBSET Nat]
  OBVIOUS
<1>4. /\ apply \in [Replicas -> {"idle", "saving", "saved"}]
      /\ change \in [Replicas -> [Changes -> {"idle", "listing", "pushing", "publishing"}]]
      /\ listed \in [Replicas -> [Changes -> Nat]]
  OBVIOUS
<1>5. /\ counter \in Nat /\ routes \in Nat /\ pushed \in Nat /\ faults \in Nat
      /\ increments \in Nat
  OBVIOUS
<1>6. Bounded
  BY <1>1 DEF Bounded
<1> QED
  BY <1>1, <1>2, <1>3, <1>4, <1>5, <1>6 DEF Typed

\* Every step keeps every variable in its type.
THEOREM BusTyped == Spec => [](Typed /\ Bounded)
<1>1. Typed /\ Bounded /\ [Next]_vars => Typed'
  BY TypedInductive
<1>2. Typed /\ Typed' /\ Bounded /\ [Next]_vars => Bounded'
  BY BoundedInductive
<1> QED
  BY <1>1, <1>2, TypedInitially, PTL DEF Spec

\* The variables keep their types: a cursor is the id of an event, a poll has
\* read rows that are committed, and Traefik has a state that the routes had.
THEOREM BusTypeCorrect == Spec => []TypeOK
<1>1. ASSUME Typed, Bounded PROVE TypeOK
  <2>1. \A id \in Ids : events[id].kind \in Kinds /\ events[id].source \in Replicas
    BY <1>1, LogFacts DEF Event
  <2>2. cursor \in [Replicas -> Ids \cup {0}]
    BY <1>1, LogFacts DEF Typed, Bounded
  <2>3. pushed \in 0 .. routes
    BY <1>1 DEF Typed, Bounded
  <2> QED
    BY <1>1, <2>1, <2>2, <2>3 DEF Typed, Bounded, TypeOK
<1>2. Typed /\ Bounded => TypeOK
  BY <1>1
<1> QED
  BY <1>2, BusTyped, PTL

-----------------------------------------------------------------------------
(* The cursor.  What a poll has read is all there was up to its last row,  *)
(* but for what the replica had read before and for what was not committed *)
(* then, so handling it, late or out of order, skips nothing else.         *)

\* An id that replica r has yet to handle, or will handle again.
Waits(r, id) == id > cursor[r] \/ \E p \in Polls : id \in rows[r][p]

ReadsOn(r) ==
    /\ \A id \in Foreign(r, Ids, Kinds) : id <= cursor[r] => id \in handled[r] \cup passed[r]
    /\ \A p \in Polls : \A last \in rows[r][p] : \A id \in Ids :
          id <= last => id \in rows[r][p] \cup passed[r] \/ id <= cursor[r]
    /\ passed[r] # {} => "passed" \in excuses

\* Only Query, Handle and Restart touch what a replica has read, and only its own.
LEMMA BusStep ==
    ASSUME Typed, [Next]_vars
    PROVE  \/ UNCHANGED <<cursor, rows, handled, passed>> /\ excuses \subseteq excuses'
           \/ \E r \in Replicas : Restart(r) \/ \E p \in Polls : Query(r, p) \/ Handle(r, p)
<1> USE DEF Bus, Revision, Gateway, Push
<1>1. CASE UNCHANGED vars
  BY <1>1 DEF vars
<1>2. ASSUME NEW id \in Ids, Commit(id) PROVE UNCHANGED <<Bus, excuses>>
  BY <1>2 DEF Commit
<1>3. ASSUME NEW r \in Replicas,
             SaveCounter(r) \/ PublishRevision(r) \/ SaveHandled(r) \/ Increment(r)
      PROVE  UNCHANGED Bus /\ excuses \subseteq excuses'
  BY <1>3 DEF SaveCounter, PublishRevision, SaveHandled, Increment
<1>4. ASSUME NEW r \in Replicas, NEW k \in Changes,
             List(r, k) \/ PushList(r, k) \/ PublishChange(r, k) \/ PushFails(r, k)
      PROVE  UNCHANGED Bus /\ excuses \subseteq excuses'
  BY <1>4 DEF List, PushList, PublishChange, PushFails
<1>5. ASSUME NEW r \in Replicas,
             ListForEvent(r) \/ PushForEvent(r) \/ PushForEventFails(r) \/ ChangeRoutes(r)
      PROVE  UNCHANGED Bus /\ excuses \subseteq excuses'
  BY <1>5 DEF ListForEvent, PushForEvent, PushForEventFails, ChangeRoutes
<1>6. ASSUME NEW r \in Replicas, BecomeLeader(r) \/ BecomeLeaderUnnoticed(r) \/ StepDown(r)
      PROVE  UNCHANGED Bus /\ excuses \subseteq excuses'
  BY <1>6 DEF BecomeLeader, BecomeLeaderUnnoticed, StepDown
<1>7. ASSUME NEW r \in Replicas, Rejected(r)
      PROVE  UNCHANGED Bus /\ excuses \subseteq excuses'
  BY <1>7 DEF Rejected, SaveCounterRejected, PublishRevisionRejected, SaveHandledRejected,
              PublishChangeRejected
<1> QED
  BY <1>1, <1>2, <1>3, <1>4, <1>5, <1>6, <1>7 DEF Next, Progress

\* The log only grows, by one event at a time.
LEMMA LogStep ==
    ASSUME Typed, [Next]_vars
    PROVE  \/ events' = events
           \/ \E r \in Replicas, k \in Kinds, v \in Nat :
                 /\ Publish(r, k, v)
                 /\ \/ PublishRevision(r) /\ k = "revision"
                    \/ k \in Changes /\ PublishChange(r, k)
<1> USE DEF Bus, Revision, Gateway, Push
<1>1. CASE UNCHANGED vars
  BY <1>1 DEF vars
<1>2. ASSUME NEW id \in Ids, Commit(id) PROVE events' = events
  BY <1>2 DEF Commit
<1>3. ASSUME NEW r \in Replicas, SaveCounter(r) \/ SaveHandled(r) \/ Increment(r)
      PROVE  events' = events
  BY <1>3 DEF SaveCounter, SaveHandled, Increment
<1>4. ASSUME NEW r \in Replicas, NEW k \in Changes,
             List(r, k) \/ PushList(r, k) \/ PushFails(r, k)
      PROVE  events' = events
  BY <1>4 DEF List, PushList, PushFails
<1>5. ASSUME NEW r \in Replicas,
             ListForEvent(r) \/ PushForEvent(r) \/ PushForEventFails(r) \/ ChangeRoutes(r)
      PROVE  events' = events
  BY <1>5 DEF ListForEvent, PushForEvent, PushForEventFails, ChangeRoutes
<1>6. ASSUME NEW r \in Replicas,
             BecomeLeader(r) \/ BecomeLeaderUnnoticed(r) \/ StepDown(r) \/ Restart(r) \/ Rejected(r)
      PROVE  events' = events
  BY <1>6 DEF BecomeLeader, BecomeLeaderUnnoticed, StepDown, Restart, Rejected,
              SaveCounterRejected, PublishRevisionRejected, SaveHandledRejected,
              PublishChangeRejected
<1>7. ASSUME NEW r \in Replicas, NEW p \in Polls, Query(r, p) \/ Handle(r, p)
      PROVE  events' = events
  BY <1>7 DEF Query, Handle
<1> DEFINE Grown == \E r \in Replicas, k \in Kinds, v \in Nat :
                       /\ Publish(r, k, v)
                       /\ \/ PublishRevision(r) /\ k = "revision"
                          \/ k \in Changes /\ PublishChange(r, k)
<1>8. ASSUME NEW r \in Replicas, PublishRevision(r) PROVE Grown
  <2>1. Publish(r, "revision", rev[r]) /\ rev[r] \in Nat /\ "revision" \in Kinds
    BY <1>8 DEF PublishRevision, Typed, Kinds
  <2> QED
    BY <1>8, <2>1
<1>9. ASSUME NEW r \in Replicas, NEW k \in Changes, PublishChange(r, k) PROVE Grown
  <2>1. Publish(r, k, 0) /\ 0 \in Nat /\ k \in Kinds
    BY <1>9 DEF PublishChange, Kinds
  <2> QED
    BY <1>9, <2>1
<1> HIDE DEF Grown
<1>10. events' = events \/ Grown
  BY <1>1, <1>2, <1>3, <1>4, <1>5, <1>6, <1>7, <1>8, <1>9 DEF Next, Progress
<1> QED
  BY <1>10 DEF Grown

\* What a step adds to the log is above every cursor and every row read.
LEMMA LogGrows ==
    ASSUME Typed, Bounded, [Next]_vars
    PROVE  /\ Ids \subseteq Ids'
           /\ \A id \in Ids : events'[id] = events[id]
           /\ \A id \in Ids' \ Ids : id = Len(events) + 1
<1>1. CASE events' = events
  BY <1>1 DEF Ids
<1>2. ASSUME NEW r \in Replicas, NEW k \in Kinds, NEW v \in Nat, Publish(r, k, v)
      PROVE  /\ Ids \subseteq Ids'
             /\ \A id \in Ids : events'[id] = events[id]
             /\ \A id \in Ids' \ Ids : id = Len(events) + 1
  <2>1. /\ Ids' = Ids \cup {Len(events) + 1}
        /\ \A id \in Ids : events'[id] = events[id]
    BY <1>2, PublishFacts
  <2> QED
    BY <2>1
<1> QED
  BY <1>1, <1>2, LogStep

LEMMA ReadsOnInductive ==
    ASSUME Typed, Typed', Bounded, [Next]_vars, \A r \in Replicas : ReadsOn(r)
    PROVE  \A r \in Replicas : ReadsOn(r)'
<1> SUFFICES ASSUME NEW r \in Replicas PROVE ReadsOn(r)'
  OBVIOUS
<1>1. /\ Ids \subseteq Ids'
      /\ \A id \in Ids : events'[id] = events[id]
      /\ \A id \in Ids' \ Ids : id > Len(events)
  BY LogGrows, LogFacts
<1>2. cursor[r] <= Len(events) /\ \A p \in Polls : \A last \in rows[r][p] : last <= Len(events)
  <2>1. cursor[r] <= Len(events) /\ \A p \in Polls : rows[r][p] \subseteq Ids
    BY DEF Bounded, Typed
  <2> QED
    BY <2>1, LogFacts
<1>3. \A id \in Foreign(r, Ids, Kinds)' : id \in Foreign(r, Ids, Kinds) \/ id > Len(events)
  <2> SUFFICES ASSUME NEW id \in Ids', events'[id].source # r, events'[id].kind \in Kinds
               PROVE  (id \in Ids /\ events[id].source # r /\ events[id].kind \in Kinds)
                      \/ id > Len(events)
    BY DEF Foreign
  <2> QED
    BY <1>1
<1>4. /\ cursor[r] \in Nat /\ cursor'[r] \in Nat /\ Len(events) \in Nat /\ Ids' \subseteq Nat
      /\ \A p \in Polls : rows[r][p] \in SUBSET Nat /\ rows'[r][p] \in SUBSET Nat
  <2>1. Len(events) \in Nat
    BY LogFacts
  <2>2. Ids' \subseteq Nat
    <3>1. events' \in Seq(Event)
      BY DEF Typed
    <3> QED
      BY <3>1 DEF Ids
  <2>3. cursor[r] \in Nat /\ cursor'[r] \in Nat
    BY DEF Typed
  <2>4. rows \in [Replicas -> [Polls -> SUBSET Nat]] /\ rows' \in [Replicas -> [Polls -> SUBSET Nat]]
    BY DEF Typed
  <2> QED
    BY <2>1, <2>2, <2>3, <2>4
<1>5. CASE /\ cursor'[r] = cursor[r] /\ rows'[r] = rows[r] /\ handled'[r] = handled[r]
           /\ passed'[r] = passed[r] /\ excuses \subseteq excuses'
  <2>1. \A id \in Foreign(r, Ids, Kinds)' : id <= cursor[r] => id \in handled[r] \cup passed[r]
    <3>1. \A id \in Foreign(r, Ids, Kinds)' : id \in Nat
      BY <1>4 DEF Foreign
    <3>2. \A id \in Foreign(r, Ids, Kinds) : id <= cursor[r] => id \in handled[r] \cup passed[r]
      BY DEF ReadsOn
    <3> QED
      BY <1>2, <1>3, <1>4, <3>1, <3>2
  <2>2. \A p \in Polls : \A last \in rows[r][p] : \A id \in Ids' :
          id <= last => id \in rows[r][p] \cup passed[r] \/ id <= cursor[r]
    BY <1>1, <1>2, <1>4 DEF ReadsOn
  <2> QED
    <3>1. passed'[r] # {} => "passed" \in excuses'
      BY <1>5 DEF ReadsOn
    <3> QED
      BY <1>5, <2>1, <2>2, <3>1 DEF ReadsOn
<1>6. ASSUME NEW p \in Polls, Query(r, p) PROVE ReadsOn(r)'
  <2>1. /\ events' = events /\ cursor' = cursor /\ handled' = handled /\ committed' = committed
        /\ rows[r][p] = {} /\ rows'[r][p] = Above(r)
        /\ \A o \in Polls : o # p => rows'[r][o] = rows[r][o]
        /\ passed'[r] = passed[r] \cup Passes(r)
        /\ Above(r) # {}
    BY <1>6 DEF Query, Typed
  <2>2. passed'[r] # {} => "passed" \in excuses'
    BY <1>6, <2>1 DEF Query, ReadsOn
  <2>3. ASSUME NEW last \in Above(r), NEW id \in Ids, id <= last
        PROVE  id \in Above(r) \cup Passes(r) \/ id <= cursor[r]
    <3>1. last <= Max(Above(r)) /\ Max(Above(r)) \in Nat /\ last \in Nat /\ id \in Nat
          /\ id >= 1
      <4>1. last <= Max(Above(r)) /\ Max(Above(r)) \in Above(r)
        BY <2>1, LargestAbove
      <4>2. Above(r) \subseteq Ids
        BY DEF Above, Typed
      <4> QED
        BY <4>1, <4>2, LogFacts
    <3> QED
      BY <1>4, <2>3, <3>1 DEF Above, Passes
  <2> QED
    BY <2>1, <2>2, <2>3 DEF ReadsOn, Ids, Foreign
<1>7. ASSUME NEW p \in Polls, Handle(r, p) PROVE ReadsOn(r)'
  <2>1. /\ events' = events /\ passed' = passed /\ excuses' = excuses
        /\ rows'[r][p] = {} /\ \A o \in Polls : o # p => rows'[r][o] = rows[r][o]
        /\ cursor'[r] = Max(rows[r][p] \cup {cursor[r]})
        /\ handled'[r] = handled[r] \cup Foreign(r, rows[r][p], Kinds)
    BY <1>7 DEF Handle, Typed
  <2>2. cursor[r] <= cursor'[r] /\ cursor'[r] \in rows[r][p] \cup {cursor[r]}
    BY <2>1, LargestRead
  <2>3. ASSUME NEW id \in Foreign(r, Ids, Kinds), id <= cursor'[r]
        PROVE  id \in handled'[r] \cup passed[r]
    <3>1. id \in Ids /\ id \in Nat
      BY LogFacts DEF Foreign
    <3>2. id <= cursor[r] \/ id \in rows[r][p] \cup passed[r]
      BY <2>2, <2>3, <3>1 DEF ReadsOn
    <3> QED
      BY <2>1, <3>2 DEF ReadsOn, Foreign
  <2>4. ASSUME NEW o \in Polls, NEW last \in rows'[r][o], NEW id \in Ids, id <= last
        PROVE  id \in rows'[r][o] \cup passed[r] \/ id <= cursor'[r]
    <3>1. id \in rows[r][o] \cup passed[r] \/ id <= cursor[r]
      BY <2>1, <2>4 DEF ReadsOn
    <3>2. id \in Nat
      BY LogFacts
    <3> QED
      BY <1>4, <2>1, <2>2, <2>4, <3>1, <3>2
  <2> QED
    BY <2>1, <2>3, <2>4 DEF ReadsOn, Ids, Foreign
<1>8. ASSUME Restart(r) PROVE ReadsOn(r)'
  <2>1. /\ events' = events /\ cursor'[r] = 0 /\ passed'[r] = {}
        /\ \A p \in Polls : rows'[r][p] = {}
    BY <1>8 DEF Restart, Typed
  <2>2. \A id \in Ids : ~(id <= 0)
    BY LogFacts
  <2> QED
    BY <2>1, <2>2 DEF ReadsOn, Ids, Foreign
<1>9. ASSUME NEW q \in Replicas, q # r,
             Restart(q) \/ \E p \in Polls : Query(q, p) \/ Handle(q, p)
      PROVE  /\ cursor'[r] = cursor[r] /\ rows'[r] = rows[r] /\ handled'[r] = handled[r]
             /\ passed'[r] = passed[r] /\ excuses \subseteq excuses'
  <2> USE DEF Typed
  <2>1. CASE Restart(q)
    BY <1>9, <2>1 DEF Restart
  <2>2. ASSUME NEW p \in Polls, Query(q, p) \/ Handle(q, p)
        PROVE  /\ cursor'[r] = cursor[r] /\ rows'[r] = rows[r] /\ handled'[r] = handled[r]
               /\ passed'[r] = passed[r] /\ excuses \subseteq excuses'
    <3>1. CASE Query(q, p)
      BY <1>9, <3>1 DEF Query
    <3>2. CASE Handle(q, p)
      <4>1. cursor'[r] = cursor[r] /\ rows'[r] = rows[r]
        BY <1>9, <3>2 DEF Handle
      <4>2. handled'[r] = handled[r]
        BY <1>9, <3>2 DEF Handle
      <4> QED
        BY <3>2, <4>1, <4>2 DEF Handle
    <3> QED
      BY <2>2, <3>1, <3>2
  <2> QED
    BY <1>9, <2>1, <2>2
<1> QED
  BY <1>5, <1>6, <1>7, <1>8, <1>9, BusStep

\* The cursor loses no event but those that were passed over uncommitted,
\* however many polls of a replica overlap.
THEOREM NoEventSkipped == Spec => []NothingSkipped
<1>1. Init => \A r \in Replicas : ReadsOn(r)
  BY DEF Init, ReadsOn, Foreign, Ids
<1>2. /\ Typed /\ Typed' /\ Bounded /\ [Next]_vars /\ (\A r \in Replicas : ReadsOn(r))
      => (\A r \in Replicas : ReadsOn(r))'
  BY ReadsOnInductive
<1>3. Typed /\ (\A r \in Replicas : ReadsOn(r)) => NothingSkipped
  BY DEF NothingSkipped, ReadsOn, Foreign, Typed
<1> QED
  BY <1>1, <1>2, <1>3, BusTyped, PTL DEF Spec

-----------------------------------------------------------------------------
(* The revision.  While no apply begins before all replicas know of the one *)
(* before, and no statement of one is rejected, there is one revision under *)
(* way, the latest.                                                         *)

Calm == excuses \cap {"passed", "concurrent", "restart", "revision lost"} = {}

Revisions(r) == Foreign(r, Ids, {"revision"})

\* All that is under way at r carries the latest revision, and r has it unless
\* the apply that made it, or the event that tells of it, is still under way.
FollowsRevision(r) ==
    /\ apply[r] # "idle" => value[r] = increments /\ rev[r] = increments
    /\ apply[r] = "saved" => counter = increments
    /\ saves[r] \subseteq {increments}
    /\ \A id \in Revisions(r) : Waits(r, id) => events[id].revision = increments
    /\ \/ rev[r] = increments
       \/ \E q \in Replicas : q # r /\ apply[q] # "idle"
       \/ \E id \in Revisions(r) : Waits(r, id)

FollowsCounter == counter = increments \/ \E q \in Replicas : apply[q] = "saving"

RevisionInv == Calm => FollowsCounter /\ \A r \in Replicas : FollowsRevision(r)

\* What a step that concerns neither polls nor revisions leaves alone.
LEMMA RevisionSteps ==
    ASSUME Typed, [Next]_vars
    PROVE  /\ excuses \subseteq excuses'
           /\ \/ UNCHANGED <<events, cursor, rows, Revision>>
              \/ \E r \in Replicas :
                    \/ SaveCounter(r) \/ PublishRevision(r) \/ SaveHandled(r)
                    \/ SaveCounterRejected(r) \/ PublishRevisionRejected(r) \/ SaveHandledRejected(r)
                    \/ Increment(r) \/ Restart(r)
                    \/ \E k \in Changes : PublishChange(r, k)
                    \/ \E p \in Polls : Query(r, p) \/ Handle(r, p)
<1> USE DEF Bus, Revision, Gateway, Push
<1>1. CASE UNCHANGED vars
  BY <1>1 DEF vars
<1>2. ASSUME NEW id \in Ids, Commit(id)
      PROVE  UNCHANGED <<events, cursor, rows, Revision, excuses>>
  BY <1>2 DEF Commit
<1>3. ASSUME NEW r \in Replicas,
             \/ SaveCounter(r) \/ PublishRevision(r) \/ SaveHandled(r)
             \/ Increment(r) \/ Restart(r)
             \/ \E k \in Changes : PublishChange(r, k)
             \/ \E p \in Polls : Query(r, p) \/ Handle(r, p)
      PROVE  excuses \subseteq excuses'
  BY <1>3 DEF SaveCounter, PublishRevision, SaveHandled, Increment, Restart, PublishChange,
              Query, Handle
<1>4. ASSUME NEW r \in Replicas, NEW k \in Changes,
             List(r, k) \/ PushList(r, k) \/ PushFails(r, k) \/ PublishChangeRejected(r, k)
      PROVE  UNCHANGED <<events, cursor, rows, Revision>> /\ excuses \subseteq excuses'
  BY <1>4 DEF List, PushList, PushFails, PublishChangeRejected
<1>5. ASSUME NEW r \in Replicas,
             ListForEvent(r) \/ PushForEvent(r) \/ PushForEventFails(r) \/ ChangeRoutes(r)
      PROVE  UNCHANGED <<events, cursor, rows, Revision>> /\ excuses \subseteq excuses'
  BY <1>5 DEF ListForEvent, PushForEvent, PushForEventFails, ChangeRoutes
<1>6. ASSUME NEW r \in Replicas, BecomeLeader(r) \/ BecomeLeaderUnnoticed(r) \/ StepDown(r)
      PROVE  UNCHANGED <<events, cursor, rows, Revision>> /\ excuses \subseteq excuses'
  BY <1>6 DEF BecomeLeader, BecomeLeaderUnnoticed, StepDown
<1>7. ASSUME NEW r \in Replicas,
             SaveCounterRejected(r) \/ PublishRevisionRejected(r) \/ SaveHandledRejected(r)
      PROVE  excuses \subseteq excuses'
  BY <1>7 DEF SaveCounterRejected, PublishRevisionRejected, SaveHandledRejected
<1> HIDE DEF Revision
<1> QED
  BY <1>1, <1>2, <1>3, <1>4, <1>5, <1>6, <1>7 DEF Next, Progress, Rejected

\* The revision events that r has to handle after a poll has read or handled
\* its rows: those it had to handle before, less those it handles now.
LEMMA QueryWaits ==
    ASSUME Typed, NEW r \in Replicas, NEW p \in Polls, Query(r, p), NEW q \in Replicas, NEW id \in Ids
    PROVE  Waits(q, id)' <=> Waits(q, id)
<1>1. /\ cursor' = cursor /\ rows[r][p] = {} /\ rows'[r][p] = Above(r)
      /\ \A s \in Replicas : \A o \in Polls : s # r \/ o # p => rows'[s][o] = rows[s][o]
  BY DEF Query, Typed
<1>2. id \in Above(r) => id > cursor[r]
  BY DEF Above
<1> QED
  BY <1>1, <1>2 DEF Waits

LEMMA HandleWaits ==
    ASSUME Typed, Bounded, NEW r \in Replicas, NEW p \in Polls, Handle(r, p), ReadsOn(r),
           passed[r] = {}, NEW q \in Replicas, NEW id \in Ids
    PROVE  /\ Waits(q, id)' => Waits(q, id)
           /\ Waits(q, id) => Waits(q, id)' \/ (q = r /\ id \in rows[r][p])
<1>1. /\ rows'[r][p] = {} /\ cursor'[r] = Max(rows[r][p] \cup {cursor[r]})
      /\ \A s \in Replicas : \A o \in Polls : s # r \/ o # p => rows'[s][o] = rows[s][o]
      /\ \A s \in Replicas : s # r => cursor'[s] = cursor[s]
  BY DEF Handle, Typed
<1>2. cursor[r] <= cursor'[r] /\ cursor'[r] \in rows[r][p] \cup {cursor[r]}
  BY <1>1, LargestRead
<1>3. /\ id \in Nat /\ cursor[r] \in Nat /\ cursor'[r] \in Nat
  <2>1. rows[r][p] \in SUBSET Nat /\ cursor[r] \in Nat
    BY DEF Typed
  <2> QED
    BY <1>2, <2>1, LogFacts
<1>4. id > cursor[r] /\ id \notin rows[r][p] => id > cursor'[r]
  BY <1>2, <1>3 DEF ReadsOn
<1>5. id > cursor'[r] => id > cursor[r]
  BY <1>2, <1>3
<1> QED
  BY <1>1, <1>4, <1>5 DEF Waits

LEMMA RevisionInductive ==
    ASSUME Typed, Typed', Bounded, [Next]_vars, \A r \in Replicas : ReadsOn(r), RevisionInv
    PROVE  RevisionInv'
<1> SUFFICES ASSUME Calm' PROVE FollowsCounter' /\ \A r \in Replicas : FollowsRevision(r)'
  BY DEF RevisionInv
<1>1. Calm
  BY RevisionSteps DEF Calm
<1>2. FollowsCounter /\ \A r \in Replicas : FollowsRevision(r)
  BY <1>1 DEF RevisionInv
<1>3. \A r \in Replicas : passed[r] = {}
  BY <1>1 DEF ReadsOn, Calm
<1>4. \A id \in Ids : id \in Nat /\ events[id].revision \in Nat
  BY LogFacts DEF Event
<1>5. CASE UNCHANGED <<events, cursor, rows, Revision>>
  BY <1>2, <1>5 DEF Revision, FollowsCounter, FollowsRevision, Revisions, Foreign, Waits, Ids
<1>6. ASSUME NEW r \in Replicas, NEW k \in Changes, PublishChange(r, k)
      PROVE  FollowsCounter' /\ \A q \in Replicas : FollowsRevision(q)'
  <2>1. UNCHANGED <<cursor, rows, Revision>> /\ Publish(r, k, 0) /\ k \in Kinds /\ k # "revision"
    BY <1>6 DEF PublishChange, Bus, Kinds, Changes
  <2>2. /\ Ids' = Ids \cup {Len(events) + 1}
        /\ \A id \in Ids : events'[id] = events[id]
        /\ events'[Len(events) + 1].kind = k
    <3>1. /\ Ids' = Ids \cup {Len(events) + 1}
          /\ \A id \in Ids : events'[id] = events[id]
          /\ events'[Len(events) + 1] = [kind |-> k, revision |-> 0, source |-> r]
      BY <2>1, PublishFacts
    <3> QED
      BY <3>1
  <2>3. \A q \in Replicas : Revisions(q)' = Revisions(q)
    BY <2>1, <2>2, LogFacts DEF Revisions, Foreign
  <2>4. \A q \in Replicas : \A id \in Revisions(q) : events'[id] = events[id]
    BY <2>2 DEF Revisions, Foreign
  <2> QED
    BY <1>2, <2>1, <2>3, <2>4 DEF Revision, FollowsCounter, FollowsRevision, Waits
<1>7. ASSUME NEW r \in Replicas, NEW p \in Polls, Query(r, p)
      PROVE  FollowsCounter' /\ \A q \in Replicas : FollowsRevision(q)'
  <2>1. UNCHANGED <<events, Revision>>
    BY <1>7 DEF Query
  <2>2. \A q \in Replicas : \A id \in Revisions(q) : Waits(q, id)' <=> Waits(q, id)
    BY <1>7, QueryWaits DEF Revisions, Foreign
  <2>3. \A q \in Replicas : Revisions(q)' = Revisions(q)
    BY <2>1 DEF Revisions, Foreign, Ids
  <2> QED
    BY <1>2, <2>1, <2>2, <2>3 DEF Revision, FollowsCounter, FollowsRevision
<1>8. ASSUME NEW r \in Replicas, NEW p \in Polls, Handle(r, p)
      PROVE  FollowsCounter' /\ \A q \in Replicas : FollowsRevision(q)'
  <2> DEFINE news == Foreign(r, rows[r][p], {"revision"})
  <2>1. UNCHANGED <<events, counter, apply, value, increments>>
    BY <1>8 DEF Handle
  <2>2. /\ rev' = [rev EXCEPT ![r] = IF news = {} THEN @ ELSE events[Max(news)].revision]
        /\ saves' = [saves EXCEPT ![r] = @ \cup {events[id].revision : id \in news}]
    BY <1>8 DEF Handle
  <2>3. \A q \in Replicas : Revisions(q)' = Revisions(q)
    BY <2>1 DEF Revisions, Foreign, Ids
  <2>4. \A q \in Replicas : \A id \in Revisions(q) :
           /\ Waits(q, id)' => Waits(q, id)
           /\ Waits(q, id) => Waits(q, id)' \/ (q = r /\ id \in news)
    <3> SUFFICES ASSUME NEW q \in Replicas, NEW id \in Revisions(q)
                 PROVE  /\ Waits(q, id)' => Waits(q, id)
                        /\ Waits(q, id) => Waits(q, id)' \/ (q = r /\ id \in news)
      OBVIOUS
    <3>1. id \in Ids
      BY DEF Revisions, Foreign
    <3>2. /\ Waits(q, id)' => Waits(q, id)
          /\ Waits(q, id) => Waits(q, id)' \/ (q = r /\ id \in rows[r][p])
      BY <1>3, <1>8, <3>1, HandleWaits
    <3> QED
      BY <3>2 DEF Revisions, Foreign
  <2>5. news \subseteq Revisions(r) /\ \A id \in news : Waits(r, id)
    <3>1. rows[r][p] \subseteq Ids
      BY DEF Bounded, Typed
    <3> QED
      BY <3>1 DEF Revisions, Foreign, Waits
  <2>6. \A id \in news : events[id].revision = increments
    BY <1>2, <2>5 DEF FollowsRevision
  <2>7. news # {} => Max(news) \in news
    BY LargestRevision DEF Foreign
  <2> HIDE DEF news
  <2>8. /\ \A q \in Replicas : q # r => rev'[q] = rev[q] /\ saves'[q] = saves[q]
        /\ rev'[r] = IF news = {} THEN rev[r] ELSE increments
        /\ saves'[r] \subseteq saves[r] \cup {increments}
    BY <2>2, <2>6, <2>7 DEF Typed
  <2>9. FollowsCounter'
    BY <1>2, <2>1 DEF FollowsCounter
  <2>10. ASSUME NEW q \in Replicas PROVE FollowsRevision(q)'
    <3>1. FollowsRevision(q)
      BY <1>2
    <3>2. /\ apply'[q] # "idle" => value'[q] = increments' /\ rev'[q] = increments'
          /\ apply'[q] = "saved" => counter' = increments'
          /\ saves'[q] \subseteq {increments'}
      BY <2>1, <2>8, <3>1 DEF FollowsRevision
    <3>3. \A id \in Revisions(q)' : Waits(q, id)' => events'[id].revision = increments'
      BY <2>1, <2>3, <2>4, <3>1 DEF FollowsRevision
    <3>4. CASE q = r /\ news # {}
      BY <2>1, <2>8, <3>2, <3>3, <3>4 DEF FollowsRevision
    <3>5. CASE q # r \/ news = {}
      <4>1. /\ rev'[q] = rev[q]
            /\ \A id \in Revisions(q) : Waits(q, id) => Waits(q, id)'
        BY <2>4, <2>8, <3>5
      <4> QED
        BY <2>1, <2>3, <3>1, <3>2, <3>3, <4>1 DEF FollowsRevision
    <3> QED
      BY <3>4, <3>5
  <2> QED
    BY <2>9, <2>10
<1> USE DEF FollowsRevision, FollowsCounter
<1>9. ASSUME NEW r \in Replicas, SaveCounter(r) \/ SaveHandled(r)
      PROVE  FollowsCounter' /\ \A q \in Replicas : FollowsRevision(q)'
  <2>1. UNCHANGED <<events, cursor, rows, rev, value, increments>>
    BY <1>9 DEF SaveCounter, SaveHandled, Bus
  <2>2. counter' = increments
    BY <1>2, <1>9 DEF SaveCounter, SaveHandled
  <2>3. /\ \A q \in Replicas : saves'[q] \subseteq saves[q]
        /\ \A q \in Replicas : apply'[q] # "idle" <=> apply[q] # "idle"
    <3>1. CASE SaveCounter(r)
      BY <3>1 DEF SaveCounter, Typed
    <3>2. CASE SaveHandled(r)
      <4>1. saves \in [Replicas -> SUBSET Nat]
        BY DEF Typed
      <4> QED
        BY <3>2, <4>1 DEF SaveHandled
    <3> QED
      BY <1>9, <3>1, <3>2
  <2>4. \A q \in Replicas : Revisions(q)' = Revisions(q) /\ \A id \in Ids : Waits(q, id)' <=> Waits(q, id)
    BY <2>1 DEF Revisions, Foreign, Ids, Waits
  <2>5. \A q \in Replicas : Revisions(q) \subseteq Ids
    BY DEF Revisions, Foreign
  <2> QED
    BY <1>2, <2>1, <2>2, <2>3, <2>4, <2>5
<1>10. ASSUME NEW r \in Replicas, PublishRevision(r)
       PROVE  FollowsCounter' /\ \A q \in Replicas : FollowsRevision(q)'
  <2> PICK new \in Nat : new = Len(events) + 1
    BY LogFacts
  <2>1. /\ UNCHANGED <<cursor, rows, rev, counter, saves, increments>>
        /\ apply[r] = "saved" /\ Publish(r, "revision", rev[r])
    BY <1>10 DEF PublishRevision, Bus
  <2>2. /\ Ids' = Ids \cup {new} /\ \A id \in Ids : events'[id] = events[id]
        /\ events'[new] = [kind |-> "revision", revision |-> rev[r], source |-> r]
    <3>1. rev[r] \in Nat /\ "revision" \in Kinds
      BY DEF Typed, Kinds
    <3> QED
      BY <2>1, <3>1, PublishFacts
  <2>3. /\ rev[r] = increments /\ counter = increments
    BY <1>2, <2>1
  <2>4. /\ \A q \in Replicas : q # r => apply'[q] = apply[q] /\ value'[q] = value[q]
        /\ apply'[r] = "idle"
    BY <1>10 DEF PublishRevision, Typed
  <2>5. /\ new \notin Ids
        /\ \A q \in Replicas : new > cursor[q]
    <3>1. \A q \in Replicas : cursor[q] \in Nat /\ cursor[q] <= Len(events)
      BY DEF Typed, Bounded
    <3> QED
      BY <3>1, LogFacts
  <2>6. /\ Revisions(r)' = Revisions(r)
        /\ \A q \in Replicas : q # r => Revisions(q)' = Revisions(q) \cup {new}
    BY <2>2, <2>5 DEF Revisions, Foreign
  <2>7. \A q \in Replicas : \A id \in Ids : Waits(q, id)' <=> Waits(q, id)
    BY <2>1 DEF Waits
  <2>8. \A q \in Replicas : Waits(q, new)'
    BY <2>1, <2>5 DEF Waits
  <2>9. \A q \in Replicas : Revisions(q) \subseteq Ids
    BY DEF Revisions, Foreign
  <2>10. FollowsCounter'
    BY <2>1, <2>3
  <2>11. FollowsRevision(r)'
    BY <1>2, <2>1, <2>2, <2>3, <2>4, <2>6, <2>7, <2>9
  <2>12. ASSUME NEW q \in Replicas, q # r PROVE FollowsRevision(q)'
    <3>1. \A id \in Revisions(q)' : Waits(q, id)' => events'[id].revision = increments'
      BY <1>2, <2>1, <2>2, <2>3, <2>6, <2>7, <2>9, <2>12
    <3>2. \E id \in Revisions(q)' : Waits(q, id)'
      BY <2>6, <2>8, <2>12
    <3> QED
      BY <1>2, <2>1, <2>4, <2>12, <3>1, <3>2
  <2> QED
    BY <2>10, <2>11, <2>12
<1>11. ASSUME NEW r \in Replicas, Increment(r)
       PROVE  FollowsCounter' /\ \A q \in Replicas : FollowsRevision(q)'
  <2>1. AppliesDone
    BY <1>11 DEF Increment, Calm
  <2>2. /\ UNCHANGED <<events, cursor, rows, counter, saves>>
        /\ apply[r] = "idle" /\ apply'[r] = "saving"
        /\ increments' = increments + 1
        /\ rev'[r] = rev[r] + 1 /\ value'[r] = rev[r] + 1
        /\ \A q \in Replicas : q # r => apply'[q] = apply[q] /\ value'[q] = value[q]
    BY <1>11 DEF Increment, Typed, Bus
  <2>3. \A q \in Replicas : \A id \in Revisions(q) : ~Waits(q, id)
    <3> SUFFICES ASSUME NEW q \in Replicas, NEW id \in Revisions(q), Waits(q, id) PROVE FALSE
      OBVIOUS
    <3>1. id \in committed
      BY <2>1 DEF AppliesDone, Revisions, Foreign
    <3> QED
      BY <2>1, <3>1 DEF AppliesDone, Waits, Above
  <2>4. \A q \in Replicas : apply[q] = "idle" /\ saves[q] = {}
    BY <2>1 DEF AppliesDone
  <2>5. rev[r] = increments
    BY <1>2, <2>3, <2>4
  <2>6. \A q \in Replicas : Revisions(q)' = Revisions(q) /\ \A id \in Revisions(q) : ~Waits(q, id)'
    BY <2>2, <2>3 DEF Revisions, Foreign, Ids, Waits
  <2> QED
    BY <2>2, <2>4, <2>5, <2>6
<1>12. ASSUME NEW r \in Replicas,
              Restart(r) \/ SaveCounterRejected(r) \/ PublishRevisionRejected(r)
       PROVE  FALSE
  BY <1>12 DEF Restart, SaveCounterRejected, PublishRevisionRejected, Calm
\* A rejected save of a handler changes the counter to the latest revision, if
\* at all: what is lost was saved by the apply.
<1>13. ASSUME NEW r \in Replicas, SaveHandledRejected(r)
       PROVE  FollowsCounter' /\ \A q \in Replicas : FollowsRevision(q)'
  <2>1. UNCHANGED <<events, cursor, rows, rev, apply, value, increments>>
    BY <1>13 DEF SaveHandledRejected, Bus
  <2>2. counter' \in {counter, increments}
    BY <1>2, <1>13 DEF SaveHandledRejected
  <2>3. \A q \in Replicas : saves'[q] \subseteq saves[q]
    <3>1. saves \in [Replicas -> SUBSET Nat]
      BY DEF Typed
    <3> QED
      BY <1>13, <3>1 DEF SaveHandledRejected
  <2>4. \A q \in Replicas : Revisions(q)' = Revisions(q) /\ \A id \in Ids : Waits(q, id)' <=> Waits(q, id)
    BY <2>1 DEF Revisions, Foreign, Ids, Waits
  <2>5. \A q \in Replicas : Revisions(q) \subseteq Ids
    BY DEF Revisions, Foreign
  <2> QED
    BY <1>2, <2>1, <2>2, <2>3, <2>4, <2>5
<1> QED
  BY <1>5, <1>6, <1>7, <1>8, <1>9, <1>10, <1>11, <1>12, <1>13, RevisionSteps

\* Replicas and the saved counter agree on the number of applies whenever all
\* events are handled, if applies were never concurrent and no save or event of
\* one was rejected, whatever saves of event handlers were: for every number of
\* replicas, overlapping polls and applies.
THEOREM RevisionsMeet == Spec => []RevisionsAgree
<1>1. Init => RevisionInv /\ \A r \in Replicas : ReadsOn(r)
  BY DEF Init, RevisionInv, FollowsCounter, FollowsRevision, Revisions, ReadsOn, Foreign, Ids
<1>2. /\ Typed /\ Typed' /\ Bounded /\ [Next]_vars /\ (\A r \in Replicas : ReadsOn(r))
      => (\A r \in Replicas : ReadsOn(r))'
  BY ReadsOnInductive
<1>3. /\ Typed /\ Typed' /\ Bounded /\ [Next]_vars /\ (\A r \in Replicas : ReadsOn(r))
      /\ RevisionInv
      => RevisionInv'
  BY RevisionInductive
<1>4. Typed /\ RevisionInv => RevisionsAgree
  <2> SUFFICES ASSUME Typed, RevisionInv, AppliesDone, Calm
               PROVE  counter = increments /\ \A r \in Replicas : rev[r] = increments
    BY DEF RevisionsAgree, Calm
  <2>1. \A r \in Replicas : \A id \in Revisions(r) : ~Waits(r, id)
    <3> SUFFICES ASSUME NEW r \in Replicas, NEW id \in Revisions(r), Waits(r, id) PROVE FALSE
      OBVIOUS
    <3>1. id \in committed
      BY DEF AppliesDone, Revisions, Foreign
    <3> QED
      BY <3>1 DEF AppliesDone, Waits, Above
  <2> QED
    BY <2>1 DEF RevisionInv, FollowsCounter, FollowsRevision, AppliesDone
<1> QED
  BY <1>1, <1>2, <1>3, <1>4, BusTyped, PTL DEF Spec

-----------------------------------------------------------------------------
(* The gateway.  While no push fails or is overtaken, no event of a change  *)
(* is rejected or passed over, no replica restarts and none leads           *)
(* unnoticed, a change of the routes that Traefik does not have is on its   *)
(* way to it through some replica whenever there is a leader.  While there  *)
(* is none it may be lost: the next leader lists all routes.                *)

Quiet == excuses \subseteq {"concurrent", "revision lost"}

\* The next steps of r, or of the leader when it hears of r, push the routes.
Brings(r) ==
    \/ \E k \in Changes : \/ change[r][k] = "listing"
                          \/ change[r][k] = "pushing" /\ listed[r][k] = routes
    \/ change[r]["routes"] = "publishing" /\ r # leader
    \/ calls[r] > 0
    \/ routes \in lists[r]

Told == \E id \in Foreign(leader, Ids, Changes) : Waits(leader, id)

RoutesCome == pushed = routes \/ Told \/ \E r \in Replicas : Brings(r)

GatewayInv == Quiet /\ leader # NoReplica => RoutesCome

\* What a step that concerns neither polls nor routes leaves alone.
LEMMA GatewaySteps ==
    ASSUME Typed, [Next]_vars
    PROVE  \/ UNCHANGED <<cursor, rows, leader, Gateway>>
           \/ \E r \in Replicas :
                 \/ \E p \in Polls : Query(r, p) \/ Handle(r, p)
                 \/ \E k \in Changes : List(r, k) \/ PushList(r, k) \/ PublishChange(r, k)
                                          \/ PushFails(r, k) \/ PublishChangeRejected(r, k)
                 \/ ListForEvent(r) \/ PushForEvent(r) \/ PushForEventFails(r)
                 \/ ChangeRoutes(r) \/ StepDown(r) \/ BecomeLeader(r) \/ BecomeLeaderUnnoticed(r)
                 \/ Restart(r)
<1> USE DEF Bus, Revision
<1>1. CASE UNCHANGED vars
  BY <1>1 DEF vars, Gateway
<1>2. ASSUME NEW id \in Ids, Commit(id) PROVE UNCHANGED <<cursor, rows, leader, Gateway>>
  BY <1>2 DEF Commit
<1>3. ASSUME NEW r \in Replicas,
             SaveCounter(r) \/ PublishRevision(r) \/ SaveHandled(r) \/ Increment(r)
      PROVE  UNCHANGED <<cursor, rows, leader, Gateway>>
  BY <1>3 DEF SaveCounter, PublishRevision, SaveHandled, Increment
<1>4. ASSUME NEW r \in Replicas,
             SaveCounterRejected(r) \/ PublishRevisionRejected(r) \/ SaveHandledRejected(r)
      PROVE  UNCHANGED <<cursor, rows, leader, Gateway>>
  BY <1>4 DEF SaveCounterRejected, PublishRevisionRejected, SaveHandledRejected
<1> HIDE DEF Bus, Revision
<1> QED
  BY <1>1, <1>2, <1>3, <1>4 DEF Next, Progress, Rejected

\* Who leads changes by these steps alone.
LEMMA LeaderSteps ==
    ASSUME Typed, [Next]_vars
    PROVE  \/ leader' = leader
           \/ \E r \in Replicas :
                 StepDown(r) \/ BecomeLeader(r) \/ BecomeLeaderUnnoticed(r) \/ Restart(r)
<1>1. ASSUME NEW r \in Replicas, NEW p \in Polls, Query(r, p) \/ Handle(r, p)
      PROVE  leader' = leader
  BY <1>1 DEF Query, Handle
<1>2. ASSUME NEW r \in Replicas, NEW k \in Changes,
             \/ List(r, k) \/ PushList(r, k) \/ PublishChange(r, k)
             \/ PushFails(r, k) \/ PublishChangeRejected(r, k)
      PROVE  leader' = leader
  BY <1>2 DEF List, PushList, PublishChange, PushFails, PublishChangeRejected
<1>3. ASSUME NEW r \in Replicas,
             ListForEvent(r) \/ PushForEvent(r) \/ PushForEventFails(r) \/ ChangeRoutes(r)
      PROVE  leader' = leader
  BY <1>3 DEF ListForEvent, PushForEvent, PushForEventFails, ChangeRoutes
<1> QED
  BY <1>1, <1>2, <1>3, GatewaySteps

\* The log grows, and what a replica has to hear of stays.
LEMMA ForeignStays ==
    ASSUME Typed, Bounded, [Next]_vars, NEW r \in Replicas, NEW id \in Foreign(r, Ids, Changes)
    PROVE  id \in Ids' /\ events'[id].source # r /\ events'[id].kind \in Changes
BY LogGrows DEF Foreign

\* A leader that stays has Traefik on its way to the routes.
LEMMA GatewayKept ==
    ASSUME Typed, Typed', Bounded, Bounded', [Next]_vars, \A r \in Replicas : ReadsOn(r),
           GatewayInv, Quiet', leader \in Replicas, leader' = leader
    PROVE  RoutesCome'
<1>1. Quiet
  BY RevisionSteps DEF Quiet
<1>2. leader \in Replicas /\ RoutesCome
  BY <1>1, EventBusAssumption DEF GatewayInv
<1>3. \A r \in Replicas : passed[r] = {}
  BY <1>1 DEF ReadsOn, Quiet
<1>4. ASSUME leader' = leader, NEW id \in Foreign(leader, Ids, Changes), Waits(leader, id)'
      PROVE  Told'
  BY <1>2, <1>4, ForeignStays DEF Told, Foreign
<1>5. CASE UNCHANGED <<cursor, rows, leader, Gateway>>
  <2>1. Told => Told'
    BY <1>4, <1>5 DEF Told, Waits
  <2>2. \A r \in Replicas : Brings(r) => Brings(r)'
    BY <1>5 DEF Brings, Gateway
  <2> QED
    BY <1>2, <1>5, <2>1, <2>2 DEF RoutesCome, Gateway
<1>6. ASSUME NEW r \in Replicas, NEW p \in Polls, Query(r, p)
      PROVE  RoutesCome'
  <2>1. UNCHANGED <<leader, Gateway>>
    BY <1>6 DEF Query
  <2>2. Told => Told'
    <3> SUFFICES ASSUME NEW id \in Foreign(leader, Ids, Changes), Waits(leader, id) PROVE Told'
      BY DEF Told
    <3>1. id \in Ids
      BY DEF Foreign
    <3> PICK l \in Replicas : l = leader
      BY <1>2
    <3>2. Waits(l, id)'
      BY <1>6, <3>1, QueryWaits
    <3> QED
      BY <1>4, <2>1, <3>2
  <2>3. \A q \in Replicas : Brings(q) => Brings(q)'
    BY <2>1 DEF Brings, Gateway
  <2> QED
    BY <1>2, <2>1, <2>2, <2>3 DEF RoutesCome, Gateway
<1>7. ASSUME NEW r \in Replicas, NEW p \in Polls, Handle(r, p)
      PROVE  RoutesCome'
  <2> DEFINE reloads == Foreign(r, rows[r][p], {"routes", "leader"})
  <2>1. UNCHANGED <<events, leader, routes, change, lists, listed, pushed>>
    BY <1>7 DEF Handle
  <2>2. calls' = [calls EXCEPT ![r] = @ + IF leader = r THEN Cardinality(reloads) ELSE 0]
    BY <1>7 DEF Handle
  <2>3. Cardinality(reloads) \in Nat /\ (reloads # {} => Cardinality(reloads) > 0)
    <3>1. IsFiniteSet(reloads)
      <4>1. IsFiniteSet(1 .. Len(events))
        BY LogFacts, FS_Interval
      <4>2. reloads \subseteq 1 .. Len(events)
        <5>1. reloads \subseteq rows[r][p] /\ rows[r][p] \subseteq Ids
          BY DEF Foreign, Typed, Bounded
        <5> QED
          BY <5>1, LogFacts
      <4> QED
        BY <4>1, <4>2, FS_Subset
    <3>2. Cardinality(reloads) \in Nat /\ (reloads # {} => Cardinality(reloads) # 0)
      BY <3>1, FS_CardinalityType, FS_EmptySet
    <3> QED
      BY <3>2
  <2>4. /\ \A q \in Replicas : q # r => calls'[q] = calls[q]
        /\ calls'[r] \in Nat /\ calls'[r] >= calls[r]
        /\ leader = r /\ reloads # {} => calls'[r] > 0
    <3>1. calls \in [Replicas -> Nat]
      BY DEF Typed
    <3> HIDE DEF reloads
    <3> QED
      BY <2>2, <2>3, <3>1
  <2>5. \A q \in Replicas : Brings(q) => Brings(q)'
    <3>1. \A q \in Replicas : calls[q] > 0 => calls'[q] > 0
      <4>1. calls \in [Replicas -> Nat]
        BY DEF Typed
      <4> QED
        BY <2>4, <4>1
    <3> QED
      BY <2>1, <3>1 DEF Brings
  <2>6. Told => Told' \/ Brings(r)'
    <3> SUFFICES ASSUME NEW id \in Foreign(leader, Ids, Changes), Waits(leader, id)
                 PROVE  Told' \/ Brings(r)'
      BY DEF Told
    <3> PICK l \in Replicas : l = leader
      BY <1>2
    <3>1. id \in Ids
      BY DEF Foreign
    <3>2. CASE Waits(l, id)'
      BY <1>4, <2>1, <3>2
    <3>3. CASE l = r /\ id \in rows[r][p]
      <4>1. id \in reloads
        BY <3>3 DEF Foreign, Changes
      <4> QED
        BY <2>4, <3>3, <4>1 DEF Brings
    <3> QED
      BY <1>3, <1>7, <3>1, <3>2, <3>3, HandleWaits
  <2> QED
    BY <1>2, <2>1, <2>5, <2>6 DEF RoutesCome
\* The log, the cursors and the leader stay, and so does what the leader
\* has to hear of.
<1>8. ASSUME UNCHANGED <<events, Bus, leader>> PROVE Told => Told'
  BY <1>4, <1>8 DEF Told, Waits, Bus
<1>9. ASSUME NEW r \in Replicas, NEW k \in Changes, List(r, k)
      PROVE  RoutesCome'
  <2>1. /\ UNCHANGED <<events, Bus, leader, routes, calls, lists, pushed>>
        /\ change[r][k] = "listing" /\ change'[r][k] = "pushing" /\ listed'[r][k] = routes
        /\ \A q \in Replicas : \A j \in Changes :
              q # r \/ j # k => change'[q][j] = change[q][j] /\ listed'[q][j] = listed[q][j]
    <3>1. /\ UNCHANGED <<events, Bus, leader, routes, calls, lists, pushed>>
          /\ change[r][k] = "listing" /\ change' = [change EXCEPT ![r][k] = "pushing"]
          /\ listed' = [listed EXCEPT ![r][k] = routes]
      BY <1>9 DEF List, Goes
    <3>2. /\ change \in [Replicas -> [Changes -> {"idle", "listing", "pushing", "publishing"}]]
          /\ listed \in [Replicas -> [Changes -> Nat]]
      BY DEF Typed
    <3> QED
      BY <3>1, <3>2
  <2>2. Brings(r)'
    BY <2>1 DEF Brings
  <2> QED
    BY <1>2, <2>1, <2>2 DEF RoutesCome
\* A push that overtakes no newer one leaves Traefik with the routes if it
\* had them, and gives it them if they are what was listed.
<1>10. ASSUME NEW v \in Nat, v <= routes, Push(v), routes' = routes
       PROVE  pushed = routes \/ v = routes => pushed' = routes'
  <2>1. pushed \in Nat /\ pushed <= routes /\ routes \in Nat
    BY DEF Typed, Bounded
  <2>2. ~(v < pushed)
    BY <1>10 DEF Push, Quiet
  <2> QED
    BY <1>10, <2>1, <2>2 DEF Push
<1>11. ASSUME NEW r \in Replicas, NEW k \in Changes, PushList(r, k)
       PROVE  RoutesCome'
  <2>1. /\ UNCHANGED <<events, Bus, leader, routes, calls, lists>>
        /\ Push(listed[r][k])
        /\ change[r][k] = "pushing"
        /\ \A q \in Replicas : \A j \in Changes :
              q # r \/ j # k => change'[q][j] = change[q][j] /\ listed'[q][j] = listed[q][j]
    <3>1. /\ UNCHANGED <<events, Bus, leader, routes, calls, lists>>
          /\ Push(listed[r][k])
          /\ change[r][k] = "pushing" /\ change' = [change EXCEPT ![r][k] = "publishing"]
          /\ listed' = [listed EXCEPT ![r][k] = 0]
      BY <1>11 DEF PushList, Goes
    <3>2. /\ change \in [Replicas -> [Changes -> {"idle", "listing", "pushing", "publishing"}]]
          /\ listed \in [Replicas -> [Changes -> Nat]]
      BY DEF Typed
    <3> QED
      BY <3>1, <3>2
  <2>2. listed[r][k] \in Nat /\ listed[r][k] <= routes
    BY DEF Typed, Bounded
  <2>3. pushed = routes \/ listed[r][k] = routes => pushed' = routes'
    BY <1>10, <2>1, <2>2
  <2>4. Told => Told'
    BY <1>8, <2>1
  <2>5. \A q \in Replicas : Brings(q) => Brings(q)' \/ listed[r][k] = routes
    BY <2>1 DEF Brings, Changes
  <2> QED
    BY <1>2, <2>1, <2>3, <2>4, <2>5 DEF RoutesCome
<1>12. ASSUME NEW r \in Replicas, PushForEvent(r)
       PROVE  RoutesCome'
  <2>1. PICK v \in lists[r] : Push(v) /\ lists' = [lists EXCEPT ![r] = @ \ {v}]
    BY <1>12 DEF PushForEvent
  <2>2. UNCHANGED <<events, Bus, leader, routes, change, calls, listed>>
    BY <1>12 DEF PushForEvent
  <2>3. v \in Nat /\ v <= routes /\ lists \in [Replicas -> SUBSET Nat]
    BY DEF Typed, Bounded
  <2>4. pushed = routes \/ v = routes => pushed' = routes'
    BY <1>10, <2>1, <2>2, <2>3
  <2>5. Told => Told'
    BY <1>8, <2>2
  <2>6. \A q \in Replicas : Brings(q) => Brings(q)' \/ v = routes
    <3>1. \A q \in Replicas : routes \in lists[q] => routes \in lists'[q] \/ v = routes
      BY <2>1, <2>3
    <3> QED
      BY <2>2, <3>1 DEF Brings
  <2> QED
    BY <1>2, <2>2, <2>4, <2>5, <2>6 DEF RoutesCome
<1>13. ASSUME NEW r \in Replicas, ListForEvent(r)
       PROVE  RoutesCome'
  <2>1. leader' = leader /\ routes' = routes /\ routes \in lists'[r]
    BY <1>13 DEF ListForEvent, Typed
  <2>2. Brings(r)'
    BY <2>1 DEF Brings
  <2> QED
    BY <1>2, <2>1, <2>2 DEF RoutesCome
<1>14. ASSUME NEW r \in Replicas, ChangeRoutes(r)
       PROVE  RoutesCome'
  <2>1. /\ leader' = leader
        /\ change'[r]["routes"] = IF leader = r THEN "listing" ELSE "publishing"
    BY <1>14 DEF ChangeRoutes, Goes, Typed, Changes
  <2>2. Brings(r)'
    BY <2>1 DEF Brings, Changes
  <2> QED
    BY <1>2, <2>1, <2>2 DEF RoutesCome
<1>15. ASSUME NEW r \in Replicas, StepDown(r) \/ BecomeLeader(r) PROVE FALSE
  BY <1>15, EventBusAssumption DEF StepDown, BecomeLeader
<1>16. ASSUME NEW r \in Replicas,
              \/ \E k \in Changes : PushFails(r, k)
              \/ PushForEventFails(r) \/ BecomeLeaderUnnoticed(r) \/ Restart(r)
       PROVE  FALSE
  <2>1. "push failed" \in excuses' \/ "unnoticed" \in excuses' \/ "restart" \in excuses'
    <3>1. (\E k \in Changes : PushFails(r, k)) => "push failed" \in excuses'
      BY DEF PushFails
    <3>2. PushForEventFails(r) => "push failed" \in excuses'
      BY DEF PushForEventFails
    <3>3. BecomeLeaderUnnoticed(r) => "unnoticed" \in excuses'
      BY DEF BecomeLeaderUnnoticed
    <3>4. Restart(r) => "restart" \in excuses'
      BY DEF Restart
    <3> QED
      BY <1>16, <3>1, <3>2, <3>3, <3>4
  <2> QED
    BY <2>1 DEF Quiet
<1>17. ASSUME NEW r \in Replicas, NEW k \in Changes, PublishChange(r, k)
       PROVE  RoutesCome'
  <2> PICK new \in Nat : new = Len(events) + 1
    BY LogFacts
  <2> PICK l \in Replicas : l = leader
    BY <1>2
  <2>1. /\ UNCHANGED <<cursor, rows, leader, routes, calls, lists, listed, pushed>>
        /\ Publish(r, k, 0) /\ change[r][k] = "publishing"
        /\ \A q \in Replicas : \A j \in Changes : q # r \/ j # k => change'[q][j] = change[q][j]
    BY <1>17 DEF PublishChange, Goes, Typed, Bus
  <2>2. new \in Ids' /\ events'[new] = [kind |-> k, revision |-> 0, source |-> r]
    BY <2>1, PublishFacts DEF Kinds
  <2>3. new > cursor[l]
    <3>1. cursor[l] \in Nat /\ cursor[l] <= Len(events)
      BY DEF Typed, Bounded
    <3> QED
      BY <3>1, LogFacts
  <2>4. ASSUME r # l PROVE Told'
    <3>1. new \in Foreign(l, Ids, Changes)'
      BY <2>2, <2>4 DEF Foreign
    <3>2. Waits(l, new)'
      BY <2>1, <2>3 DEF Waits
    <3>3. leader' = l
      BY <2>1
    <3> QED
      BY <3>1, <3>2, <3>3 DEF Told
  <2>5. Told => Told'
    <3> SUFFICES ASSUME NEW id \in Foreign(leader, Ids, Changes), Waits(leader, id) PROVE Told'
      BY DEF Told
    <3>1. Waits(leader, id)'
      BY <2>1 DEF Waits
    <3> QED
      BY <1>4, <2>1, <3>1
  <2>6. \A q \in Replicas : Brings(q) => Brings(q)' \/ r # l
    BY <2>1 DEF Brings, Changes
  <2> QED
    BY <1>2, <2>1, <2>4, <2>5, <2>6 DEF RoutesCome
<1>18. ASSUME NEW r \in Replicas, NEW k \in Changes, PublishChangeRejected(r, k)
       PROVE  RoutesCome'
  <2>1. /\ UNCHANGED <<events, Bus, leader, routes, calls, lists, listed, pushed>>
        /\ change[r][k] = "publishing"
        /\ \A q \in Replicas : \A j \in Changes : q # r \/ j # k => change'[q][j] = change[q][j]
    BY <1>18 DEF PublishChangeRejected, Goes, Typed
  <2>2. k # "routes"
    BY <1>18 DEF PublishChangeRejected, Quiet
  <2>3. Told => Told'
    BY <1>8, <2>1
  <2>4. \A q \in Replicas : Brings(q) => Brings(q)'
    BY <2>1, <2>2 DEF Brings, Changes
  <2> QED
    BY <1>2, <2>1, <2>3, <2>4 DEF RoutesCome
<1> QED
  BY <1>5, <1>6, <1>7, <1>9, <1>11, <1>12, <1>13, <1>14, <1>15, <1>16, <1>17, <1>18, GatewaySteps

\* A new leader is about to list the routes.
LEMMA GatewayInductive ==
    ASSUME Typed, Typed', Bounded, Bounded', [Next]_vars, \A r \in Replicas : ReadsOn(r),
           GatewayInv
    PROVE  GatewayInv'
<1> SUFFICES ASSUME Quiet', leader' # NoReplica PROVE RoutesCome'
  BY DEF GatewayInv
<1>1. CASE leader' = leader
  <2>1. leader \in Replicas
    BY <1>1 DEF Typed
  <2> QED
    BY <1>1, <2>1, GatewayKept
<1>2. ASSUME NEW r \in Replicas, BecomeLeader(r) PROVE RoutesCome'
  <2>1. change'[r]["leader"] = "listing"
    BY <1>2 DEF BecomeLeader, Goes, Typed, Changes
  <2> QED
    BY <2>1 DEF Brings, Changes, RoutesCome
<1>3. ASSUME NEW r \in Replicas, StepDown(r) \/ BecomeLeaderUnnoticed(r) \/ Restart(r)
      PROVE  FALSE
  <2>1. StepDown(r) => leader' = NoReplica
    BY DEF StepDown
  <2>2. BecomeLeaderUnnoticed(r) => "unnoticed" \in excuses'
    BY DEF BecomeLeaderUnnoticed
  <2>3. Restart(r) => "restart" \in excuses'
    BY DEF Restart
  <2> QED
    BY <1>3, <2>1, <2>2, <2>3 DEF Quiet
<1> QED
  BY <1>1, <1>2, <1>3, LeaderSteps

\* With nothing under way and a leader, Traefik has the routes of the database,
\* unless a push failed or was overtaken, the event of a change was rejected or
\* passed over, a replica restarted or one came to lead unnoticed: for every
\* number of replicas, overlapping polls, operations and times without leader.
THEOREM GatewayFollows == Spec => []GatewayAgrees
<1>1. Init => GatewayInv /\ \A r \in Replicas : ReadsOn(r)
  <2> SUFFICES ASSUME Init PROVE GatewayInv /\ \A r \in Replicas : ReadsOn(r)
    OBVIOUS
  <2>1. leader \in Replicas /\ pushed = routes
    BY EventBusAssumption DEF Init
  <2>2. \A r \in Replicas : ReadsOn(r)
    BY DEF Init, ReadsOn, Foreign, Ids
  <2> QED
    BY <2>1, <2>2 DEF GatewayInv, RoutesCome
<1>2. /\ Typed /\ Typed' /\ Bounded /\ [Next]_vars /\ (\A r \in Replicas : ReadsOn(r))
      => (\A r \in Replicas : ReadsOn(r))'
  BY ReadsOnInductive
<1>3. /\ Typed /\ Typed' /\ Bounded /\ Bounded' /\ [Next]_vars
      /\ (\A r \in Replicas : ReadsOn(r)) /\ GatewayInv
      => GatewayInv'
  BY GatewayInductive
<1>4. Typed /\ GatewayInv => GatewayAgrees
  <2> SUFFICES ASSUME Typed, GatewayInv, AppliesDone, Quiet, leader # NoReplica,
                      \A r \in Replicas : /\ change[r] = [k \in Changes |-> "idle"]
                                          /\ calls[r] = 0 /\ lists[r] = {}
               PROVE  pushed = routes
    BY DEF GatewayAgrees, Quiet
  <2>1. leader \in Replicas /\ RoutesCome
    BY DEF GatewayInv, Typed
  <2>2. ~Told
    <3> SUFFICES ASSUME NEW id \in Foreign(leader, Ids, Changes), Waits(leader, id) PROVE FALSE
      BY DEF Told
    <3>1. id \in committed
      BY DEF AppliesDone, Foreign
    <3> QED
      BY <2>1, <3>1 DEF AppliesDone, Waits, Above
  <2>3. \A r \in Replicas : ~Brings(r)
    BY DEF Brings, Changes
  <2> QED
    BY <2>1, <2>2, <2>3 DEF RoutesCome
<1> QED
  BY <1>1, <1>2, <1>3, <1>4, BusTyped, PTL DEF Spec
=============================================================================
