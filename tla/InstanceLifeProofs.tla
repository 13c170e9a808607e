--------------------------- MODULE InstanceLifeProofs ---------------------------
(* Proofs about InstanceLife for any number of nodes, polls, handlers and      *)
(* faults, any maximum of retries and every schedule.                          *)
EXTENDS InstanceLife, TLAPS

AgentOperations == {"create", "start", "stop", "remove"}
Plans == [todo : Seq(AgentOperations) \ {<<>>}, from : Requests \cup {Nobody}]

\* Types, also of what TypeOK leaves out.
Typed ==
    /\ TypeOK
    /\ cached \in [Requests -> [status : Statuses, attempts : Nat, home : Nodes \cup {Nobody}]]
    /\ nodesSeen \in [Requests -> SUBSET Nodes]
    /\ inbox \in [Nodes -> Seq(Plans)]
    /\ possible \in FaultSets

\* The reconciler counts on from what it read before it had too many.
Counted ==
    \A r \in Requests :
        asked[r] \in Reconciles /\ pc[r] \in {"ready", "waiting", "answered"}
            => cached[r].attempts <= MaxRetries

\* A report is about the plan at hand, and "running" is posted of a container
\* that runs: the agent does nothing else meanwhile.
Reporting ==
    \A n \in Nodes :
        /\ report[n] # "none" => inbox[n] # <<>>
        /\ report[n] = "running" => container[n] = "running"

\* All plans of an instance that may not move go to its node.
AtHome == ~Movable =>
    /\ \A r \in Requests : pc[r] = "ready" => cached[r].home = home
    /\ \A n \in Nodes : n # home => inbox[n] = <<>>

\* No request is lost to its plan; no report is lost to the control plane.
RequestsStay == possible \cap {"timeout", "server"} = {}
ReportsArrive == possible \cap {"lost", "agent"} = {}

\* A plan has a request of its own that waits for it, unless that was lost; an
\* apply's neither stops nor removes.
OwnedPlan(n, k) ==
    IF inbox[n][k].from = Nobody THEN ~RequestsStay
    ELSE /\ pc[inbox[n][k].from] = "waiting"
         /\ \A j \in DOMAIN inbox[n][k].todo :
               inbox[n][k].todo[j] \in {"stop", "remove"} => asked[inbox[n][k].from] # "apply"
         /\ \A m \in Nodes : \A l \in DOMAIN inbox[m] :
               inbox[m][l].from = inbox[n][k].from => m = n /\ l = k
Owned == \A n \in Nodes : \A k \in DOMAIN inbox[n] : OwnedPlan(n, k)

\* A request whose answer will change the status.
Corrects(r) == pc[r] = "answered" /\ (result[r] = "failed" \/ asked[r] # "apply")

\* A row that says "running" of a container that does not run is corrected: by
\* the report of the stop if reports arrive, by the request if requests stay.
Stale == status = "running" /\ container[home] # "running"
ToldByReport == ReportsArrive => report[home] = "stopped"
ToldByAnswer == RequestsStay =>
    \/ \E r \in Requests : Corrects(r)
    \/ inbox[home] # <<>> /\ asked[Head(inbox[home]).from] # "apply"
Told == ~Movable /\ Stale => ToldByReport /\ ToldByAnswer

IInv == Typed /\ Counted /\ Reporting /\ AtHome /\ Owned /\ Told

-----------------------------------------------------------------------------
(* Plans and inboxes *)

LEMMA PlanIsPlan ==
    ASSUME NEW operation
    PROVE  /\ PlanOf(operation) \in Seq(AgentOperations) \ {<<>>}
           /\ \A j \in DOMAIN PlanOf(operation) :
                 PlanOf(operation)[j] \in {"stop", "remove"} => operation \in LifecycleOperations
  <1>1. CASE operation \in {"stop", "start"}
    BY <1>1 DEF PlanOf, AgentOperations, LifecycleOperations
  <1>2. CASE operation \in {"restart", "remove"}
    BY <1>2 DEF PlanOf, AgentOperations, LifecycleOperations
  <1>3. CASE operation \notin LifecycleOperations
    BY <1>3 DEF PlanOf, AgentOperations, LifecycleOperations
  <1>4. QED
    BY <1>1, <1>2, <1>3 DEF LifecycleOperations

LEMMA TailOf ==
    ASSUME NEW S, NEW s \in Seq(S), s # <<>>
    PROVE  /\ Tail(s) \in Seq(S) /\ Head(s) \in S /\ Head(s) = s[1] /\ 1 \in DOMAIN s
           /\ DOMAIN s = 1 .. Len(s) /\ Len(s) \in Nat \ {0}
           /\ DOMAIN Tail(s) = 1 .. (Len(s) - 1)
           /\ \A k \in DOMAIN Tail(s) : Tail(s)[k] = s[k + 1] /\ k + 1 \in DOMAIN s
  OBVIOUS

LEMMA RestOf ==
    ASSUME NEW S, NEW s \in Seq(S), s # <<>>, Len(s) # 1
    PROVE  Tail(s) \in Seq(S) /\ Tail(s) # <<>>
  <1>1. Len(Tail(s)) = Len(s) - 1 /\ Len(s) \in Nat \ {0, 1} /\ Tail(s) \in Seq(S)
    OBVIOUS
  <1>2. QED
    BY <1>1

LEMMA HeadReplaced ==
    ASSUME NEW S, NEW s \in Seq(S), s # <<>>, NEW x \in S
    PROVE  LET q == <<x>> \o Tail(s)
           IN  /\ q \in Seq(S) /\ q # <<>> /\ Head(q) = x
               /\ DOMAIN q = DOMAIN s /\ q[1] = x
               /\ \A k \in DOMAIN s : k # 1 => q[k] = s[k]
  <1> DEFINE q == <<x>> \o Tail(s)
  <1>1. Tail(s) \in Seq(S) /\ Len(Tail(s)) = Len(s) - 1 /\ Len(s) \in Nat \ {0}
    OBVIOUS
  <1>2. q \in Seq(S) /\ Len(q) = Len(s)
    BY <1>1
  <1>3. q[1] = x
    BY <1>1
  <1>4. \A k \in DOMAIN s : k # 1 => q[k] = s[k]
    <2> SUFFICES ASSUME NEW k \in 1 .. Len(s), k # 1 PROVE q[k] = s[k]
      OBVIOUS
    <2>1. q[k] = Tail(s)[k - 1]
      BY <1>1
    <2>2. QED
      BY <1>1, <2>1
  <1>5. QED
    BY <1>1, <1>2, <1>3, <1>4

LEMMA Appended ==
    ASSUME NEW S, NEW s \in Seq(S), NEW x \in S
    PROVE  LET q == Append(s, x)
           IN  /\ q \in Seq(S) /\ q # <<>>
               /\ DOMAIN s = 1 .. Len(s) /\ Len(s) \in Nat
               /\ DOMAIN q = 1 .. (Len(s) + 1) /\ q[Len(s) + 1] = x
               /\ \A k \in DOMAIN s : q[k] = s[k]
               /\ s # <<>> => Head(q) = Head(s)
  <1> DEFINE q == Append(s, x)
  <1>1. q \in Seq(S) /\ Len(q) = Len(s) + 1 /\ Len(s) \in Nat
    OBVIOUS
  <1>2. q[Len(s) + 1] = x /\ \A k \in 1 .. Len(s) : q[k] = s[k]
    OBVIOUS
  <1>3. s # <<>> => 1 \in DOMAIN s /\ Head(s) = s[1]
    OBVIOUS
  <1>4. q # <<>> /\ Head(q) = q[1]
    BY <1>1
  <1>5. QED
    BY <1>1, <1>2, <1>3, <1>4

\* The plans of a request that gives up stay where they are, without it.
LEMMA Disowned ==
    ASSUME Typed, NEW n \in Nodes, NEW r \in Requests
    PROVE  /\ Disown(n, r) \in Seq(Plans)
           /\ inbox[n] # <<>> <=> Disown(n, r) # <<>>
  <1>1. inbox[n] \in Seq(Plans) /\ DOMAIN inbox[n] = 1 .. Len(inbox[n]) /\ Len(inbox[n]) \in Nat
    BY DEF Typed
  <1>2. ASSUME NEW k \in DOMAIN inbox[n]
        PROVE  (IF inbox[n][k].from = r THEN [inbox[n][k] EXCEPT !.from = Nobody] ELSE inbox[n][k]) \in Plans
    <2>1. inbox[n][k] \in Plans
      BY <1>1
    <2>2. QED
      BY <2>1 DEF Plans
  <1>3. Disown(n, r) \in [1 .. Len(inbox[n]) -> Plans]
    BY <1>1, <1>2 DEF Disown
  <1>4. Disown(n, r) \in Seq(Plans) /\ Len(Disown(n, r)) = Len(inbox[n])
    BY <1>1, <1>3
  <1>5. QED
    BY <1>1, <1>4

\* The request of a plan, if it has one, waits; while requests stay it has one.
LEMMA PlanOwned ==
    ASSUME Typed, Owned, NEW n \in Nodes, NEW k \in DOMAIN inbox[n]
    PROVE  /\ inbox[n][k] \in Plans
           /\ inbox[n][k].from # Nobody => inbox[n][k].from \in Requests /\ pc[inbox[n][k].from] = "waiting"
           /\ RequestsStay => inbox[n][k].from # Nobody
  <1>1. inbox[n] \in Seq(Plans)
    BY DEF Typed
  <1>2. inbox[n][k] \in Plans
    BY <1>1
  <1>3. OwnedPlan(n, k)
    BY DEF Owned
  <1>4. inbox[n][k].from \in Requests \cup {Nobody}
    BY <1>2 DEF Plans
  <1>5. QED
    BY <1>2, <1>3, <1>4 DEF OwnedPlan

-----------------------------------------------------------------------------
(* Steps of requests *)

\* Steps of requests that leave the agents alone: what must be shown of the
\* request r that takes it.
LEMMA RequestMoves ==
    ASSUME IInv, NEW r \in Requests, UNCHANGED <<container, inbox, report, possible>>,
           pc[r] # "waiting", ~Corrects(r) \/ status' # "running",
           \A q \in Requests : q # r =>
               pc'[q] = pc[q] /\ asked'[q] = asked[q] /\ cached'[q] = cached[q] /\ result'[q] = result[q],
           pc'[r] # "answered",
           pc'[r] = "ready" => cached'[r].home = home',
           asked'[r] \in Reconciles /\ pc'[r] \in {"ready", "waiting"} => cached'[r].attempts <= MaxRetries,
           ~Movable => home' = home,
           status' = "running" => status = "running"
    PROVE  Counted' /\ Reporting' /\ AtHome' /\ Owned' /\ Told'
  <1>1. Counted'
    BY DEF IInv, Counted
  <1>2. Reporting'
    BY DEF IInv, Reporting
  <1>3. AtHome'
    BY DEF IInv, AtHome
  <1>4. Owned'
    <2> SUFFICES ASSUME NEW n \in Nodes, NEW k \in DOMAIN inbox[n] PROVE OwnedPlan(n, k)'
      BY DEF Owned
    <2>1. OwnedPlan(n, k) /\ inbox[n][k].from \in Requests \cup {Nobody}
      BY PlanOwned DEF IInv, Owned, Plans
    <2>2. CASE inbox[n][k].from = Nobody
      BY <2>1, <2>2 DEF OwnedPlan, RequestsStay
    <2>3. CASE inbox[n][k].from # Nobody
      <3>1. inbox[n][k].from \in Requests /\ inbox[n][k].from # r
        BY <2>1, <2>3 DEF OwnedPlan
      <3>2. QED
        BY <2>1, <2>3, <3>1 DEF OwnedPlan
    <2>4. QED
      BY <2>2, <2>3
  <1>5. Told'
    <2> SUFFICES ASSUME ~Movable, Stale' PROVE ToldByReport' /\ ToldByAnswer'
      BY DEF Told
    <2>1. home' = home /\ Stale /\ ToldByReport /\ ToldByAnswer
      BY DEF Stale, IInv, Told
    <2>2. ToldByReport'
      BY <2>1 DEF ToldByReport, ReportsArrive
    <2>3. ToldByAnswer'
      <3> SUFFICES ASSUME RequestsStay
                   PROVE  \/ \E q \in Requests : Corrects(q)'
                          \/ inbox[home] # <<>> /\ asked'[Head(inbox[home]).from] # "apply"
        BY <2>1 DEF ToldByAnswer, RequestsStay
      <3>1. CASE \E q \in Requests : Corrects(q)
        <4>1. PICK q \in Requests : Corrects(q)
          BY <3>1
        <4>2. q # r
          BY <4>1 DEF Stale
        <4>3. Corrects(q)'
          BY <4>1, <4>2 DEF Corrects
        <4>4. QED
          BY <4>3
      <3>2. CASE inbox[home] # <<>> /\ asked[Head(inbox[home]).from] # "apply"
        <4>1. home \in Nodes /\ inbox[home] \in Seq(Plans)
          BY DEF IInv, Typed, TypeOK
        <4>2. 1 \in DOMAIN inbox[home] /\ Head(inbox[home]) = inbox[home][1]
          BY <3>2, <4>1, TailOf
        <4>3. Head(inbox[home]).from \in Requests /\ pc[Head(inbox[home]).from] = "waiting"
          BY <4>1, <4>2, PlanOwned DEF IInv
        <4>4. QED
          BY <3>2, <4>3
      <3>3. QED
        BY <2>1, <3>1, <3>2 DEF ToldByAnswer
    <2>4. QED
      BY <2>2, <2>3
  <1>6. QED
    BY <1>1, <1>2, <1>3, <1>4, <1>5

\* What a request keeps is the row's.
LEMMA KeptOfRow ==
    ASSUME Typed, NEW operation
    PROVE  /\ Kept(operation) \in [status : Statuses, attempts : Nat, home : Nodes \cup {Nobody}]
           /\ Row \in [status : Statuses, attempts : Nat, home : Nodes \cup {Nobody}]
           /\ Nothing \in [status : Statuses, attempts : Nat, home : Nodes \cup {Nobody}]
           /\ Kept(operation).home = home
           /\ operation \in Reconciles => Kept(operation).attempts = attempts
           /\ Nothing.attempts = 0
  <1>1. attempts \in Nat /\ home \in Nodes /\ status \in Statuses
    BY InstanceAssumption DEF Typed, TypeOK
  <1>2. QED
    BY <1>1 DEF Kept, Row, Nothing, Statuses, Stuck

LEMMA ListAllKeeps ==
    ASSUME IInv, NEW r \in Pollers, ListAll(r) PROVE IInv'
  <1>0. r \in Requests
    BY DEF Requests
  <1>1. Typed'
    <2>1. cached' \in [Requests -> [status : Statuses, attempts : Nat, home : Nodes \cup {Nobody}]]
      BY <1>0, KeptOfRow DEF IInv, Typed, ListAll
    <2>2. nodesSeen' \in [Requests -> SUBSET Nodes]
      BY <1>0 DEF IInv, Typed, TypeOK, ListAll
    <2>3. TypeOK'
      BY <1>0 DEF IInv, Typed, TypeOK, ListAll, Goto, rowVars, agentVars
    <2>4. QED
      BY <2>1, <2>2, <2>3 DEF IInv, Typed, ListAll, agentVars, faultVars
  <1>2. Counted' /\ Reporting' /\ AtHome' /\ Owned' /\ Told'
    BY <1>0, RequestMoves
    DEF IInv, Typed, TypeOK, ListAll, Goto, Corrects, rowVars, agentVars, faultVars
  <1>3. QED
    BY <1>1, <1>2 DEF IInv

\* A request that decides counts on from attempts that are not too many.
LEMMA DecidedKeeps ==
    ASSUME IInv, NEW r \in Requests, NEW operation \in HandlerOperations \cup {"poll"},
           Decided(r, operation), pc[r] \in {"idle", "moved"},
           operation \in Reconciles => attempts <= MaxRetries,
           UNCHANGED <<rowVars, online, agentVars, faultVars>>
    PROVE  IInv'
  <1>1. Typed'
    <2>1. cached' \in [Requests -> [status : Statuses, attempts : Nat, home : Nodes \cup {Nobody}]]
      BY KeptOfRow DEF IInv, Typed, Decided
    <2>2. nodesSeen' \in [Requests -> SUBSET Nodes]
      BY DEF IInv, Typed, Decided
    <2>3. TypeOK'
      BY DEF IInv, Typed, TypeOK, Decided, Goto, rowVars, agentVars
    <2>4. QED
      BY <2>1, <2>2, <2>3 DEF IInv, Typed, agentVars, faultVars
  <1>2. /\ cached'[r] = Kept(operation) /\ asked'[r] = operation /\ pc'[r] = "ready"
        /\ \A q \in Requests : q # r => pc'[q] = pc[q] /\ asked'[q] = asked[q] /\ cached'[q] = cached[q]
    BY DEF IInv, Typed, TypeOK, Decided, Goto
  <1>3. cached'[r].home = home /\ (operation \in Reconciles => cached'[r].attempts <= MaxRetries)
    BY <1>2, KeptOfRow DEF IInv
  <1>4. Counted' /\ Reporting' /\ AtHome' /\ Owned' /\ Told'
    BY <1>2, <1>3, RequestMoves DEF Decided, Corrects, rowVars, agentVars, faultVars
  <1>5. QED
    BY <1>1, <1>4 DEF IInv

\* A request that ends forgets what it knew.
LEMMA FinishTyped ==
    ASSUME Typed, NEW r \in Requests, Finish(r)
    PROVE  /\ cached' \in [Requests -> [status : Statuses, attempts : Nat, home : Nodes \cup {Nobody}]]
           /\ nodesSeen' \in [Requests -> SUBSET Nodes]
           /\ asked' \in [Requests -> HandlerOperations \cup {"poll", "apply"}]
           /\ result' \in [Requests -> {"dispatched", "failed"}]
           /\ pc' \in [Requests -> {"idle", "listed", "moved", "ready", "waiting", "answered"}]
           /\ pc'[r] = "idle" /\ asked'[r] = "apply"
           /\ \A q \in Requests : q # r =>
                 pc'[q] = pc[q] /\ asked'[q] = asked[q] /\ cached'[q] = cached[q] /\ result'[q] = result[q]
  BY KeptOfRow DEF Typed, TypeOK, Finish, Goto

LEMMA RescheduleKeeps ==
    ASSUME IInv, NEW r \in Requests, Reschedule(r) PROVE IInv'
  <1>1. nodesSeen[r] \subseteq Nodes /\ status' \in Statuses /\ home' \in Nodes
    BY DEF IInv, Typed, TypeOK, Reschedule, Statuses, Stuck
  <1>2. Typed'
    <2>1. TypeOK'
      BY <1>1 DEF IInv, Typed, TypeOK, Reschedule, Goto, agentVars
    <2>2. QED
      BY <2>1 DEF IInv, Typed, Reschedule, agentVars, faultVars
  <1>3. Movable /\ pc[r] = "listed" /\ pc'[r] = "moved"
        /\ \A q \in Requests : q # r => pc'[q] = pc[q]
    BY DEF IInv, Typed, TypeOK, Reschedule, CanMove, Goto
  <1>4. Counted' /\ Reporting' /\ AtHome' /\ Owned' /\ Told'
    BY <1>3, RequestMoves DEF Reschedule, Corrects, agentVars, faultVars
  <1>5. QED
    BY <1>2, <1>4 DEF IInv

LEMMA RemainKeeps ==
    ASSUME IInv, NEW r \in Requests, Remain(r) PROVE IInv'
  <1>1. Typed'
    <2>1. TypeOK'
      BY DEF IInv, Typed, TypeOK, Remain, Goto, rowVars, agentVars
    <2>2. QED
      BY <2>1 DEF IInv, Typed, Remain, agentVars, faultVars
  <1>2. pc[r] = "listed" /\ pc'[r] = "moved" /\ \A q \in Requests : q # r => pc'[q] = pc[q]
    BY DEF IInv, Typed, TypeOK, Remain, Goto
  <1>3. Counted' /\ Reporting' /\ AtHome' /\ Owned' /\ Told'
    BY <1>2, RequestMoves DEF Remain, Corrects, rowVars, agentVars, faultVars
  <1>4. QED
    BY <1>1, <1>3 DEF IInv

LEMMA ListAgainKeeps ==
    ASSUME IInv, NEW r \in Requests, ListAgain(r) PROVE IInv'
  <1>1. CASE Decided(r, "poll")
    <2>1. IsReconcileCandidate(Row, nodesSeen[r], FALSE) \/ Finish(r)
      BY DEF ListAgain
    <2>2. CASE IsReconcileCandidate(Row, nodesSeen[r], FALSE)
      <3>1. attempts <= MaxRetries
        BY <2>2, InstanceAssumption DEF IInv, Typed, TypeOK, IsReconcileCandidate, Row
      <3>2. QED
        BY <1>1, <3>1, DecidedKeeps DEF ListAgain
    <2>3. CASE Finish(r)
      BY <1>1, <2>3 DEF Decided, Finish, Goto, IInv, Typed, TypeOK
    <2>4. QED
      BY <2>1, <2>2, <2>3
  <1>2. CASE Finish(r)
    <2>1. Typed'
      <3>1. TypeOK'
        BY <1>2, FinishTyped DEF IInv, Typed, TypeOK, ListAgain, rowVars, agentVars
      <3>2. QED
        BY <1>2, <3>1, FinishTyped DEF IInv, Typed, ListAgain, agentVars, faultVars
    <2>2. pc[r] = "moved" /\ UNCHANGED <<rowVars, online, agentVars, faultVars>>
      BY DEF ListAgain
    <2>3. pc'[r] = "idle" /\ asked'[r] = "apply"
          /\ \A q \in Requests : q # r =>
                pc'[q] = pc[q] /\ asked'[q] = asked[q] /\ cached'[q] = cached[q] /\ result'[q] = result[q]
      BY <1>2, FinishTyped DEF IInv
    <2>4. QED
      BY <2>1, <2>2, <2>3, RequestMoves DEF IInv, Corrects, rowVars, agentVars, faultVars
  <1>3. QED
    BY <1>1, <1>2 DEF ListAgain

LEMMA ReconcileKeeps ==
    ASSUME IInv, NEW r \in Handlers, NEW operation \in Operations, Reconcile(r, operation)
    PROVE  IInv'
  <1>1. r \in Requests /\ operation \in HandlerOperations
    BY DEF Requests, Reconcile, HandlerOperations
  <1>2. attempts <= MaxRetries
    BY InstanceAssumption DEF IInv, Typed, TypeOK, Reconcile, ForceCap
  <1>3. QED
    BY <1>1, <1>2, DecidedKeeps DEF Reconcile

LEMMA OrderKeeps ==
    ASSUME IInv, NEW r \in Handlers, NEW operation \in Operations, Order(r, operation)
    PROVE  IInv'
  <1>1. r \in Requests /\ operation \in HandlerOperations /\ operation \notin Reconciles
    BY DEF Requests, Order, HandlerOperations, LifecycleOperations, Reconciles
  <1>2. QED
    BY <1>1, DecidedKeeps DEF Order

\* The new plan has the one request that sends it; the plan at hand stays.
LEMMA DispatchKeeps ==
    ASSUME IInv, NEW r \in Requests, Dispatch(r) PROVE IInv'
  <1> DEFINE new == [todo |-> PlanOf(asked[r]), from |-> r]
  <1>1. new \in Plans /\ \A j \in DOMAIN new.todo : new.todo[j] \in {"stop", "remove"} => asked[r] # "apply"
    BY PlanIsPlan DEF Plans, LifecycleOperations
  <1>1a. new \in Plans
    BY <1>1
  <1>2. inbox' = [inbox EXCEPT ![cached[r].home] = Append(inbox[cached[r].home], new)]
    BY DEF Dispatch
  <1>3. inbox \in [Nodes -> Seq(Plans)]
    BY DEF IInv, Typed
  <1> HIDE DEF new
  <1>4. inbox' \in [Nodes -> Seq(Plans)]
    <2>1. CASE cached[r].home \in Nodes
      BY <1>1, <1>2, <1>3, <2>1, Appended
    <2>2. CASE cached[r].home \notin Nodes
      BY <1>2, <1>3, <2>2
    <2>3. QED
      BY <2>1, <2>2
  <1>5. ASSUME NEW n \in Nodes
        PROVE  \/ inbox'[n] = inbox[n]
               \/ n = cached[r].home /\ inbox'[n] = Append(inbox[n], new)
    BY <1>2, <1>3
  <1>6. /\ pc[r] = "ready" /\ pc'[r] = "waiting" /\ \A q \in Requests : q # r => pc'[q] = pc[q]
        /\ UNCHANGED <<rowVars, online, asked, cached, nodesSeen, result, container, report, faultVars>>
    BY DEF Dispatch, Goto, IInv, Typed, TypeOK
  <1>7. Typed'
    <2>1. TypeOK'
      BY <1>6 DEF IInv, Typed, TypeOK, rowVars, Dispatch, Goto
    <2>2. QED
      BY <1>4, <1>6, <2>1 DEF IInv, Typed, faultVars
  <1>8. Counted'
    BY <1>6 DEF IInv, Counted
  <1>9. \A n \in Nodes : inbox[n] # <<>> => inbox'[n] # <<>> /\ Head(inbox'[n]) = Head(inbox[n])
    BY <1>1, <1>3, <1>5, Appended
  <1>10. Reporting'
    BY <1>6, <1>9 DEF IInv, Reporting
  <1>11. AtHome'
    BY <1>5, <1>6 DEF IInv, AtHome, rowVars
  <1>12. Owned'
    <2> SUFFICES ASSUME NEW n \in Nodes, NEW k \in DOMAIN inbox'[n] PROVE OwnedPlan(n, k)'
      BY DEF Owned
    <2>1. RequestsStay' <=> RequestsStay
      BY <1>6 DEF RequestsStay, faultVars
    <2>2. ASSUME NEW m \in Nodes, NEW l \in DOMAIN inbox'[m]
          PROVE  \/ l \in DOMAIN inbox[m] /\ inbox'[m][l] = inbox[m][l]
                 \/ m = cached[r].home /\ l = Len(inbox[m]) + 1 /\ inbox'[m][l] = new
      <3>1. CASE inbox'[m] = inbox[m]
        BY <3>1
      <3>2. CASE m = cached[r].home /\ inbox'[m] = Append(inbox[m], new)
        <4>1. inbox[m] \in Seq(Plans)
          BY <1>3
        <4>2. /\ DOMAIN inbox[m] = 1 .. Len(inbox[m]) /\ Len(inbox[m]) \in Nat
              /\ l \in 1 .. (Len(inbox[m]) + 1) /\ inbox'[m][Len(inbox[m]) + 1] = new
              /\ \A i \in DOMAIN inbox[m] : inbox'[m][i] = inbox[m][i]
          BY <1>1a, <3>2, <4>1, Appended
        <4>3. QED
          BY <3>2, <4>2
      <3>3. QED
        BY <1>5, <3>1, <3>2
    <2>3. \A m \in Nodes : \A l \in DOMAIN inbox[m] :
              /\ inbox[m][l].from # r
              /\ inbox[m][l].from # Nobody => inbox[m][l].from \in Requests
      BY <1>6, PlanOwned, InstanceAssumption DEF IInv
    <2>4. new.from = r /\ r # Nobody
      BY InstanceAssumption DEF new
    <2>5. CASE k \in DOMAIN inbox[n] /\ inbox'[n][k] = inbox[n][k]
      <3>1. OwnedPlan(n, k) /\ inbox[n][k].from # r
        BY <2>3, <2>5 DEF IInv, Owned
      <3>2. CASE inbox[n][k].from = Nobody
        BY <2>1, <2>5, <3>1, <3>2 DEF OwnedPlan
      <3>3. CASE inbox[n][k].from # Nobody
        <4>1. pc'[inbox[n][k].from] = "waiting"
          BY <1>6, <2>3, <2>5, <3>1, <3>3 DEF OwnedPlan
        <4>2. ASSUME NEW m \in Nodes, NEW l \in DOMAIN inbox'[m], inbox'[m][l].from = inbox[n][k].from
              PROVE  m = n /\ l = k
          BY <2>2, <2>4, <3>1, <3>3, <4>2 DEF OwnedPlan
        <4>3. QED
          BY <1>6, <2>5, <3>1, <3>3, <4>1, <4>2 DEF OwnedPlan
      <3>4. QED
        BY <3>2, <3>3
    <2>6. CASE n = cached[r].home /\ k = Len(inbox[n]) + 1 /\ inbox'[n][k] = new
      BY <1>1, <1>6, <2>2, <2>3, <2>4, <2>6 DEF OwnedPlan
    <2>7. QED
      BY <2>2, <2>5, <2>6
  <1>13. Told'
    <2> SUFFICES ASSUME ~Movable, Stale' PROVE ToldByReport' /\ ToldByAnswer'
      BY DEF Told
    <2>1. home \in Nodes /\ home' = home /\ ToldByReport /\ ToldByAnswer
      BY <1>6 DEF Stale, IInv, Told, rowVars, Typed, TypeOK
    <2>2. ToldByReport'
      BY <1>6, <2>1 DEF ToldByReport, ReportsArrive, faultVars
    <2>3. \A q \in Requests : Corrects(q) => Corrects(q)'
      BY <1>6 DEF Corrects
    <2>4. ToldByAnswer'
      BY <1>6, <1>9, <2>1, <2>3 DEF ToldByAnswer, RequestsStay, faultVars
    <2>5. QED
      BY <2>2, <2>4
  <1>14. QED
    BY <1>7, <1>8, <1>10, <1>11, <1>12, <1>13 DEF IInv

\* What a request writes of a row is not "running", except that an apply whose
\* plan was dispatched leaves the row as it is.
LEMMA RecordKeeps ==
    ASSUME IInv, NEW r \in Requests, Record(r) PROVE IInv'
  <1>1. pc[r] = "answered" /\ UNCHANGED <<home, online, agentVars, faultVars>> /\ Finish(r)
    BY DEF Record
  <1>2. /\ pc'[r] = "idle" /\ asked'[r] = "apply"
        /\ \A q \in Requests : q # r =>
              pc'[q] = pc[q] /\ asked'[q] = asked[q] /\ cached'[q] = cached[q] /\ result'[q] = result[q]
    BY <1>1, FinishTyped DEF IInv
  <1>3. /\ asked[r] \in HandlerOperations \cup {"poll", "apply"}
        /\ result[r] \in {"dispatched", "failed"} /\ status \in Statuses
    BY DEF IInv, Typed, TypeOK
  <1>4. status' \in Statuses /\ (status' = "running" => status = "running" /\ ~Corrects(r))
    <2>1. CASE status = "gone"
      BY <1>3, <2>1 DEF Record
    <2>2. CASE status # "gone" /\ result[r] = "failed"
      BY <2>2 DEF Record, Outcome, Statuses, Stuck
    <2>3. CASE status # "gone" /\ result[r] # "failed" /\ asked[r] = "apply"
      BY <1>3, <2>3 DEF Record, Outcome, Corrects, Reconciles
    <2>4. CASE status # "gone" /\ result[r] # "failed" /\ asked[r] \in Reconciles
      BY <2>4 DEF Record, Outcome, Statuses, Stuck
    <2>5. CASE status # "gone" /\ result[r] # "failed" /\ asked[r] \in LifecycleOperations
      <3>1. asked[r] \notin Reconciles
        BY <2>5 DEF LifecycleOperations, Reconciles
      <3>2. status' \in {"stopping", "starting", "gone"}
        BY <2>5, <3>1 DEF Record, Outcome, LifecycleOperations
      <3>3. QED
        BY <3>2 DEF Statuses
    <2>6. QED
      BY <1>3, <2>1, <2>2, <2>3, <2>4, <2>5 DEF HandlerOperations, Reconciles
  <1>5. attempts' \in 0 .. MaxRetries + 1
    <2>1. attempts \in 0 .. MaxRetries + 1 /\ cached[r].attempts \in Nat
      BY DEF IInv, Typed, TypeOK
    <2>2. asked[r] \in Reconciles => cached[r].attempts <= MaxRetries
      BY <1>1 DEF IInv, Counted
    <2>3. QED
      BY <2>1, <2>2, InstanceAssumption DEF Record, Outcome
  <1>6. Typed'
    <2>1. TypeOK'
      BY <1>1, <1>4, <1>5, FinishTyped DEF IInv, Typed, TypeOK, agentVars
    <2>2. QED
      BY <1>1, <2>1, FinishTyped DEF IInv, Typed, agentVars, faultVars
  <1>7. Counted' /\ Reporting' /\ AtHome' /\ Owned' /\ Told'
    BY <1>1, <1>2, <1>4, RequestMoves DEF agentVars, faultVars
  <1>8. QED
    BY <1>6, <1>7 DEF IInv

-----------------------------------------------------------------------------
(* Steps of agents *)

\* What follows a report: the plan is over, or goes on without its first operation.
Over(n) ==
    /\ inbox' = [inbox EXCEPT ![n] = Tail(inbox[n])]
    /\ \A r \in Requests : r # Head(inbox[n]).from => pc'[r] = pc[r] /\ result'[r] = result[r]
    /\ Head(inbox[n]).from \in Requests => pc'[Head(inbox[n]).from] = "answered"
GoesOn(n) ==
    /\ \E next \in Plans :
        /\ inbox' = [inbox EXCEPT ![n] = <<next>> \o Tail(inbox[n])]
        /\ next.from = Head(inbox[n]).from
        /\ \A j \in DOMAIN next.todo : \E i \in DOMAIN Head(inbox[n]).todo : next.todo[j] = Head(inbox[n]).todo[i]
    /\ UNCHANGED <<pc, result>>

LEMMA ProceedSplits ==
    ASSUME Typed, NEW n \in Nodes, inbox[n] # <<>>, Proceed(n)
    PROVE  /\ Over(n) \/ GoesOn(n)
           /\ report' = [report EXCEPT ![n] = "none"]
           /\ pc' \in [Requests -> {"idle", "listed", "moved", "ready", "waiting", "answered"}]
           /\ result' \in [Requests -> {"dispatched", "failed"}]
  <1> DEFINE plan == Head(inbox[n])
  <1>1. plan \in Plans /\ inbox[n] \in Seq(Plans)
    BY TailOf DEF Typed
  <1>2. CASE report[n] = "failed" \/ Len(plan.todo) = 1
    <2>1. inbox' = [inbox EXCEPT ![n] = Tail(inbox[n])]
          /\ \E answer \in {"failed", "dispatched"} : Answer({plan.from} \ {Nobody}, answer)
      BY <1>2 DEF Proceed
    <2>2. QED
      BY <1>1, <2>1, InstanceAssumption DEF Proceed, Answer, Over, Typed, TypeOK
  <1>3. CASE ~(report[n] = "failed" \/ Len(plan.todo) = 1)
    <2> DEFINE next == [plan EXCEPT !.todo = Tail(plan.todo)]
    <2>1. inbox' = [inbox EXCEPT ![n] = <<next>> \o Tail(inbox[n])] /\ UNCHANGED <<pc, result>>
      BY <1>3 DEF Proceed
    <2>2. plan.todo \in Seq(AgentOperations) /\ plan.todo # <<>> /\ Len(plan.todo) # 1
      BY <1>1, <1>3 DEF Plans
    <2>3. Tail(plan.todo) \in Seq(AgentOperations) /\ Tail(plan.todo) # <<>>
      BY <2>2, RestOf
    <2>4. next.todo = Tail(plan.todo) /\ next.from = plan.from /\ next \in Plans
      BY <1>1, <2>3 DEF Plans
    <2>5. \A j \in DOMAIN next.todo : \E i \in DOMAIN plan.todo : next.todo[j] = plan.todo[i]
      BY <2>2, <2>4, TailOf
    <2> HIDE DEF next
    <2>6. GoesOn(n)
      BY <2>1, <2>4, <2>5 DEF GoesOn
    <2>7. QED
      BY <2>1, <2>6 DEF Proceed, Typed, TypeOK
  <1>4. QED
    BY <1>2, <1>3

\* What is in the inboxes afterwards was there before, except for the next plan.
LEMMA OverOwned ==
    ASSUME Typed, Owned, NEW n \in Nodes, inbox[n] # <<>>, Over(n), UNCHANGED <<asked, possible>>
    PROVE  Owned'
  <1> SUFFICES ASSUME NEW m \in Nodes, NEW k \in DOMAIN inbox'[m] PROVE OwnedPlan(m, k)'
    BY DEF Owned
  <1> DEFINE at(o, l) == IF o = n THEN l + 1 ELSE l
  <1>1. RequestsStay' <=> RequestsStay
    BY DEF RequestsStay
  <1>2. inbox[n] \in Seq(Plans) /\ 1 \in DOMAIN inbox[n] /\ Head(inbox[n]) = inbox[n][1]
    BY TailOf DEF Typed
  <1>3. ASSUME NEW o \in Nodes, NEW l \in DOMAIN inbox'[o]
        PROVE  /\ l \in Nat \ {0} /\ at(o, l) \in DOMAIN inbox[o]
               /\ inbox'[o][l] = inbox[o][at(o, l)]
               /\ o = n => at(o, l) # 1
    <2>1. inbox[o] \in Seq(Plans) /\ DOMAIN inbox[o] = 1 .. Len(inbox[o])
      BY DEF Typed
    <2>2. CASE o = n
      <3>1. inbox'[o] = Tail(inbox[n])
        BY <2>2 DEF Over, Typed
      <3>2. QED
        BY <1>2, <2>2, <3>1, TailOf
    <2>3. CASE o # n
      BY <2>1, <2>3 DEF Over, Typed
    <2>4. QED
      BY <2>2, <2>3
  <1> DEFINE from == inbox[m][at(m, k)].from
  <1>4. at(m, k) \in DOMAIN inbox[m] /\ inbox'[m][k] = inbox[m][at(m, k)] /\ OwnedPlan(m, at(m, k))
    BY <1>3 DEF Owned
  <1>5. CASE from = Nobody
    BY <1>1, <1>4, <1>5 DEF OwnedPlan
  <1>6. CASE from # Nobody
    <2>1. from \in Requests
      BY <1>4, <1>6, PlanOwned
    <2>2. from # Head(inbox[n]).from
      BY <1>2, <1>3, <1>4, <1>6 DEF OwnedPlan
    <2>3. pc'[from] = "waiting"
      BY <1>4, <1>6, <2>1, <2>2 DEF OwnedPlan, Over
    <2>4. ASSUME NEW o \in Nodes, NEW l \in DOMAIN inbox'[o], inbox'[o][l].from = from
          PROVE  o = m /\ l = k
      <3>1. o = m /\ at(o, l) = at(m, k)
        BY <1>3, <1>4, <1>6, <2>4 DEF OwnedPlan
      <3>2. QED
        BY <1>3, <3>1
    <2>5. QED
      BY <1>4, <1>6, <2>3, <2>4 DEF OwnedPlan
  <1>7. QED
    BY <1>5, <1>6

LEMMA GoesOnOwned ==
    ASSUME Typed, Owned, NEW n \in Nodes, inbox[n] # <<>>, GoesOn(n), UNCHANGED <<asked, possible>>
    PROVE  Owned'
  <1> SUFFICES ASSUME NEW m \in Nodes, NEW k \in DOMAIN inbox'[m] PROVE OwnedPlan(m, k)'
    BY DEF Owned
  <1>1. RequestsStay' <=> RequestsStay
    BY DEF RequestsStay
  <1>2. PICK next \in Plans :
            /\ inbox' = [inbox EXCEPT ![n] = <<next>> \o Tail(inbox[n])]
            /\ next.from = Head(inbox[n]).from
            /\ \A j \in DOMAIN next.todo : \E i \in DOMAIN Head(inbox[n]).todo : next.todo[j] = Head(inbox[n]).todo[i]
    BY DEF GoesOn
  <1>3. inbox[n] \in Seq(Plans) /\ 1 \in DOMAIN inbox[n] /\ Head(inbox[n]) = inbox[n][1]
    BY TailOf DEF Typed
  <1>4. ASSUME NEW o \in Nodes, NEW l \in DOMAIN inbox'[o]
        PROVE  /\ l \in DOMAIN inbox[o] /\ inbox'[o][l].from = inbox[o][l].from
               /\ \A j \in DOMAIN inbox'[o][l].todo : \E i \in DOMAIN inbox[o][l].todo :
                     inbox'[o][l].todo[j] = inbox[o][l].todo[i]
    <2>1. CASE o = n
      <3>1. inbox'[o] = <<next>> \o Tail(inbox[n])
        BY <1>2, <2>1 DEF Typed
      <3>2. /\ DOMAIN inbox'[o] = DOMAIN inbox[n] /\ inbox'[o][1] = next
            /\ \A i \in DOMAIN inbox[n] : i # 1 => inbox'[o][i] = inbox[n][i]
        BY <1>3, <3>1, HeadReplaced
      <3>3. CASE l = 1
        BY <1>2, <1>3, <2>1, <3>2, <3>3
      <3>4. CASE l # 1
        BY <2>1, <3>2, <3>4
      <3>5. QED
        BY <3>3, <3>4
    <2>2. CASE o # n
      BY <1>2, <2>2 DEF Typed
    <2>3. QED
      BY <2>1, <2>2
  <1>5. k \in DOMAIN inbox[m] /\ OwnedPlan(m, k)
    BY <1>4 DEF Owned
  <1>6. CASE inbox[m][k].from = Nobody
    BY <1>1, <1>4, <1>5, <1>6 DEF OwnedPlan
  <1>7. CASE inbox[m][k].from # Nobody
    <2>1. ASSUME NEW j \in DOMAIN inbox'[m][k].todo, inbox'[m][k].todo[j] \in {"stop", "remove"}
          PROVE  asked[inbox[m][k].from] # "apply"
      BY <1>4, <1>5, <1>7, <2>1 DEF OwnedPlan
    <2>2. ASSUME NEW o \in Nodes, NEW l \in DOMAIN inbox'[o], inbox'[o][l].from = inbox'[m][k].from
          PROVE  o = m /\ l = k
      BY <1>4, <1>5, <1>7, <2>2 DEF OwnedPlan
    <2>3. pc'[inbox[m][k].from] = "waiting" /\ inbox'[m][k].from = inbox[m][k].from
      BY <1>4, <1>5, <1>7 DEF OwnedPlan, GoesOn
    <2>4. QED
      BY <1>7, <2>1, <2>2, <2>3 DEF OwnedPlan
  <1>8. QED
    BY <1>6, <1>7

\* A report that is handled or lost.
LEMMA ProceedKeeps ==
    ASSUME IInv, NEW n \in Nodes, report[n] # "none", Proceed(n),
           UNCHANGED <<attempts, home, online, asked, cached, nodesSeen, container, faultVars>>,
           status' \in Statuses,
           status' = "running" => status = "running" \/ report[n] = "running",
           ReportsArrive /\ report[n] = "stopped" => status' # "running"
    PROVE  IInv'
  <1>0. Typed /\ Owned /\ inbox[n] # <<>>
    BY DEF IInv, Reporting
  <1>1. /\ Over(n) \/ GoesOn(n)
        /\ report' = [report EXCEPT ![n] = "none"]
        /\ pc' \in [Requests -> {"idle", "listed", "moved", "ready", "waiting", "answered"}]
        /\ result' \in [Requests -> {"dispatched", "failed"}]
    BY <1>0, ProceedSplits
  <1>2. inbox[n] \in Seq(Plans) /\ 1 \in DOMAIN inbox[n] /\ Head(inbox[n]) = inbox[n][1]
    BY <1>0, TailOf DEF Typed
  <1>3. inbox' \in [Nodes -> Seq(Plans)] /\ \A m \in Nodes : m # n => inbox'[m] = inbox[m]
    <2>1. CASE Over(n)
      BY <1>0, <1>2, <2>1, TailOf DEF Over, Typed
    <2>2. CASE GoesOn(n)
      BY <1>0, <1>2, <2>2, HeadReplaced DEF GoesOn, Typed
    <2>3. QED
      BY <1>1, <2>1, <2>2
  <1>4. Typed'
    <2>1. TypeOK'
      BY <1>0, <1>1 DEF Typed, TypeOK, faultVars
    <2>2. QED
      BY <1>0, <1>3, <2>1 DEF Typed, faultVars
  <1>5. Reporting'
    BY <1>0, <1>1, <1>3 DEF IInv, Reporting, Typed, TypeOK
  <1>6. Owned'
    BY <1>0, <1>1, OverOwned, GoesOnOwned DEF faultVars
  <1>7. \A r \in Requests : pc'[r] # pc[r] => pc'[r] = "answered" /\ r = Head(inbox[n]).from
    BY <1>1 DEF Over, GoesOn
  <1>8. AtHome'
    <2> SUFFICES ASSUME ~Movable
                 PROVE  /\ \A r \in Requests : pc'[r] = "ready" => cached'[r].home = home'
                        /\ \A m \in Nodes : m # home' => inbox'[m] = <<>>
      BY DEF AtHome
    <2>1. n = home
      BY <1>0 DEF IInv, AtHome
    <2>2. QED
      BY <1>3, <1>7, <2>1 DEF IInv, AtHome
  <1>9. Counted'
    <2> SUFFICES ASSUME NEW r \in Requests, asked[r] \in Reconciles, pc'[r] \in {"ready", "waiting", "answered"},
                        pc'[r] # pc[r]
                 PROVE  cached[r].attempts <= MaxRetries
      BY DEF IInv, Counted
    <2>1. r = Head(inbox[n]).from /\ r # Nobody
      BY <1>7, InstanceAssumption
    <2>2. pc[r] = "waiting"
      BY <1>0, <1>2, <2>1, PlanOwned
    <2>3. QED
      BY <2>2 DEF IInv, Counted
  <1>10. Told'
    <2> SUFFICES ASSUME ~Movable, Stale' PROVE ToldByReport' /\ ToldByAnswer'
      BY DEF Told
    <2>1. n = home /\ home' = home
      BY <1>0 DEF IInv, AtHome
    <2>2. status = "running"
      BY <1>0, <2>1 DEF Stale, IInv, Reporting
    <2>3. ToldByReport /\ ToldByAnswer
      BY <2>1, <2>2 DEF IInv, Told, Stale
    <2>4. ~ReportsArrive
      BY <2>1, <2>3 DEF ToldByReport, Stale
    <2>5. ToldByReport'
      BY <2>4 DEF ToldByReport, ReportsArrive, faultVars
    <2>6. ToldByAnswer'
      <3> SUFFICES ASSUME RequestsStay
                   PROVE  \/ \E r \in Requests : Corrects(r)'
                          \/ inbox'[home] # <<>> /\ asked'[Head(inbox'[home]).from] # "apply"
        BY <2>1 DEF ToldByAnswer, RequestsStay, faultVars
      <3>1. Head(inbox[n]).from \in Requests /\ pc[Head(inbox[n]).from] = "waiting"
        BY <1>0, <1>2, PlanOwned
      <3>2. CASE \E r \in Requests : Corrects(r)
        <4>1. PICK r \in Requests : Corrects(r)
          BY <3>2
        <4>2. r # Head(inbox[n]).from
          BY <3>1, <4>1 DEF Corrects
        <4>3. Corrects(r)'
          BY <1>1, <4>1, <4>2 DEF Corrects, Over, GoesOn
        <4>4. QED
          BY <4>3
      <3>3. CASE asked[Head(inbox[home]).from] # "apply" /\ Over(n)
        BY <2>1, <3>1, <3>3 DEF Over, Corrects
      <3>4. CASE asked[Head(inbox[home]).from] # "apply" /\ GoesOn(n)
        <4>1. inbox'[n] # <<>> /\ Head(inbox'[n]).from = Head(inbox[n]).from
          BY <1>0, <1>2, <3>4, HeadReplaced DEF GoesOn, Typed
        <4>2. QED
          BY <2>1, <3>4, <4>1
      <3>5. QED
        BY <1>1, <2>3, <3>2, <3>3, <3>4 DEF ToldByAnswer
    <2>7. QED
      BY <2>5, <2>6
  <1>11. QED
    BY <1>4, <1>5, <1>6, <1>8, <1>9, <1>10 DEF IInv

LEMMA HandleReportKeeps ==
    ASSUME IInv, NEW n \in Nodes, HandleReport(n) PROVE IInv'
  <1>1. report[n] \in {"silent", "running", "stopped", "failed"} /\ status \in Statuses
    BY DEF HandleReport, IInv, Typed, TypeOK
  <1>2. status' = IF status = "gone" \/ report[n] = "silent" THEN status ELSE report[n]
    BY DEF HandleReport
  <1>3. status' \in Statuses
    BY <1>1, <1>2 DEF Statuses, Stuck
  <1>4. QED
    BY <1>1, <1>2, <1>3, ProceedKeeps DEF HandleReport

LEMMA LoseReportKeeps ==
    ASSUME IInv, NEW n \in Nodes, LoseReport(n) PROVE IInv'
  <1>1. ~ReportsArrive
    BY DEF LoseReport, ReportsArrive
  <1>2. UNCHANGED rowVars /\ status \in Statuses
    BY DEF LoseReport, IInv, Typed, TypeOK
  <1>3. QED
    BY <1>1, <1>2, ProceedKeeps DEF LoseReport, rowVars

\* A container that stops is one that the agent is about to report, and its plan
\* is not an apply's.
LEMMA PerformKeeps ==
    ASSUME IInv, NEW n \in Nodes, Perform(n) PROVE IInv'
  <1> DEFINE operation == Head(Head(inbox[n]).todo)
  <1>1. /\ inbox[n] # <<>> /\ report[n] = "none"
        /\ UNCHANGED <<rowVars, online, requestVars, inbox, faultVars>>
    BY DEF Perform
  <1>2. inbox[n] \in Seq(Plans) /\ 1 \in DOMAIN inbox[n] /\ Head(inbox[n]) = inbox[n][1] /\ inbox[n][1] \in Plans
    BY <1>1, TailOf DEF IInv, Typed
  <1>3. /\ operation \in AgentOperations
        /\ 1 \in DOMAIN Head(inbox[n]).todo /\ operation = Head(inbox[n]).todo[1]
    BY <1>2, TailOf DEF Plans
  <1>4. \/ /\ container' = [container EXCEPT ![n] = Effect(operation, container[n])]
           /\ report' = [report EXCEPT ![n] = ReportOf(operation)]
        \/ report' = [report EXCEPT ![n] = "failed"] /\ container' = container
    BY DEF Perform
  <1>5. container[n] \in {"none", "stopped", "running"}
    BY DEF IInv, Typed, TypeOK
  <1> HIDE DEF operation
  <1>6. /\ Effect(operation, container[n]) \in {"none", "stopped", "running"}
        /\ ReportOf(operation) \in {"silent", "running", "stopped"}
        /\ ReportOf(operation) = "running" => Effect(operation, container[n]) = "running"
        /\ container[n] = "running" /\ Effect(operation, container[n]) # "running"
              => operation \in {"stop", "remove"} /\ ReportOf(operation) = "stopped"
    BY <1>3, <1>5 DEF Effect, ReportOf, AgentOperations
  <1>7. Typed'
    <2>1. container' \in [Nodes -> {"none", "stopped", "running"}]
      BY <1>4, <1>6 DEF IInv, Typed, TypeOK
    <2>1a. report' \in [Nodes -> {"none", "silent", "running", "stopped", "failed"}]
      <3>1. report \in [Nodes -> {"none", "silent", "running", "stopped", "failed"}]
        BY DEF IInv, Typed, TypeOK
      <3>2. \E answer \in {"silent", "running", "stopped", "failed"} : report' = [report EXCEPT ![n] = answer]
        BY <1>4, <1>6
      <3>3. QED
        BY <3>1, <3>2
    <2>2. TypeOK'
      BY <1>1, <2>1, <2>1a DEF IInv, Typed, TypeOK, rowVars, requestVars
    <2>3. QED
      BY <1>1, <2>2 DEF IInv, Typed, requestVars, faultVars
  <1>8. Counted' /\ AtHome' /\ Owned'
    BY <1>1 DEF IInv, Counted, AtHome, Owned, OwnedPlan, RequestsStay, rowVars, requestVars, faultVars
  <1>9. Reporting'
    BY <1>1, <1>4, <1>6 DEF IInv, Reporting, Typed, TypeOK
  <1>10. Told'
    <2> SUFFICES ASSUME ~Movable, Stale' PROVE ToldByReport' /\ ToldByAnswer'
      BY DEF Told
    <2>1. n = home /\ home' = home /\ status = "running"
      BY <1>1 DEF IInv, AtHome, Stale, rowVars
    <2>2. CASE Stale
      <3>1. ToldByReport /\ ToldByAnswer /\ ~ReportsArrive
        BY <1>1, <2>1, <2>2 DEF IInv, Told, ToldByReport
      <3>2. QED
        BY <1>1, <2>1, <3>1
        DEF ToldByReport, ToldByAnswer, ReportsArrive, RequestsStay, Corrects, requestVars, faultVars
    <2>3. CASE ~Stale
      <3>1. container[n] = "running" /\ container'[n] # "running"
        BY <2>1, <2>3 DEF Stale
      <3>2. operation \in {"stop", "remove"} /\ report'[n] = "stopped"
        BY <1>4, <1>6, <3>1 DEF IInv, Typed, TypeOK
      <3>3. ToldByReport'
        BY <2>1, <3>2 DEF ToldByReport
      <3>4. RequestsStay => asked[Head(inbox[n]).from] # "apply"
        BY <1>2, <1>3, <3>2 DEF IInv, Owned, OwnedPlan
      <3>5. ToldByAnswer'
        BY <1>1, <2>1, <3>4 DEF ToldByAnswer, RequestsStay, requestVars, faultVars
      <3>6. QED
        BY <3>3, <3>5
    <2>4. QED
      BY <2>2, <2>3
  <1>11. QED
    BY <1>7, <1>8, <1>9, <1>10 DEF IInv

-----------------------------------------------------------------------------
(* Faults *)

\* A request that is lost, when requests may be.
LEMMA DisownKeeps ==
    ASSUME IInv, NEW r \in Requests, ~RequestsStay,
           inbox' = [n \in Nodes |-> Disown(n, r)],
           UNCHANGED <<rowVars, online, container, report, possible>>,
           pc'[r] \in {"answered", "idle"},
           \A q \in Requests : q # r => pc'[q] = pc[q] /\ asked'[q] = asked[q] /\ cached'[q] = cached[q]
    PROVE  inbox' \in [Nodes -> Seq(Plans)] /\ Reporting' /\ AtHome' /\ Owned' /\ Told'
  <1>1. inbox' \in [Nodes -> Seq(Plans)] /\ \A n \in Nodes : inbox[n] # <<>> <=> inbox'[n] # <<>>
    BY Disowned DEF IInv
  <1>2. Reporting'
    BY <1>1 DEF IInv, Reporting
  <1>3. AtHome'
    BY <1>1 DEF IInv, AtHome, rowVars
  <1>4. ASSUME NEW n \in Nodes, NEW k \in DOMAIN inbox'[n]
        PROVE  /\ k \in DOMAIN inbox[n] /\ inbox'[n][k].todo = inbox[n][k].todo
               /\ inbox'[n][k].from = IF inbox[n][k].from = r THEN Nobody ELSE inbox[n][k].from
    <2>1. /\ k \in DOMAIN inbox[n]
          /\ inbox'[n][k] = IF inbox[n][k].from = r THEN [inbox[n][k] EXCEPT !.from = Nobody] ELSE inbox[n][k]
      BY DEF Disown
    <2>2. inbox[n][k] \in Plans
      BY <2>1, PlanOwned DEF IInv
    <2>3. QED
      BY <2>1, <2>2 DEF Plans
  <1>5. Owned'
    <2> SUFFICES ASSUME NEW n \in Nodes, NEW k \in DOMAIN inbox'[n], inbox'[n][k].from # Nobody
                 PROVE  OwnedPlan(n, k)'
      BY DEF Owned, OwnedPlan, RequestsStay
    <2>1. k \in DOMAIN inbox[n] /\ inbox'[n][k].from = inbox[n][k].from /\ inbox[n][k].from # r
      BY <1>4
    <2>2. OwnedPlan(n, k) /\ inbox[n][k].from \in Requests
      BY <2>1, PlanOwned DEF IInv, Owned
    <2>3. ASSUME NEW m \in Nodes, NEW l \in DOMAIN inbox'[m], inbox'[m][l].from = inbox[n][k].from
          PROVE  m = n /\ l = k
      <3>1. l \in DOMAIN inbox[m] /\ inbox[m][l].from = inbox[n][k].from
        BY <1>4, <2>1, <2>3
      <3>2. QED
        BY <2>1, <2>2, <3>1 DEF OwnedPlan
    <2>4. QED
      BY <1>4, <2>1, <2>2, <2>3 DEF OwnedPlan
  <1>6. Told'
    BY DEF IInv, Told, Stale, ToldByReport, ToldByAnswer, ReportsArrive, RequestsStay, rowVars
  <1>7. QED
    BY <1>1, <1>2, <1>3, <1>5, <1>6

LEMMA GiveUpKeeps ==
    ASSUME IInv, NEW r \in Requests, GiveUp(r) PROVE IInv'
  <1>1. /\ pc[r] \in {"ready", "waiting"} /\ pc'[r] = "answered"
        /\ pc' \in [Requests -> {"idle", "listed", "moved", "ready", "waiting", "answered"}]
        /\ result' \in [Requests -> {"dispatched", "failed"}]
        /\ \A q \in Requests : q # r => pc'[q] = pc[q]
        /\ inbox' = [n \in Nodes |-> Disown(n, r)]
        /\ UNCHANGED <<rowVars, online, asked, cached, nodesSeen, container, report, possible>>
    BY DEF GiveUp, Fault, Answer, IInv, Typed, TypeOK
  <1>2. ~RequestsStay
    BY DEF GiveUp, Fault, RequestsStay
  <1>3. inbox' \in [Nodes -> Seq(Plans)] /\ Reporting' /\ AtHome' /\ Owned' /\ Told'
    BY <1>1, <1>2, DisownKeeps
  <1>4. Typed'
    <2>1. TypeOK'
      BY <1>1 DEF IInv, Typed, TypeOK, rowVars
    <2>2. QED
      BY <1>1, <1>3, <2>1 DEF IInv, Typed
  <1>5. Counted'
    BY <1>1 DEF IInv, Counted
  <1>6. QED
    BY <1>3, <1>4, <1>5 DEF IInv

LEMMA LoseRequestKeeps ==
    ASSUME IInv, NEW r \in Requests, LoseRequest(r) PROVE IInv'
  <1>1. /\ Finish(r) /\ inbox' = [n \in Nodes |-> Disown(n, r)]
        /\ UNCHANGED <<rowVars, online, container, report, possible>>
    BY DEF LoseRequest, Fault
  <1>2. ~RequestsStay
    BY DEF LoseRequest, Fault, RequestsStay
  <1>3. /\ pc'[r] = "idle"
        /\ \A q \in Requests : q # r => pc'[q] = pc[q] /\ asked'[q] = asked[q] /\ cached'[q] = cached[q]
    BY <1>1, FinishTyped DEF IInv
  <1>4. inbox' \in [Nodes -> Seq(Plans)] /\ Reporting' /\ AtHome' /\ Owned' /\ Told'
    BY <1>1, <1>2, <1>3, DisownKeeps
  <1>5. Typed'
    <2>1. TypeOK'
      BY <1>1, FinishTyped DEF IInv, Typed, TypeOK, rowVars
    <2>2. QED
      BY <1>1, <1>4, <2>1, FinishTyped DEF IInv, Typed
  <1>6. Counted'
    BY <1>3 DEF IInv, Counted
  <1>7. QED
    BY <1>4, <1>5, <1>6 DEF IInv

\* The requests that wait for an agent that restarts have an answer, which
\* corrects the row.
LEMMA RestartAgentKeeps ==
    ASSUME IInv, NEW n \in Nodes, RestartAgent(n) PROVE IInv'
  <1> DEFINE cutOff == {inbox[n][k].from : k \in DOMAIN inbox[n]} \ {Nobody}
  <1>1. /\ inbox' = [inbox EXCEPT ![n] = <<>>] /\ report' = [report EXCEPT ![n] = "none"]
        /\ pc' = [r \in Requests |-> IF r \in cutOff THEN "answered" ELSE pc[r]]
        /\ result' = [r \in Requests |-> IF r \in cutOff THEN "failed" ELSE result[r]]
        /\ UNCHANGED <<rowVars, online, asked, cached, nodesSeen, container, possible>>
    BY DEF RestartAgent, Fault, Answer
  <1>2. ~ReportsArrive
    BY DEF RestartAgent, Fault, ReportsArrive
  <1>3. \A r \in cutOff : r \in Requests /\ pc[r] = "waiting"
    BY PlanOwned DEF IInv
  <1>3a. \A r \in cutOff : Corrects(r)'
    <2> HIDE DEF cutOff
    <2>1. QED
      BY <1>1, <1>3 DEF Corrects
  <1>4. <<>> \in Seq(Plans) /\ inbox'[n] = <<>> /\ \A m \in Nodes : m # n => inbox'[m] = inbox[m]
    BY <1>1 DEF IInv, Typed
  <1>5. Typed'
    <2>1. TypeOK'
      BY <1>1 DEF IInv, Typed, TypeOK, rowVars
    <2>2. QED
      BY <1>1, <1>4, <2>1 DEF IInv, Typed
  <1>6. Counted'
    BY <1>1, <1>3 DEF IInv, Counted
  <1>7. Reporting'
    BY <1>1, <1>4 DEF IInv, Reporting, Typed, TypeOK
  <1>8. AtHome'
    BY <1>1, <1>4 DEF IInv, AtHome, rowVars
  <1>9. Owned'
    <2> SUFFICES ASSUME NEW m \in Nodes, NEW k \in DOMAIN inbox'[m] PROVE OwnedPlan(m, k)'
      BY DEF Owned
    <2>1. m # n /\ inbox'[m] = inbox[m] /\ k \in DOMAIN inbox[m] /\ OwnedPlan(m, k)
      BY <1>4 DEF IInv, Owned
    <2>2. inbox[m][k].from \notin cutOff
      BY <2>1 DEF OwnedPlan
    <2>3. inbox[m][k].from # Nobody => pc'[inbox[m][k].from] = pc[inbox[m][k].from]
      BY <1>1, <2>1, <2>2, PlanOwned DEF IInv
    <2>4. \A o \in Nodes : \A l \in DOMAIN inbox'[o] : l \in DOMAIN inbox[o] /\ inbox'[o][l] = inbox[o][l]
      BY <1>4
    <2>5. QED
      BY <1>1, <2>1, <2>3, <2>4 DEF OwnedPlan, RequestsStay
  <1>10. Told'
    <2> SUFFICES ASSUME ~Movable, Stale' PROVE ToldByReport' /\ ToldByAnswer'
      BY DEF Told
    <2>1. home \in Nodes /\ home' = home /\ ToldByAnswer
      BY <1>1 DEF IInv, Told, Stale, Typed, TypeOK, rowVars
    <2>2. ToldByReport'
      BY <1>1, <1>2 DEF ToldByReport, ReportsArrive
    <2>3. ToldByAnswer'
      <3> SUFFICES ASSUME RequestsStay
                   PROVE  \/ \E r \in Requests : Corrects(r)'
                          \/ inbox'[home] # <<>> /\ asked'[Head(inbox'[home]).from] # "apply"
        BY <1>1, <2>1 DEF ToldByAnswer, RequestsStay
      <3>1. CASE \E r \in Requests : Corrects(r)
        BY <1>1, <3>1 DEF Corrects
      <3>2. CASE inbox[home] # <<>> /\ asked[Head(inbox[home]).from] # "apply" /\ n = home
        <4>1. 1 \in DOMAIN inbox[n] /\ Head(inbox[n]) = inbox[n][1]
          BY <3>2, TailOf DEF IInv, Typed
        <4>2. inbox[n][1].from \in cutOff
          BY <4>1, PlanOwned DEF IInv
        <4> HIDE DEF cutOff
        <4>3. QED
          BY <1>3, <1>3a, <4>2
      <3>3. CASE inbox[home] # <<>> /\ asked[Head(inbox[home]).from] # "apply" /\ n # home
        BY <1>1, <1>4, <2>1, <3>3
      <3>4. QED
        BY <2>1, <3>1, <3>2, <3>3 DEF ToldByAnswer
    <2>4. QED
      BY <2>2, <2>3
  <1>11. QED
    BY <1>5, <1>6, <1>7, <1>8, <1>9, <1>10 DEF IInv

\* What a node's row says of it, and stuttering.
LEMMA OnlineKeeps ==
    ASSUME IInv, UNCHANGED <<rowVars, requestVars, agentVars, possible>>, online' \subseteq Nodes
    PROVE  IInv'
  <1>1. Typed'
    BY DEF IInv, Typed, TypeOK, rowVars, requestVars, agentVars
  <1>2. Counted' /\ Reporting' /\ AtHome' /\ Owned'
    BY DEF IInv, Counted, Reporting, AtHome, Owned, OwnedPlan, RequestsStay, rowVars, requestVars, agentVars
  <1>3. Told'
    BY DEF IInv, Told, Stale, ToldByReport, ToldByAnswer, ReportsArrive, RequestsStay, Corrects,
           rowVars, requestVars, agentVars
  <1>4. QED
    BY <1>1, <1>2, <1>3 DEF IInv

-----------------------------------------------------------------------------
LEMMA Begins == Init => IInv
  <1> SUFFICES ASSUME Init PROVE IInv
    OBVIOUS
  <1>1. PICK r \in Requests : pc = [q \in Requests |-> IF q = r THEN "ready" ELSE "idle"]
    BY DEF Init
  <1>2. TypeOK
    BY <1>1, InstanceAssumption DEF Init, TypeOK, Statuses, Stuck
  <1>3. cached \in [Requests -> [status : Statuses, attempts : Nat, home : Nodes \cup {Nobody}]]
    BY <1>1 DEF Init, Kept, Nothing, Reconciles, Statuses, Stuck
  <1>4. Typed
    BY <1>2, <1>3 DEF Init, Typed
  <1>5. Counted
    BY DEF Init, Counted, Reconciles
  <1>6. AtHome
    BY <1>1, <1>4, KeptOfRow DEF Init, AtHome
  <1>7. Reporting /\ Owned /\ Told
    BY DEF Init, Reporting, Owned, Told, Stale
  <1>8. QED
    BY <1>4, <1>5, <1>6, <1>7 DEF IInv

LEMMA IInvKept == IInv /\ [Next]_vars => IInv'
  <1> SUFFICES ASSUME IInv, [Next]_vars PROVE IInv'
    OBVIOUS
  <1>1. ASSUME NEW r \in Pollers, ListAll(r) PROVE IInv'
    BY <1>1, ListAllKeeps
  <1>2. ASSUME NEW r \in Handlers, NEW operation \in Operations, Reconcile(r, operation) \/ Order(r, operation)
        PROVE  IInv'
    BY <1>2, ReconcileKeeps, OrderKeeps
  <1>3. ASSUME NEW r \in Requests, RequestStep(r) \/ GiveUp(r) \/ LoseRequest(r) PROVE IInv'
    BY <1>3, RescheduleKeeps, RemainKeeps, ListAgainKeeps, DispatchKeeps, RecordKeeps, GiveUpKeeps,
       LoseRequestKeeps DEF RequestStep
  <1>4. ASSUME NEW n \in Nodes, AgentStep(n) \/ LoseReport(n) \/ RestartAgent(n) PROVE IInv'
    BY <1>4, PerformKeeps, HandleReportKeeps, LoseReportKeeps, RestartAgentKeeps DEF AgentStep
  <1>5. ASSUME NEW n \in Nodes, GoOffline(n) \/ Heartbeat(n) PROVE IInv'
    <2>1. online' \subseteq Nodes
      BY <1>5 DEF GoOffline, Heartbeat, IInv, Typed, TypeOK
    <2>2. QED
      BY <1>5, <2>1, OnlineKeeps DEF GoOffline, Heartbeat, Fault, faultVars
  <1>6. CASE UNCHANGED vars
    BY <1>6, OnlineKeeps DEF vars, faultVars, IInv, Typed, TypeOK
  <1>7. QED
    BY <1>1, <1>2, <1>3, <1>4, <1>5, <1>6 DEF Next

\* The variables keep their types; that the attempts stay bounded takes what
\* requests have read of them.
THEOREM InstanceTyped == Spec => []TypeOK
  <1>1. IInv => TypeOK
    BY DEF IInv, Typed
  <1>2. QED
    BY <1>1, Begins, IInvKept, PTL DEF Spec

\* The faults of a behaviour leave one of the two that tell of a stop: the
\* report or the request.
OneTells ==
    \A F \in FaultSets : F \cap {"lost", "agent"} = {} \/ F \cap {"timeout", "server"} = {}

\* RunningIsTrue, for an instance that may not move and any number of polls,
\* handlers and faults: whatever overtakes what, a row does not stay "running"
\* when the agent has stopped or removed the container.
THEOREM RunningRowsAreTrue ==
    ASSUME ~Movable, OneTells
    PROVE  Spec => []RunningIsTrue
  <1>1. IInv => RunningIsTrue
    <2> SUFFICES ASSUME IInv, Settled, Stale PROVE FALSE
      BY DEF RunningIsTrue, Stale
    <2>1. home \in Nodes /\ possible \in FaultSets
      BY DEF IInv, Typed, TypeOK
    <2>2. inbox[home] = <<>> /\ report[home] = "none"
      BY <2>1 DEF Settled, IInv, Reporting
    <2>3. ~ReportsArrive
      BY <2>2 DEF IInv, Told, ToldByReport
    <2>4. ~RequestsStay
      BY <2>2 DEF IInv, Told, ToldByAnswer, Settled, Corrects
    <2>5. QED
      BY <2>1, <2>3, <2>4 DEF OneTells, ReportsArrive, RequestsStay
  <1>2. QED
    BY <1>1, Begins, IInvKept, PTL DEF Spec
=============================================================================
