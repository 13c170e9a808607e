---------------------------- MODULE BackgroundProofs ----------------------------
(* Proofs about the background parts, NodeLife and SandboxPool: for any number *)
(* of overlapping polls, terminations, requests, sweeps, builds and runs, any  *)
(* size of the pool, any number of faults and every schedule.                  *)
EXTENDS NodeLife, SandboxPool, FiniteSetTheorems, TLAPS

(* NodeLife *)

Functions ==
    /\ pc = [j \in Jobs |-> pc[j]]
    /\ copy = [p \in Polls |-> copy[p]]
    /\ seen = [j \in Polls \cup Requests |-> seen[j]]
    /\ done \in BOOLEAN

\* Whoever works on the record or for the node does so for a machine that was
\* launched.
MachineThere ==
    /\ pc[Launch] \in {"launched", "launching"} => machine # "none"
    /\ \A p \in Polls : pc[p] \in {"asking", "answered"} => machine # "none"
    /\ \A j \in Terminations \cup Requests : pc[j] # "idle" => machine # "none"

\* A poll has read a record in flight, and it is the one that is saved unless
\* somebody has overwritten it since.
CopiesFresh ==
    \A p \in Polls : pc[p] \in {"asking", "answered"} =>
        copy[p] \in InFlight /\ (p \notin dated => copy[p] = status)

\* So is the record that the launch has in hand.
LaunchFresh ==
    Launch \notin dated =>
        /\ pc[Launch] \in {"calling", "launched"} => status = "pending"
        /\ pc[Launch] = "launching" => status = "launching"
        /\ pc[Launch] = "failing" => status \in {"pending", "launching"}

\* A registration is recorded in a record that there is.
RecordThere == done => status # "none"

Sound ==
    /\ TypeOK /\ Functions /\ MachineThere /\ CopiesFresh /\ LaunchFresh
    /\ RecordThere /\ RegisteredSettles

-----------------------------------------------------------------------------
LEMMA JobsApart ==
    /\ Launch \in Writers /\ Launch \in Jobs
    /\ \A p \in Polls : p \in Writers /\ p \in Jobs /\ p # Launch /\ p \notin Requests
    /\ \A t \in Terminations :
           t \in Writers /\ t \in Jobs /\ t # Launch /\ t \notin Polls /\ t \notin Requests
    /\ \A q \in Requests :
           q \in Writers /\ q \in Jobs /\ q # Launch /\ q \notin Polls /\ q \notin Terminations
    /\ \A w \in Sweeps : w \in Jobs /\ w \notin Writers
BY NodeAssumption DEF Writers, Jobs

LEMMA HoldersAre ==
    /\ Holders \subseteq Writers
    /\ \A p \in Polls : pc[p] \in {"asking", "answered"} => p \in Holders
    /\ pc[Launch] \in {"calling", "launched", "launching", "failing"} => Launch \in Holders
BY JobsApart DEF Holders

\* What the machine tells never takes a record in flight back.
LEMMA MappedForward ==
    ASSUME NEW s \in InFlight, NEW state
    PROVE  /\ Mapped(s, state) \in InFlight \cup {"failed"}
           /\ Rank(Mapped(s, state)) >= Rank(s)
BY DEF InFlight, Mapped, Rank

\* Steps that do not save the record: a job that still holds its copy has had it
\* before, or reads the record now.
LEMMA OtherStep ==
    ASSUME Sound, TypeOK', Functions', UNCHANGED <<status, lost, done>>,
           excuses \subseteq excuses',
           machine # "none" => machine' # "none",
           \A j \in Writers : j \in dated => j \in dated' \/ pc'[j] \in {"idle", "over"},
           \A p \in Polls : pc'[p] \in {"asking", "answered"} =>
               \/ pc[p] \in {"asking", "answered"} /\ copy'[p] = copy[p]
               \/ status \in InFlight /\ machine # "none" /\ copy'[p] = status,
           \A j \in Terminations \cup Requests :
               pc'[j] # "idle" => pc[j] # "idle" \/ machine # "none",
           \/ pc'[Launch] = pc[Launch]
           \/ pc[Launch] = "calling" /\ pc'[Launch] = "launched" /\ machine' # "none"
           \/ pc[Launch] \in {"calling", "launched", "launching"} /\ pc'[Launch] = "failing"
           \/ pc'[Launch] = "over"
    PROVE  Sound'
<1>1. MachineThere'
  BY DEF Sound, MachineThere
<1>2. CopiesFresh'
  BY JobsApart DEF Sound, CopiesFresh
<1>3. LaunchFresh'
  BY JobsApart DEF Sound, LaunchFresh
<1>4. RegisteredSettles' /\ RecordThere'
  BY DEF Sound, RegisteredSettles, RecordThere
<1> QED
  BY <1>1, <1>2, <1>3, <1>4 DEF Sound

\* After a save nobody but the job that saved has the record that is saved.
LEMMA SaveStep ==
    ASSUME Sound, TypeOK', Functions', NEW j \in Writers, NEW to, NEW id, Save(j, to, id),
           UNCHANGED machine,
           to # "none",
           done' => to \notin InFlight \/ "lost update" \in excuses',
           \A p \in Polls : pc'[p] \in {"asking", "answered"} =>
               p # j /\ pc[p] \in {"asking", "answered"} /\ copy'[p] = copy[p],
           \A k \in Terminations \cup Requests : pc'[k] # "idle" => pc[k] # "idle",
           j # Launch => pc'[Launch] = pc[Launch],
           j = Launch => \/ pc'[Launch] = "calling" /\ to = "pending"
                         \/ pc'[Launch] = "launching" /\ to = "launching" /\ machine # "none"
                         \/ pc'[Launch] = "over"
    PROVE  Sound'
<1>1. MachineThere'
  BY JobsApart DEF Sound, MachineThere
<1>2. CopiesFresh'
  BY HoldersAre DEF Sound, CopiesFresh, Save
<1>3. LaunchFresh'
  BY HoldersAre DEF Sound, LaunchFresh, Save
<1>4. RegisteredSettles' /\ RecordThere'
  BY DEF Sound, RegisteredSettles, RecordThere, Save
<1> QED
  BY <1>1, <1>2, <1>3, <1>4 DEF Sound

-----------------------------------------------------------------------------
\* A save that is not of a dated copy does not undo a registration.
LEMMA NotUndone ==
    ASSUME Sound, NEW j \in Writers, NEW to, NEW id, Save(j, to, id),
           j \notin dated => status \in InFlight \/ to \notin InFlight, done
    PROVE  to \notin InFlight \/ "lost update" \in excuses'
BY DEF Sound, RegisteredSettles, Save

LEMMA LaunchStep ==
    ASSUME Sound, TypeOK', Functions',
           \/ Provision \/ Launched \/ LaunchFails \/ SaveLaunching \/ SaveBootstrapping
           \/ SaveFails \/ SaveFailed
    PROVE  Sound'
<1> USE JobsApart DEF Sound, Functions
<1>1. CASE Provision
  <2>1. ~done
    BY <1>1 DEF Provision, RecordThere
  <2>2. pc' = [pc EXCEPT ![Launch] = "calling"]
    BY <1>1 DEF Provision, Go
  <2> QED
    BY <1>1, <2>1, <2>2, SaveStep DEF Provision
<1>2. CASE Launched
  BY <1>2, OtherStep DEF Launched, Go, record, history
<1>3. CASE LaunchFails \/ SaveFails
  BY <1>3, OtherStep DEF LaunchFails, SaveFails, Go, Fault, record
<1>4. CASE SaveLaunching
  <2>1. pc[Launch] = "launched" /\ pc' = [pc EXCEPT ![Launch] = "launching"] /\ machine # "none"
    BY <1>4 DEF SaveLaunching, Go, MachineThere
  <2>2. Launch \notin dated => status \in InFlight
    BY <2>1 DEF LaunchFresh, InFlight
  <2>3. done' => "launching" \notin InFlight \/ "lost update" \in excuses'
    BY <1>4, <2>2, NotUndone DEF SaveLaunching
  <2> QED
    BY <1>4, <2>1, <2>3, SaveStep DEF SaveLaunching
<1>5. CASE SaveBootstrapping
  <2>1. pc[Launch] = "launching" /\ pc' = [pc EXCEPT ![Launch] = "over"]
    BY <1>5 DEF SaveBootstrapping, Go
  <2>2. Launch \notin dated => status \in InFlight
    BY <2>1 DEF LaunchFresh, InFlight
  <2>3. done' => "bootstrapping" \notin InFlight \/ "lost update" \in excuses'
    BY <1>5, <2>2, NotUndone DEF SaveBootstrapping
  <2> QED
    BY <1>5, <2>1, <2>3, SaveStep DEF SaveBootstrapping
<1>6. CASE SaveFailed
  <2>1. pc' = [pc EXCEPT ![Launch] = "over"]
    BY <1>6 DEF SaveFailed, Go
  <2>2. "failed" \notin InFlight
    BY DEF InFlight
  <2> QED
    BY <1>6, <2>1, <2>2, SaveStep DEF SaveFailed
<1> QED
  BY <1>1, <1>2, <1>3, <1>4, <1>5, <1>6

LEMMA PollStep ==
    ASSUME Sound, TypeOK', Functions', NEW p \in Polls, Poll(p) \/ Ask(p) \/ PollSaves(p)
    PROVE  Sound'
<1> USE JobsApart DEF Sound, Functions
<1>1. CASE Poll(p)
  <2>1. machine # "none"
    BY <1>1 DEF Poll, TypeOK
  <2> QED
    BY <1>1, <2>1, OtherStep DEF Poll, Start, record, history
<1>2. CASE Ask(p)
  BY <1>2, OtherStep DEF Ask, Go, record, history
<1>3. CASE PollSaves(p)
  <2> DEFINE next == Mapped(copy[p], seen[p])
  <2>1. pc[p] = "answered" /\ pc' = [pc EXCEPT ![p] = "idle"]
    BY <1>3 DEF PollSaves, Go
  <2>2. \A r \in Polls : pc'[r] \in {"asking", "answered"} =>
            r # p /\ pc[r] \in {"asking", "answered"} /\ copy'[r] = copy[r]
    BY <1>3, <2>1 DEF PollSaves
  <2>3. CASE next # copy[p]
    <3>1. Save(p, next, TRUE)
      BY <1>3, <2>3 DEF PollSaves
    <3>2. next \in InFlight \cup {"failed"} /\ copy[p] \in InFlight
      BY <2>1, MappedForward DEF CopiesFresh
    <3>3. p \notin dated => status \in InFlight
      BY <2>1 DEF CopiesFresh
    <3>4. done' => next \notin InFlight \/ "lost update" \in excuses'
      <4>1. done' = done
        BY <1>3 DEF PollSaves
      <4> HIDE DEF next
      <4> QED
        BY <3>1, <3>3, <4>1, NotUndone
    <3>5. next # "none"
      BY <3>2 DEF InFlight
    <3>6. machine' = machine /\ done' = done
      BY <1>3 DEF PollSaves
    <3> HIDE DEF next
    <3> QED
      BY <2>1, <2>2, <3>1, <3>4, <3>5, <3>6, SaveStep
  <2>4. CASE next = copy[p]
    <3>1. dated' = dated \ {p} /\ UNCHANGED <<status, lost, excuses, machine, done>>
      BY <1>3, <2>4 DEF PollSaves, record
    <3> QED
      BY <2>1, <2>2, <3>1, OtherStep
  <2> QED
    BY <2>3, <2>4
<1> QED
  BY <1>1, <1>2, <1>3

LEMMA TerminationStep ==
    ASSUME Sound, TypeOK', Functions', NEW t \in Terminations,
           Terminate(t) \/ TerminateCall(t) \/ TerminateSaves(t)
    PROVE  Sound'
<1> USE JobsApart DEF Sound, Functions
<1>1. CASE Terminate(t)
  <2>1. machine # "none"
    BY <1>1 DEF Terminate, TypeOK
  <2> QED
    BY <1>1, <2>1, OtherStep DEF Terminate, Start, record, history
<1>2. CASE TerminateCall(t)
  BY <1>2, OtherStep DEF TerminateCall, Go, record, history
<1>3. CASE TerminateSaves(t)
  <2>1. pc' = [pc EXCEPT ![t] = "idle"]
    BY <1>3 DEF TerminateSaves, Go
  <2>2. "terminated" \notin InFlight
    BY DEF InFlight
  <2>3. pc'[Launch] = pc[Launch] /\ \A p \in Polls : p # t /\ pc'[p] = pc[p]
    BY <2>1
  <2>4. \A k \in Terminations \cup Requests : pc'[k] # "idle" => pc[k] # "idle"
    BY <2>1
  <2>5. t \in Writers /\ t # Launch /\ Save(t, "terminated", TRUE)
    BY <1>3 DEF TerminateSaves
  <2>6. UNCHANGED <<machine, copy>>
    BY <1>3 DEF TerminateSaves
  <2> HIDE DEF Sound, Functions
  <2> QED
    BY <2>2, <2>3, <2>4, <2>5, <2>6, SaveStep
<1> QED
  BY <1>1, <1>2, <1>3

LEMMA RequestStep ==
    ASSUME Sound, TypeOK', Functions', NEW q \in Requests,
           \/ \E to \in {"registering", "correlating"} : Register(q, to)
           \/ SaveNode(q) \/ ReadProvision(q) \/ SaveRegistered(q)
           \/ Heartbeat(q) \/ SaveHeartbeat(q)
    PROVE  Sound'
<1> USE JobsApart DEF Sound, Functions
<1>1. ASSUME NEW to \in {"registering", "correlating"}, Register(q, to) PROVE Sound'
  BY <1>1, OtherStep DEF Register, Start, Meets, record
<1>2. CASE Heartbeat(q)
  BY <1>2, OtherStep DEF Heartbeat, Start, Meets, record
<1>3. CASE SaveNode(q)
  <2>1. PICK to \in {"idle", "completing"} :
            pc[q] # "idle" /\ pc' = [pc EXCEPT ![q] = to]
    BY <1>3 DEF SaveNode, Go
  <2> QED
    BY <1>3, <2>1, OtherStep DEF SaveNode, record, history
<1>4. CASE ReadProvision(q)
  BY <1>4, OtherStep DEF ReadProvision, Go, record, history
<1>5. CASE SaveHeartbeat(q)
  BY <1>5, OtherStep DEF SaveHeartbeat, Go, record, history
<1>6. CASE SaveRegistered(q)
  <2>1. pc' = [pc EXCEPT ![q] = "idle"]
    BY <1>6 DEF SaveRegistered, Go
  <2>2. "registered" \notin InFlight
    BY DEF InFlight
  <2>3. pc'[Launch] = pc[Launch] /\ \A p \in Polls : p # q /\ pc'[p] = pc[p]
    BY <2>1
  <2>4. \A k \in Terminations \cup Requests : pc'[k] # "idle" => pc[k] # "idle"
    BY <2>1
  <2>5. q \in Writers /\ q # Launch /\ Save(q, "registered", q \notin noId)
    BY <1>6 DEF SaveRegistered
  <2>6. UNCHANGED <<machine, copy>>
    BY <1>6 DEF SaveRegistered
  <2> HIDE DEF Sound, Functions
  <2> QED
    BY <2>2, <2>3, <2>4, <2>5, <2>6, SaveStep
<1> QED
  BY <1>1, <1>2, <1>3, <1>4, <1>5, <1>6

LEMMA WatchdogStep ==
    ASSUME Sound, TypeOK', Functions', NEW w \in Sweeps, Sweep(w) \/ MarkOffline(w)
    PROVE  Sound'
<1> USE JobsApart DEF Sound, Functions
<1>1. CASE Sweep(w)
  BY <1>1, OtherStep DEF Sweep, Start, Meets, record
<1>2. CASE MarkOffline(w)
  BY <1>2, OtherStep DEF MarkOffline, Go, record, history
<1> QED
  BY <1>1, <1>2

\* A job that is cut off has no copy any more, dated or not.
LEMMA CrashStep ==
    ASSUME Sound, TypeOK', Functions', NEW j \in Jobs, Crash(j)
    PROVE  Sound'
<1>1. pc' = [pc EXCEPT ![j] = IF j = Launch THEN "over" ELSE "idle"]
  BY DEF Crash
<1>2. \A k \in Jobs : k # j => pc'[k] = pc[k]
  BY <1>1 DEF Sound, Functions
<1>3. pc'[j] \in {"idle", "over"} /\ (j = Launch => pc'[j] = "over") /\ (j # Launch => pc'[j] = "idle")
  BY <1>1 DEF Sound, Functions
<1>4. \A p \in Polls : p # j => copy'[p] = copy[p]
  BY DEF Crash
<1>5. dated' = dated \ {j} /\ UNCHANGED <<status, lost, done, machine>> /\ excuses \subseteq excuses'
  BY DEF Crash, Fault, record
<1> QED
  BY <1>2, <1>3, <1>4, <1>5, OtherStep, JobsApart

-----------------------------------------------------------------------------
\* What every save does to the types of what it writes.
LEMMA SaveTyped ==
    ASSUME Sound, NEW j \in Writers, NEW to \in InFlight \cup {"registered", "failed", "terminated"},
           NEW id \in BOOLEAN, Save(j, to, id), machine' = machine, id => machine # "none"
    PROVE  /\ status' \in InFlight \cup {"none", "registered", "failed", "terminated"}
           /\ status' # "none"
           /\ known' => machine' # "none"
           /\ dated' \subseteq Writers
BY HoldersAre DEF Save, InFlight

\* Every step keeps the variables in their types.
LEMMA TypeStep ==
    ASSUME Sound, Next PROVE TypeOK'
<1> USE NodeAssumption, JobsApart DEF Sound, TypeOK, Functions
<1>1. CASE Provision
  <2>1. Save(Launch, "pending", FALSE) /\ UNCHANGED <<machine, node, faults, steps>>
    BY <1>1 DEF Provision
  <2>2. pc'[Launch] = "calling"
    BY <1>1 DEF Provision, Go
  <2> QED
    BY <2>1, <2>2, SaveTyped DEF InFlight
<1>2. CASE Launched
  <2>1. pc'[Launch] # "idle" /\ pc[Launch] = "calling"
    BY <1>2 DEF Launched, Go
  <2> QED
    BY <1>2, <2>1 DEF Launched, record, history
<1>3. CASE LaunchFails \/ SaveFails
  <2>1. pc[Launch] # "idle" /\ machine' \in {machine, "pending"}
    BY <1>3 DEF LaunchFails, SaveFails, Go
  <2>2. UNCHANGED <<status, known, node, dated, steps>> /\ faults' = faults + 1 /\ faults < MaxFaults
    BY <1>3 DEF LaunchFails, SaveFails, Fault, record
  <2> QED
    BY <2>1, <2>2
<1>4. CASE SaveLaunching
  <2>1. Save(Launch, "launching", TRUE) /\ UNCHANGED <<machine, node, faults, steps>> /\ machine # "none"
    BY <1>4 DEF SaveLaunching, Go, MachineThere
  <2> QED
    BY <2>1, SaveTyped DEF InFlight
<1>5. CASE SaveBootstrapping
  <2>1. Save(Launch, "bootstrapping", TRUE) /\ UNCHANGED <<machine, node, faults, steps>> /\ machine # "none"
    BY <1>5 DEF SaveBootstrapping, Go, MachineThere
  <2> QED
    BY <2>1, SaveTyped DEF InFlight
<1>6. CASE SaveFailed
  <2>1. Save(Launch, "failed", FALSE) /\ UNCHANGED <<machine, node, faults, steps>>
    BY <1>6 DEF SaveFailed
  <2> QED
    BY <2>1, SaveTyped
<1>7. ASSUME NEW p \in Polls, Poll(p) PROVE TypeOK'
  BY <1>7 DEF Poll, Start, record, history, InFlight
<1>8. ASSUME NEW p \in Polls, Ask(p) PROVE TypeOK'
  BY <1>8 DEF Ask, Go, record, history
<1>9. ASSUME NEW p \in Polls, PollSaves(p) PROVE TypeOK'
  <2>1. pc[p] = "answered" /\ pc'[Launch] = pc[Launch]
    BY <1>9 DEF PollSaves, Go
  <2>2. UNCHANGED <<machine, node, faults, steps>> /\ machine # "none"
    BY <1>9, <2>1 DEF PollSaves, MachineThere
  <2>3. Mapped(copy[p], seen[p]) \in InFlight \cup {"failed"}
    BY <2>1, MappedForward DEF CopiesFresh
  <2>4. CASE Mapped(copy[p], seen[p]) # copy[p]
    <3>1. Save(p, Mapped(copy[p], seen[p]), TRUE)
      BY <1>9, <2>4 DEF PollSaves
    <3> QED
      BY <2>2, <2>3, <3>1, SaveTyped
  <2>5. CASE Mapped(copy[p], seen[p]) = copy[p]
    BY <1>9, <2>1, <2>2, <2>5 DEF PollSaves, record
  <2> QED
    BY <2>4, <2>5
<1>10. ASSUME NEW t \in Terminations, Terminate(t) \/ TerminateCall(t) PROVE TypeOK'
  <2>1. pc'[Launch] = pc[Launch]
    BY <1>10 DEF Terminate, TerminateCall, Start, Go
  <2> QED
    BY <1>10, <2>1 DEF Terminate, TerminateCall, Start, record, history
<1>11. ASSUME NEW t \in Terminations, TerminateSaves(t) PROVE TypeOK'
  <2>1. Save(t, "terminated", TRUE) /\ UNCHANGED <<machine, node, faults, steps>> /\ machine # "none"
    BY <1>11 DEF TerminateSaves, Go, MachineThere
  <2> QED
    BY <2>1, SaveTyped
<1>12. ASSUME NEW q \in Requests, NEW to \in {"registering", "correlating"}, Register(q, to) PROVE TypeOK'
  BY <1>12 DEF Register, Start, record
<1>13. ASSUME NEW q \in Requests, SaveNode(q) \/ ReadProvision(q) \/ Heartbeat(q) \/ SaveHeartbeat(q)
       PROVE  TypeOK'
  <2>1. pc'[Launch] = pc[Launch]
    BY <1>13 DEF SaveNode, ReadProvision, Heartbeat, SaveHeartbeat, Start, Go
  <2> QED
    BY <1>13, <2>1 DEF SaveNode, ReadProvision, Heartbeat, SaveHeartbeat, Start, record, history
<1>14. ASSUME NEW q \in Requests, SaveRegistered(q) PROVE TypeOK'
  <2>1. Save(q, "registered", q \notin noId) /\ UNCHANGED <<machine, node, faults, steps>> /\ machine # "none"
    BY <1>14 DEF SaveRegistered, Go, MachineThere
  <2> QED
    BY <2>1, SaveTyped
<1>15. ASSUME NEW w \in Sweeps, Sweep(w) \/ MarkOffline(w) PROVE TypeOK'
  <2>1. pc'[Launch] = pc[Launch]
    BY <1>15 DEF Sweep, MarkOffline, Start, Go
  <2> QED
    BY <1>15, <2>1 DEF Sweep, MarkOffline, Start, record, history
<1>16. CASE Silence \/ Boot
  BY <1>16 DEF Silence, Boot, record, jobs, history
<1>17. ASSUME NEW state \in {"stopped", "failed"}, Break(state) PROVE TypeOK'
  BY <1>17 DEF Break, Fault, record, jobs
<1>18. ASSUME NEW j \in Jobs, Crash(j) PROVE TypeOK'
  <2>1. pc[Launch] = "idle" => pc'[Launch] = "idle"
    BY <1>18 DEF Crash
  <2> QED
    BY <1>18, <2>1 DEF Crash, Fault, record
<1> QED
  BY <1>1, <1>2, <1>3, <1>4, <1>5, <1>6, <1>7, <1>8, <1>9, <1>10, <1>11, <1>12, <1>13, <1>14,
     <1>15, <1>16, <1>17, <1>18 DEF Next

LEMMA FunctionsStep ==
    ASSUME Sound, Next PROVE Functions'
<1> USE JobsApart DEF Sound, Functions
<1>1. pc' = [j \in Jobs |-> pc'[j]]
  BY DEF Next, Provision, Launched, LaunchFails, SaveLaunching, SaveBootstrapping, SaveFails, SaveFailed,
     Poll, Ask, PollSaves, Terminate, TerminateCall, TerminateSaves, Register, SaveNode, ReadProvision,
     SaveRegistered, Heartbeat, SaveHeartbeat, Sweep, MarkOffline, Silence, Boot, Break, Crash,
     Start, Go, jobs
<1>2. copy' = [p \in Polls |-> copy'[p]]
  BY DEF Next, Provision, Launched, LaunchFails, SaveLaunching, SaveBootstrapping, SaveFails,
     SaveFailed, Poll, Ask, PollSaves, Terminate, TerminateCall, TerminateSaves, Register, SaveNode,
     ReadProvision, SaveRegistered, Heartbeat, SaveHeartbeat, Sweep, MarkOffline, Silence, Boot, Break,
     Crash, jobs
<1>3. seen' = [j \in Polls \cup Requests |-> seen'[j]]
  BY DEF Next, Provision, Launched, LaunchFails, SaveLaunching, SaveBootstrapping, SaveFails,
     SaveFailed, Poll, Ask, PollSaves, Terminate, TerminateCall, TerminateSaves, Register, SaveNode,
     ReadProvision, SaveRegistered, Heartbeat, SaveHeartbeat, Sweep, MarkOffline, Silence, Boot, Break,
     Crash, jobs
<1>4. done' \in BOOLEAN
  BY DEF Next, Provision, Launched, LaunchFails, SaveLaunching, SaveBootstrapping, SaveFails,
     SaveFailed, Poll, Ask, PollSaves, Terminate, TerminateCall, TerminateSaves, Register, SaveNode,
     ReadProvision, SaveRegistered, Heartbeat, SaveHeartbeat, Sweep, MarkOffline, Silence, Boot, Break,
     Crash, history
<1> QED
  BY <1>1, <1>2, <1>3, <1>4

-----------------------------------------------------------------------------
\* However jobs overlap and are cut off, only a dated copy disagrees with the
\* record.
THEOREM CopiesAreFresh == Spec => []Sound
<1>1. Init => Sound
  <2> SUFFICES ASSUME Init PROVE Sound
    OBVIOUS
  <2>1. TypeOK
    BY NodeAssumption, JobsApart DEF Init, TypeOK
  <2>2. Functions
    BY DEF Init, Functions
  <2>3. MachineThere /\ CopiesFresh /\ LaunchFresh /\ RecordThere /\ RegisteredSettles
    BY JobsApart DEF Init, MachineThere, CopiesFresh, LaunchFresh, RecordThere, RegisteredSettles
  <2> QED
    BY <2>1, <2>2, <2>3 DEF Sound
<1>2. Sound /\ [Next]_vars => Sound'
  <2> SUFFICES ASSUME Sound, [Next]_vars PROVE Sound'
    OBVIOUS
  <2>1. CASE Next
    <3>1. TypeOK' /\ Functions'
      BY <2>1, TypeStep, FunctionsStep
    <3>2. CASE \/ Provision \/ Launched \/ LaunchFails \/ SaveLaunching \/ SaveBootstrapping
               \/ SaveFails \/ SaveFailed
      BY <3>1, <3>2, LaunchStep
    <3>3. CASE Silence \/ Boot
      BY <3>1, <3>3, OtherStep DEF Silence, Boot, record, jobs, history
    <3>4. ASSUME NEW state \in {"stopped", "failed"}, Break(state) PROVE Sound'
      BY <3>1, <3>4, OtherStep DEF Break, Fault, record, jobs
    <3>5. ASSUME NEW p \in Polls, Poll(p) \/ Ask(p) \/ PollSaves(p) PROVE Sound'
      BY <3>1, <3>5, PollStep
    <3>6. ASSUME NEW t \in Terminations, Terminate(t) \/ TerminateCall(t) \/ TerminateSaves(t)
          PROVE  Sound'
      BY <3>1, <3>6, TerminationStep
    <3>7. ASSUME NEW q \in Requests,
                 \/ Register(q, "registering") \/ Register(q, "correlating") \/ SaveNode(q)
                 \/ ReadProvision(q) \/ SaveRegistered(q) \/ Heartbeat(q) \/ SaveHeartbeat(q)
          PROVE  Sound'
      BY <3>1, <3>7, RequestStep
    <3>8. ASSUME NEW w \in Sweeps, Sweep(w) \/ MarkOffline(w) PROVE Sound'
      BY <3>1, <3>8, WatchdogStep
    <3>9. ASSUME NEW j \in Jobs, Crash(j) PROVE Sound'
      BY <3>1, <3>9, CrashStep
    <3> HIDE DEF Sound
    <3> QED
      BY <2>1, <3>2, <3>3, <3>4, <3>5, <3>6, <3>7, <3>8, <3>9 DEF Next
  <2>2. CASE UNCHANGED vars
    <3>1. TypeOK'
      BY <2>2 DEF vars, record, jobs, history, Sound, TypeOK
    <3>2. Functions'
      BY <2>2 DEF vars, record, jobs, history, Sound, Functions
    <3>3. (MachineThere /\ CopiesFresh /\ LaunchFresh /\ RecordThere /\ RegisteredSettles)'
      BY <2>2 DEF vars, record, jobs, history, Sound, MachineThere, CopiesFresh, LaunchFresh,
                  RecordThere, RegisteredSettles
    <3> QED
      BY <3>1, <3>2, <3>3 DEF Sound
  <2> QED
    BY <2>1, <2>2
<1> QED
  BY <1>1, <1>2, PTL DEF Spec

\* The variables keep their types; a record that knows its machine has one.
THEOREM NodeTyped == Spec => []TypeOK
<1>1. Sound => TypeOK
  BY DEF Sound
<1> QED
  BY <1>1, CopiesAreFresh, PTL

\* A registration that was recorded is not undone but by a dated copy.
THEOREM RegistrationsSettle == Spec => []RegisteredSettles
<1>1. Sound => RegisteredSettles
  BY DEF Sound
<1> QED
  BY <1>1, CopiesAreFresh, PTL

RecordStatuses == InFlight \cup {"none", "registered", "failed", "terminated"}

LEMMA Ranks ==
    /\ Rank("none") = 0 /\ Rank("pending") = 1 /\ Rank("launching") = 2 /\ Rank("bootstrapping") = 3
    /\ Rank("registered") = 4 /\ Rank("failed") = 5 /\ Rank("terminated") = 6
    /\ \A s \in RecordStatuses : Rank(s) \in 0 .. 6
<1>1. /\ Rank("none") = 0 /\ Rank("pending") = 1 /\ Rank("launching") = 2 /\ Rank("bootstrapping") = 3
      /\ Rank("registered") = 4 /\ Rank("failed") = 5 /\ Rank("terminated") = 6
  BY DEF Rank
<1> QED
  BY <1>1 DEF RecordStatuses, InFlight

\* A save that takes the record back was made from a dated copy, if what is
\* saved is not behind the copy.
LEMMA SaveForward ==
    ASSUME Sound, NEW j \in Writers, NEW to \in RecordStatuses, NEW id, Save(j, to, id),
           Rank(status') < Rank(status), j \notin dated => Rank(status) <= Rank(to)
    PROVE  lost'
<1>1. status \in RecordStatuses
  BY DEF Sound, TypeOK, RecordStatuses
<1>2. Rank(status) \in Int /\ Rank(to) \in Int
  BY <1>1, Ranks
<1>3. Rank(status') = Rank(to) /\ lost' = (j \in dated)
  BY DEF Save
<1>4. j \in dated
  BY <1>2, <1>3
<1> QED
  BY <1>3, <1>4

\* Whoever saves a status that is behind the record's has not seen it, but for
\* a node that registers after all.
THEOREM RecordsGoForward == Spec => NeverBack
<1>1. Sound /\ [Next]_vars
          => [Rank(status') < Rank(status) =>
                 lost' \/ (status' = "registered" /\ status \in {"failed", "terminated"})]_vars
  <2> SUFFICES ASSUME Sound, Next, Rank(status') < Rank(status)
               PROVE  lost' \/ (status' = "registered" /\ status \in {"failed", "terminated"})
    OBVIOUS
  <2>1. status \in RecordStatuses /\ Rank(status) \in 0 .. 6
    BY Ranks DEF Sound, TypeOK, RecordStatuses
  <2>2. status' # status
    BY <2>1
  <2>3. CASE Provision
    <3>1. status = "none" /\ status' = "pending"
      BY <2>3 DEF Provision, Save
    <3> QED
      BY <3>1, Ranks
  <2>4. CASE SaveLaunching
    <3>1. Save(Launch, "launching", TRUE) /\ (Launch \notin dated => status = "pending")
      BY <2>4 DEF SaveLaunching, Go, Sound, LaunchFresh
    <3>2. "launching" \in RecordStatuses /\ (Launch \notin dated => Rank(status) <= Rank("launching"))
      BY <3>1, Ranks DEF RecordStatuses, InFlight
    <3> QED
      BY <3>1, <3>2, SaveForward, JobsApart
  <2>5. CASE SaveBootstrapping
    <3>1. Save(Launch, "bootstrapping", TRUE) /\ (Launch \notin dated => status = "launching")
      BY <2>5 DEF SaveBootstrapping, Go, Sound, LaunchFresh
    <3>2. "bootstrapping" \in RecordStatuses /\ (Launch \notin dated => Rank(status) <= Rank("bootstrapping"))
      BY <3>1, Ranks DEF RecordStatuses, InFlight
    <3> QED
      BY <3>1, <3>2, SaveForward, JobsApart
  <2>6. CASE SaveFailed
    <3>1. Save(Launch, "failed", FALSE) /\ (Launch \notin dated => status \in {"pending", "launching"})
      BY <2>6 DEF SaveFailed, Go, Sound, LaunchFresh
    <3>2. "failed" \in RecordStatuses /\ (Launch \notin dated => Rank(status) <= Rank("failed"))
      BY <3>1, Ranks DEF RecordStatuses, InFlight
    <3> QED
      BY <3>1, <3>2, SaveForward, JobsApart
  <2>7. ASSUME NEW p \in Polls, PollSaves(p) PROVE lost'
    <3> DEFINE next == Mapped(copy[p], seen[p])
    <3>1. pc[p] = "answered" /\ p \in Writers
      BY <2>7, JobsApart DEF PollSaves, Go
    <3>2. copy[p] \in InFlight /\ (p \notin dated => copy[p] = status)
      BY <3>1 DEF Sound, CopiesFresh
    <3>3. Save(p, next, TRUE)
      BY <2>2, <2>7 DEF PollSaves, record
    <3>4. next \in RecordStatuses /\ Rank(next) >= Rank(copy[p])
      BY <3>2, MappedForward DEF RecordStatuses
    <3>5. Rank(copy[p]) \in Int /\ Rank(next) \in Int
      BY <3>2, <3>4, Ranks DEF RecordStatuses
    <3> HIDE DEF next
    <3> QED
      BY <3>1, <3>2, <3>3, <3>4, <3>5, SaveForward
  <2>8. ASSUME NEW t \in Terminations, TerminateSaves(t) PROVE FALSE
    <3>1. status' = "terminated"
      BY <2>8 DEF TerminateSaves, Save
    <3> QED
      BY <2>1, <3>1, Ranks
  <2>9. ASSUME NEW q \in Requests, SaveRegistered(q)
        PROVE  status' = "registered" /\ status \in {"failed", "terminated"}
    <3>1. status' = "registered"
      BY <2>9 DEF SaveRegistered, Save
    <3>2. Rank(status) > 4
      BY <2>1, <3>1, Ranks
    <3> QED
      BY <2>1, <3>1, <3>2, Ranks DEF RecordStatuses, InFlight
  <2> QED
    BY <2>2, <2>3, <2>4, <2>5, <2>6, <2>7, <2>8, <2>9
    DEF Next, Launched, LaunchFails, SaveFails, Poll, Ask, Terminate, TerminateCall, Register, SaveNode,
        ReadProvision, Heartbeat, SaveHeartbeat, Sweep, MarkOffline, Silence, Boot, Break, Crash,
        record
<1> QED
  BY <1>1, CopiesAreFresh, PTL DEF Spec, NeverBack

-----------------------------------------------------------------------------
(* The machine *)

\* No save was lost, failed or never made.
Clean == excuses \cap {"lost update", "database", "launch", "crash"} = {}

\* The record knows the machine, or the launch is about to tell it.  Whoever
\* has read a record without an id and may still save it unnoticed has read it
\* before that.
MachineTold ==
    /\ pc[Launch] \in {"idle", "calling"} => machine = "none"
    /\ \A q \in Requests : q \in noId => pc[q] = "read"
    /\ Clean =>
        /\ machine # "none" => known \/ pc[Launch] = "launched"
        /\ pc[Launch] = "failing" => machine = "none"
        /\ \A q \in Requests : q \in noId /\ q \notin dated => pc[Launch] = "launched"

\* Every step keeps it.
LEMMA MachineToldStep ==
    ASSUME Sound, MachineTold, [Next]_vars PROVE MachineTold'
<1> USE JobsApart, HoldersAre DEF Sound, TypeOK, Functions, MachineThere, MachineTold, Clean, Holders, record, jobs, history
<1>1. CASE Provision
  BY <1>1 DEF Provision, Go, Save
<1>2. CASE Launched
  BY <1>2 DEF Launched, Go
<1>3. CASE LaunchFails
  BY <1>3 DEF LaunchFails, Go, Fault
<1>4. CASE SaveLaunching
  BY <1>4 DEF SaveLaunching, Go, Save
<1>5. CASE SaveBootstrapping
  BY <1>5 DEF SaveBootstrapping, Go, Save
<1>6. CASE SaveFails
  BY <1>6 DEF SaveFails, Fault
<1>7. CASE SaveFailed
  BY <1>7 DEF SaveFailed, Go, Save
<1>8. ASSUME NEW p \in Polls, Poll(p) PROVE MachineTold'
  BY <1>8 DEF Poll, Start
<1>9. ASSUME NEW p \in Polls, Ask(p) PROVE MachineTold'
  BY <1>9 DEF Ask, Go
<1>10. ASSUME NEW p \in Polls, PollSaves(p) PROVE MachineTold'
  BY <1>10 DEF PollSaves, Go, Save
<1>11. ASSUME NEW t \in Terminations, Terminate(t) PROVE MachineTold'
  BY <1>11 DEF Terminate, Start
<1>12. ASSUME NEW t \in Terminations, TerminateCall(t) PROVE MachineTold'
  BY <1>12 DEF TerminateCall, Go
<1>13. ASSUME NEW t \in Terminations, TerminateSaves(t) PROVE MachineTold'
  BY <1>13 DEF TerminateSaves, Go, Save
<1>14. ASSUME NEW q \in Requests, NEW to \in {"registering", "correlating"}, Register(q, to) PROVE MachineTold'
  BY <1>14 DEF Register, Start, Meets
<1>15. ASSUME NEW q \in Requests, SaveNode(q) PROVE MachineTold'
  BY <1>15 DEF SaveNode, Go
<1>16. ASSUME NEW q \in Requests, ReadProvision(q) PROVE MachineTold'
  <2>1. /\ pc[q] = "completing" /\ machine # "none" /\ pc'[Launch] = pc[Launch]
        /\ UNCHANGED <<known, machine, dated, excuses>>
    BY <1>16 DEF ReadProvision, Go
  <2>2. \A r \in Requests : r # q => pc'[r] = pc[r] /\ (r \in noId' <=> r \in noId)
    BY <1>16 DEF ReadProvision, Go
  <2>3. q \notin noId /\ pc'[q] = "read" /\ (q \in noId' => ~known)
    BY <1>16, <2>1 DEF ReadProvision, Go
  <2>4. Clean /\ ~known => pc[Launch] = "launched"
    BY <2>1
  <2> QED
    BY <2>1, <2>2, <2>3, <2>4
<1>17. ASSUME NEW q \in Requests, SaveRegistered(q) PROVE MachineTold'
  BY <1>17 DEF SaveRegistered, Go, Save
<1>18. ASSUME NEW q \in Requests, Heartbeat(q) PROVE MachineTold'
  BY <1>18 DEF Heartbeat, Start, Meets
<1>19. ASSUME NEW q \in Requests, SaveHeartbeat(q) PROVE MachineTold'
  BY <1>19 DEF SaveHeartbeat, Go
<1>20. ASSUME NEW w \in Sweeps, Sweep(w) PROVE MachineTold'
  BY <1>20 DEF Sweep, Start, Meets, Swept
<1>21. ASSUME NEW w \in Sweeps, MarkOffline(w) PROVE MachineTold'
  BY <1>21 DEF MarkOffline, Go
<1>22. CASE Silence
  BY <1>22 DEF Silence
<1>23. CASE Boot
  BY <1>23 DEF Boot
<1>24. ASSUME NEW state \in {"stopped", "failed"}, Break(state) PROVE MachineTold'
  BY <1>24 DEF Break, Fault
<1>25. ASSUME NEW j \in Jobs, Crash(j) PROVE MachineTold'
  BY <1>25 DEF Crash, Fault
<1>26. CASE UNCHANGED vars
  BY <1>26 DEF vars
<1> QED
  BY <1>1, <1>2, <1>3, <1>4, <1>5, <1>6, <1>7, <1>8, <1>9, <1>10, <1>11, <1>12,
     <1>13, <1>14, <1>15, <1>16, <1>17, <1>18, <1>19, <1>20, <1>21, <1>22, <1>23, <1>24,
     <1>25, <1>26 DEF Next

(* The row *)

Members == Requests \cup Sweeps

\* Until they overlap, one request or sweep at most is in progress for the row,
\* and what it has read still holds.
RowAlone ==
    "overlap" \notin excuses =>
        /\ \A i, j \in Members : pc[i] # "idle" /\ pc[j] # "idle" => i = j
        /\ \A w \in Sweeps : pc[w] = "listed" => stale
        /\ \A q \in Requests : pc[q] = "beating" /\ seen[q] = "online" => node # "offline"
        /\ node = "offline" => stale

\* Every step keeps it.
LEMMA RowAloneStep ==
    ASSUME Sound, RowAlone, [Next]_vars PROVE RowAlone'
<1> USE JobsApart DEF Sound, TypeOK, Functions, RowAlone, Members, record, jobs, history
<1>0. ASSUME NEW j \in Polls \cup Terminations, NEW to, pc' = [pc EXCEPT ![j] = to],
             UNCHANGED <<node, stale>>, \A q \in Requests : seen'[q] = seen[q],
             excuses \subseteq excuses'
      PROVE  RowAlone'
  <2>1. \A m \in Members : pc'[m] = pc[m]
    BY <1>0
  <2> QED
    BY <1>0, <2>1
<1>1. CASE Provision
  BY <1>1 DEF Provision, Go, Save
<1>2. CASE Launched
  BY <1>2 DEF Launched, Go
<1>3. CASE LaunchFails
  BY <1>3 DEF LaunchFails, Go, Fault
<1>4. CASE SaveLaunching
  BY <1>4 DEF SaveLaunching, Go, Save
<1>5. CASE SaveBootstrapping
  BY <1>5 DEF SaveBootstrapping, Go, Save
<1>6. CASE SaveFails
  BY <1>6 DEF SaveFails, Fault
<1>7. CASE SaveFailed
  BY <1>7 DEF SaveFailed, Go, Save
<1>8. ASSUME NEW p \in Polls, Poll(p) PROVE RowAlone'
  BY <1>0, <1>8 DEF Poll, Start
<1>9. ASSUME NEW p \in Polls, Ask(p) PROVE RowAlone'
  BY <1>0, <1>9 DEF Ask, Go
<1>10. ASSUME NEW p \in Polls, PollSaves(p) PROVE RowAlone'
  <2>1. pc' = [pc EXCEPT ![p] = "idle"] /\ UNCHANGED <<node, stale>>
    BY <1>10 DEF PollSaves, Go
  <2>2. seen' = [seen EXCEPT ![p] = "none"]
    BY <1>10 DEF PollSaves
  <2>3. excuses \subseteq excuses'
    BY <1>10 DEF PollSaves, Save
  <2> QED
    BY <1>0, <2>1, <2>2, <2>3
<1>11. ASSUME NEW t \in Terminations, Terminate(t) PROVE RowAlone'
  BY <1>0, <1>11 DEF Terminate, Start
<1>12. ASSUME NEW t \in Terminations, TerminateCall(t) PROVE RowAlone'
  BY <1>0, <1>12 DEF TerminateCall, Go
<1>13. ASSUME NEW t \in Terminations, TerminateSaves(t) PROVE RowAlone'
  <2>1. pc' = [pc EXCEPT ![t] = "idle"] /\ UNCHANGED <<node, stale, seen>>
    BY <1>13 DEF TerminateSaves, Go
  <2>2. excuses \subseteq excuses'
    BY <1>13 DEF TerminateSaves, Save
  <2> QED
    BY <1>0, <2>1, <2>2
<1>14. ASSUME NEW q \in Requests, NEW to \in {"registering", "correlating"}, Register(q, to) PROVE RowAlone'
  BY <1>14 DEF Register, Start, Meets
<1>15. ASSUME NEW q \in Requests, SaveNode(q) PROVE RowAlone'
  <2>1. node' # "offline" /\ excuses' = excuses /\ seen' = [seen EXCEPT ![q] = "none"]
    BY <1>15 DEF SaveNode
  <2>2. pc[q] # "idle" /\ \E to \in {"idle", "completing"} : pc' = [pc EXCEPT ![q] = to]
    BY <1>15 DEF SaveNode, Go
  <2> QED
    BY <2>1, <2>2
<1>16. ASSUME NEW q \in Requests, ReadProvision(q) PROVE RowAlone'
  BY <1>16 DEF ReadProvision, Go
<1>17. ASSUME NEW q \in Requests, SaveRegistered(q) PROVE RowAlone'
  <2>1. pc[q] = "read" /\ pc' = [pc EXCEPT ![q] = "idle"] /\ UNCHANGED <<node, stale, seen>>
    BY <1>17 DEF SaveRegistered, Go
  <2>2. excuses \subseteq excuses'
    BY <1>17 DEF SaveRegistered, Save
  <2> QED
    BY <2>1, <2>2
<1>18. ASSUME NEW q \in Requests, Heartbeat(q) PROVE RowAlone'
  BY <1>18 DEF Heartbeat, Start, Meets
<1>19. ASSUME NEW q \in Requests, SaveHeartbeat(q) PROVE RowAlone'
  <2>1. pc[q] = "beating" /\ pc' = [pc EXCEPT ![q] = "idle"] /\ excuses' = excuses
    BY <1>19 DEF SaveHeartbeat, Go
  <2>2. node' = IF seen[q] = "online" THEN node ELSE "online"
    BY <1>19 DEF SaveHeartbeat
  <2>3. ~stale' /\ seen' = [seen EXCEPT ![q] = "none"]
    BY <1>19 DEF SaveHeartbeat
  <2> QED
    BY <2>1, <2>2, <2>3
<1>20. ASSUME NEW w \in Sweeps, Sweep(w) PROVE RowAlone'
  BY <1>20 DEF Sweep, Start, Meets, Swept
<1>21. ASSUME NEW w \in Sweeps, MarkOffline(w) PROVE RowAlone'
  BY <1>21 DEF MarkOffline, Go
<1>22. CASE Silence
  BY <1>22 DEF Silence
<1>23. CASE Boot
  BY <1>23 DEF Boot
<1>24. ASSUME NEW state \in {"stopped", "failed"}, Break(state) PROVE RowAlone'
  BY <1>24 DEF Break, Fault
<1>25. ASSUME NEW j \in Jobs, Crash(j) PROVE RowAlone'
  BY <1>25 DEF Crash, Fault
<1>26. CASE UNCHANGED vars
  BY <1>26 DEF vars
<1> QED
  BY <1>1, <1>2, <1>3, <1>4, <1>5, <1>6, <1>7, <1>8, <1>9, <1>10, <1>11, <1>12,
     <1>13, <1>14, <1>15, <1>16, <1>17, <1>18, <1>19, <1>20, <1>21, <1>22, <1>23, <1>24,
     <1>25, <1>26 DEF Next


\* MachineKnown, and with it that an operator finds what still costs money.
THEOREM MachinesKnown == Spec => []MachineKnown
<1>1. Init => MachineTold
  BY JobsApart DEF Init, MachineTold
<1>2. Sound /\ MachineTold => MachineKnown
  BY JobsApart DEF MachineTold, Clean, MachineKnown, AtRest
<1> QED
  BY <1>1, <1>2, MachineToldStep, CopiesAreFresh, PTL DEF Spec

\* FreshIsOnline: the watchdog alone takes no node with a fresh heartbeat for lost.
THEOREM FreshAreOnline == Spec => []FreshIsOnline
<1>1. Init => RowAlone
  BY JobsApart DEF Init, RowAlone, Members, Jobs, Writers
<1>2. RowAlone => FreshIsOnline
  BY DEF RowAlone, FreshIsOnline
<1> QED
  BY <1>1, <1>2, RowAloneStep, CopiesAreFresh, PTL DEF Spec

-----------------------------------------------------------------------------
(* SandboxPool *)

PoolFunctions ==
    /\ warm = [w \in Warm |-> warm[w]]
    /\ clones = [n \in Names |-> clones[n]]
    /\ at = [p \in Workers |-> at[p]]
    /\ taken = [b \in Builds |-> taken[b]]
    /\ adding = [p \in Workers |-> adding[p]]
    /\ home \in [Warm -> Nodes]
    /\ host \in [Workers -> Nodes]

\* Warm clones are never started, are where they were made, and those in the pool
\* exist.
CloneThere ==
    \A w \in Warm :
        /\ \A n \in Nodes :
              \/ clones[<<"warm", w, n>>] = "none"
              \/ clones[<<"warm", w, n>>] = "stopped" /\ n = home[w] /\ warm[w] # "none"
        /\ warm[w] = "idle" => w \in spoiled \/ clones[<<"warm", w, home[w]>>] = "stopped"

\* A clone that a build found was in the pool, and is not once the build has
\* gone on, unless it could not save that.
TakenOnce ==
    \A b \in Builds :
        /\ at[b] \in {"new", "cloning"} => taken[b] = 0
        /\ taken[b] # 0 => taken[b] \in Warm /\ warm[taken[b]] \notin {"none", "cloning"}
        /\ taken[b] # 0 => taken[b] \in astray \/ host[b] = home[taken[b]]
        /\ taken[b] # 0 /\ at[b] # "taking" => warm[taken[b]] # "idle" \/ taken[b] \in spoiled

\* A clone that is being added is not in the pool, and one worker adds it.
AddedOnce ==
    \A p \in Workers : adding[p] # 0 =>
        /\ adding[p] \in Warm
        /\ warm[adding[p]] = "cloning"
        /\ home[adding[p]] = host[p]
        /\ \A other \in Workers : adding[other] = adding[p] => other = p

PoolSound == PoolFunctions /\ CloneThere /\ TakenOnce /\ AddedOnce

-----------------------------------------------------------------------------
LEMMA WarmNames ==
    /\ 0 \notin Warm
    /\ \A w \in Warm, n \in Nodes : <<"warm", w, n>> \in Names
BY PoolAssumption DEF Warm, Names

\* Steps that touch neither the clones nor the rows of the pool, and by which
\* a build that found a clone does not go on without it.
LEMMA PoolOtherStep ==
    ASSUME PoolSound, PoolFunctions', UNCHANGED <<warm, home, clones, host, spoiled, astray>>,
           \A b \in Builds :
               \/ taken'[b] = 0
               \/ taken'[b] = taken[b] /\ (at'[b] = at[b] \/ (at[b] # "taking" /\ at'[b] \notin {"new", "cloning"})),
           \A p \in Workers : adding'[p] \in {0, adding[p]}
    PROVE  PoolSound'
<1>1. CloneThere'
  BY DEF PoolSound, CloneThere
<1>2. TakenOnce'
  BY DEF PoolSound, TakenOnce
<1>3. AddedOnce'
  BY DEF PoolSound, AddedOnce
<1> QED
  BY <1>1, <1>2, <1>3 DEF PoolSound

\* Steps that write the row of a clone that build b found, which is not in the
\* pool any more then.
LEMMA RowStep ==
    ASSUME PoolSound, PoolFunctions', NEW b \in Builds,
           NEW rowStatus, rowStatus \notin {"none", "cloning", "idle"},
           NEW to, to \notin {"new", "cloning"},
           UNCHANGED <<home, clones, host, spoiled, astray, taken, adding>>, at' = [at EXCEPT ![b] = to],
           \/ taken[b] = 0 /\ warm' = warm
           \/ taken[b] # 0 /\ warm' = [warm EXCEPT ![taken[b]] = rowStatus]
    PROVE  PoolSound'
<1> USE WarmNames DEF PoolSound, PoolFunctions
<1>1. \A w \in Warm : warm'[w] = warm[w] \/ (w = taken[b] /\ warm'[w] = rowStatus)
  OBVIOUS
<1>2. taken[b] # 0 => warm'[taken[b]] = rowStatus
  BY DEF TakenOnce
<1>3. CloneThere'
  <2>1. \A w \in Warm : (warm'[w] = "idle" => warm[w] = "idle") /\ (warm[w] # "none" => warm'[w] # "none")
    BY <1>1
  <2>2. CloneThere
    OBVIOUS
  <2> HIDE DEF PoolSound, PoolFunctions
  <2> QED
    BY <2>1, <2>2 DEF CloneThere
<1>4. TakenOnce'
  BY <1>1, <1>2, b \in Workers DEF TakenOnce, Workers
<1>5. AddedOnce'
  <2>1. \A w \in Warm : warm[w] = "cloning" => warm'[w] = "cloning"
    BY <1>1, WarmNames DEF TakenOnce
  <2> QED
    BY <2>1 DEF AddedOnce
<1> QED
  BY <1>3, <1>4, <1>5

-----------------------------------------------------------------------------
\* Steps by which warm clones at most go, and those of the pool do not.
LEMMA SameThere ==
    ASSUME PoolSound, UNCHANGED <<warm, home, spoiled>>,
           \A w \in Warm : \A n \in Nodes :
               \/ clones'[<<"warm", w, n>>] = clones[<<"warm", w, n>>]
               \/ clones'[<<"warm", w, n>>] = "none" /\ (warm[w] # "idle" \/ w \in spoiled)
    PROVE  CloneThere'
<1> SUFFICES ASSUME NEW w \in Warm
             PROVE  /\ \A n \in Nodes :
                          \/ clones'[<<"warm", w, n>>] = "none"
                          \/ clones'[<<"warm", w, n>>] = "stopped" /\ n = home[w] /\ warm[w] # "none"
                    /\ warm[w] = "idle" => w \in spoiled \/ clones'[<<"warm", w, home[w]>>] = "stopped"
  BY DEF CloneThere
<1>1. home[w] \in Nodes
  BY DEF PoolSound, PoolFunctions
<1>2. /\ \A n \in Nodes :
            \/ clones[<<"warm", w, n>>] = "none"
            \/ clones[<<"warm", w, n>>] = "stopped" /\ n = home[w] /\ warm[w] # "none"
      /\ warm[w] = "idle" => w \in spoiled \/ clones[<<"warm", w, home[w]>>] = "stopped"
  BY DEF PoolSound, CloneThere
<1> QED
  BY <1>1, <1>2

\* Steps that make the warm clone that worker p is adding.
LEMMA MadeThere ==
    ASSUME PoolSound, NEW p \in Workers, adding[p] # 0, NEW made \in {"none", "stopped"},
           clones' = [clones EXCEPT ![WarmName(p)] = made], UNCHANGED <<warm, home, spoiled>>
    PROVE  CloneThere'
<1> SUFFICES ASSUME NEW w \in Warm
             PROVE  /\ \A n \in Nodes :
                          \/ clones'[<<"warm", w, n>>] = "none"
                          \/ clones'[<<"warm", w, n>>] = "stopped" /\ n = home[w] /\ warm[w] # "none"
                    /\ warm[w] = "idle" => w \in spoiled \/ clones'[<<"warm", w, home[w]>>] = "stopped"
  BY DEF CloneThere
<1>1. home[w] \in Nodes
  BY DEF PoolSound, PoolFunctions
<1>2. /\ \A n \in Nodes :
            \/ clones[<<"warm", w, n>>] = "none"
            \/ clones[<<"warm", w, n>>] = "stopped" /\ n = home[w] /\ warm[w] # "none"
      /\ warm[w] = "idle" => w \in spoiled \/ clones[<<"warm", w, home[w]>>] = "stopped"
  BY DEF PoolSound, CloneThere
<1>3. warm[adding[p]] = "cloning" /\ home[adding[p]] = host[p]
  BY DEF PoolSound, AddedOnce
<1>4. \A n \in Nodes : \/ clones'[<<"warm", w, n>>] = clones[<<"warm", w, n>>]
                       \/ w = adding[p] /\ n = host[p] /\ clones'[<<"warm", w, n>>] = made
  <2> SUFFICES ASSUME NEW n \in Nodes
               PROVE  \/ clones'[<<"warm", w, n>>] = clones[<<"warm", w, n>>]
                      \/ w = adding[p] /\ n = host[p] /\ clones'[<<"warm", w, n>>] = made
    OBVIOUS
  <2>1. <<"warm", w, n>> \in Names
    BY WarmNames
  <2>2. CASE <<"warm", w, n>> = WarmName(p)
    BY <2>1, <2>2 DEF WarmName, PoolSound, PoolFunctions
  <2>3. CASE <<"warm", w, n>> # WarmName(p)
    BY <2>1, <2>3 DEF PoolSound, PoolFunctions
  <2> QED
    BY <2>2, <2>3
<1> QED
  BY <1>1, <1>2, <1>3, <1>4

LEMMA FindStep ==
    ASSUME PoolSound, PoolFunctions', NEW b \in Builds, Find(b) PROVE PoolSound'
<1>1. UNCHANGED <<warm, home, clones, host, spoiled, adding>> /\ astray \subseteq astray'
  BY DEF Find, given
<1>2. b \in Workers /\ taken[b] = 0 /\ at = [p \in Workers |-> at[p]] /\ taken = [c \in Builds |-> taken[c]]
  BY DEF Find, PoolSound, TakenOnce, PoolFunctions, Workers
<1>3. CASE Idle # {} /\ Goes(b, "taking")
  <2>1. PICK w \in Warm : /\ warm[w] = "idle" /\ taken' = [taken EXCEPT ![b] = w]
                          /\ (w \in astray' \/ host[b] = home[w])
    BY <1>3 DEF Find, First, Idle
  <2>2. at' = [at EXCEPT ![b] = "taking"]
    BY <1>3 DEF Goes
  <2>4. taken' = [taken EXCEPT ![b] = w]
    BY <2>1
  <2>5. \A c \in Builds : at'[c] = (IF c = b THEN "taking" ELSE at[c])
    BY <2>2 DEF PoolSound, PoolFunctions, Workers
  <2>6. \A c \in Builds : taken'[c] = (IF c = b THEN w ELSE taken[c])
    BY <2>4 DEF PoolSound, PoolFunctions
  <2>7. warm'[w] = "idle" /\ (w \in astray' \/ host'[b] = home'[w]) /\ w # 0
    <3>1. warm[w] = "idle" /\ (w \in astray' \/ host[b] = home[w]) /\ w # 0
      BY <2>1, WarmNames
    <3> QED
      BY <1>1, <3>1
  <2>3. TakenOnce'
    <3> SUFFICES ASSUME NEW c \in Builds
                 PROVE  /\ at'[c] \in {"new", "cloning"} => taken'[c] = 0
                        /\ taken'[c] # 0 => taken'[c] \in Warm /\ warm'[taken'[c]] \notin {"none", "cloning"}
                        /\ taken'[c] # 0 => taken'[c] \in astray' \/ host'[c] = home'[taken'[c]]
                        /\ taken'[c] # 0 /\ at'[c] # "taking" =>
                              warm'[taken'[c]] # "idle" \/ taken'[c] \in spoiled'
      BY DEF TakenOnce
    <3>1. CASE c = b
      <4>1. taken'[c] = w /\ at'[c] = "taking"
        BY <2>5, <2>6, <3>1
      <4> QED
        BY <2>7, <3>1, <4>1
    <3>2. CASE c # b
      <4>1. taken'[c] = taken[c] /\ at'[c] = at[c]
        BY <2>5, <2>6, <3>2
      <4> QED
        BY <1>1, <4>1 DEF PoolSound, TakenOnce
    <3> QED
      BY <3>1, <3>2
  <2> QED
    BY <1>1, <2>3 DEF PoolSound, CloneThere, AddedOnce
<1>4. CASE UNCHANGED taken /\ Goes(b, "cloning")
  <2>1. TakenOnce'
    BY <1>1, <1>2, <1>4 DEF Goes, PoolSound, TakenOnce, Workers
  <2> QED
    BY <1>1, <2>1 DEF PoolSound, CloneThere, AddedOnce
<1> QED
  BY <1>3, <1>4 DEF Find, First, Goes

LEMMA TakeStep ==
    ASSUME PoolSound, PoolFunctions', NEW b \in Builds, Take(b) PROVE PoolSound'
<1>1. CASE taken[b] = 0
  <2>1. warm' = warm
    BY <1>1, WarmNames DEF Take, PoolSound, PoolFunctions
  <2> QED
    BY <1>1, <2>1, RowStep DEF Take, Goes, given, poolHistory, poolMarks
<1>2. CASE taken[b] # 0
  BY <1>2, RowStep DEF Take, Goes, given, poolHistory, poolMarks
<1> QED
  BY <1>1, <1>2

LEMMA TakeFailsStep ==
    ASSUME PoolSound, PoolFunctions', NEW b \in Builds, TakeFails(b) PROVE PoolSound'
<1> USE DEF PoolSound, PoolFunctions, Workers
<1>1. /\ at' = [at EXCEPT ![b] = "destroying"] /\ spoiled' = spoiled \cup {taken[b]}
      /\ UNCHANGED <<warm, home, clones, host, astray, taken, adding>>
  BY DEF TakeFails, Goes, given
<1>2. CloneThere'
  <2>1. \A w \in Warm : w \in spoiled => w \in spoiled'
    BY <1>1
  <2> HIDE DEF PoolSound, PoolFunctions
  <2> QED
    BY <1>1, <2>1 DEF PoolSound, CloneThere
<1>4. AddedOnce'
  BY <1>1 DEF AddedOnce
<1>3. TakenOnce'
  BY <1>1 DEF TakenOnce
<1> QED
  BY <1>2, <1>3, <1>4

LEMMA SaveRowStep ==
    ASSUME PoolSound, PoolFunctions', NEW b \in Builds, Execute(b) \/ SaveDestroyed(b)
    PROVE  PoolSound'
<1>1. CASE Execute(b)
  BY <1>1, RowStep DEF Execute, SaveRow, Goes, given, poolHistory, poolMarks
<1>2. CASE SaveDestroyed(b)
  BY <1>2, RowStep DEF SaveDestroyed, SaveRow, Goes, given, poolHistory, poolMarks
<1> QED
  BY <1>1, <1>2

\* A build that makes a clone does not make a warm one.
LEMMA CloneStep ==
    ASSUME PoolSound, PoolFunctions', NEW b \in Builds, Clone(b) \/ CloneFails(b)
    PROVE  PoolSound'
<1> USE DEF PoolSound, PoolFunctions, Goes, Workers
<1>1. at[b] = "cloning" /\ taken[b] = 0 /\ UNCHANGED <<warm, home, host, spoiled, astray, taken, adding>>
  BY DEF Clone, CloneFails, TakenOnce, given, poolHistory, poolMarks
<1>2. PICK to \in {"executing", "destroying"} : at' = [at EXCEPT ![b] = to]
  BY DEF Clone, CloneFails
<1>3. \A w \in Warm, n \in Nodes : clones'[<<"warm", w, n>>] = clones[<<"warm", w, n>>]
  <2>1. \E made \in {"none", "stopped", "running"} : clones' \in {clones, [clones EXCEPT ![NameOf(b)] = made]}
    BY <1>1 DEF Clone, CloneFails
  <2>2. NameOf(b) = <<"build", run[b], host[b]>>
    BY <1>1 DEF NameOf
  <2> HIDE DEF PoolSound
  <2>3. \A w \in Warm, n \in Nodes : <<"warm", w, n>> # NameOf(b)
    BY ONLY <2>2
  <2>4. \A w \in Warm, n \in Nodes : <<"warm", w, n>> \in Names
    BY ONLY WarmNames
  <2> QED
    BY <2>1, <2>3, <2>4
<1>4. CloneThere'
  BY <1>1, <1>3, SameThere
<1>5. TakenOnce'
  BY <1>1, <1>2 DEF TakenOnce
<1>6. AddedOnce'
  BY <1>1 DEF AddedOnce
<1> QED
  BY <1>4, <1>5, <1>6

\* The clone that a build destroys is not in the pool.
LEMMA DestroyStep ==
    ASSUME PoolSound, PoolFunctions', NEW b \in Builds, Destroy(b) PROVE PoolSound'
<1> USE DEF PoolSound, PoolFunctions, Goes, Workers, Destroy, given, poolMarks
<1>1. at[b] = "destroying" /\ UNCHANGED <<warm, home, host, spoiled, astray, taken, adding>> /\ at' = [at EXCEPT ![b] = "destroyed"]
  OBVIOUS
<1>2. \A w \in Warm, n \in Nodes :
          \/ clones'[<<"warm", w, n>>] = clones[<<"warm", w, n>>]
          \/ clones'[<<"warm", w, n>>] = "none" /\ taken[b] = w
  <2> SUFFICES ASSUME NEW w \in Warm, NEW n \in Nodes
               PROVE  \/ clones'[<<"warm", w, n>>] = clones[<<"warm", w, n>>]
                      \/ clones'[<<"warm", w, n>>] = "none" /\ taken[b] = w
    OBVIOUS
  <2>1. <<"warm", w, n>> \in Names
    BY WarmNames
  <2>2. CASE <<"warm", w, n>> = NameOf(b)
    <3>1. taken[b] = w
      BY <2>2 DEF NameOf
    <3> QED
      BY <2>1, <2>2, <3>1
  <2>3. CASE <<"warm", w, n>> # NameOf(b)
    BY <2>1, <2>3
  <2> QED
    BY <2>2, <2>3
<1>3. CloneThere'
  <2>1. \A w \in Warm : taken[b] = w => warm[w] # "idle" \/ w \in spoiled
    <3>1. taken[b] # 0 => warm[taken[b]] # "idle" \/ taken[b] \in spoiled
      BY <1>1 DEF TakenOnce
    <3> QED
      BY <3>1, WarmNames
  <2> QED
    BY <1>1, <1>2, <2>1, SameThere
<1>4. TakenOnce'
  BY <1>1 DEF TakenOnce
<1>5. AddedOnce'
  BY <1>1 DEF AddedOnce
<1> QED
  BY <1>3, <1>4, <1>5

LEMMA SaveWarmStep ==
    ASSUME PoolSound, PoolFunctions', NEW p \in Workers, SaveWarm(p) PROVE PoolSound'
<1> USE DEF PoolSound, PoolFunctions
<1>1. PICK w \in Warm : /\ warm[w] = "none"
                       /\ warm' = [warm EXCEPT ![w] = "cloning"]
                       /\ adding' = [adding EXCEPT ![p] = w]
                       /\ home' = [home EXCEPT ![w] = host[p]]
  BY DEF SaveWarm, New, First
<1>2. UNCHANGED <<clones, host, spoiled, astray, at, taken>>
  BY DEF SaveWarm, given, poolHistory, poolMarks
<1>3. CloneThere'
  <2> SUFFICES ASSUME NEW v \in Warm
               PROVE  /\ \A n \in Nodes :
                            \/ clones[<<"warm", v, n>>] = "none"
                            \/ clones[<<"warm", v, n>>] = "stopped" /\ n = home'[v] /\ warm'[v] # "none"
                      /\ warm'[v] = "idle" => v \in spoiled \/ clones[<<"warm", v, home'[v]>>] = "stopped"
    BY <1>2 DEF CloneThere
  <2>1. CASE v = w
    <3>1. warm[v] = "none"
      BY <1>1, <2>1
    <3>2. \A n \in Nodes : clones[<<"warm", v, n>>] = "none"
      BY <3>1 DEF CloneThere
    <3> QED
      BY <1>1, <2>1, <3>2
  <2>2. CASE v # w
    <3>1. warm'[v] = warm[v] /\ home'[v] = home[v]
      BY <1>1, <2>2
    <3> QED
      BY <3>1 DEF CloneThere
  <2> QED
    BY <2>1, <2>2
<1>4. TakenOnce'
  BY <1>1, <1>2 DEF TakenOnce
<1>5. AddedOnce'
  BY <1>1, <1>2 DEF AddedOnce
<1> QED
  BY <1>3, <1>4, <1>5

LEMMA CloneWarmStep ==
    ASSUME PoolSound, PoolFunctions', NEW p \in Workers, CloneWarm(p) PROVE PoolSound'
<1> USE DEF PoolSound, PoolFunctions, CloneWarm, WarmName, procs, given, poolHistory, poolMarks
<1>1. CloneThere'
  BY MadeThere
<1>2. TakenOnce'
  BY DEF TakenOnce
<1>3. AddedOnce'
  BY DEF AddedOnce
<1> QED
  BY <1>1, <1>2, <1>3

\* What a worker that is over leaves behind.
LEMMA FinishEffect ==
    ASSUME PoolSound, NEW p \in Workers, Finish(p)
    PROVE  /\ \A b \in Builds : taken'[b] = 0 \/ (taken'[b] = taken[b] /\ at'[b] = at[b])
           /\ \A q \in Workers : adding'[q] = (IF q = p THEN 0 ELSE adding[q])
BY DEF Finish, Goes, PoolSound, PoolFunctions, Workers

LEMMA SaveIdleStep ==
    ASSUME PoolSound, PoolFunctions', NEW p \in Workers, SaveIdle(p) PROVE PoolSound'
<1> USE DEF PoolSound, PoolFunctions
<1> DEFINE w == adding[p]
<1>1. /\ w \in Warm /\ warm[w] = "cloning" /\ UNCHANGED <<home, clones, host, spoiled, astray>>
      /\ warm' = [warm EXCEPT ![w] = "idle"] /\ clones[<<"warm", w, home[w]>>] # "none"
  BY DEF SaveIdle, AddedOnce, WarmName, given, poolHistory, poolMarks
<1>2. \A q \in Workers : adding'[q] = (IF q = p THEN 0 ELSE adding[q])
  BY FinishEffect DEF SaveIdle
<1>3. \A b \in Builds : taken'[b] = 0 \/ (taken'[b] = taken[b] /\ at'[b] = at[b])
  BY FinishEffect DEF SaveIdle
<1>4. CloneThere'
  <2>1. \A v \in Warm : v # w => warm'[v] = warm[v]
    BY <1>1
  <2>2. warm'[w] = "idle" /\ home[w] \in Nodes
    BY <1>1
  <2>3. clones[<<"warm", w, home[w]>>] = "stopped"
    BY <1>1, <2>2 DEF CloneThere
  <2>4. CloneThere
    OBVIOUS
  <2> HIDE DEF w, PoolSound, PoolFunctions
  <2> QED
    BY <1>1, <2>1, <2>2, <2>3, <2>4 DEF CloneThere
<1>5. TakenOnce'
  <2>1. \A v \in Warm : v # w => warm'[v] = warm[v]
    BY <1>1
  <2>2. ASSUME NEW b \in Builds, taken'[b] # 0
        PROVE  taken'[b] = taken[b] /\ at'[b] = at[b] /\ taken[b] \in Warm /\ taken[b] # w
    BY <1>1, <1>3, <2>2 DEF TakenOnce
  <2> HIDE DEF PoolSound, PoolFunctions, w
  <2> QED
    BY <1>1, <2>1, <2>2 DEF PoolSound, TakenOnce
<1>6. AddedOnce'
  <2>1. \A q \in Workers : adding'[q] # 0 => adding'[q] = adding[q] /\ q # p /\ adding[q] # w
    BY <1>1, <1>2 DEF AddedOnce
  <2>2. \A v \in Warm : v # w => warm'[v] = warm[v]
    BY <1>1
  <2>3. AddedOnce /\ UNCHANGED <<home, host>>
    BY <1>1
  <2> HIDE DEF w, PoolSound, PoolFunctions
  <2> QED
    BY <2>1, <2>2, <2>3 DEF AddedOnce
<1> QED
  BY <1>4, <1>5, <1>6

LEMMA CloneWarmFailsStep ==
    ASSUME PoolSound, PoolFunctions', NEW p \in Workers, CloneWarmFails(p) PROVE PoolSound'
<1> USE DEF PoolSound, PoolFunctions
<1>1. PICK made \in {"none", "stopped"} :
          clones' = [clones EXCEPT ![WarmName(p)] = made]
  BY DEF CloneWarmFails
<1>2. adding[p] \in Warm /\ warm[adding[p]] = "cloning" /\ UNCHANGED <<warm, home, host, spoiled, astray>>
  BY DEF CloneWarmFails, AddedOnce, given, poolMarks
<1>3. /\ \A b \in Builds : taken'[b] = 0 \/ (taken'[b] = taken[b] /\ at'[b] = at[b])
      /\ \A q \in Workers : adding'[q] = (IF q = p THEN 0 ELSE adding[q])
  BY FinishEffect DEF CloneWarmFails
<1>4. CloneThere'
  BY <1>1, <1>2, MadeThere DEF CloneWarmFails
<1>5. TakenOnce'
  <2>1. TakenOnce
    OBVIOUS
  <2> HIDE DEF PoolSound, PoolFunctions
  <2> QED
    BY <1>2, <1>3, <2>1 DEF TakenOnce
<1>6. AddedOnce'
  <2>1. \A q \in Workers : adding'[q] # 0 => adding'[q] = adding[q] /\ q # p /\ adding[q] # adding[p]
    BY <1>2, <1>3 DEF AddedOnce
  <2>2. AddedOnce
    OBVIOUS
  <2> HIDE DEF PoolSound, PoolFunctions
  <2> QED
    BY <1>2, <2>1, <2>2 DEF AddedOnce
<1> QED
  BY <1>4, <1>5, <1>6

-----------------------------------------------------------------------------
\* The variables that are functions stay functions.
LEMMA PoolFunctionsStep ==
    ASSUME PoolSound, PoolNext PROVE PoolFunctions'
<1> USE DEF PoolSound, PoolFunctions, Workers
<1>1. warm' = [w \in Warm |-> warm'[w]]
  BY DEF PoolNext, Build, Fill, Find, Take, TakeFails, Clone, CloneFails, Execute, ExecuteFails, Collect, Destroy,
     SaveDestroyed, SaveRow, Resize, Bake, BakeEnds, Count, SaveWarm, CloneWarm, SaveIdle, CloneWarmFails,
     CrashWorker
<1>2. clones' = [n \in Names |-> clones'[n]]
  BY DEF PoolNext, Build, Fill, Find, Take, TakeFails, Clone, CloneFails, Execute, ExecuteFails, Collect, Destroy,
     SaveDestroyed, Resize, Bake, BakeEnds, Count, SaveWarm, CloneWarm, SaveIdle, CloneWarmFails, CrashWorker
<1>3. at' = [p \in Workers |-> at'[p]]
  BY DEF PoolNext, Build, Fill, Find, Take, TakeFails, Clone, CloneFails, Execute, ExecuteFails, Collect, Destroy,
     SaveDestroyed, Resize, Bake, BakeEnds, Count, SaveWarm, CloneWarm, SaveIdle, CloneWarmFails, CrashWorker,
     Goes, Finish, procs
<1>4. taken' = [b \in Builds |-> taken'[b]]
  BY DEF PoolNext, Build, Fill, Find, Take, TakeFails, Clone, CloneFails, Execute, ExecuteFails, Collect, Destroy,
     SaveDestroyed, Resize, Bake, BakeEnds, Count, SaveWarm, CloneWarm, SaveIdle, CloneWarmFails, CrashWorker,
     Finish, procs
<1>5. adding' = [p \in Workers |-> adding'[p]]
  BY DEF PoolNext, Build, Fill, Find, Take, TakeFails, Clone, CloneFails, Execute, ExecuteFails, Collect, Destroy,
     SaveDestroyed, Resize, Bake, BakeEnds, Count, SaveWarm, CloneWarm, SaveIdle, CloneWarmFails, CrashWorker,
     Finish, procs
<1>6. home' \in [Warm -> Nodes] /\ host' \in [Workers -> Nodes]
  BY DEF PoolNext, Build, Fill, Find, Take, TakeFails, Clone, CloneFails, Execute, ExecuteFails, Collect, Destroy,
     SaveDestroyed, Resize, Bake, BakeEnds, Count, SaveWarm, CloneWarm, SaveIdle, CloneWarmFails, CrashWorker,
     procs, given
<1> QED
  BY <1>1, <1>2, <1>3, <1>4, <1>5, <1>6

\* However builds, resizes and bakes overlap and whatever fails, a clone is
\* found by builds or added by one worker, never both.
THEOREM ClonesAreHandedOut ==
    PoolSpec => []PoolSound
<1>1. PoolInit => PoolSound
  <2> SUFFICES ASSUME PoolInit PROVE PoolSound
    OBVIOUS
  <2>1. PoolFunctions
    BY PoolAssumption DEF PoolInit, PoolFunctions
  <2>2. CloneThere
    BY WarmNames DEF PoolInit, CloneThere
  <2>3. TakenOnce /\ AddedOnce
    BY DEF PoolInit, TakenOnce, AddedOnce
  <2> QED
    BY <2>1, <2>2, <2>3 DEF PoolSound
<1>2. PoolSound /\ [PoolNext]_poolVars => PoolSound'
  <2> SUFFICES ASSUME PoolSound, [PoolNext]_poolVars PROVE PoolSound'
    OBVIOUS
  <2>1. CASE PoolNext
    <3>1. PoolFunctions'
      BY <2>1, PoolFunctionsStep
    <3>2. ASSUME NEW p \in Workers, NEW to, to \notin {"new", "cloning"}, at[p] # "taking",
                 at' = [at EXCEPT ![p] = to], UNCHANGED <<warm, home, clones, host, spoiled, astray, taken, adding>>
          PROVE  PoolSound'
      <4>1. \A b \in Builds : at'[b] = at[b] \/ (at[b] # "taking" /\ at'[b] \notin {"new", "cloning"})
        BY <3>2 DEF PoolSound, PoolFunctions, Workers
      <4> QED
        BY <3>1, <3>2, <4>1, PoolOtherStep
    <3>3. ASSUME NEW b \in Builds, ExecuteFails(b) \/ Collect(b) PROVE PoolSound'
      BY <3>2, <3>3 DEF ExecuteFails, Collect, Goes, Workers, given, poolHistory, poolMarks
    <3>4. ASSUME NEW a \in Admins, Bake(a) \/ BakeEnds(a) \/ \E n \in Sizes : Resize(a, n) PROVE PoolSound'
      BY <3>2, <3>4 DEF Bake, BakeEnds, Resize, Goes, Workers, given, poolHistory, poolMarks
    <3>5. ASSUME NEW p \in Workers, Finish(p), UNCHANGED <<warm, home, clones, host, spoiled, astray>> PROVE PoolSound'
      <4>1. \A b \in Builds : taken'[b] = 0 \/ (taken'[b] = taken[b] /\ at'[b] = at[b])
        BY <3>5, FinishEffect
      <4>2. \A q \in Workers : adding'[q] \in {0, adding[q]}
        BY <3>5, FinishEffect
      <4> QED
        BY <3>1, <3>5, <4>1, <4>2, PoolOtherStep
    <3>6. ASSUME NEW p \in Workers, Count(p) PROVE PoolSound'
      <4>1. CASE Finish(p)
        BY <3>5, <3>6, <4>1 DEF Count, given, poolMarks
      <4>2. CASE Goes(p, "filling") /\ UNCHANGED <<taken, adding>>
        BY <3>2, <3>6, <4>2 DEF Count, Goes, given, poolMarks
      <4> QED
        BY <3>6, <4>1, <4>2 DEF Count
    <3>7. ASSUME NEW p \in Workers, CrashWorker(p) PROVE PoolSound'
      BY <3>5, <3>7 DEF CrashWorker, given, poolMarks
    <3> QED
      BY <2>1, <3>1, <3>3, <3>4, <3>6, <3>7, FindStep, TakeStep, TakeFailsStep, SaveRowStep, CloneStep, DestroyStep,
         SaveWarmStep, CloneWarmStep, SaveIdleStep, CloneWarmFailsStep DEF PoolNext, Build, Fill
  <2>2. CASE UNCHANGED poolVars
    <3>1. UNCHANGED <<warm, home, clones, host, at, taken, adding, spoiled, astray>>
      BY <2>2 DEF poolVars, procs, given, poolHistory, poolMarks
    <3>2. PoolFunctions'
      BY <3>1 DEF PoolSound, PoolFunctions
    <3>3. CloneThere' /\ TakenOnce' /\ AddedOnce'
      BY <3>1 DEF PoolSound, CloneThere, TakenOnce, AddedOnce
    <3> QED
      BY <3>2, <3>3 DEF PoolSound
  <2> QED
    BY <2>1, <2>2
<1> QED
  BY <1>1, <1>2, PTL DEF PoolSpec

\* A clone in the pool is there, and no build works in it.
THEOREM IdleClonesAreFree ==
    PoolSpec => []IdleIsFree
<1>1. PoolSound => IdleIsFree
  <2> SUFFICES ASSUME PoolSound, NEW w \in Idle, w \notin spoiled
               PROVE  /\ clones[<<"warm", w, home[w]>>] = "stopped"
                      /\ \A b \in Builds : taken[b] = w => at[b] = "taking"
    BY DEF IdleIsFree
  <2>1. w \in Warm /\ warm[w] = "idle" /\ w # 0
    BY WarmNames DEF Idle
  <2> QED
    BY <2>1 DEF PoolSound, CloneThere, TakenOnce
<1> QED
  BY <1>1, ClonesAreHandedOut, PTL

-----------------------------------------------------------------------------
\* Sets of warm clones can be counted.
LEMMA WarmCount ==
    ASSUME NEW S, S \subseteq Warm
    PROVE  IsFiniteSet(S) /\ Cardinality(S) \in Nat
<1>1. IsFiniteSet(Warm)
  BY PoolAssumption, FS_Interval, 0 \in Int, 1 \in Int DEF Warm
<1> QED
  BY <1>1, FS_Subset, FS_CardinalityType

LEMMA IdleCount ==
    Cardinality(Idle) \in Nat
BY WarmCount, Idle \subseteq Warm DEF Idle

Values ==
    /\ \A b \in Builds : run[b] \in Runs
    /\ size \in Nat
    /\ asked \in Nat
    /\ largest \in Nat
    /\ want \in [Workers -> Nat]
    /\ left \in [Workers -> Nat]
    /\ \A p \in Workers : at[p] # "filling" => left[p] = 0

Typed == PoolSound /\ PoolTypeOK /\ Values

\* A worker begins with what it reads of the template.
LEMMA Begins ==
    ASSUME Typed, NEW p \in Workers, NEW n \in Nat, NEW to, to # "filling", at[p] = "new",
           at' = [at EXCEPT ![p] = to], want' = [want EXCEPT ![p] = n], UNCHANGED <<left, adding>>
    PROVE  /\ want' \in [Workers -> Nat]
           /\ left' \in [Workers -> Nat]
           /\ \A q \in Workers :
               /\ at'[q] # "filling" => left'[q] = 0
               /\ left'[q] \in 0 .. want'[q]
               /\ adding'[q] # 0 => at'[q] = "filling" /\ left'[q] > 0
<1>1. left[p] = 0 /\ adding[p] = 0
  BY DEF Typed, Values, PoolTypeOK
<1>2. \A q \in Workers : at'[q] = (IF q = p THEN to ELSE at[q])
  BY DEF Typed, PoolSound, PoolFunctions
<1>3. \A q \in Workers : want'[q] = (IF q = p THEN n ELSE want[q])
  BY DEF Typed, Values
<1> QED
  BY <1>1, <1>2, <1>3 DEF Typed, Values, PoolTypeOK

LEMMA BuildTyped ==
    ASSUME Typed, PoolSound', NEW b \in Builds, Build(b) PROVE Typed'
<1> USE PoolAssumption DEF Typed, PoolSound, PoolFunctions, PoolTypeOK, Values, Workers, Goes, PoolFault, poolHistory, poolSizes, given, Statuses
<1>1. CASE Find(b)
  <2>1. \A c \in Builds : taken'[c] \in 0 .. MaxWarm
    <3>1. UNCHANGED taken \/ \E w \in Warm : taken' = [taken EXCEPT ![b] = w]
      BY <1>1 DEF Find, First, Idle
    <3> QED
      BY <3>1 DEF Warm
  <2>2. at[b] = "new" /\ left[b] = 0 /\ adding[b] = 0 /\ want' = [want EXCEPT ![b] = size]
    BY <1>1 DEF Find
  <2>3. at' \in {[at EXCEPT ![b] = "taking"], [at EXCEPT ![b] = "cloning"]} /\ UNCHANGED <<left, adding>>
    BY <1>1 DEF Find
  <2>4. /\ want' \in [Workers -> Nat] /\ left' \in [Workers -> Nat]
        /\ \A q \in Workers : /\ at'[q] # "filling" => left'[q] = 0
                              /\ left'[q] \in 0 .. want'[q]
                              /\ adding'[q] # 0 => at'[q] = "filling" /\ left'[q] > 0
    BY <2>2, <2>3, Begins
  <2>5. Values'
    BY <1>1, <2>4 DEF Find
  <2>6. warm' \in [Warm -> Statuses] /\ job' \in [Builds -> Statuses \ {"idle", "running"}]
    BY <1>1 DEF Find
  <2>7. UNCHANGED <<clones, poolFaults>>
    BY <1>1 DEF Find
  <2>8. PoolTypeOK'
    BY <2>1, <2>4, <2>6, <2>7
  <2> QED
    BY <2>5, <2>8
<1>2. CASE Take(b)
  BY <1>2 DEF Take
<1>10. CASE TakeFails(b)
  <2>1. UNCHANGED <<size, warm, job, clones, run, taken, want, left, adding, asked, largest>>
    BY <1>10 DEF TakeFails
  <2>2. at' = [at EXCEPT ![b] = "destroying"] /\ at[b] = "taking" /\ poolFaults' \in 0 .. MaxPoolFaults
    BY <1>10 DEF TakeFails
  <2>3. Values'
    BY <2>1, <2>2
  <2>4. PoolTypeOK'
    BY <2>1, <2>2
  <2> QED
    BY <2>3, <2>4
<1>3. CASE Clone(b)
  BY <1>3 DEF Clone
<1>4. CASE CloneFails(b)
  <2>1. clones' \in [Names -> {"none", "stopped", "running"}] /\ poolFaults' \in 0 .. MaxPoolFaults
    BY <1>4 DEF CloneFails
  <2>2. warm' \in [Warm -> Statuses] /\ job' \in [Builds -> Statuses \ {"idle", "running"}]
    BY <1>4 DEF CloneFails
  <2>3. Values' /\ \A q \in Workers : left'[q] \in 0 .. want'[q] /\ (adding'[q] # 0 => at'[q] = "filling" /\ left'[q] > 0)
    BY <1>4 DEF CloneFails
  <2>4. \A c \in Builds : taken'[c] \in 0 .. MaxWarm
    BY <1>4 DEF CloneFails
  <2> QED
    BY <2>1, <2>2, <2>3, <2>4
<1>5. CASE Execute(b)
  <2>1. warm' \in [Warm -> Statuses] /\ job' \in [Builds -> Statuses \ {"idle", "running"}]
    BY <1>5 DEF Execute, SaveRow
  <2>2. Values'
    BY <1>5 DEF Execute
  <2> QED
    BY <1>5, <2>1, <2>2 DEF Execute
<1>6. CASE ExecuteFails(b)
  BY <1>6 DEF ExecuteFails
<1>7. CASE Collect(b)
  BY <1>7 DEF Collect
<1>8. CASE Destroy(b)
  <2>1. clones' \in [Names -> {"none", "stopped", "running"}] /\ poolFaults' \in 0 .. MaxPoolFaults
    BY <1>8 DEF Destroy
  <2>2. warm' \in [Warm -> Statuses] /\ job' \in [Builds -> Statuses \ {"idle", "running"}]
    BY <1>8 DEF Destroy
  <2>3. Values' /\ \A q \in Workers : left'[q] \in 0 .. want'[q] /\ (adding'[q] # 0 => at'[q] = "filling" /\ left'[q] > 0)
    BY <1>8 DEF Destroy
  <2>4. \A c \in Builds : taken'[c] \in 0 .. MaxWarm
    BY <1>8 DEF Destroy
  <2> QED
    BY <2>1, <2>2, <2>3, <2>4
<1>9. CASE SaveDestroyed(b)
  <2>1. warm' \in [Warm -> Statuses] /\ job' \in [Builds -> Statuses \ {"idle", "running"}]
    BY <1>9 DEF SaveDestroyed, SaveRow
  <2>2. Values'
    BY <1>9 DEF SaveDestroyed
  <2> QED
    BY <1>9, <2>1, <2>2 DEF SaveDestroyed
<1> QED
  BY <1>1, <1>2, <1>3, <1>4, <1>5, <1>6, <1>7, <1>8, <1>9, <1>10 DEF Build

LEMMA AdminTyped ==
    ASSUME Typed, PoolSound', NEW a \in Admins, Bake(a) \/ BakeEnds(a) \/ \E n \in Sizes : Resize(a, n)
    PROVE  Typed'
<1> USE PoolAssumption DEF Typed, PoolTypeOK, Values, Workers, Goes, PoolFault, poolHistory, poolSizes, given, Statuses
<1>1. CASE Bake(a)
  <2>1. at[a] = "new" /\ left[a] = 0 /\ adding[a] = 0 /\ want' = [want EXCEPT ![a] = size]
    BY <1>1 DEF Bake
  <2>2. at' = [at EXCEPT ![a] = "baking"] /\ UNCHANGED <<left, adding>>
    BY <1>1 DEF Bake
  <2>3. /\ want' \in [Workers -> Nat] /\ left' \in [Workers -> Nat]
        /\ \A q \in Workers : /\ at'[q] # "filling" => left'[q] = 0
                              /\ left'[q] \in 0 .. want'[q]
                              /\ adding'[q] # 0 => at'[q] = "filling" /\ left'[q] > 0
    BY <2>1, <2>2, Begins
  <2>4. Values'
    BY <1>1, <2>3 DEF Bake
  <2>5. UNCHANGED <<warm, job, clones, taken, poolFaults>>
    BY <1>1 DEF Bake
  <2>6. PoolTypeOK'
    BY <2>3, <2>5
  <2> QED
    BY <2>4, <2>6
<1>2. CASE BakeEnds(a)
  BY <1>2 DEF BakeEnds
<1>3. ASSUME NEW n \in Sizes, Resize(a, n) PROVE Typed'
  <2>1. at[a] = "new" /\ left[a] = 0 /\ adding[a] = 0 /\ want' = [want EXCEPT ![a] = n]
    BY <1>3 DEF Resize
  <2>2. at' = [at EXCEPT ![a] = "counting"] /\ UNCHANGED <<left, adding>>
    BY <1>3 DEF Resize
  <2>3. /\ want' \in [Workers -> Nat] /\ left' \in [Workers -> Nat]
        /\ \A q \in Workers : /\ at'[q] # "filling" => left'[q] = 0
                              /\ left'[q] \in 0 .. want'[q]
                              /\ adding'[q] # 0 => at'[q] = "filling" /\ left'[q] > 0
    BY <2>1, <2>2, Begins
  <2>4. Values'
    BY <1>3, <2>3 DEF Resize
  <2>5. UNCHANGED <<warm, job, clones, taken, poolFaults>>
    BY <1>3 DEF Resize
  <2>6. PoolTypeOK'
    BY <2>3, <2>5
  <2> QED
    BY <2>4, <2>6
<1> QED
  BY <1>1, <1>2, <1>3

LEMMA FillTyped ==
    ASSUME Typed, PoolSound', NEW p \in Workers, Fill(p) \/ CrashWorker(p) PROVE Typed'
<1> USE PoolAssumption, IdleCount DEF Typed, PoolSound, PoolFunctions, PoolTypeOK, Values, Goes, PoolFault, poolHistory, poolSizes, given, Statuses
<1>1. CASE Count(p)
  BY <1>1 DEF Count, Finish, Missing
<1>2. CASE SaveWarm(p)
  BY <1>2 DEF SaveWarm, New, First
<1>3. CASE CloneWarm(p)
  BY <1>3 DEF CloneWarm, procs
<1>4. CASE SaveIdle(p)
  <2>1. clones' \in [Names -> {"none", "stopped", "running"}] /\ poolFaults' \in 0 .. MaxPoolFaults
    BY <1>4 DEF SaveIdle, Finish
  <2>2. warm' \in [Warm -> Statuses] /\ job' \in [Builds -> Statuses \ {"idle", "running"}]
    BY <1>4 DEF SaveIdle, Finish
  <2>3. Values' /\ \A q \in Workers : left'[q] \in 0 .. want'[q] /\ (adding'[q] # 0 => at'[q] = "filling" /\ left'[q] > 0)
    BY <1>4 DEF SaveIdle, Finish
  <2>4. \A c \in Builds : taken'[c] \in 0 .. MaxWarm
    BY <1>4 DEF SaveIdle, Finish
  <2> QED
    BY <2>1, <2>2, <2>3, <2>4
<1>5. CASE CloneWarmFails(p)
  <2>1. clones' \in [Names -> {"none", "stopped", "running"}] /\ poolFaults' \in 0 .. MaxPoolFaults
    <3>1. PICK made \in {"none", "stopped"} : clones' = [clones EXCEPT ![WarmName(p)] = made]
      BY <1>5 DEF CloneWarmFails
    <3>2. poolFaults' \in 0 .. MaxPoolFaults
      BY <1>5 DEF CloneWarmFails
    <3> QED
      BY <3>1, <3>2
  <2>2. warm' \in [Warm -> Statuses] /\ job' \in [Builds -> Statuses \ {"idle", "running"}]
    BY <1>5 DEF CloneWarmFails, Finish
  <2>3. Values' /\ \A q \in Workers : left'[q] \in 0 .. want'[q] /\ (adding'[q] # 0 => at'[q] = "filling" /\ left'[q] > 0)
    BY <1>5 DEF CloneWarmFails, Finish
  <2>4. \A c \in Builds : taken'[c] \in 0 .. MaxWarm
    BY <1>5 DEF CloneWarmFails, Finish
  <2> QED
    BY <2>1, <2>2, <2>3, <2>4
<1>6. CASE CrashWorker(p)
  BY <1>6 DEF CrashWorker, Finish
<1> QED
  BY <1>1, <1>2, <1>3, <1>4, <1>5, <1>6 DEF Fill

\* The values that the variables of the pool range over.
THEOREM PoolTyped ==
    PoolSpec => []Typed
<1>1. PoolInit => Values /\ PoolTypeOK
  BY PoolAssumption DEF PoolInit, Values, PoolTypeOK, Statuses
<1>2. Typed /\ PoolSound' /\ [PoolNext]_poolVars => Typed'
  <2>1. Typed /\ PoolSound' /\ PoolNext => Typed'
    BY BuildTyped, AdminTyped, FillTyped DEF PoolNext
  <2>2. Typed /\ PoolSound' /\ UNCHANGED poolVars => Typed'
    BY DEF Typed, Values, PoolTypeOK, poolVars, procs, given, poolHistory, poolSizes, Idle
  <2> QED
    BY <2>1, <2>2
<1>3. PoolSound /\ Values /\ PoolTypeOK => Typed
  BY DEF Typed
<1> QED
  BY <1>1, <1>2, <1>3, ClonesAreHandedOut, PTL DEF PoolSpec

-----------------------------------------------------------------------------
Admin(a) == Bake(a) \/ BakeEnds(a) \/ \E n \in Sizes : Resize(a, n)

Acts(p) ==
    \/ p \in Builds /\ Build(p)
    \/ p \in Admins /\ Admin(p)
    \/ Fill(p)
    \/ CrashWorker(p)

LEMMA OneActs ==
    ASSUME PoolNext PROVE \E p \in Workers : Acts(p)
BY DEF PoolNext, Acts, Admin, Workers

\* A step is one of one worker, and leaves the others alone.
LEMMA OthersRest ==
    ASSUME Typed, NEW p \in Workers, Acts(p)
    PROVE  /\ run' = run /\ host' = host
           /\ \A q \in Workers \ {p} : /\ at'[q] = at[q]
                                        /\ want'[q] = want[q]
                                        /\ left'[q] = left[q]
                                        /\ adding'[q] = adding[q]
           /\ \A b \in Builds \ {p} : taken'[b] = taken[b]
<1> USE DEF Typed, PoolSound, PoolFunctions, Values, Goes, Workers, poolHistory, procs, given
<1>1. CASE p \in Builds /\ Find(p)
  BY <1>1 DEF Find
<1>2. CASE p \in Builds /\ Take(p)
  BY <1>2 DEF Take
<1>3. CASE p \in Builds /\ Clone(p)
  BY <1>3 DEF Clone
<1>4. CASE p \in Builds /\ CloneFails(p)
  BY <1>4 DEF CloneFails
<1>5. CASE p \in Builds /\ Execute(p)
  BY <1>5 DEF Execute
<1>6. CASE p \in Builds /\ ExecuteFails(p)
  BY <1>6 DEF ExecuteFails
<1>7. CASE p \in Builds /\ Collect(p)
  BY <1>7 DEF Collect
<1>8. CASE p \in Builds /\ Destroy(p)
  BY <1>8 DEF Destroy
<1>9. CASE p \in Builds /\ SaveDestroyed(p)
  BY <1>9 DEF SaveDestroyed
<1>17. CASE p \in Builds /\ TakeFails(p)
  BY <1>17 DEF TakeFails
<1>10. CASE Admin(p)
  BY <1>10 DEF Admin, Bake, BakeEnds, Resize
<1>11. CASE Count(p)
  <2>1. run' = run /\ host' = host
    BY <1>11 DEF Count
  <2>2. CASE Finish(p)
    BY <2>1, <2>2 DEF Finish
  <2>3. CASE Goes(p, "filling") /\ left' = [left EXCEPT ![p] = Missing(p)] /\ UNCHANGED <<taken, want, adding>>
    BY <2>1, <2>3
  <2> QED
    BY <1>11, <2>2, <2>3 DEF Count
<1>12. CASE SaveWarm(p)
  BY <1>12 DEF SaveWarm
<1>13. CASE CloneWarm(p)
  BY <1>13 DEF CloneWarm
<1>14. CASE SaveIdle(p)
  <2>1. run' = run /\ host' = host
    BY <1>14 DEF SaveIdle
  <2>2. CASE Finish(p)
    BY <2>1, <2>2 DEF Finish
  <2>3. CASE adding' = [adding EXCEPT ![p] = 0] /\ left' = [left EXCEPT ![p] = @ - 1] /\ UNCHANGED <<at, taken, want>>
    BY <2>1, <2>3
  <2> QED
    BY <1>14, <2>2, <2>3 DEF SaveIdle
<1>15. CASE CloneWarmFails(p)
  BY <1>15 DEF CloneWarmFails, Finish
<1>16. CASE CrashWorker(p)
  BY <1>16 DEF CrashWorker, Finish
<1> QED
  BY <1>1, <1>2, <1>3, <1>4, <1>5, <1>6, <1>7, <1>8, <1>9, <1>10, <1>11, <1>12,
     <1>13, <1>14, <1>15, <1>16, <1>17 DEF Acts, Build, Fill

-----------------------------------------------------------------------------
\* Which steps change what Incus has under a name.
LEMMA ClonesChange ==
    ASSUME Typed, NEW p \in Workers, Acts(p), NEW n \in Names, clones'[n] # clones[n]
    PROVE  \/ p \in Builds /\ n = NameOf(p) /\ (Clone(p) \/ CloneFails(p) \/ Destroy(p))
           \/ adding[p] # 0 /\ n = WarmName(p) /\ (CloneWarm(p) \/ CloneWarmFails(p))
<1> USE DEF Typed, PoolSound, PoolFunctions, Acts
<1>1. CASE p \in Builds /\ Build(p)
  BY <1>1 DEF Build, Find, Take, TakeFails, Clone, CloneFails, Execute, ExecuteFails, Collect, Destroy, SaveDestroyed
<1>2. CASE Admin(p)
  BY <1>2 DEF Admin, Bake, BakeEnds, Resize
<1>3. CASE Fill(p)
  BY <1>3 DEF Fill, Count, SaveWarm, CloneWarm, SaveIdle, CloneWarmFails
<1>4. CASE CrashWorker(p)
  BY <1>4 DEF CrashWorker
<1> QED
  BY <1>1, <1>2, <1>3, <1>4

\* Where a worker is after its steps on the way of a build.
LEMMA BuildMoves ==
    ASSUME Typed, NEW p \in Workers, Acts(p), at'[p] \in {"executing", "collecting", "destroying", "destroyed"}
    PROVE  /\ p \in Builds
           /\ \/ at'[p] = "executing" /\ (Take(p) \/ Clone(p))
              \/ at'[p] = "collecting" /\ Execute(p)
              \/ at'[p] = "destroying" /\ (TakeFails(p) \/ CloneFails(p) \/ ExecuteFails(p) \/ Collect(p))
              \/ at'[p] = "destroyed" /\ Destroy(p)
<1> USE DEF Typed, PoolSound, PoolFunctions, Goes
<1>1. CASE p \in Builds /\ Build(p)
  BY <1>1 DEF Build, Find, Take, TakeFails, Clone, CloneFails, Execute, ExecuteFails, Collect, Destroy, SaveDestroyed
<1>2. CASE Admin(p)
  BY <1>2 DEF Admin, Bake, BakeEnds, Resize
<1>3. CASE Fill(p)
  <2>1. at'[p] \in {"filling", "done"}
    BY <1>3 DEF Fill, Count, SaveWarm, CloneWarm, SaveIdle, CloneWarmFails, Finish, PoolTypeOK, procs
  <2> QED
    BY <2>1
<1>4. CASE CrashWorker(p)
  BY <1>4 DEF CrashWorker, Finish
<1> QED
  BY <1>1, <1>2, <1>3, <1>4 DEF Acts

\* A build that is collecting made its clone: the warm ones are never started.
CollectsOwn == \A b \in Builds : at[b] = "collecting" => taken[b] = 0

LEMMA ExecutesOwn ==
    ASSUME Typed, NEW b \in Builds, Execute(b)
    PROVE  taken[b] = 0 /\ taken' = taken /\ clones' = clones /\ clones[NameOf(b)] = "running"
<1>1. clones[NameOf(b)] = "running" /\ taken' = taken /\ clones' = clones
  BY DEF Execute
<1>2. taken[b] # 0 => taken[b] \in Warm /\ NameOf(b) = <<"warm", taken[b], host[b]>>
  BY DEF Typed, PoolSound, TakenOnce, NameOf
<1>3. \A w \in Warm, n \in Nodes : clones[<<"warm", w, n>>] # "running"
  BY DEF Typed, PoolSound, CloneThere
<1>4. host[b] \in Nodes
  BY DEF Typed, PoolSound, PoolFunctions, Workers
<1> QED
  BY <1>1, <1>2, <1>3, <1>4

LEMMA CollectsOwnStep ==
    ASSUME Typed, CollectsOwn, NEW p \in Workers, Acts(p) PROVE CollectsOwn'
<1> SUFFICES ASSUME NEW b \in Builds, at'[b] = "collecting" PROVE taken'[b] = 0
  BY DEF CollectsOwn
<1>1. CASE b = p
  BY <1>1, BuildMoves, ExecutesOwn
<1>2. CASE b # p
  BY <1>2, OthersRest DEF CollectsOwn, Workers
<1> QED
  BY <1>1, <1>2

LEMMA CloneKeptStep ==
    ASSUME Typed, CollectsOwn, CloneKept, NEW p \in Workers, Acts(p) PROVE CloneKept'
<1> SUFFICES ASSUME NEW b \in Builds, at'[b] = "collecting", \A other \in Builds \ {b} : run'[other] # run'[b]
             PROVE  clones'[NameOf(b)'] = "running"
  BY DEF CloneKept
<1>1. CASE b = p
  <2>1. Execute(b)
    BY <1>1, BuildMoves
  <2> QED
    BY <2>1, ExecutesOwn, OthersRest DEF NameOf
<1>2. CASE b # p
  <2>1. at[b] = "collecting" /\ taken[b] = 0 /\ taken'[b] = 0 /\ run' = run /\ host' = host
    BY <1>2, OthersRest DEF CollectsOwn, Workers
  <2>2. clones[<<"build", run[b], host[b]>>] = "running" /\ NameOf(b)' = <<"build", run[b], host[b]>>
    BY <2>1 DEF CloneKept, NameOf
  <2>3. p \in Builds => NameOf(p) # <<"build", run[b], host[b]>>
    BY <1>2, <2>1 DEF NameOf
  <2>4. <<"build", run[b], host[b]>> \in Names
    BY DEF Typed, Values, Names, PoolSound, PoolFunctions, Workers
  <2>5. clones'[<<"build", run[b], host[b]>>] = clones[<<"build", run[b], host[b]>>]
    BY <2>3, <2>4, ClonesChange DEF WarmName
  <2> QED
    BY <2>2, <2>5
<1> QED
  BY <1>1, <1>2

\* Whoever else builds, fills the pool or fails, a build that collects and is the
\* only one of its run has its clone.
THEOREM ClonesAreKept ==
    PoolSpec => []CloneKept
<1>1. PoolInit => CollectsOwn /\ CloneKept
  BY DEF PoolInit, CollectsOwn, CloneKept, Workers
<1>2. Typed /\ CollectsOwn /\ CloneKept /\ [PoolNext]_poolVars => CollectsOwn' /\ CloneKept'
  <2>1. Typed /\ CollectsOwn /\ CloneKept /\ PoolNext => CollectsOwn' /\ CloneKept'
    BY OneActs, CollectsOwnStep, CloneKeptStep
  <2>2. CollectsOwn /\ CloneKept /\ UNCHANGED poolVars => CollectsOwn' /\ CloneKept'
    BY DEF CollectsOwn, CloneKept, NameOf, poolVars, procs, given
  <2> QED
    BY <2>1, <2>2
<1> QED
  BY <1>1, <1>2, PoolTyped, PTL DEF PoolSpec

-----------------------------------------------------------------------------
(* While no destruction failed and nothing was cut off, whoever uses a clone is *)
(* on its way to destroy it.                                                    *)

Orderly == poolExcuses \cap {"destroy", "crash"} = {}

InUse == {"executing", "collecting", "destroying"}

BuildClones ==
    \A r \in Runs, m \in Nodes : clones[<<"build", r, m>>] # "none" =>
        \E b \in Builds : run[b] = r /\ host[b] = m /\ taken[b] = 0 /\ at[b] \in InUse

WarmClones ==
    \A w \in Warm \ astray, m \in Nodes : clones[<<"warm", w, m>>] # "none" =>
        warm[w] \in {"idle", "cloning"} \/ \E b \in Builds : taken[b] = w /\ at[b] \in InUse

JobRows ==
    \A b \in Builds :
        job[b] \in {"none", "destroyed"} \/ (taken[b] = 0 /\ at[b] \in InUse \cup {"cloning", "destroyed"})

WarmRows ==
    \A w \in Warm : warm[w] \in {"running", "collecting"} =>
        \E b \in Builds : taken[b] = w /\ at[b] \in InUse \cup {"destroyed"}

\* A clone is gone before its row says so.
DestroysFirst ==
    \A b \in Builds : at[b] = "destroyed" /\ taken[b] \in Warm \ astray => clones[NameOf(b)] = "none"

Owned == Orderly => BuildClones /\ WarmClones /\ DestroysFirst /\ JobRows /\ WarmRows

LEMMA AstrayStay ==
    ASSUME NEW p \in Workers, Acts(p) PROVE astray \subseteq astray'
BY DEF Acts, Build, Find, Take, TakeFails, Clone, CloneFails, Execute, ExecuteFails, Collect, Destroy,
   SaveDestroyed, Admin, Bake, BakeEnds, Resize, Fill, Count, SaveWarm, CloneWarm, SaveIdle,
   CloneWarmFails, CrashWorker, poolHistory, poolMarks

LEMMA StaysOrderly ==
    ASSUME NEW p \in Workers, Acts(p), Orderly'
    PROVE  Orderly /\ ~CrashWorker(p)
BY DEF Acts, Orderly, Build, Find, Take, TakeFails, Clone, CloneFails, Execute, ExecuteFails, Collect, Destroy,
   SaveDestroyed, Admin, Bake, BakeEnds, Resize, Fill, Count, SaveWarm, CloneWarm, SaveIdle,
   CloneWarmFails, CrashWorker, PoolFault, poolHistory

\* A build that uses a clone goes on with it until it destroys it, ...
LEMMA UserStays ==
    ASSUME Typed, NEW p \in Workers, Acts(p), Orderly', NEW b \in Builds,
           at[b] \in InUse \cup {"destroyed"}
    PROVE  \/ taken'[b] = taken[b] /\ at[b] \in InUse /\ at'[b] \in InUse
           \/ taken'[b] = taken[b] /\ at[b] = "destroyed" /\ at'[b] = "destroyed"
           \/ b = p /\ Destroy(b) /\ taken'[b] = taken[b] /\ at'[b] = "destroyed"
           \/ b = p /\ SaveDestroyed(b)
<1>1. CASE b # p
  BY <1>1, OthersRest DEF Workers, InUse
<1>2. CASE b = p
  <2> USE DEF Typed, PoolSound, PoolFunctions, Goes, InUse, Workers
  <2>1. CASE Build(p)
    BY <1>2, <2>1 DEF Build, Find, Take, TakeFails, Clone, CloneFails, Execute, ExecuteFails, Collect, Destroy,
       SaveDestroyed
  <2>2. CASE Admin(p)
    BY <1>2, <2>2, PoolAssumption DEF Admin, Bake, BakeEnds, Resize
  <2>3. ~Fill(p)
    BY <1>2 DEF Fill, Count, SaveWarm, CloneWarm, SaveIdle, CloneWarmFails, PoolTypeOK
  <2> QED
    BY <2>1, <2>2, <2>3, StaysOrderly DEF Acts
<1> QED
  BY <1>1, <1>2

\* ... and nothing is left under the name then.
LEMMA Destroyed ==
    ASSUME Typed, NEW b \in Builds, Destroy(b), Orderly'
    PROVE  clones'[NameOf(b)] = "none"
<1>1. NameOf(b) \in Names
  BY PoolAssumption DEF Typed, PoolTypeOK, Values, NameOf, Names, Warm, PoolSound, PoolFunctions, Workers
<1> QED
  BY <1>1 DEF Destroy, PoolFault, Orderly, Typed, PoolTypeOK

LEMMA WarmChange ==
    ASSUME Typed, NEW p \in Workers, Acts(p), NEW w \in Warm, warm'[w] # warm[w]
    PROVE  \/ p \in Builds /\ taken[p] = w /\ \/ Take(p) /\ warm'[w] = "running"
                                              \/ Execute(p) /\ warm'[w] = "collecting"
                                              \/ SaveDestroyed(p) /\ warm'[w] = "destroyed"
           \/ warm[w] = "none" /\ SaveWarm(p) /\ warm'[w] = "cloning"
           \/ adding[p] = w /\ warm[w] = "cloning" /\ SaveIdle(p) /\ warm'[w] = "idle"
<1> USE DEF Typed, PoolSound, PoolFunctions
<1>1. CASE p \in Builds /\ Build(p)
  BY <1>1 DEF Build, Find, Take, TakeFails, Clone, CloneFails, Execute, ExecuteFails, Collect, Destroy, SaveDestroyed,
     SaveRow
<1>2. CASE Admin(p)
  BY <1>2 DEF Admin, Bake, BakeEnds, Resize
<1>3. CASE Fill(p)
  <2>1. CASE Count(p) \/ CloneWarm(p) \/ CloneWarmFails(p)
    BY <2>1 DEF Count, CloneWarm, CloneWarmFails
  <2>2. CASE SaveWarm(p)
    BY <2>2 DEF SaveWarm, New, First
  <2>3. CASE SaveIdle(p)
    BY <2>3 DEF SaveIdle, AddedOnce
  <2> QED
    BY <1>3, <2>1, <2>2, <2>3 DEF Fill
<1>4. CASE CrashWorker(p)
  BY <1>4 DEF CrashWorker
<1> QED
  BY <1>1, <1>2, <1>3, <1>4 DEF Acts

LEMMA BuildClonesStep ==
    ASSUME Typed, BuildClones, NEW p \in Workers, Acts(p), Orderly' PROVE BuildClones'
<1> SUFFICES ASSUME NEW r \in Runs, NEW m \in Nodes, clones'[<<"build", r, m>>] # "none"
             PROVE  \E b \in Builds : run'[b] = r /\ host'[b] = m /\ taken'[b] = 0 /\ at'[b] \in InUse
  BY DEF BuildClones
<1> DEFINE n == <<"build", r, m>>
<1>1. n \in Names /\ run' = run /\ host' = host
  BY OthersRest DEF Names
<1>2. CASE clones'[n] = clones[n]
  <2>1. PICK b \in Builds : run[b] = r /\ host[b] = m /\ taken[b] = 0 /\ at[b] \in InUse
    BY <1>2 DEF BuildClones
  <2>2. NameOf(b) = n
    BY <2>1 DEF NameOf
  <2>3. ~Destroy(b)
    BY <2>2, Destroyed
  <2>4. ~SaveDestroyed(b)
    BY <2>1 DEF SaveDestroyed, InUse
  <2> QED
    BY <1>1, <2>1, <2>3, <2>4, UserStays DEF InUse
<1>3. CASE clones'[n] # clones[n]
  <2>1. p \in Builds /\ n = NameOf(p) /\ (Clone(p) \/ CloneFails(p))
    BY <1>1, <1>3, ClonesChange, Destroyed DEF WarmName
  <2>2. taken[p] = 0 /\ run[p] = r /\ host[p] = m
    BY <2>1 DEF NameOf
  <2>3. taken' = taken /\ at'[p] \in InUse
    BY <2>1 DEF Clone, CloneFails, Goes, InUse, Typed, PoolSound, PoolFunctions
  <2> QED
    BY <1>1, <2>1, <2>2, <2>3
<1> QED
  BY <1>2, <1>3

LEMMA WarmClonesStep ==
    ASSUME Typed, WarmClones, DestroysFirst, NEW p \in Workers, Acts(p), Orderly' PROVE WarmClones'
<1> SUFFICES ASSUME NEW w \in Warm, w \notin astray', NEW m \in Nodes, clones'[<<"warm", w, m>>] # "none"
             PROVE  warm'[w] \in {"idle", "cloning"} \/ \E b \in Builds : taken'[b] = w /\ at'[b] \in InUse
  BY DEF WarmClones
<1> DEFINE n == <<"warm", w, m>>
<1>1. n \in Names /\ w # 0 /\ w \notin astray
  BY WarmNames, AstrayStay
<1>2. CASE clones'[n] = clones[n] /\ warm[w] \in {"idle", "cloning"}
  <2>1. CASE warm'[w] = warm[w]
    BY <1>2, <2>1
  <2>2. CASE p \in Builds /\ taken[p] = w /\ (Take(p) \/ Execute(p))
    <3>1. taken' = taken /\ at'[p] \in InUse
      BY <2>2 DEF Take, Execute, Goes, InUse, Typed, PoolSound, PoolFunctions
    <3> QED
      BY <2>2, <3>1
  <2>3. CASE p \in Builds /\ taken[p] = w /\ SaveDestroyed(p)
    <3>1. clones[NameOf(p)] = "none" /\ clones' = clones
      BY <1>1, <2>3 DEF DestroysFirst, SaveDestroyed
    <3>2. clones[n] # "none" => NameOf(p) = n
      BY <1>1, <2>3 DEF NameOf, Typed, PoolSound, CloneThere, TakenOnce
    <3> QED
      BY <3>1, <3>2
  <2> QED
    BY <2>1, <2>2, <2>3, WarmChange
<1>3. CASE clones'[n] = clones[n] /\ \E b \in Builds : taken[b] = w /\ at[b] \in InUse
  <2>1. PICK b \in Builds : taken[b] = w /\ at[b] \in InUse
    BY <1>3
  <2>2. NameOf(b) = n
    BY <1>1, <1>3, <2>1 DEF NameOf, Typed, PoolSound, CloneThere, TakenOnce
  <2>3. ~Destroy(b)
    BY <2>2, Destroyed
  <2>4. ~SaveDestroyed(b)
    BY <2>1 DEF SaveDestroyed, InUse
  <2> QED
    BY <2>1, <2>3, <2>4, UserStays DEF InUse
<1>4. CASE clones'[n] # clones[n]
  <2>1. ~(p \in Builds /\ n = NameOf(p) /\ (Clone(p) \/ CloneFails(p)))
    BY DEF Clone, CloneFails, NameOf, Typed, PoolSound, TakenOnce
  <2>2. adding[p] # 0 /\ n = WarmName(p) /\ (CloneWarm(p) \/ CloneWarmFails(p))
    BY <1>1, <1>4, <2>1, ClonesChange, Destroyed
  <2>3. adding[p] = w
    BY <2>2 DEF WarmName
  <2>4. warm[w] = "cloning" /\ warm' = warm
    BY <2>2, <2>3 DEF CloneWarm, CloneWarmFails, Typed, PoolSound, AddedOnce
  <2> QED
    BY <2>4
<1> QED
  BY <1>1, <1>2, <1>3, <1>4 DEF WarmClones

LEMMA DestroysFirstStep ==
    ASSUME Typed, DestroysFirst, NEW p \in Workers, Acts(p), Orderly' PROVE DestroysFirst'
<1> SUFFICES ASSUME NEW b \in Builds, at'[b] = "destroyed", taken'[b] \in Warm, taken'[b] \notin astray'
             PROVE  clones'[NameOf(b)'] = "none"
  BY DEF DestroysFirst
<1>1. CASE b = p
  <2>1. Destroy(b) /\ NameOf(b)' = NameOf(b)
    BY <1>1, BuildMoves DEF Destroy, NameOf, given
  <2> QED
    BY <2>1, Destroyed
<1>2. CASE b # p
  <2>1. /\ at[b] = "destroyed" /\ taken[b] \in Warm \ astray /\ NameOf(b)' = NameOf(b)
        /\ NameOf(b) = <<"warm", taken[b], host[b]>>
    BY <1>2, OthersRest, AstrayStay, WarmNames DEF Workers, NameOf
  <2>2. clones[NameOf(b)] = "none" /\ NameOf(b) \in Names
    BY <2>1, WarmNames DEF DestroysFirst, Typed, PoolSound, PoolFunctions, Workers
  <2>3. ~(NameOf(b) = WarmName(p) /\ adding[p] # 0)
    BY <2>1, WarmNames DEF WarmName, Typed, PoolSound, AddedOnce, TakenOnce
  <2>4. ~(p \in Builds /\ NameOf(b) = NameOf(p) /\ (Clone(p) \/ CloneFails(p)))
    BY <2>1 DEF Clone, CloneFails, NameOf, Typed, PoolSound, TakenOnce
  <2>5. CASE clones'[NameOf(b)] = clones[NameOf(b)]
    BY <2>1, <2>2, <2>5
  <2>6. CASE p \in Builds /\ NameOf(b) = NameOf(p) /\ Destroy(p)
    BY <2>1, <2>6, Destroyed
  <2> QED
    BY <2>2, <2>3, <2>4, <2>5, <2>6, ClonesChange
<1> QED
  BY <1>1, <1>2

LEMMA JobChange ==
    ASSUME Typed, NEW p \in Workers, Acts(p), NEW b \in Builds, job'[b] # job[b]
    PROVE  b = p /\ \/ Find(b) /\ at'[b] = "cloning" /\ taken' = taken
                    \/ Execute(b) /\ taken[b] = 0
                    \/ SaveDestroyed(b) /\ job'[b] = "destroyed"
<1> USE DEF Typed, PoolTypeOK
<1>1. CASE p \in Builds /\ Build(p)
  BY <1>1 DEF Build, Find, Take, TakeFails, Clone, CloneFails, Execute, ExecuteFails, Collect, Destroy, SaveDestroyed,
     SaveRow, Goes, PoolSound, PoolFunctions, Workers
<1>2. CASE Admin(p)
  BY <1>2 DEF Admin, Bake, BakeEnds, Resize
<1>3. CASE Fill(p)
  BY <1>3 DEF Fill, Count, SaveWarm, CloneWarm, SaveIdle, CloneWarmFails
<1>4. CASE CrashWorker(p)
  BY <1>4 DEF CrashWorker
<1> QED
  BY <1>1, <1>2, <1>3, <1>4 DEF Acts

LEMMA JobRowsStep ==
    ASSUME Typed, JobRows, NEW p \in Workers, Acts(p), Orderly' PROVE JobRows'
<1> SUFFICES ASSUME NEW b \in Builds, job'[b] \notin {"none", "destroyed"}
             PROVE  taken'[b] = 0 /\ at'[b] \in InUse \cup {"cloning", "destroyed"}
  BY DEF JobRows
<1>1. CASE job'[b] # job[b]
  <2>1. CASE Find(b) /\ at'[b] = "cloning" /\ taken' = taken
    BY <2>1 DEF Find, Typed, PoolSound, TakenOnce
  <2>2. CASE Execute(b) /\ taken[b] = 0
    <3>1. at'[b] = "collecting" /\ taken' = taken
      BY <2>2 DEF Execute, Goes, Typed, PoolSound, PoolFunctions, Workers
    <3> QED
      BY <2>2, <3>1 DEF InUse
  <2> QED
    BY <1>1, <2>1, <2>2, JobChange
<1>2. CASE job'[b] = job[b]
  <2>1. taken[b] = 0 /\ at[b] \in InUse \cup {"cloning", "destroyed"}
    BY <1>2 DEF JobRows
  <2>2. CASE at[b] = "cloning"
    <3>1. CASE b = p
      <4>1. Clone(b) \/ CloneFails(b)
        BY <2>2, <3>1, PoolAssumption, StaysOrderly DEF Acts, Build, Find, Take, TakeFails, Execute, ExecuteFails, Collect,
           Destroy, SaveDestroyed, Admin, Bake, BakeEnds, Resize, Fill, Count, SaveWarm, CloneWarm, SaveIdle,
           CloneWarmFails, Typed, PoolTypeOK
      <4> QED
        BY <2>1, <4>1 DEF Clone, CloneFails, Goes, InUse, Typed, PoolSound, PoolFunctions, Workers
    <3>2. CASE b # p
      BY <2>1, <2>2, <3>2, OthersRest DEF Workers
    <3> QED
      BY <3>1, <3>2
  <2>3. CASE at[b] \in InUse \cup {"destroyed"}
    <3>1. ~SaveDestroyed(b)
      BY <1>2, <2>1 DEF SaveDestroyed, SaveRow, Typed, PoolTypeOK
    <3> QED
      BY <2>1, <2>3, <3>1, UserStays
  <2> QED
    BY <2>1, <2>2, <2>3
<1> QED
  BY <1>1, <1>2

LEMMA WarmRowsStep ==
    ASSUME Typed, WarmRows, NEW p \in Workers, Acts(p), Orderly' PROVE WarmRows'
<1> SUFFICES ASSUME NEW w \in Warm, warm'[w] \in {"running", "collecting"}
             PROVE  \E b \in Builds : taken'[b] = w /\ at'[b] \in InUse \cup {"destroyed"}
  BY DEF WarmRows
<1>1. CASE warm'[w] # warm[w]
  <2>1. p \in Builds /\ taken[p] = w /\ (Take(p) \/ Execute(p))
    BY <1>1, WarmChange
  <2>2. taken' = taken /\ at'[p] \in InUse
    BY <2>1 DEF Take, Execute, Goes, InUse, Typed, PoolSound, PoolFunctions
  <2> QED
    BY <2>1, <2>2
<1>2. CASE warm'[w] = warm[w]
  <2>1. PICK b \in Builds : taken[b] = w /\ at[b] \in InUse \cup {"destroyed"}
    BY <1>2 DEF WarmRows
  <2>2. ~SaveDestroyed(b)
    BY <2>1, WarmNames DEF SaveDestroyed, SaveRow, Typed, PoolTypeOK
  <2> QED
    BY <2>1, <2>2, UserStays
<1> QED
  BY <1>1, <1>2

\* Whatever fails in builds, while nothing is cut off and destructions succeed
\* the pool at rest has left nothing behind.
THEOREM NothingIsLeft ==
    PoolSpec => []NothingLeft
<1>1. PoolInit => Owned
  BY DEF PoolInit, Owned, BuildClones, WarmClones, DestroysFirst, JobRows, WarmRows, Names, Workers
<1>2. Typed /\ Owned /\ [PoolNext]_poolVars => Owned'
  <2>1. ASSUME Typed, Owned, PoolNext, Orderly' PROVE Owned'
    <3>1. PICK p \in Workers : Acts(p)
      BY <2>1, OneActs
    <3>2. Orderly
      BY <2>1, <3>1, StaysOrderly
    <3> QED
      BY <2>1, <3>1, <3>2, BuildClonesStep, WarmClonesStep, DestroysFirstStep, JobRowsStep, WarmRowsStep DEF Owned
  <2>2. Owned /\ UNCHANGED poolVars => Owned'
    BY DEF Owned, Orderly, BuildClones, WarmClones, DestroysFirst, NameOf, JobRows, WarmRows, poolVars, procs, given,
       poolHistory, poolMarks
  <2> QED
    BY <2>1, <2>2 DEF Owned
<1>3. Owned => NothingLeft
  <2> SUFFICES ASSUME Owned, PoolAtRest, Orderly
               PROVE  /\ \A n \in Names :
                            clones[n] # "none" =>
                                n[1] = "warm" /\ (warm[n[2]] \in {"idle", "cloning"} \/ n[2] \in astray)
                      /\ \A b \in Builds : job[b] \in {"none", "destroyed"}
                      /\ \A w \in Warm : warm[w] \notin {"running", "collecting"}
    BY DEF NothingLeft, Orderly
  <2>1. \A b \in Builds : at[b] \notin InUse \cup {"cloning", "destroyed"}
    BY DEF PoolAtRest, Working, Workers, InUse
  <2>2. BuildClones /\ WarmClones /\ JobRows /\ WarmRows
    BY DEF Owned
  <2>3. ASSUME NEW n \in Names, clones[n] # "none"
        PROVE  n[1] = "warm" /\ (warm[n[2]] \in {"idle", "cloning"} \/ n[2] \in astray)
    <3>1. ASSUME NEW r \in Runs, NEW m \in Nodes, n = <<"build", r, m>> PROVE FALSE
      BY <2>1, <2>2, <2>3, <3>1 DEF BuildClones
    <3>2. ASSUME NEW w \in Warm, NEW m \in Nodes, n = <<"warm", w, m>>
          PROVE  n[1] = "warm" /\ (warm[n[2]] \in {"idle", "cloning"} \/ n[2] \in astray)
      BY <2>1, <2>2, <2>3, <3>2 DEF WarmClones
    <3> QED
      BY <3>1, <3>2 DEF Names
  <2> QED
    BY <2>1, <2>2, <2>3 DEF JobRows, WarmRows
<1> QED
  BY <1>1, <1>2, <1>3, PoolTyped, PTL DEF PoolSpec

-----------------------------------------------------------------------------
\* The pool grows by one clone at a time, and shrinks when a build takes one.
LEMMA IdleChange ==
    ASSUME Typed, NEW p \in Workers, Acts(p)
    PROVE  /\ Cardinality(Idle) \in Nat /\ Cardinality(Idle') \in Nat
           /\ IF SaveIdle(p) THEN Cardinality(Idle') = Cardinality(Idle) + 1
                             ELSE Cardinality(Idle') <= Cardinality(Idle)
<1>1. IsFiniteSet(Idle) /\ IsFiniteSet(Idle') /\ Cardinality(Idle) \in Nat /\ Cardinality(Idle') \in Nat
  <2>1. Idle \subseteq Warm /\ Idle' \subseteq Warm
    BY DEF Idle
  <2> QED
    BY <2>1, WarmCount
<1>3. CASE SaveIdle(p)
  <2>1. adding[p] \in Warm /\ adding[p] \notin Idle /\ warm' = [warm EXCEPT ![adding[p]] = "idle"]
    BY <1>3 DEF SaveIdle, Idle, Typed, PoolSound, AddedOnce
  <2>2. Idle' = Idle \cup {adding[p]}
    BY <2>1 DEF Idle, Typed, PoolTypeOK
  <2> QED
    BY <1>1, <1>3, <2>1, <2>2, FS_AddElement
<1>4. CASE ~SaveIdle(p)
  <2>1. \A w \in Warm : warm'[w] # warm[w] => warm'[w] # "idle"
    BY <1>4, WarmChange
  <2>2. Idle' \subseteq Idle
    BY <2>1 DEF Idle
  <2> QED
    BY <1>1, <1>4, <2>2, FS_Subset
<1> QED
  BY <1>3, <1>4

\* Which steps begin to fill the pool or go on filling it.
LEMMA FillMoves ==
    ASSUME Typed, NEW p \in Workers, Acts(p), NEW q \in Workers, at'[q] = "filling"
    PROVE  \/ at[q] = "filling" /\ left'[q] = left[q] /\ (q = p => ~SaveIdle(p))
           \/ at[q] = "filling" /\ q = p /\ SaveIdle(p) /\ left'[q] = left[q] - 1
           \/ q = p /\ Count(p) /\ left'[p] = want[p] - Cardinality(Idle)
<1>1. CASE q # p
  BY <1>1, OthersRest
<1>2. CASE q = p
  <2> USE <1>2 DEF Typed, PoolSound, PoolFunctions, PoolTypeOK, Values, Goes, Finish
  <2>1. CASE p \in Builds /\ Build(p)
    BY <2>1 DEF Build, Find, Take, TakeFails, Clone, CloneFails, Execute, ExecuteFails, Collect, Destroy, SaveDestroyed
  <2>2. CASE Admin(p)
    BY <2>2 DEF Admin, Bake, BakeEnds, Resize
  <2>3. CASE Count(p)
    BY <2>3 DEF Count, Missing
  <2>4. CASE SaveWarm(p)
    BY <2>4 DEF SaveWarm, SaveIdle
  <2>5. CASE CloneWarm(p)
    BY <2>5, WarmNames DEF CloneWarm, SaveIdle, procs, AddedOnce
  <2>6. CASE SaveIdle(p)
    BY <2>6 DEF SaveIdle
  <2>7. CASE CloneWarmFails(p)
    BY <2>7 DEF CloneWarmFails
  <2>8. CASE CrashWorker(p)
    BY <2>8 DEF CrashWorker
  <2> QED
    BY <2>1, <2>2, <2>3, <2>4, <2>5, <2>6, <2>7, <2>8 DEF Acts, Fill
<1> QED
  BY <1>1, <1>2

(* The pool is filled to the size that was asked for.                          *)

\* Nobody wants more than was ever asked for.
Wants == size <= largest /\ \A p \in Workers : want[p] <= largest

LEMMA WantsStep ==
    ASSUME Typed, Wants, NEW p \in Workers, Acts(p)
    PROVE  Wants' /\ largest <= largest' /\ largest' \in Nat
<1> USE PoolAssumption DEF Typed, PoolSound, PoolFunctions, Values, Wants, poolHistory, poolSizes
<1>1. CASE p \in Builds /\ Build(p)
  <2>1. UNCHANGED <<size, largest>> /\ want' \in {want, [want EXCEPT ![p] = size]}
    BY <1>1 DEF Build, Find, Take, TakeFails, Clone, CloneFails, Execute, ExecuteFails, Collect, Destroy, SaveDestroyed
  <2> QED
    BY <2>1
<1>2. CASE Bake(p) \/ BakeEnds(p)
  BY <1>2 DEF Bake, BakeEnds
<1>3. ASSUME NEW n \in Sizes, Resize(p, n)
      PROVE  Wants' /\ largest <= largest' /\ largest' \in Nat
  BY <1>3 DEF Resize
<1>4. CASE Fill(p) \/ CrashWorker(p)
  <2>1. UNCHANGED <<size, largest>> /\ want' \in {want, [want EXCEPT ![p] = 0]}
    BY <1>4 DEF Fill, Count, SaveWarm, CloneWarm, SaveIdle, CloneWarmFails, CrashWorker, Finish, procs
  <2> QED
    BY <2>1
<1> QED
  BY <1>1, <1>2, <1>3, <1>4 DEF Acts, Admin

FillsAlone == \A p, q \in Workers : at[p] = "filling" /\ at[q] = "filling" => p = q

FillsUpTo == \A p \in Workers : at[p] = "filling" => Cardinality(Idle) + left[p] <= largest

Bounded == "overlap" \notin poolExcuses => FillsAlone /\ FillsUpTo /\ Cardinality(Idle) <= largest

LEMMA NoOverlap ==
    ASSUME NEW p \in Workers, Acts(p), "overlap" \notin poolExcuses'
    PROVE  /\ "overlap" \notin poolExcuses
           /\ Count(p) /\ at'[p] = "filling" /\ Typed => Filling = {}
<1>1. "overlap" \notin poolExcuses
  BY DEF Acts, Build, Find, Take, TakeFails, Clone, CloneFails, Execute, ExecuteFails, Collect, Destroy,
     SaveDestroyed, Admin, Bake, BakeEnds, Resize, Fill, Count, SaveWarm, CloneWarm, SaveIdle,
     CloneWarmFails, CrashWorker, PoolFault, poolHistory
<1>2. ASSUME Count(p), at'[p] = "filling", Typed PROVE Filling = {}
  BY <1>2 DEF Count, Finish, Goes, Typed, PoolSound, PoolFunctions
<1> QED
  BY <1>1, <1>2

LEMMA BoundedStep ==
    ASSUME Typed, Wants, Bounded, NEW p \in Workers, Acts(p) PROVE Bounded'
<1> SUFFICES ASSUME "overlap" \notin poolExcuses'
             PROVE  FillsAlone' /\ FillsUpTo' /\ Cardinality(Idle') <= largest'
  BY DEF Bounded
<1>1. /\ FillsAlone /\ FillsUpTo /\ Cardinality(Idle) <= largest
      /\ Count(p) /\ at'[p] = "filling" => Filling = {}
  BY NoOverlap DEF Bounded
<1>2. /\ largest <= largest' /\ largest \in Nat /\ largest' \in Nat
      /\ \A q \in Workers : want[q] <= largest /\ want[q] \in Nat /\ left[q] \in Nat
  BY WantsStep DEF Wants, Typed, Values
<1>3. SaveIdle(p) => at[p] = "filling" /\ left[p] > 0
  BY DEF SaveIdle, Typed, PoolTypeOK
<1>4. FillsAlone'
  BY <1>1, FillMoves DEF FillsAlone, Filling
<1>5. FillsUpTo'
  <2> SUFFICES ASSUME NEW q \in Workers, at'[q] = "filling"
               PROVE  Cardinality(Idle') + left'[q] <= largest'
    BY DEF FillsUpTo
  <2>1. CASE q = p /\ Count(p) /\ left'[p] = want[p] - Cardinality(Idle)
    <3>1. Idle' = Idle
      BY <2>1 DEF Count, Idle
    <3> QED
      BY <1>2, <2>1, <3>1, IdleChange
  <2>2. CASE at[q] = "filling" /\ q = p /\ SaveIdle(p) /\ left'[q] = left[q] - 1
    <3>1. Cardinality(Idle') <= Cardinality(Idle) + 1
      BY IdleChange
    <3> QED
      BY <1>1, <1>2, <2>2, <3>1, IdleChange DEF FillsUpTo
  <2>3. CASE at[q] = "filling" /\ left'[q] = left[q] /\ (q = p => ~SaveIdle(p))
    <3>1. ~SaveIdle(p)
      BY <1>1, <1>3, <2>3 DEF FillsAlone
    <3>2. Cardinality(Idle') <= Cardinality(Idle)
      BY <3>1, IdleChange
    <3> QED
      BY <1>1, <1>2, <2>3, <3>2, IdleChange DEF FillsUpTo
  <2> QED
    BY <2>1, <2>2, <2>3, FillMoves
<1>6. Cardinality(Idle') <= largest'
  <2>1. CASE SaveIdle(p)
    <3>1. Cardinality(Idle) + left[p] <= largest /\ left[p] > 0
      BY <1>1, <1>3, <2>1 DEF FillsUpTo
    <3> QED
      BY <1>2, <3>1, IdleChange
  <2>2. CASE ~SaveIdle(p)
    BY <1>1, <1>2, <2>2, IdleChange
  <2> QED
    BY <2>1, <2>2
<1> QED
  BY <1>4, <1>5, <1>6

\* However many requests resize the pool, bake its template and take clones, it
\* outgrows the largest size asked for only if two requests filled it together.
THEOREM PoolsAreBounded ==
    PoolSpec => []PoolBounded
<1>1. PoolInit => Wants /\ Bounded
  <2>1. PoolInit => Idle = {}
    BY DEF PoolInit, Idle
  <2> QED
    <3> SUFFICES ASSUME PoolInit PROVE Wants /\ Bounded
      OBVIOUS
    <3>1. Cardinality(Idle) = 0 /\ \A p \in Workers : at[p] = "new" /\ want[p] = 0
      BY <2>1, FS_EmptySet DEF PoolInit
    <3>2. size = 0 /\ largest = 0
      BY DEF PoolInit
    <3> QED
      BY <3>1, <3>2 DEF Wants, Bounded, FillsAlone, FillsUpTo
<1>2. Typed /\ Wants /\ Bounded /\ [PoolNext]_poolVars => Wants' /\ Bounded'
  <2>1. Typed /\ Wants /\ Bounded /\ PoolNext => Wants' /\ Bounded'
    BY OneActs, WantsStep, BoundedStep
  <2>2. Wants /\ Bounded /\ UNCHANGED poolVars => Wants' /\ Bounded'
    BY DEF Wants, Bounded, FillsAlone, FillsUpTo, Idle, poolVars, procs, poolHistory, poolSizes
  <2> QED
    BY <2>1, <2>2
<1>3. Bounded => PoolBounded
  BY DEF Bounded, PoolBounded
<1> QED
  BY <1>1, <1>2, <1>3, PoolTyped, PTL DEF PoolSpec

-----------------------------------------------------------------------------
(* The pool is not left short: a worker that has not counted yet will, and one  *)
(* that fills it adds what the count had found missing.                         *)

Undisturbed == poolExcuses \cap {"resized", "pool", "crash"} = {}

WantsAsked == size = asked /\ \A p \in Workers : Working(p) => want[p] = asked

WillFill(p) == Working(p) /\ (at[p] = "filling" => Cardinality(Idle) + left[p] >= asked)

Refilled == Cardinality(Idle) >= asked \/ \E p \in Workers : WillFill(p)

Filled == Undisturbed => WantsAsked /\ Refilled

LEMMA StaysUndisturbed ==
    ASSUME NEW p \in Workers, Acts(p), Undisturbed'
    PROVE  /\ Undisturbed
           /\ ~CrashWorker(p) /\ ~CloneWarmFails(p)
           /\ (\E n \in Sizes : Resize(p, n)) => \A q \in Workers : ~Working(q)
<1>1. Undisturbed /\ ~CrashWorker(p) /\ ~CloneWarmFails(p)
  BY DEF Acts, Undisturbed, Build, Find, Take, TakeFails, Clone, CloneFails, Execute, ExecuteFails, Collect, Destroy,
     SaveDestroyed, Admin, Bake, BakeEnds, Resize, Fill, Count, SaveWarm, CloneWarm, SaveIdle,
     CloneWarmFails, CrashWorker, PoolFault, poolHistory
<1>2. ASSUME NEW n \in Sizes, Resize(p, n) PROVE \A q \in Workers : ~Working(q)
  BY <1>2 DEF Resize, Undisturbed
<1> QED
  BY <1>1, <1>2

\* The size that is wanted and who works for it.
LEMMA WantsAskedStep ==
    ASSUME Typed, WantsAsked, NEW p \in Workers, Acts(p), Undisturbed' PROVE WantsAsked'
<1> USE DEF Typed, PoolSound, PoolFunctions, Values, poolHistory, poolSizes, Working, Goes
<1>1. CASE p \in Builds /\ Build(p)
  <2>1. UNCHANGED <<size, asked>>
    BY <1>1 DEF Build, Find, Take, TakeFails, Clone, CloneFails, Execute, ExecuteFails, Collect, Destroy, SaveDestroyed
  <2>2. (at[p] = "new" /\ want'[p] = size) \/ (Working(p) /\ want'[p] = want[p])
    BY <1>1 DEF Build, Find, Take, TakeFails, Clone, CloneFails, Execute, ExecuteFails, Collect, Destroy, SaveDestroyed
  <2> QED
    BY <2>1, <2>2, OthersRest DEF WantsAsked
<1>2. CASE Bake(p) \/ BakeEnds(p)
  <2>1. asked' = asked /\ size' \in {size, want[p]} /\ (Bake(p) => want'[p] = size /\ size' = size)
    BY <1>2 DEF Bake, BakeEnds
  <2>2. BakeEnds(p) => Working(p) /\ want'[p] = want[p]
    BY DEF BakeEnds
  <2> QED
    BY <1>2, <2>1, <2>2, OthersRest DEF WantsAsked, Bake
<1>3. ASSUME NEW n \in Sizes, Resize(p, n) PROVE WantsAsked'
  <2>1. size' = n /\ asked' = n /\ want'[p] = n /\ \A q \in Workers : ~Working(q)
    BY <1>3, StaysUndisturbed DEF Resize
  <2> QED
    BY <2>1, OthersRest DEF WantsAsked
<1>4. CASE Fill(p)
  <2>1. UNCHANGED <<size, asked>>
    BY <1>4, StaysUndisturbed DEF Fill, Count, SaveWarm, CloneWarm, SaveIdle
  <2>2. Working(p) /\ (Working(p)' => want'[p] = want[p])
    BY <1>4, StaysUndisturbed DEF Fill, Count, SaveWarm, CloneWarm, SaveIdle, Finish, procs, PoolTypeOK
  <2> QED
    BY <2>1, <2>2, OthersRest DEF WantsAsked
<1> QED
  BY <1>1, <1>2, <1>3, <1>4, StaysUndisturbed DEF Acts, Admin

LEMMA RefilledStep ==
    ASSUME Typed, WantsAsked, Refilled, NEW p \in Workers, Acts(p), Undisturbed' PROVE Refilled'
<1>1. /\ Cardinality(Idle) \in Nat /\ Cardinality(Idle') \in Nat /\ asked \in Nat
      /\ \A q \in Workers : left[q] \in Nat
  BY IdleChange DEF Typed, Values
<1>2. ASSUME at'[p] \notin {"new", "done", "filling"} PROVE Refilled'
  BY <1>2 DEF Refilled, WillFill, Working
<1>3. CASE p \in Builds /\ Build(p)
  <2>1. at'[p] \notin {"new", "done", "filling"}
    BY <1>3 DEF Build, Find, Take, TakeFails, Clone, CloneFails, Execute, ExecuteFails, Collect, Destroy, SaveDestroyed,
       Goes, Typed, PoolSound, PoolFunctions
  <2> QED
    BY <1>2, <2>1
<1>4. CASE Admin(p)
  <2>1. at'[p] \notin {"new", "done", "filling"}
    BY <1>4 DEF Admin, Bake, BakeEnds, Resize, Goes, Typed, PoolSound, PoolFunctions
  <2> QED
    BY <1>2, <2>1
<1>5. CASE Count(p)
  <2>1. Idle' = Idle /\ asked' = asked /\ Working(p) /\ want[p] = asked
    BY <1>5 DEF Count, Idle, Working, WantsAsked, poolSizes
  <2>2. CASE Missing(p) > 0
    <3>1. at'[p] = "filling" /\ left'[p] = Missing(p)
      BY <1>5, <2>2 DEF Count, Goes, Typed, PoolSound, PoolFunctions, Values
    <3>2. Cardinality(Idle') + left'[p] >= asked'
      BY <1>1, <2>1, <3>1 DEF Missing
    <3> QED
      BY <3>1, <3>2 DEF Refilled, WillFill, Working
  <2>3. CASE ~(Missing(p) > 0)
    BY <1>1, <2>1, <2>3 DEF Missing, Refilled
  <2> QED
    BY <2>2, <2>3
<1>6. CASE SaveWarm(p) \/ CloneWarm(p)
  <2>1. UNCHANGED <<at, left, asked>>
    BY <1>6 DEF SaveWarm, CloneWarm, procs, poolHistory, poolSizes
  <2>2. Cardinality(Idle') = Cardinality(Idle)
    <3>1. \A w \in Warm : warm[w] = "idle" <=> warm'[w] = "idle"
      BY <1>6 DEF SaveWarm, CloneWarm, New, First, Typed, PoolTypeOK
    <3>2. Idle' = Idle
      BY <3>1 DEF Idle
    <3> QED
      BY <3>2
  <2> QED
    BY <2>1, <2>2 DEF Refilled, WillFill, Working
<1>7. CASE SaveIdle(p)
  <2>1. /\ Cardinality(Idle') = Cardinality(Idle) + 1 /\ asked' = asked
        /\ at[p] = "filling"
        /\ left[p] = 1 \/ (at'[p] = "filling" /\ left'[p] = left[p] - 1)
    <3>1. Cardinality(Idle') = Cardinality(Idle) + 1
      BY <1>7, IdleChange
    <3> QED
      BY <1>7, <3>1 DEF SaveIdle, poolHistory, poolSizes, Typed, PoolTypeOK, Values
  <2>2. CASE Cardinality(Idle) >= asked
    BY <1>1, <2>1, <2>2 DEF Refilled
  <2>3. ASSUME NEW q \in Workers, WillFill(q), q # p PROVE Refilled'
    <3>1. at'[q] = at[q] /\ left'[q] = left[q]
      BY <2>3, OthersRest
    <3>2. WillFill(q)'
      BY <1>1, <2>1, <2>3, <3>1 DEF WillFill, Working
    <3> QED
      BY <3>2 DEF Refilled
  <2>4. CASE WillFill(p)
    <3>1. Cardinality(Idle) + left[p] >= asked
      BY <2>1, <2>4 DEF WillFill
    <3>2. CASE left[p] = 1
      BY <1>1, <2>1, <3>1, <3>2 DEF Refilled
    <3>3. CASE at'[p] = "filling" /\ left'[p] = left[p] - 1
      <4>1. Cardinality(Idle') + left'[p] >= asked'
        BY <1>1, <2>1, <3>1, <3>3
      <4> QED
        BY <3>3, <4>1 DEF Refilled, WillFill, Working
    <3> QED
      BY <2>1, <3>2, <3>3
  <2> QED
    BY <2>2, <2>3, <2>4 DEF Refilled
<1> QED
  BY <1>3, <1>4, <1>5, <1>6, <1>7, StaysUndisturbed DEF Acts, Fill

\* Whatever becomes of builds, the pool at rest is as large as was asked for,
\* unless filling it failed, a request was cut off, or a resize met another one.
THEOREM PoolsAreFilled ==
    PoolSpec => []PoolFilled
<1>1. PoolInit => Filled
  <2>1. PoolInit => Idle = {}
    BY DEF PoolInit, Idle
  <2> QED
    <3> SUFFICES ASSUME PoolInit PROVE Filled
      OBVIOUS
    <3>1. Cardinality(Idle) = 0 /\ \A p \in Workers : at[p] = "new"
      BY <2>1, FS_EmptySet DEF PoolInit
    <3>2. size = 0 /\ asked = 0
      BY DEF PoolInit
    <3> QED
      BY <3>1, <3>2 DEF Filled, WantsAsked, Refilled, Working
<1>2. Typed /\ Filled /\ [PoolNext]_poolVars => Filled'
  <2>1. ASSUME Typed, Filled, PoolNext, Undisturbed' PROVE Filled'
    <3>1. PICK p \in Workers : Acts(p)
      BY <2>1, OneActs
    <3>2. Undisturbed
      BY <2>1, <3>1, StaysUndisturbed
    <3> QED
      BY <2>1, <3>1, <3>2, WantsAskedStep, RefilledStep DEF Filled
  <2>2. Filled /\ UNCHANGED poolVars => Filled'
    BY DEF Filled, Undisturbed, WantsAsked, Refilled, WillFill, Working, Idle, poolVars, procs, poolHistory, poolSizes
  <2> QED
    BY <2>1, <2>2 DEF Filled
<1>3. Filled => PoolFilled
  BY DEF Filled, Undisturbed, Refilled, WillFill, PoolFilled, PoolAtRest
<1> QED
  BY <1>1, <1>2, <1>3, PoolTyped, PTL DEF PoolSpec
=============================================================================
