----------------------------- MODULE LeaderLease -----------------------------
(***************************************************************************)
(* PostgreSQL lease election between control plane replicas                *)
(* (services/LeaderElection.ts), the route guard that relies on it         *)
(* (auth/LeaderPreHandlers.ts) and the replica's start, drain and crash    *)
(* (Server.ts).  All replicas share one row of control_plane_leaders.      *)
(*                                                                         *)
(* renewLease() is a chain of awaited statements, so it is modelled as one *)
(* cycle per timer tick whose statements interleave with those of every    *)
(* other replica: find, then create / take over / extend, then possibly a  *)
(* second read.  The effect of a statement and the arrival of its reply    *)
(* are separate steps.  Time is an integer clock; TTL is in its units.     *)
(***************************************************************************)
EXTENDS Integers, Sequences

CONSTANTS
    Instances,   \* replica ids (CP_INSTANCE_ID), assumed distinct
    NoInstance,  \* "no row yet"
    Slots,       \* renewals of one replica that may be in flight together
    TTL,         \* leaseTtlMs
    Skew,        \* Skew[i]: offset of replica i's Date.now()
    MaxClock     \* bound on the clock

ASSUME InstancesAssumption == NoInstance \notin Instances
ASSUME TimeAssumption ==
    /\ TTL \in Nat \ {0}
    /\ MaxClock \in Nat
    /\ Skew \in [Instances -> Int]

VARIABLES
    clock,
    leaseHolder,      \* row.leaderInstanceId, NoInstance when the row is absent
    leaseExpiresAt,   \* row.expiresAt
    process,          \* process[i]: "up", "draining" (stop() called) or "down"
    isCurrentLeader,
    leaderInstanceId, \* getLeaderId(): the id a follower's 503 names
    wasLeader,
    promotions,       \* how often onBecameLeader ran
    guarded,          \* a request that passed requireLeader() is still running
    pc,               \* pc[i][c]: next statement of the renewal in slot c
    now,              \* now[i][c]: Date.now() when that renewal began
    mine,             \* mine[i][c]: its second read found i's unexpired lease
    seen,             \* seen[i][c]: the holder its second read found
    basis,            \* history: the term the awaited reply was computed in
    holders,          \* history: the row's successive holders; a term is an index
    beliefTerm        \* history: the term isCurrentLeader[i] was computed in

lease == <<leaseHolder, leaseExpiresAt, holders>>
flags == <<isCurrentLeader, leaderInstanceId, wasLeader, promotions, beliefTerm>>
cycle == <<pc, now, mine, seen, basis>>
vars == <<clock, lease, process, flags, guarded, cycle>>
term == Len(holders)

\* "created" and "granted" wait for the reply to a write that took effect,
\* "observed" for the reply to the second read.
Statements == {"find", "create", "created", "takeover", "extend", "granted",
               "reread", "observed"}

PerCycle(S) == [Instances -> [Slots -> S]]

Now(i) == clock + Skew[i]
Lapsed(t) == leaseExpiresAt <= t
IsLeader(i) == process[i] # "down" /\ isCurrentLeader[i]

\* The values that the variables range over.
TypeOK ==
    /\ clock \in Nat
    /\ leaseHolder \in Instances \cup {NoInstance}
    /\ leaseExpiresAt \in Int
    /\ process \in [Instances -> {"up", "draining", "down"}]
    /\ isCurrentLeader \in [Instances -> BOOLEAN]
    /\ leaderInstanceId \in [Instances -> Instances]
    /\ wasLeader \in [Instances -> BOOLEAN]
    /\ promotions \in [Instances -> Nat]
    /\ guarded \in [Instances -> BOOLEAN]
    /\ pc \in PerCycle(Statements \cup {"idle"})
    /\ now \in PerCycle(Int)
    /\ mine \in PerCycle(BOOLEAN)
    /\ seen \in PerCycle(Instances \cup {NoInstance})
    /\ basis \in PerCycle(Nat)
    /\ holders \in Seq(Instances)
    /\ beliefTerm \in [Instances -> Nat]

Init ==
    /\ clock = 0
    /\ leaseHolder = NoInstance
    /\ leaseExpiresAt = 0
    /\ process = [i \in Instances |-> "up"]
    /\ isCurrentLeader = [i \in Instances |-> FALSE]
    /\ leaderInstanceId = [i \in Instances |-> i]
    /\ wasLeader = [i \in Instances |-> FALSE]
    /\ promotions = [i \in Instances |-> 0]
    /\ guarded = [i \in Instances |-> FALSE]
    /\ pc = [i \in Instances |-> [c \in Slots |-> "idle"]]
    /\ now = [i \in Instances |-> [c \in Slots |-> 0]]
    /\ mine = [i \in Instances |-> [c \in Slots |-> FALSE]]
    /\ seen = [i \in Instances |-> [c \in Slots |-> NoInstance]]
    /\ basis = [i \in Instances |-> [c \in Slots |-> 0]]
    /\ holders = <<>>
    /\ beliefTerm = [i \in Instances |-> 0]

-----------------------------------------------------------------------------
(* The statements of one renewLease() call. *)

Goto(i, c, statement) == pc' = [pc EXCEPT ![i][c] = statement]

\* The call returns; its locals are gone.
Done(i, c) ==
    /\ Goto(i, c, "idle")
    /\ now' = [now EXCEPT ![i][c] = 0]
    /\ mine' = [mine EXCEPT ![i][c] = FALSE]
    /\ seen' = [seen EXCEPT ![i][c] = NoInstance]
    /\ basis' = [basis EXCEPT ![i][c] = 0]

\* A write takes effect: the row names i until the expiry computed when the
\* renewal began.
WriteLease(i, c, reply) ==
    /\ leaseHolder' = i
    /\ leaseExpiresAt' = now[i][c] + TTL
    /\ holders' = IF leaseHolder = i THEN holders ELSE Append(holders, i)
    /\ basis' = [basis EXCEPT ![i][c] = Len(holders')]
    /\ Goto(i, c, reply)

\* The timer fires (or start() makes the first call): now is read.
Begin(i, c) ==
    /\ process[i] = "up"
    /\ pc[i][c] = "idle"
    /\ Goto(i, c, "find")
    /\ now' = [now EXCEPT ![i][c] = Now(i)]
    /\ UNCHANGED <<clock, lease, process, flags, guarded, mine, seen, basis>>

\* Mutant: the lapsed lease of another replica is not taken over.
FindByPkOwnOnly(i, c) ==
    /\ pc[i][c] = "find"
    /\ \/ /\ leaseHolder = NoInstance
          /\ Goto(i, c, "create")
       \/ /\ leaseHolder = i
          /\ Goto(i, c, "extend")
       \/ /\ leaseHolder \notin {i, NoInstance}
          /\ Goto(i, c, "reread")
    /\ UNCHANGED <<clock, lease, process, flags, guarded, now, mine, seen, basis>>

\* First findByPk and the branch it selects.
FindByPk(i, c) ==
    /\ pc[i][c] = "find"
    /\ \/ /\ leaseHolder = NoInstance
          /\ Goto(i, c, "create")
       \/ /\ leaseHolder # NoInstance
          /\ Lapsed(now[i][c])
          /\ Goto(i, c, "takeover")
       \/ /\ leaseHolder = i
          /\ ~Lapsed(now[i][c])
          /\ Goto(i, c, "extend")
       \/ /\ leaseHolder \notin {i, NoInstance}
          /\ ~Lapsed(now[i][c])
          /\ Goto(i, c, "reread")
    /\ UNCHANGED <<clock, lease, process, flags, guarded, now, mine, seen, basis>>

\* create(): the primary key admits one row; a rejected insert is caught.
Create(i, c) ==
    /\ pc[i][c] = "create"
    /\ \/ /\ leaseHolder = NoInstance
          /\ WriteLease(i, c, "created")
          /\ UNCHANGED isCurrentLeader
       \/ /\ leaseHolder # NoInstance
          /\ isCurrentLeader' = [isCurrentLeader EXCEPT ![i] = FALSE]
          /\ Goto(i, c, "reread")
          /\ UNCHANGED <<lease, basis>>
    /\ UNCHANGED <<clock, process, leaderInstanceId, wasLeader, promotions,
                   beliefTerm, guarded, now, mine, seen>>

\* update() of a lease the first read found expired: where { leaseKey } only,
\* so it overwrites whatever the row holds by now.
TakeOver(i, c) ==
    /\ pc[i][c] = "takeover"
    /\ WriteLease(i, c, "granted")
    /\ UNCHANGED <<clock, process, flags, guarded, now, mine, seen>>

\* Mutant: affectedCount is not checked.
ExtendUnchecked(i, c) ==
    /\ pc[i][c] = "extend"
    /\ \/ /\ leaseHolder = i
          /\ WriteLease(i, c, "granted")
       \/ /\ leaseHolder # i
          /\ Goto(i, c, "granted")
          /\ basis' = [basis EXCEPT ![i][c] = term]
          /\ UNCHANGED lease
    /\ UNCHANGED <<clock, process, flags, guarded, now, mine, seen>>

\* Mutant: the holder's renewal leaves the expiry as it is.
ExtendWithoutExpiry(i, c) ==
    /\ pc[i][c] = "extend"
    /\ leaseHolder = i
    /\ Goto(i, c, "granted")
    /\ basis' = [basis EXCEPT ![i][c] = term]
    /\ UNCHANGED <<clock, lease, process, flags, guarded, now, mine, seen>>

\* update() of the replica's own lease: where leaderInstanceId = self.
Extend(i, c) ==
    /\ pc[i][c] = "extend"
    /\ \/ /\ leaseHolder = i
          /\ WriteLease(i, c, "granted")
       \/ /\ leaseHolder # i
          /\ Goto(i, c, "reread")
          /\ UNCHANGED <<lease, basis>>
    /\ UNCHANGED <<clock, process, flags, guarded, now, mine, seen>>

\* The reply to a successful write: both branches return at once, before
\* the code that compares with wasLeader.
Granted(i, c) ==
    /\ pc[i][c] \in {"created", "granted"}
    /\ isCurrentLeader' = [isCurrentLeader EXCEPT ![i] = TRUE]
    /\ leaderInstanceId' = [leaderInstanceId EXCEPT ![i] = i]
    /\ beliefTerm' = [beliefTerm EXCEPT ![i] = basis[i][c]]
    /\ Done(i, c)
    /\ UNCHANGED <<clock, lease, process, wasLeader, promotions, guarded>>

\* Second findByPk, evaluated in the database.
Reread(i, c) ==
    /\ pc[i][c] = "reread"
    /\ Goto(i, c, "observed")
    /\ mine' = [mine EXCEPT ![i][c] = leaseHolder = i /\ ~Lapsed(now[i][c])]
    /\ seen' = [seen EXCEPT ![i][c] = leaseHolder]
    /\ basis' = [basis EXCEPT ![i][c] = term]
    /\ UNCHANGED <<clock, lease, process, flags, guarded, now>>

\* Mutant: a follower that reads no row has no fallback id.
ObserveWithoutFallback(i, c) ==
    /\ pc[i][c] = "observed"
    /\ isCurrentLeader' = [isCurrentLeader EXCEPT ![i] = mine[i][c]]
    /\ leaderInstanceId' = [leaderInstanceId EXCEPT ![i] = seen[i][c]]
    /\ promotions' = [promotions EXCEPT
           ![i] = IF mine[i][c] /\ ~wasLeader[i] THEN @ + 1 ELSE @]
    /\ wasLeader' = [wasLeader EXCEPT ![i] = mine[i][c]]
    /\ beliefTerm' = [beliefTerm EXCEPT ![i] = basis[i][c]]
    /\ Done(i, c)
    /\ UNCHANGED <<clock, lease, process, guarded>>

\* Mutant: the second read can make a leader but not unmake one.
ObserveKeepsFlag(i, c) ==
    /\ pc[i][c] = "observed"
    /\ isCurrentLeader' = [isCurrentLeader EXCEPT ![i] = @ \/ mine[i][c]]
    /\ leaderInstanceId' = [leaderInstanceId EXCEPT
           ![i] = IF seen[i][c] = NoInstance THEN i ELSE seen[i][c]]
    /\ Done(i, c)
    /\ UNCHANGED <<clock, lease, process, wasLeader, promotions, beliefTerm, guarded>>

\* Its reply: the only place where promotion is detected.
Observe(i, c) ==
    /\ pc[i][c] = "observed"
    /\ isCurrentLeader' = [isCurrentLeader EXCEPT ![i] = mine[i][c]]
    /\ leaderInstanceId' = [leaderInstanceId EXCEPT
           ![i] = IF seen[i][c] = NoInstance THEN i ELSE seen[i][c]]
    /\ promotions' = [promotions EXCEPT
           ![i] = IF mine[i][c] /\ ~wasLeader[i] THEN @ + 1 ELSE @]
    /\ wasLeader' = [wasLeader EXCEPT ![i] = mine[i][c]]
    /\ beliefTerm' = [beliefTerm EXCEPT ![i] = basis[i][c]]
    /\ Done(i, c)
    /\ UNCHANGED <<clock, lease, process, guarded>>

\* A statement is rejected, or its reply is lost after it took effect.  Only
\* the insert is inside a try; any other rejection ends the call silently.
Reject(i, c) ==
    /\ \/ /\ pc[i][c] \in {"create", "created"}
          /\ isCurrentLeader' = [isCurrentLeader EXCEPT ![i] = FALSE]
          /\ Goto(i, c, "reread")
          /\ UNCHANGED <<now, mine, seen, basis>>
       \/ /\ pc[i][c] \in Statements \ {"create", "created"}
          /\ Done(i, c)
          /\ UNCHANGED isCurrentLeader
    /\ UNCHANGED <<clock, lease, process, leaderInstanceId, wasLeader, promotions,
                   beliefTerm, guarded>>

Renewal(i, c) ==
    \/ FindByPk(i, c) \/ Create(i, c) \/ TakeOver(i, c) \/ Extend(i, c)
    \/ Granted(i, c) \/ Reread(i, c) \/ Observe(i, c)

-----------------------------------------------------------------------------
(* The replica around it. *)

\* requireLeader() admits a mutating request; nothing rechecks it later.
Admit(i) ==
    /\ process[i] = "up"
    /\ IsLeader(i)
    /\ ~guarded[i]
    /\ guarded' = [guarded EXCEPT ![i] = TRUE]
    /\ UNCHANGED <<clock, lease, process, flags, cycle>>

Respond(i) ==
    /\ guarded[i]
    /\ guarded' = [guarded EXCEPT ![i] = FALSE]
    /\ UNCHANGED <<clock, lease, process, flags, cycle>>

\* stop() clears the timer; the flag and the row stay as they are.
Stop(i) ==
    /\ process[i] = "up"
    /\ process' = [process EXCEPT ![i] = "draining"]
    /\ UNCHANGED <<clock, lease, flags, guarded, cycle>>

\* The process ends, after a drain or by a crash.
Exit(i) ==
    /\ process[i] # "down"
    /\ process' = [process EXCEPT ![i] = "down"]
    /\ isCurrentLeader' = [isCurrentLeader EXCEPT ![i] = FALSE]
    /\ leaderInstanceId' = [leaderInstanceId EXCEPT ![i] = i]
    /\ wasLeader' = [wasLeader EXCEPT ![i] = FALSE]
    /\ guarded' = [guarded EXCEPT ![i] = FALSE]
    /\ pc' = [pc EXCEPT ![i] = [c \in Slots |-> "idle"]]
    /\ now' = [now EXCEPT ![i] = [c \in Slots |-> 0]]
    /\ mine' = [mine EXCEPT ![i] = [c \in Slots |-> FALSE]]
    /\ seen' = [seen EXCEPT ![i] = [c \in Slots |-> NoInstance]]
    /\ basis' = [basis EXCEPT ![i] = [c \in Slots |-> 0]]
    /\ UNCHANGED <<clock, lease, promotions, beliefTerm>>

\* A new process with the same id: every flag at its initial value.
Restart(i) ==
    /\ process[i] = "down"
    /\ process' = [process EXCEPT ![i] = "up"]
    /\ UNCHANGED <<clock, lease, flags, guarded, cycle>>

Tick ==
    /\ clock < MaxClock
    /\ clock' = clock + 1
    /\ UNCHANGED <<lease, process, flags, guarded, cycle>>

Next ==
    \/ Tick
    \/ \E i \in Instances :
          \/ Admit(i) \/ Respond(i) \/ Stop(i) \/ Exit(i) \/ Restart(i)
          \/ \E c \in Slots : Begin(i, c) \/ Renewal(i, c) \/ Reject(i, c)

Spec == Init /\ [][Next]_vars

-----------------------------------------------------------------------------
(* Properties. *)

\* Two replicas may believe they lead at once, but never on the strength of the
\* same tenure of the row: of two believers one rests on a statement answered
\* before the row changed hands.  This is what affectedCount and the second
\* read of renewLease() are for.
AtMostOneLeaderPerTerm ==
    \A i, j \in Instances :
        (i # j /\ isCurrentLeader[i] /\ isCurrentLeader[j])
            => beliefTerm[i] # beliefTerm[j]
=============================================================================
