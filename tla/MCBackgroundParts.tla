--------------------------- MODULE MCBackgroundParts ---------------------------
(* Two parts that share no state, NodeLife and SandboxPool, in one run: each   *)
(* behaviour is one of either.                                                 *)
EXTENDS NodeLife, SandboxPool, TLC

VARIABLE part

InitParts ==
    /\ part \in {"node", "pool"}
    /\ Init
    /\ PoolInit
    \* at most one build runs elsewhere, for a run of its own
    /\ \A b, c \in Builds : host[b] # Pinned /\ b # c => host[c] = Pinned /\ run[b] # run[c]
    /\ part = "node" => \A b, c \in Builds : run[b] = run[c] /\ host[b] = Pinned  \* the pool rests in these behaviours

NodeNext == part = "node" /\ Next /\ UNCHANGED <<part, poolVars>>
OnlyPoolNext == part = "pool" /\ PoolNext /\ UNCHANGED <<part, vars>>

NextParts == NodeNext \/ OnlyPoolNext

SpecParts == InitParts /\ [][NextParts]_<<part, vars, poolVars>>

Symmetry ==
    UNION {Permutations(s) : s \in {Polls, Requests, Builds, Admins, Runs}}
================================================================================
