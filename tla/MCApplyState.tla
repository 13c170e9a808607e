----------------------------- MODULE MCApplyState ----------------------------
(* Versions of a manifest that add, scale, change and drop services.         *)
EXTENDS ApplyState

CONSTANTS n1, n2, a1, a2, web, db

MCManifests == {
    web :> [image |-> 1, replicas |-> 1],
    web :> [image |-> 1, replicas |-> 2],
    (web :> [image |-> 2, replicas |-> 1]) @@ (db :> [image |-> 1, replicas |-> 1])}

Symmetry == Permutations({n1, n2}) \cup Permutations({a1, a2})
=============================================================================
