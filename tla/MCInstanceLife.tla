---------------------------- MODULE MCInstanceLife ----------------------------
(* The requests of the safety runs all do the same things.                 *)
EXTENDS InstanceLife, TLC

Interchangeable == Permutations(Pollers) \cup Permutations(Handlers)
=============================================================================
