------------------------------ MODULE MCStartUp -------------------------------
(* An empty database, a replica of the old version and two of the new one. *)
EXTENDS StartUp

CONSTANTS a, b, c

Versions == [r \in {a, b, c} |-> IF r = a THEN 1 ELSE 2]
=============================================================================
