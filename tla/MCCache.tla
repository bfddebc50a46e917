------------------------------ MODULE MCCache -------------------------------
(* Instances of the compact cache for TLC. *)
EXTENDS CacheProps, TLC

\* The actions and properties treat builders, readers and requests alike.
Symmetry == Permutations(Builders) \cup Permutations(Readers) \cup Permutations(Requests)
=============================================================================
