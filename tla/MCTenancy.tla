----------------------------- MODULE MCTenancy -----------------------------
(* Two organisations, two candidates of the first.                         *)
EXTENDS Tenancy, TLC
CONSTANTS o1, o2, k1, k2, r1, r2, c1, c2
MCHome == [k \in {k1, k2} |-> o1]
Symmetry == Permutations({k1, k2}) \cup Permutations(Requests) \cup Permutations(Connections)
=============================================================================
