--------------------------- MODULE MCCoordinator ---------------------------
(* Small instances of Coordinator.                                         *)
EXTENDS Coordinator, TLC

CONSTANTS o1, o2, o3, k1, k2, m1, f1, c1, c2

\* o1 and o2 share a key, o3 has its own.
MCKeyOf == [o \in Ops |-> IF o = o3 THEN k2 ELSE k1]

\* Operations on one key, and closes, are interchangeable.
MCSymmetry == Permutations({o1, o2}) \cup Permutations(Closes)
=============================================================================
