---------------------------- MODULE MCBlobEngine ----------------------------
(* A small instance of BlobEngine.                                         *)
EXTENDS BlobEngine

CONSTANTS o1, o2, k1, m1, c1

\* Both operations share a key.
MCKeyOf == [o \in Ops |-> k1]
=============================================================================
