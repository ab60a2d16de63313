---------------------------- MODULE MCBlobFiles ----------------------------
(* Small instances of BlobFiles.                                           *)
EXTENDS BlobFiles, TLC

CONSTANTS v1, v2, big, i1, i2

MCSymmetry == Permutations(Values \ Oversized) \cup Permutations(Ids)
=============================================================================
