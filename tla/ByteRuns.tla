------------------------------ MODULE ByteRuns ------------------------------
(***************************************************************************)
(* The bytes of a stream.  A byte is its position in the source or payload *)
(* it comes from, so that a sequence of bytes shows what was transferred   *)
(* and in which order.                                                     *)
(***************************************************************************)
EXTENDS Integers, Sequences

\* The count bytes behind the first `from' ones.
Bytes(from, count) == [i \in 1..count |-> from + i]
=============================================================================
