---------------------------- MODULE MCLoadStream ----------------------------
(* Small instances of LoadStream.                                          *)
EXTENDS LoadStream
=============================================================================
