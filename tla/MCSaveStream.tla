---------------------------- MODULE MCSaveStream ----------------------------
(* Small instances of SaveStream.                                          *)
EXTENDS SaveStream
=============================================================================
