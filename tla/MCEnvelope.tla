---------------------------- MODULE MCEnvelope -----------------------------
(* A small instance of Envelope: one byte for tag, version and checksum.   *)
EXTENDS Envelope

MCTag == <<1>>
MCVersion == <<2>>
=============================================================================
