----------------------------- MODULE MCOpening -----------------------------
(* Small instances of Opening.                                             *)
EXTENDS Opening

CONSTANTS b, t

\* No component, one normal one, and names that would leave the root.
MCNamespaces == {<<>>, <<"normal">>, <<"parent">>, <<"root", "normal">>}
=============================================================================
