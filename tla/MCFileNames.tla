---------------------------- MODULE MCFileNames ----------------------------
(* A small instance of FileNames, with suffixes chosen to collide.         *)
EXTENDS FileNames

MCSuffixes ==
    { <<".", "a">>, <<".", "A">>, <<".", "tmp-v1">>, <<".", "save">>,
      <<".", "a", "tmp-v1">>, <<".", "a", ".", "tmp-v1">>, <<".">>, <<"a", "a">>,
      <<".", "g", "g", "g", "g">> }
MCHashes == {<<"a", "a">>}
=============================================================================
