---------------------------- MODULE MCTabletLoad ----------------------------
(* TabletLoad over three directories, two file names and two match strings: *)
(* every way to fill the directories, every order of readdir.               *)
EXTENDS TabletLoad

CONSTANTS a, b

MCMatchArrays == {<<a>>, <<b>>, <<a, b>>}
=============================================================================
