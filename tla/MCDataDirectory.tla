-------------------------- MODULE MCDataDirectory --------------------------
(* DataDirectory with files of three points, marked too big at two: four     *)
(* flushes of one or two points fill files, rename one onto another, and     *)
(* make the three files on which the search spins.                           *)
EXTENDS DataDirectory
=============================================================================
