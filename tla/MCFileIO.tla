------------------------------ MODULE MCFileIO ------------------------------
(* FileIO with points of two bytes, two to an allocation.                    *)
EXTENDS FileIO
=============================================================================
