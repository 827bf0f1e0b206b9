------------------------------ MODULE MCStrings ------------------------------
(***************************************************************************)
(* Instance of Strings for TLC: every content of a memory of five bytes    *)
(* and every call in it, so that source and destination overlap in every   *)
(* way, are empty, and reach the end of the memory.                        *)
(***************************************************************************)
EXTENDS Strings

MCBytes == {0, 1, 2}
=============================================================================
