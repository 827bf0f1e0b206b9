------------------------------ MODULE MCConsole ------------------------------
(***************************************************************************)
(* Instance of Console for TLC: three rows of two columns, lines of up to  *)
(* two rows (the last line then reaches behind the display), a column      *)
(* counter that wraps within such a line, and a scroll that, as in vga.c,  *)
(* moves two and a half rows more than are seen.                           *)
(***************************************************************************)
EXTENDS Console

MCChars == {"a", "b"}
=============================================================================
