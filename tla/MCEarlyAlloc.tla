---------------------------- MODULE MCEarlyAlloc ----------------------------
(***************************************************************************)
(* Instance of EarlyAlloc for TLC: pages of 4 bytes, a heap of two pages   *)
(* and three bytes (so that the limit is not a page boundary), requests    *)
(* below, at and above a page.                                             *)
(***************************************************************************)
EXTENDS EarlyAlloc

MCSizes == {0, 1, 3, 6}
=============================================================================
