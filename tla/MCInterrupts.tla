---------------------------- MODULE MCInterrupts ----------------------------
(***************************************************************************)
(* Instance of Interrupts for TLC: the timer, a second line of the master, *)
(* the first line of the slave, where a second EOI becomes necessary; a    *)
(* g_ticks that wraps after five ticks; a page fault (with a handler) and  *)
(* a division error (without).                                             *)
(***************************************************************************)
EXTENDS Interrupts

MCLines == {0, 1, 8}
MCMasks == {{}, {0}, {2, 8}}
MCExceptions == {0, 14}
MCSecs == {1, 2}
=============================================================================
