---------------------------- MODULE MCDescriptors ----------------------------
(***************************************************************************)
(* Instance of Descriptors for TLC: stubs within 64 KB and across such a   *)
(* border, and a GDT with the third entry at the address gdt_set_entry     *)
(* stops at, or 64 KB behind it.                                           *)
(***************************************************************************)
EXTENDS Descriptors

MCGdt == {[hi |-> 49168, lo |-> 4296], [hi |-> 49169, lo |-> 4296]}
MCStubs == {[hi |-> 49168, lo |-> 4096], [hi |-> 49168, lo |-> 65280]}
=============================================================================
