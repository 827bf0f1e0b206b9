---------------------------- MODULE AddressSpace ----------------------------
(***************************************************************************)
(* What boot.asm and paging.c promise the rest of the kernel: the          *)
(* translation the CPU uses maps the first megabyte to itself and the      *)
(* kernel to its load address from the moment paging is on; exchanging the *)
(* boot directory for the kernel's moves none of those pages; afterwards   *)
(* every call remaps at most one page, never one of the first megabyte or  *)
(* of the kernel's image.                                                  *)
(***************************************************************************)
EXTENDS Integers

CONSTANTS
  Pages,        \* virtual pages
  Low,          \* the pages of the first megabyte
  Image,        \* the kernel's text, rodata, data and bss
  HeapPages,    \* the pages of .early_kmalloc
  Base          \* the page of 0xC0000000

VARIABLES
  phase,        \* "off", "boot" (boot.asm's directory) or "kernel"
  translation   \* page -> frame, as the CPU sees it

spaceVars == <<phase, translation>>

SpaceInit == phase = "off"

PagingOn ==
  /\ phase = "off"
  /\ phase' = "boot"
  /\ \A v \in Low : translation'[v] = v
  /\ \A v \in Image \union HeapPages : translation'[v] = v - Base

Switch ==
  /\ phase = "boot"
  /\ phase' = "kernel"
  /\ \A v \in Low \union Image \union HeapPages :
       translation'[v] = translation[v]

Remap ==
  /\ phase = "kernel"
  /\ phase' = "kernel"
  /\ LET moved == {v \in Pages : translation'[v] # translation[v]}
     IN  \A u, v \in moved : u = v
  /\ \A v \in Low \union Image : translation'[v] = translation[v]

SpaceSpec == SpaceInit /\ [][PagingOn \/ Switch \/ Remap]_spaceVars
=============================================================================
