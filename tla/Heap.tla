-------------------------------- MODULE Heap --------------------------------
(***************************************************************************)
(* What the early heap promises its callers (kernel.c, paging.c,           *)
(* ramdisk.c): a request yields a block of the heap area that overlaps no  *)
(* block handed out before, a block is never taken back, and a request     *)
(* that cannot be met stops the kernel for good.  Nothing is said about    *)
(* where in the area a block lies.                                         *)
(***************************************************************************)
EXTENDS Integers

CONSTANTS
  Start,      \* first address of the heap area
  End         \* first address after the heap area

VARIABLES
  live,       \* the blocks handed out so far
  failed      \* a request could not be met

heapVars == <<live, failed>>

\* The memory of block b is that of b.addr .. b.addr + b.size - 1.
Disjoint(b, c) == b.addr + b.size <= c.addr \/ c.addr + c.size <= b.addr

Blocks ==
  [addr : Start .. End - 1, size : 1 .. End - Start, aligned : BOOLEAN]

Allocate ==
  /\ ~failed
  /\ \E b \in Blocks :
       /\ b.addr + b.size <= End
       /\ \A c \in live : Disjoint(b, c)
       /\ live' = live \union {b}
  /\ UNCHANGED failed

Fail ==
  /\ failed' = TRUE
  /\ UNCHANGED live

HeapInit == live = {} /\ failed = FALSE

HeapSpec == HeapInit /\ [][Allocate \/ Fail]_heapVars
=============================================================================
