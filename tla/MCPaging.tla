------------------------------ MODULE MCPaging ------------------------------
(***************************************************************************)
(* Instances of Paging for TLC.  Everything is scaled down with the number *)
(* of entries of a table: with 32 entries a page has 128 bytes, the        *)
(* address space 1024 pages, a megabyte 8 pages and the part of the        *)
(* address space behind one directory entry (4 MB) 32 pages.               *)
(***************************************************************************)
EXTENDS Paging

MCEntries == 32
MCPageSize == 4 * MCEntries
MCWord == MCEntries * MCEntries * MCPageSize
MCLow == 8
MCEarly == 4
MCBase == 768

\* A kernel image of two pages and a heap of eleven.
MCImage == 2
MCHeapStart == (MCBase + MCLow + MCEarly + MCImage) * MCPageSize
MCHeapEnd == MCHeapStart + 11 * MCPageSize

\* An image of ten pages: 22 pages with the heap, within the 24 of the
\* linker script's 3 MB.
MCLargeImage == 10
MCLargeHeapStart == (MCBase + MCLow + MCEarly + MCLargeImage) * MCPageSize
MCLargeHeapEnd == MCLargeHeapStart + 12 * MCPageSize

MCInode == 48
MCSizes == {4, 16, MCInode, 3 * MCInode, MCPageSize}

\* Unused memory: zero, or a word that looks like a present entry.
MCJunk == {Zero, [page |-> 5, flags |-> {"P"}]}

\* The structure in the first megabyte or above it; the list on a page
\* boundary, or not; modules above the kernel; up to three files.
MCLoaders ==
  [mbi : {2, 30}, mods_addr : {3 * MCPageSize, 40 * MCPageSize, 3 * MCPageSize + 16},
   mod_start : {41 * MCPageSize}, nfiles : {0, 1, 3}]
MCOneLoader ==
  {[mbi |-> 2, mods_addr |-> 3 * MCPageSize, mod_start |-> 41 * MCPageSize,
    nfiles |-> 1]}

\* Two pages behind a directory entry of their own, one page twice (the end
\* is rounded up), a page off a boundary, an empty range, the last page of
\* memory.
MCRanges ==
  {[start |-> 100 * MCPageSize, end |-> 102 * MCPageSize],
   [start |-> 200 * MCPageSize, end |-> 200 * MCPageSize + 1],
   [start |-> 300 * MCPageSize + 4, end |-> 301 * MCPageSize],
   [start |-> 100 * MCPageSize, end |-> 100 * MCPageSize],
   [start |-> MCWord - MCPageSize, end |-> MCWord - 1]}
MCOneRange == {[start |-> 100 * MCPageSize, end |-> 101 * MCPageSize]}

\* The smaller kernel meets the hypotheses of the theorems of PagingProofs; the
\* larger one, which the linker script accepts too, does not fit.
ASSUME MCHypotheses == (IMAGE_PAGES = MCImage) = (KernelFits /\ RangesApart)
=============================================================================
