------------------------------- MODULE Paging -------------------------------
(***************************************************************************)
(* The kernel's address space while it boots: the tables of asm/boot.asm,  *)
(* mm/paging.c on top of the early allocator, and the remapping that       *)
(* kernel.c does for the module list and the module.  The MMU is modelled  *)
(* as the code relies on it: a two-level walk from CR3, a TLB that keeps   *)
(* every translation used since CR3 was loaded.  Interrupts are off        *)
(* throughout, so the steps run in program order.                          *)
(*                                                                         *)
(* A pointer to a page is kept as its page number.  A word of a table is   *)
(* the record of its upper 20 bits and its flags.                          *)
(***************************************************************************)
EXTENDS EarlyAlloc, FiniteSetsExt

CONSTANTS
  PAGE_ENTRIES,       \* entries of a directory or a table (1024)
  LOW_PAGES,          \* PAGES_PER_MB(1)
  EARLY_PAGES,        \* .__mbHeader, .early_text, .early_data, .early_bss
  IMAGE_PAGES,        \* .text, .rodata, .data, .bss
  Loaders,            \* what a boot loader may leave behind, see LoaderOK
  Junk,               \* what a word of unused memory may hold
  SIZEOF_MODULE, SIZEOF_UINT32, SIZEOF_INODE,
  Ranges              \* arguments of page_ident_map_range

Pages == 0 .. PAGE_ENTRIES * PAGE_ENTRIES - 1
Entries == 0 .. PAGE_ENTRIES - 1
PAGE_TABLE_SIZE == 4 * PAGE_ENTRIES
KernelBase == (3 * PAGE_ENTRIES * PAGE_ENTRIES) \div 4

\* Where config/linker.ld puts things, in pages.
EarlyEnd == LOW_PAGES + EARLY_PAGES
KERNEL_START == KernelBase + EarlyEnd
KERNEL_END == EARLY_KMALLOC_END \div PAGE_SIZE
LowPages == 0 .. LOW_PAGES - 1
ImagePages == KERNEL_START .. KERNEL_START + IMAGE_PAGES - 1
KmallocPages == EARLY_KMALLOC_START \div PAGE_SIZE .. KERNEL_END - 1
VgaPage == LOW_PAGES - 1

\* The page-aligned tables at the end of .early_bss.
page_directory == EarlyEnd - 3
lowmem_pt == EarlyEnd - 2
kernel_pt == EarlyEnd - 1

\* The frames that ever hold tables: those three and the heap's.
HeapFrames == {v - KernelBase : v \in KmallocPages}
TableFrames == HeapFrames \union {page_directory, lowmem_pt, kernel_pt}

Flags == {"P", "RW"}
Words == [page : Pages, flags : SUBSET Flags]
Zero == [page |-> 0, flags |-> {}]
ZeroTable == [i \in Entries |-> Zero]
NoFrame == -1

\* The multiboot information: where it lies, its mods_addr, the mod_start
\* of the first module, and the nfiles found at the start of the module.
LoaderOK(l) ==
  /\ l.mbi \in Pages
  /\ l.mods_addr \in 0 .. WORD - 1
  /\ l.mod_start \in 0 .. WORD - 1
  /\ l.nfiles \in Nat

ASSUME PagingAssumption ==
  /\ PAGE_ENTRIES \in Nat \ {0} /\ PAGE_ENTRIES % 4 = 0
  /\ PAGE_SIZE = PAGE_TABLE_SIZE
  /\ WORD = PAGE_ENTRIES * PAGE_ENTRIES * PAGE_SIZE
  /\ LOW_PAGES = PAGE_ENTRIES \div 4
  /\ EARLY_PAGES \in Nat /\ EARLY_PAGES >= 3
  /\ IMAGE_PAGES \in Nat \ {0}
  /\ EARLY_KMALLOC_START = (KERNEL_START + IMAGE_PAGES) * PAGE_SIZE
  /\ EARLY_KMALLOC_END % PAGE_SIZE = 0
  \* the ASSERT of config/linker.ld: _KERNEL_SIZE < 3 MB
  /\ KERNEL_END - KERNEL_START < 3 * LOW_PAGES
  /\ \A l \in Loaders : LoaderOK(l)
  /\ Junk \subseteq Words
  /\ \A r \in Ranges : r.start \in 0 .. WORD - 1 /\ r.end \in 0 .. WORD - 1
  \* the requests of paging.c, kernel.c and ramdisk.c are among Sizes
  /\ {PAGE_TABLE_SIZE, SIZEOF_MODULE, SIZEOF_UINT32, SIZEOF_INODE} \subseteq Sizes \ {0}
  /\ \A l \in Loaders : SIZEOF_INODE * l.nfiles \in Sizes \union {0}

VARIABLES
  mem,                  \* frame -> its words, for the frames in TableFrames
  cr3,                  \* frame of the active directory
  tlb,                  \* cached translations, a function on some pages
  pageDirectory,        \* paging.c's statics; 0 is NULL
  ptPhysToVirt,
  kernelPagingEnabled,
  new_location,         \* locals of kmain
  mod_new_addr,
  loader,               \* what the boot loader left
  pc,                   \* where the boot is
  next, limit,          \* the loop of the current mapping, as addresses
  range,                \* history: the arguments of page_ident_map_range
  lastMap               \* history: the last completed page_map

memory == <<mem, tlb, lastMap>>
directory == <<cr3, pageDirectory, ptPhysToVirt, kernelPagingEnabled>>
modules == <<new_location, mod_new_addr, loader>>
loop == <<next, limit, range>>
vars == <<allocVars, memory, directory, modules, loop, pc>>

NoMap == [virt |-> 0, phys |-> 0, perm |-> {}]

PagingInit ==
  /\ AllocInit
  /\ \E w \in Junk : mem = [f \in TableFrames |-> [i \in Entries |-> w]]
  /\ cr3 = 0
  /\ tlb = [v \in {} |-> 0]
  /\ pageDirectory = 0
  /\ ptPhysToVirt = 0
  /\ kernelPagingEnabled = FALSE
  /\ new_location = 0
  /\ mod_new_addr = 0
  /\ loader \in Loaders
  /\ pc = "start"
  /\ next = 0
  /\ limit = 0
  /\ range = [start |-> 0, end |-> 0]
  /\ lastMap = NoMap

-----------------------------------------------------------------------------
(***************************************************************************)
(* The MMU.                                                                *)
(***************************************************************************)

\* The walk of page v from directory dir in memory m.
Walk(m, dir, v) ==
  LET pde == m[dir][v \div PAGE_ENTRIES]
      pte == m[pde.page][v % PAGE_ENTRIES]
  IN  IF /\ "P" \in pde.flags
         /\ pde.page \in TableFrames
         /\ "P" \in pte.flags
      THEN pte.page
      ELSE NoFrame

\* What the CPU uses for page v: the cached translation before the tables.
Translate(v) == IF v \in DOMAIN tlb THEN tlb[v] ELSE Walk(mem, cr3, v)

\* An access to each of the pages vs caches its translation.
Touch(vs) ==
  tlb' = [v \in DOMAIN tlb \union {u \in vs : Translate(u) # NoFrame}
            |-> Translate(v)]

\* The kernel runs: its image and the screen are in use.
InUse == ImagePages \union {VgaPage}

\* Word i of the table at page v of memory m.  A page fault reads as Zero:
\* the handler panics, and so do the ASSERTs behind each such read.
Read(m, v, i) ==
  IF Translate(v) \in TableFrames THEN m[Translate(v)][i] ELSE Zero

-----------------------------------------------------------------------------
(***************************************************************************)
(* asm/boot.asm.                                                           *)
(***************************************************************************)

\* Bug: the loop .higher stops one page early.
FilledTableShort(first, last, offset) ==
  [i \in Entries |->
     LET ps == {p \in first .. last - 1 : p % PAGE_ENTRIES = i}
     IN  IF ps = {} THEN Zero ELSE [page |-> Max(ps) - offset, flags |-> Flags]]

\* The loops .lowmem and .higher: entry i of the table receives each page of
\* the range whose index is i (the mask 0x3ff), so the last of them stays.
FilledTable(first, last, offset) ==
  [i \in Entries |->
     LET ps == {p \in first .. last : p % PAGE_ENTRIES = i}
     IN  IF ps = {} THEN Zero ELSE [page |-> Max(ps) - offset, flags |-> Flags]]

_start ==
  /\ pc = "start"
  /\ mem' = [mem EXCEPT
       ![page_directory] =
          [ZeroTable EXCEPT
             ![0] = [page |-> lowmem_pt, flags |-> Flags],
             ![KernelBase \div PAGE_ENTRIES] = [page |-> kernel_pt, flags |-> Flags]],
       ![lowmem_pt] = FilledTable(0, EarlyEnd - 1, 0),
       ![kernel_pt] = FilledTable(KERNEL_START, KERNEL_END - 1, KernelBase)]
  /\ cr3' = page_directory
  /\ pc' = "kmain"
  /\ UNCHANGED <<allocVars, modules, loop, tlb, pageDirectory,
                 ptPhysToVirt, kernelPagingEnabled, lastMap>>

-----------------------------------------------------------------------------
(***************************************************************************)
(* mm/paging.c.                                                            *)
(***************************************************************************)

\* A failed ASSERT, or a page fault: page_fault_handler panics.
Panic ==
  /\ panicked' = TRUE
  /\ UNCHANGED <<baseVars, currentBase, blocks, memory>>

\* Bug: with paging on, the table's physical address is used as a pointer.
virt_to_phys_no_reverse(m, v) ==
  LET pde == Read(m, IF kernelPagingEnabled THEN pageDirectory ELSE cr3,
                  v \div PAGE_ENTRIES)
      pte == Read(m, pde.page, v % PAGE_ENTRIES)
  IN  IF "P" \in pde.flags /\ "P" \in pte.flags THEN pte.page ELSE NoFrame

\* virt_to_phys of page v; NoFrame stands for its failing ASSERTs.
virt_to_phys(m, v) ==
  LET dirI == v \div PAGE_ENTRIES
      pde == Read(m, IF kernelPagingEnabled THEN pageDirectory ELSE cr3, dirI)
      pt == IF kernelPagingEnabled THEN Read(m, ptPhysToVirt, dirI).page
                                   ELSE pde.page
      pte == Read(m, pt, v % PAGE_ENTRIES)
  IN  IF "P" \in pde.flags /\ "P" \in pte.flags THEN pte.page ELSE NoFrame

\* Bug: the old address is not cleared (modelled by keeping it).
page_map_pte_keep(entry, phys, perm) ==
  [page |-> IF entry.page = 0 THEN phys ELSE entry.page,
   flags |-> entry.flags \union perm \union {"P"}]

\* page_map_pte: the address is replaced, the flags are only added to.
page_map_pte(entry, phys, perm) ==
  [page |-> phys, flags |-> entry.flags \union perm \union {"P"}]

\* Memory after the memset of a new table.
cleared(table) == [mem EXCEPT ![Translate(table)] = ZeroTable]

\* Bug: the reverse mapping records the physical address.
new_table_phys(dirI, table) ==
  LET frame == virt_to_phys(cleared(table), table)
  IN  [cleared(table) EXCEPT
         ![Translate(pageDirectory)][dirI] = [page |-> frame, flags |-> Flags],
         ![Translate(ptPhysToVirt)][dirI] = [page |-> frame, flags |-> {}]]

\* Memory after page_map has cleared a new table and entered it into the
\* directory (by frame) and the reverse mapping (by virtual page).
new_table(dirI, table) ==
  LET frame == virt_to_phys(cleared(table), table)
  IN  [cleared(table) EXCEPT
         ![Translate(pageDirectory)][dirI] = [page |-> frame, flags |-> Flags],
         ![Translate(ptPhysToVirt)][dirI] = [page |-> table, flags |-> {}]]

page_map(virt, phys, perm) ==
  LET v == virt \div PAGE_SIZE
      dirI == v \div PAGE_ENTRIES
      present == "P" \in Read(mem, pageDirectory, dirI).flags
      table == PageUp(currentBase) \div PAGE_SIZE
      m == IF present THEN mem ELSE new_table(dirI, table)
      pt == Read(m, ptPhysToVirt, dirI).page
      pointersOK == /\ pageDirectory # 0
                    /\ {Translate(pageDirectory), Translate(ptPhysToVirt)}
                          \subseteq TableFrames
      tableOK == present \/ virt_to_phys(cleared(table), table) # NoFrame
      done == /\ mem' = [m EXCEPT ![Translate(pt)][v % PAGE_ENTRIES] =
                            page_map_pte(@, phys \div PAGE_SIZE, perm)]
              /\ Touch(InUse \union {pageDirectory, ptPhysToVirt, pt})
              /\ lastMap' = [virt |-> v, phys |-> phys \div PAGE_SIZE,
                             perm |-> perm]
  IN  IF \/ virt % PAGE_SIZE # 0 \/ phys % PAGE_SIZE # 0
         \/ ~pointersOK \/ ~tableOK
      THEN Panic
      ELSE IF present
      THEN done /\ UNCHANGED allocVars
      ELSE /\ kmalloc_early_align(PAGE_TABLE_SIZE)
           /\ IF panicked' THEN UNCHANGED memory ELSE done

-----------------------------------------------------------------------------
(***************************************************************************)
(* kmain and init_paging, one action per call.                             *)
(***************************************************************************)

Goto(from, to) == pc = from /\ pc' = to /\ ~panicked

\* The variable that receives the page of an aligned allocation: old is what
\* it keeps when the heap is exhausted and the allocation does not return.
AllocatedPage(old) ==
  IF panicked' THEN old ELSE PageUp(currentBase) \div PAGE_SIZE

\* kmain up to init_paging.
kmain_heap ==
  /\ Goto("kmain", "directory")
  /\ kmalloc_early_init(EARLY_KMALLOC_START, EARLY_KMALLOC_END)
  /\ Touch(InUse)
  /\ UNCHANGED <<directory, modules, loop, mem, lastMap>>

init_paging_directory ==
  /\ Goto("directory", "reverse")
  /\ kmalloc_early_align(PAGE_TABLE_SIZE)
  /\ pageDirectory' = AllocatedPage(pageDirectory)
  /\ UNCHANGED <<memory, modules, loop, cr3,
                 ptPhysToVirt, kernelPagingEnabled>>

\* The second allocation, then both memsets.
init_paging_reverse ==
  /\ Goto("reverse", "report")
  /\ kmalloc_early_align(PAGE_TABLE_SIZE)
  /\ ptPhysToVirt' = AllocatedPage(ptPhysToVirt)
  /\ IF panicked'
     THEN UNCHANGED <<mem, tlb>>
     ELSE /\ mem' = [f \in TableFrames |->
                       IF f \in {Translate(pageDirectory), Translate(ptPhysToVirt')}
                       THEN ZeroTable ELSE mem[f]]
          /\ Touch(InUse \union {pageDirectory, ptPhysToVirt'})
  /\ UNCHANGED <<modules, loop, cr3, pageDirectory, kernelPagingEnabled, lastMap>>

\* The message with the directory's frame: virt_to_phys may fail its ASSERTs.
init_paging_report ==
  /\ Goto("report", "low")
  /\ IF virt_to_phys(mem, pageDirectory) = NoFrame
     THEN Panic
     ELSE UNCHANGED <<allocVars, memory>>
  /\ next' = 0
  /\ limit' = LOW_PAGES * PAGE_SIZE
  /\ UNCHANGED <<directory, modules, range>>

\* Bug: the loop does not advance.
MapNextStuck(here, offset, perm) ==
  /\ Goto(here, here)
  /\ next < limit
  /\ page_map(next, next - offset, perm)
  /\ UNCHANGED <<directory, modules, loop>>

\* An iteration of the loop at stage here, mapping next to next - offset.
MapNext(here, offset, perm) ==
  /\ Goto(here, here)
  /\ next < limit
  /\ page_map(next, next - offset, perm)
  /\ next' = next + PAGE_SIZE
  /\ UNCHANGED <<directory, modules, limit, range>>

init_paging_low == MapNext("low", 0, {"RW"})

init_paging_low_end ==
  /\ Goto("low", "high")
  /\ next >= limit
  /\ next' = KERNEL_START * PAGE_SIZE
  /\ limit' = KERNEL_END * PAGE_SIZE
  /\ UNCHANGED <<allocVars, memory, directory, modules, range>>

\* Bug: the higher-half loop does not move the heap.
init_paging_high_image ==
  MapNext("high", IF next < EARLY_KMALLOC_START THEN KernelBase * PAGE_SIZE ELSE 0,
          {"RW"})

init_paging_high == MapNext("high", KernelBase * PAGE_SIZE, {"RW"})

\* Bug: CR3 is loaded with the directory's virtual address.
init_paging_switch_virtual ==
  /\ Goto("high", "modlist")
  /\ next >= limit
  /\ cr3' = pageDirectory
  /\ tlb' = [v \in {} |-> 0]
  /\ kernelPagingEnabled' = TRUE
  /\ UNCHANGED <<allocVars, modules, loop, mem, pageDirectory, ptPhysToVirt, lastMap>>

\* The end of init_paging; loading CR3 empties the TLB.
init_paging_switch ==
  /\ Goto("high", "modlist")
  /\ next >= limit
  /\ IF virt_to_phys(mem, pageDirectory) = NoFrame
     THEN Panic /\ UNCHANGED <<cr3, kernelPagingEnabled>>
     ELSE /\ cr3' = virt_to_phys(mem, pageDirectory)
          /\ tlb' = [v \in {} |-> 0]
          /\ kernelPagingEnabled' = TRUE
          /\ UNCHANGED <<allocVars, mem, lastMap>>
  /\ UNCHANGED <<modules, loop, pageDirectory, ptPhysToVirt>>

\* kmain: a page for the module list, then its mapping, which reads
\* mbi->mods_addr through the translation of the loader's structure.
kmain_modlist ==
  /\ Goto("modlist", "modlist_map")
  /\ kmalloc_early_align(SIZEOF_MODULE)
  /\ new_location' = AllocatedPage(new_location)
  /\ UNCHANGED <<memory, directory, loop, mod_new_addr, loader>>

kmain_modlist_map ==
  /\ Goto("modlist_map", "module")
  /\ IF Translate(loader.mbi) = NoFrame
     THEN Panic
     ELSE page_map(new_location * PAGE_SIZE, loader.mods_addr, {"RW"})
  /\ UNCHANGED <<directory, modules, loop>>

\* modules[0] is read before the page for the module is taken.
kmain_module ==
  /\ Goto("module", "module_map")
  /\ kmalloc_early_align(SIZEOF_UINT32)
  /\ mod_new_addr' = AllocatedPage(mod_new_addr)
  /\ Touch(InUse \union {new_location})
  /\ UNCHANGED <<directory, loop, mem, new_location, loader, lastMap>>

kmain_module_map ==
  /\ Goto("module_map", "root")
  /\ page_map(mod_new_addr * PAGE_SIZE, loader.mod_start, {"RW"})
  /\ UNCHANGED <<directory, modules, loop>>

\* ramdisk_init's allocations: the root inode, dev, the files' inodes; each
\* is written at once.  A ramdisk without files allocates nothing for them.
RamdiskAlloc(from, to, size) ==
  /\ Goto(from, to)
  /\ kmalloc_early_align(size)
  /\ LET base == PageUp(currentBase)
         block == base \div PAGE_SIZE .. (base + size - 1) \div PAGE_SIZE
     IN  Touch(InUse \union {mod_new_addr} \union (IF panicked' THEN {} ELSE block))
  /\ UNCHANGED <<directory, modules, loop, mem, lastMap>>

ramdisk_root == RamdiskAlloc("root", "dev", SIZEOF_INODE)
ramdisk_dev == RamdiskAlloc("dev", "nodes", SIZEOF_INODE)
ramdisk_nodes == RamdiskAlloc("nodes", "idle", SIZEOF_INODE * loader.nfiles)

ramdisk_no_nodes ==
  /\ Goto("nodes", "idle")
  /\ loader.nfiles = 0
  /\ kmalloc_null
  /\ UNCHANGED <<memory, directory, modules, loop>>

\* page_ident_map_range, offered to later kernel code (it has no caller yet).
page_ident_map_range ==
  /\ Goto("idle", "range")
  /\ \E r \in Ranges :
       /\ IF r.start < r.end
          THEN UNCHANGED <<allocVars, memory>>
          ELSE Panic
       /\ next' = r.start
       /\ limit' = PageUp(r.end)
       /\ range' = r
  /\ UNCHANGED <<directory, modules>>

page_ident_map_next == \E perm \in {{}, {"RW"}} : MapNext("range", 0, perm)

page_ident_map_end ==
  /\ Goto("range", "idle")
  /\ next >= limit
  /\ UNCHANGED <<allocVars, memory, directory, modules, loop>>

\* panic halts for ever.
PanicHalt == panicked /\ UNCHANGED vars

-----------------------------------------------------------------------------

Boot ==
  \/ _start
  \/ kmain_heap
  \/ init_paging_directory
  \/ init_paging_reverse
  \/ init_paging_report
  \/ init_paging_low
  \/ init_paging_low_end
  \/ init_paging_high
  \/ init_paging_switch
  \/ kmain_modlist
  \/ kmain_modlist_map
  \/ kmain_module
  \/ kmain_module_map
  \/ ramdisk_root
  \/ ramdisk_dev
  \/ ramdisk_nodes
  \/ ramdisk_no_nodes

PagingNext ==
  \/ Boot
  \/ page_ident_map_range
  \/ page_ident_map_next
  \/ page_ident_map_end
  \/ PanicHalt

\* The CPU keeps executing the boot code.
PagingSpec == PagingInit /\ [][PagingNext]_vars /\ WF_vars(Boot)

-----------------------------------------------------------------------------
(***************************************************************************)
(* Properties.                                                             *)
(***************************************************************************)

\* Type invariant of paging.c's state, the tables and the TLB.
PagingTypeOK ==
  /\ mem \in [TableFrames -> [Entries -> Words]]
  /\ cr3 \in TableFrames \union {0}
  /\ DOMAIN tlb \subseteq Pages
  /\ \A v \in DOMAIN tlb : tlb[v] \in Pages
  /\ {pageDirectory, ptPhysToVirt, new_location, mod_new_addr} \subseteq Pages
  /\ kernelPagingEnabled \in BOOLEAN

(***************************************************************************)
(* The tables of boot.asm map every page of the kernel, image and heap, to *)
(* the frame it was loaded in, and go on doing so until the kernel's own   *)
(* directory replaces them.                                                *)
(***************************************************************************)
BootMapsKernel ==
  cr3 = page_directory =>
    \A v \in ImagePages \union KmallocPages : Translate(v) = v - KernelBase

(***************************************************************************)
(* page_map finds a table through ptPhysToVirt, the MMU through the frame  *)
(* in the directory: for every entry of the directory the two are the same *)
(* memory, and an absent table has no reverse mapping.                     *)
(***************************************************************************)
ReverseMapSound ==
  pc \notin {"start", "kmain", "directory", "reverse"} /\ ~panicked =>
    \A i \in Entries :
      LET pde == Read(mem, pageDirectory, i)
          virt == Read(mem, ptPhysToVirt, i).page
      IN  IF "P" \in pde.flags THEN virt # 0 /\ Translate(virt) = pde.page
                               ELSE virt = 0

(***************************************************************************)
(* virt_to_phys, in both its modes, computes what the MMU does for every   *)
(* page of the kernel's half (its callers pass heap pages).                *)
(***************************************************************************)
VirtToPhysAgrees ==
  pc # "start" /\ ~panicked =>
    \A v \in ImagePages \union KmallocPages :
      virt_to_phys(mem, v) = Translate(v)

(***************************************************************************)
(* No cached translation is stale.  The code never executes invlpg: it is  *)
(* right only as long as page_map is given pages nobody has touched since  *)
(* CR3 was loaded.                                                         *)
(***************************************************************************)
TLBCoherent == \A v \in DOMAIN tlb : tlb[v] = Walk(mem, cr3, v)

(***************************************************************************)
(* page_map leaves the page with the permissions it was asked for ("using  *)
(* the requested permissions", paging.c).                                  *)
(***************************************************************************)
LastMapPermissions ==
  lastMap # NoMap /\ ~panicked =>
    LET pde == mem[Translate(pageDirectory)][lastMap.virt \div PAGE_ENTRIES]
    IN  mem[pde.page][lastMap.virt % PAGE_ENTRIES].flags
          = lastMap.perm \union {"P"}

(***************************************************************************)
(* What kmain reads through new_location and mod_new_addr is the module    *)
(* list and the first page of the module, from when it maps them on: later *)
(* allocations and mappings never take those pages away.                   *)
(***************************************************************************)
ModulesVisible ==
  ~panicked =>
    /\ pc \in {"module", "module_map", "root", "dev", "nodes", "idle", "range"} =>
         Translate(new_location) * PAGE_SIZE = loader.mods_addr
    /\ pc \in {"root", "dev", "nodes", "idle", "range"} =>
         Translate(mod_new_addr) * PAGE_SIZE = loader.mod_start

Space == INSTANCE AddressSpace WITH
           Low <- LowPages, Image <- ImagePages, HeapPages <- KmallocPages,
           Base <- KernelBase,
           phase <- IF pc = "start" THEN "off"
                    ELSE IF kernelPagingEnabled THEN "kernel" ELSE "boot",
           translation <- [v \in Pages |->
                             IF pc = "start" THEN NoFrame ELSE Translate(v)]

(***************************************************************************)
(* boot.asm and paging.c implement the address space the kernel was        *)
(* promised: building the new directory disturbs nothing, exchanging it    *)
(* keeps the first megabyte and the kernel in place, a page_map afterwards *)
(* changes one page.                                                       *)
(***************************************************************************)
ImplementsAddressSpace == Space!SpaceSpec

(***************************************************************************)
(* When page_ident_map_range returns, every page of its range, the one of  *)
(* the last byte included, leads to the frame of the same address; unless  *)
(* the range ends in the last page of memory, where rounding up gives 0.   *)
(***************************************************************************)
RangeMapped ==
  [][(pc = "range" /\ pc' = "idle" /\ range.end <= WORD - PAGE_SIZE) =>
       \A p \in range.start \div PAGE_SIZE .. (range.end - 1) \div PAGE_SIZE :
         Translate(p) = p]_vars

\* The boot ends: in kmain's final loop, or in a panic.
BootEnds == <>(pc = "idle" \/ panicked)

-----------------------------------------------------------------------------
\* What the proofs assume of the kernel's size and of the ranges.

\* Image and heap end within the 4 MB that kernel_pt maps.
KernelFits == KERNEL_END - KernelBase <= PAGE_ENTRIES

\* page_ident_map_range is not asked for pages of the kernel.
RangesApart ==
  \A r \in Ranges : r.end <= KernelBase * PAGE_SIZE \/ r.start >= KERNEL_END * PAGE_SIZE
=============================================================================
