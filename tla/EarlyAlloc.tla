----------------------------- MODULE EarlyAlloc -----------------------------
(***************************************************************************)
(* The bump allocator of src/mm/alloc.c.  Addresses are uint32: arithmetic *)
(* is modulo WORD.  The history variable blocks records what the callers   *)
(* were handed; the code keeps no such record.                             *)
(***************************************************************************)
EXTENDS Integers

CONSTANTS
  WORD,                  \* 2^32: the number of uint32 values
  PAGE_SIZE,
  EARLY_KMALLOC_START,   \* the section .early_kmalloc of config/linker.ld
  EARLY_KMALLOC_END,
  Sizes                  \* the request sizes the kernel's call sites use

(***************************************************************************)
(* The section ends far enough below 2^32 (it lies in the first megabytes  *)
(* after 0xC0000000) that aligning an address in it and adding a request   *)
(* of a call site does not wrap.                                           *)
(***************************************************************************)
ASSUME AllocAssumption ==
  /\ WORD \in Nat
  /\ PAGE_SIZE \in Nat \ {0}
  /\ EARLY_KMALLOC_START \in Nat
  /\ EARLY_KMALLOC_END \in Nat
  /\ EARLY_KMALLOC_START < EARLY_KMALLOC_END
  /\ Sizes \subseteq Nat
  /\ EARLY_KMALLOC_END + PAGE_SIZE < WORD
  /\ \A s \in Sizes : EARLY_KMALLOC_END + PAGE_SIZE + s < WORD

VARIABLES
  initialized,
  initialBase,
  currentBase,
  maxBase,
  panicked,      \* panic() was called: interrupts off, halted for ever
  blocks         \* history: the blocks handed out

baseVars == <<initialized, initialBase, maxBase>>
allocVars == <<initialized, initialBase, currentBase, maxBase, panicked, blocks>>

AllocInit ==
  /\ initialized = FALSE
  /\ initialBase = 0
  /\ currentBase = 0
  /\ maxBase = 0
  /\ panicked = FALSE
  /\ blocks = {}

-----------------------------------------------------------------------------
(***************************************************************************)
(* Operations.                                                             *)
(***************************************************************************)

\* kmalloc_early_init; a base that is not below max fails its ASSERT.
kmalloc_early_init(base, max) ==
  /\ ~panicked
  /\ base < max
  /\ initialBase' = base
  /\ currentBase' = base
  /\ maxBase' = max
  /\ initialized' = TRUE
  /\ UNCHANGED <<panicked, blocks>>

\* Bug: the address is masked down to its page and not moved up.
PageDown(addr) == addr - (addr % PAGE_SIZE)

\* The two masks of kmalloc_early_align: down to the page, then one page up.
PageUp(addr) ==
  IF addr % PAGE_SIZE = 0
  THEN addr
  ELSE (addr - (addr % PAGE_SIZE) + PAGE_SIZE) % WORD

\* Bug: the check admits one byte past the limit.
ExhaustedOffByOne(base, size) == (size + base) % WORD > maxBase + 1

\* Bug: the check forgets what is already in use.
ExhaustedFreshHeap(base, size) == size + initialBase > maxBase

\* The limit check of kmalloc_early, on the wrapped sum.
Exhausted(base, size) == (size + base) % WORD > maxBase

\* Bug: the placement address is advanced only when the block is aligned.
BumpAlignedOnly(base, size, aligned) ==
  /\ currentBase' = IF aligned THEN (base + size) % WORD ELSE base
  /\ blocks' = blocks \union
                  {[addr |-> base, size |-> size, aligned |-> aligned]}
  /\ UNCHANGED panicked

\* The body of kmalloc_early after its early returns, bumping from base.
Bump(base, size, aligned) ==
  IF Exhausted(base, size)
  THEN /\ panicked' = TRUE
       /\ currentBase' = base
       /\ UNCHANGED blocks
  ELSE /\ currentBase' = (base + size) % WORD
       /\ blocks' = blocks \union
                      {[addr |-> base, size |-> size, aligned |-> aligned]}
       /\ UNCHANGED panicked

kmalloc_early(size) ==
  /\ ~panicked
  /\ initialized
  /\ size # 0
  /\ Bump(currentBase, size, FALSE)
  /\ UNCHANGED baseVars

kmalloc_early_align(size) ==
  /\ ~panicked
  /\ initialized
  /\ size # 0
  /\ Bump(PageUp(currentBase), size, TRUE)
  /\ UNCHANGED baseVars

\* A request for nothing returns NULL before anything is aligned or bumped.
kmalloc_null ==
  /\ ~panicked
  /\ initialized
  /\ UNCHANGED allocVars

\* Either request before kmalloc_early_init panics.
kmalloc_uninitialized ==
  /\ ~panicked
  /\ ~initialized
  /\ panicked' = TRUE
  /\ UNCHANGED <<baseVars, currentBase, blocks>>

\* panic ends in for(;;) halt().
Halted == panicked /\ UNCHANGED allocVars

-----------------------------------------------------------------------------

AllocNext ==
  \/ ~initialized /\ kmalloc_early_init(EARLY_KMALLOC_START, EARLY_KMALLOC_END)
  \/ \E size \in Sizes : kmalloc_early(size) \/ kmalloc_early_align(size)
  \/ kmalloc_null
  \/ kmalloc_uninitialized
  \/ Halted

AllocSpec == AllocInit /\ [][AllocNext]_allocVars

-----------------------------------------------------------------------------
(***************************************************************************)
(* Properties.                                                             *)
(***************************************************************************)

H == INSTANCE Heap WITH
       Start <- EARLY_KMALLOC_START, End <- EARLY_KMALLOC_END,
       live <- blocks, failed <- panicked

(***************************************************************************)
(* Type invariant of the state of alloc.c: every address is a uint32 and   *)
(* every block starts inside the section .early_kmalloc.                   *)
(***************************************************************************)
AllocTypeOK ==
  /\ initialized \in BOOLEAN
  /\ panicked \in BOOLEAN
  /\ initialBase \in 0 .. WORD - 1
  /\ currentBase \in 0 .. WORD - 1
  /\ maxBase \in 0 .. WORD - 1
  /\ blocks \subseteq H!Blocks

\* Until kmalloc_early_init runs nothing is handed out; afterwards the heap
\* is the section of the linker script.
HeapIsSection ==
  IF initialized
  THEN initialBase = EARLY_KMALLOC_START /\ maxBase = EARLY_KMALLOC_END
  ELSE blocks = {}

\* The placement address is past every block and, while the kernel runs,
\* inside the heap: what makes the next block fresh.
BumpIsFrontier ==
  /\ initialized /\ ~panicked => currentBase \in initialBase .. maxBase
  /\ \A b \in blocks : b.addr + b.size <= currentBase /\ b.addr + b.size <= maxBase

\* No two blocks share an address.
BlocksDisjoint == \A b, c \in blocks : b # c => H!Disjoint(b, c)

\* Blocks of kmalloc_early_align start on a page boundary.
AlignedOnPage == \A b \in blocks : b.aligned => b.addr % PAGE_SIZE = 0

(***************************************************************************)
(* The inductive invariant of the allocator: bumping from the frontier     *)
(* (kmalloc_early, kmalloc_early_align) keeps all blocks inside the        *)
(* section and apart from each other.                                      *)
(***************************************************************************)
AllocInv ==
  /\ AllocTypeOK
  /\ HeapIsSection
  /\ BumpIsFrontier
  /\ BlocksDisjoint
  /\ AlignedOnPage

(***************************************************************************)
(* A block of kmalloc_early_align starts a page no earlier block reaches   *)
(* into.  kmain and ramdisk_init rely on it: page_map gives the page of    *)
(* such a block to another frame, which must not carry anything else along.*)
(***************************************************************************)
AlignedBlockStartsFreshPage ==
  \A b, c \in blocks :
    b.aligned /\ c.addr < b.addr =>
      (c.addr + c.size - 1) \div PAGE_SIZE < b.addr \div PAGE_SIZE

(***************************************************************************)
(* The allocator implements the heap its callers were promised: every      *)
(* block it hands out is fresh memory of the section, for ever, and after  *)
(* the out-of-memory panic nothing is handed out.                          *)
(***************************************************************************)
ImplementsHeap == H!HeapSpec
=============================================================================
