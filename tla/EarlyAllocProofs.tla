-------------------------- MODULE EarlyAllocProofs --------------------------
(***************************************************************************)
(* Proofs about the bump allocator for every heap section, page size and   *)
(* set of request sizes that meet AllocAssumption.                         *)
(***************************************************************************)
EXTENDS EarlyAlloc, TLAPS

-----------------------------------------------------------------------------
(***************************************************************************)
(* Arithmetic of uint32 sums and page masks.                               *)
(***************************************************************************)

\* A sum that stays below WORD does not wrap.
LEMMA NoWrap ==
  ASSUME NEW a \in Nat, NEW w \in Nat, a < w
  PROVE  a % w = a
BY SMT

\* The remainder that the page mask removes.
LEMMA PageOffset ==
  ASSUME NEW a \in Nat, NEW p \in Nat \ {0}
  PROVE  /\ a % p \in 0 .. p - 1
         /\ a % p <= a
         /\ a = p * (a \div p) + (a % p)
BY SMT

\* A number is determined by its page and its offset in the page.
LEMMA PageUnique ==
  ASSUME NEW a \in Int, NEW p \in Nat \ {0},
         NEW q \in Int, NEW r \in 0 .. p - 1, a = p * q + r
  PROVE  a \div p = q /\ a % p = r
BY SMT

\* Adding a page to an address on a page boundary gives such an address.
LEMMA NextPageAligned ==
  ASSUME NEW a \in Nat, NEW p \in Nat \ {0}
  PROVE  (a - (a % p) + p) % p = 0
<1> DEFINE q == a \div p
<1>1. a = p * q + (a % p) /\ a % p \in Int
  BY PageOffset, SMT
<1>2. q \in Int
  BY SMT
<1>3. a - (a % p) + p = p * (q + 1) + 0
  <2> HIDE DEF q
  <2>1. p * (q + 1) = p * q + p
    BY <1>2, SMT
  <2> QED
    BY <1>1, <1>2, <2>1, SMT
<1>4. a - (a % p) + p \in Int /\ q + 1 \in Int /\ 0 \in 0 .. p - 1
  BY <1>1, <1>2, SMT
<1> QED
  BY <1>3, <1>4, PageUnique

\* The byte before a page boundary lies in an earlier page.
LEMMA BeforeBoundary ==
  ASSUME NEW a \in Nat, NEW b \in Nat, NEW p \in Nat \ {0},
         a < b, b % p = 0
  PROVE  a \div p < b \div p
<1> DEFINE qa == a \div p
           qb == b \div p
<1>1. /\ a = p * qa + (a % p) /\ a % p \in 0 .. p - 1
      /\ b = p * qb
      /\ qa \in Int /\ qb \in Int
  BY PageOffset, SMT
<1>2. p * qa < p * qb
  <2> HIDE DEF qa, qb
  <2>1. p * qa \in Int /\ p * qb \in Int
    BY <1>1, SMT
  <2> QED
    BY <1>1, <2>1, SMT
<1>3. SUFFICES ASSUME qb <= qa PROVE FALSE
  BY <1>1, SMT
<1>4. p * qb <= p * qa
  <2> HIDE DEF qa, qb
  <2> QED
    BY <1>1, <1>3, SMT
<1> HIDE DEF qa, qb
<1> QED
  BY <1>1, <1>2, <1>4, SMT

(***************************************************************************)
(* What kmalloc_early_align does to a placement address of the heap: it    *)
(* moves it up by less than a page, to a page boundary.                    *)
(***************************************************************************)
LEMMA PageUpSpec ==
  ASSUME NEW a \in Nat, a <= EARLY_KMALLOC_END,
         NEW s \in Sizes
  PROVE  /\ PageUp(a) \in Nat
         /\ a <= PageUp(a)
         /\ PageUp(a) <= EARLY_KMALLOC_END + PAGE_SIZE
         /\ PageUp(a) % PAGE_SIZE = 0
<1>1. /\ WORD \in Nat /\ PAGE_SIZE \in Nat \ {0} /\ EARLY_KMALLOC_END \in Nat
      /\ EARLY_KMALLOC_END + PAGE_SIZE + s < WORD
      /\ s \in Nat
  BY AllocAssumption
<1>2. CASE a % PAGE_SIZE = 0
  <2>1. PageUp(a) = a
    BY <1>2 DEF PageUp
  <2> QED
    BY <1>1, <1>2, <2>1, SMT
<1>3. CASE a % PAGE_SIZE # 0
  <2> DEFINE up == a - (a % PAGE_SIZE) + PAGE_SIZE
  <2>1. up \in Nat /\ a <= up /\ up <= a + PAGE_SIZE
    BY <1>1, PageOffset, SMT
  <2>2. up < WORD
    BY <1>1, <2>1, SMT
  <2>3. up % PAGE_SIZE = 0
    BY <1>1, NextPageAligned
  <2>4. PageUp(a) = up
    <3>1. PageUp(a) = up % WORD
      BY <1>3 DEF PageUp
    <3> QED
      BY <1>1, <2>1, <2>2, <3>1, NoWrap
  <2> HIDE DEF up
  <2> QED
    BY <1>1, <2>1, <2>3, <2>4, SMT
<1> QED
  BY <1>2, <1>3

-----------------------------------------------------------------------------
(***************************************************************************)
(* The effect of a bump from an address at or after the placement address: *)
(* the invariant holds afterwards, and if the kernel did not stop, the new *)
(* block is one the abstract heap may hand out.                            *)
(***************************************************************************)
LEMMA BumpStep ==
  ASSUME AllocInv, ~panicked, initialized,
         NEW size \in Sizes, size # 0,
         NEW base \in Nat, currentBase <= base,
         base <= EARLY_KMALLOC_END + PAGE_SIZE,
         NEW aligned \in BOOLEAN,
         aligned => base % PAGE_SIZE = 0,
         Bump(base, size, aligned), UNCHANGED baseVars
  PROVE  AllocInv' /\ (H!Allocate \/ H!Fail)
<1>1. /\ WORD \in Nat /\ EARLY_KMALLOC_START \in Nat /\ EARLY_KMALLOC_END \in Nat
      /\ PAGE_SIZE \in Nat \ {0}
      /\ size \in Nat /\ base + size < WORD
  BY AllocAssumption, SMT
<1>2. (base + size) % WORD = base + size /\ (size + base) % WORD = base + size
  <2>1. base + size \in Nat /\ size + base = base + size
    BY <1>1, SMT
  <2> QED
    BY <1>1, <2>1, NoWrap
<1>3. /\ initialBase = EARLY_KMALLOC_START /\ maxBase = EARLY_KMALLOC_END
      /\ currentBase \in EARLY_KMALLOC_START .. EARLY_KMALLOC_END
  BY DEF AllocInv, HeapIsSection, BumpIsFrontier
<1>4. initialized' = initialized /\ initialBase' = initialBase /\ maxBase' = maxBase
  BY DEF baseVars
<1>5. CASE Exhausted(base, size)
  <2>1. panicked' = TRUE /\ currentBase' = base /\ blocks' = blocks
    BY <1>5 DEF Bump
  <2>2. H!Fail
    BY <2>1 DEF H!Fail
  <2>3. base \in 0 .. WORD - 1
    BY <1>1, SMT
  <2>4. AllocTypeOK'
    BY <1>4, <2>1, <2>3 DEF AllocInv, AllocTypeOK
  <2>5. BumpIsFrontier'
    BY <1>1, <1>3, <1>4, <2>1, SMT
    DEF AllocInv, AllocTypeOK, BumpIsFrontier, H!Blocks
  <2>6. HeapIsSection' /\ BlocksDisjoint' /\ AlignedOnPage'
    BY <1>4, <2>1 DEF AllocInv, HeapIsSection, BlocksDisjoint, AlignedOnPage
  <2> QED
    BY <2>2, <2>4, <2>5, <2>6 DEF AllocInv
<1>6. CASE ~Exhausted(base, size)
  <2> DEFINE b == [addr |-> base, size |-> size, aligned |-> aligned]
  <2>1. panicked' = panicked /\ currentBase' = base + size
        /\ blocks' = blocks \union {b}
    BY <1>2, <1>6 DEF Bump
  <2>2. base + size <= EARLY_KMALLOC_END
    BY <1>1, <1>2, <1>3, <1>6, SMT DEF Exhausted
  <2>3. b \in H!Blocks
    BY <1>1, <1>3, <2>2, SMT DEF H!Blocks
  <2>4. \A c \in blocks : c \in H!Blocks /\ c.addr + c.size <= b.addr
    BY <1>1, <1>3, SMT DEF AllocInv, AllocTypeOK, BumpIsFrontier, H!Blocks
  <2>5. \A c \in blocks : H!Disjoint(b, c) /\ H!Disjoint(c, b)
    BY <2>4 DEF H!Disjoint
  <2>6. H!Allocate
    BY <2>1, <2>2, <2>3, <2>5 DEF H!Allocate
  <2>7. AllocTypeOK'
    BY <1>1, <1>4, <2>1, <2>2, <2>3, SMT DEF AllocInv, AllocTypeOK
  <2>8. BumpIsFrontier'
    <3>1. base + size \in EARLY_KMALLOC_START .. EARLY_KMALLOC_END
      BY <1>1, <1>3, <2>2, SMT
    <3>2. \A c \in blocks' : /\ c.addr + c.size <= base + size
                             /\ c.addr + c.size <= EARLY_KMALLOC_END
      BY <1>1, <1>3, <2>1, <2>2, <2>4, SMT DEF AllocInv, BumpIsFrontier, H!Blocks
    <3> QED
      BY <1>3, <1>4, <2>1, <3>1, <3>2 DEF BumpIsFrontier
  <2>9. BlocksDisjoint'
    BY <2>1, <2>5 DEF AllocInv, BlocksDisjoint, H!Disjoint
  <2>10. AlignedOnPage'
    BY <2>1 DEF AllocInv, AlignedOnPage
  <2>11. HeapIsSection'
    BY <1>3, <1>4 DEF HeapIsSection
  <2> QED
    BY <2>6, <2>7, <2>8, <2>9, <2>10, <2>11 DEF AllocInv
<1> QED
  BY <1>5, <1>6

\* The invariant holds when the kernel starts, before kmalloc_early_init.
LEMMA AllocInvInit == AllocInit => AllocInv
<1>1. 0 \in 0 .. WORD - 1
  BY AllocAssumption, SMT
<1> QED
  BY <1>1
  DEF AllocInit, AllocInv, AllocTypeOK, HeapIsSection, BumpIsFrontier,
      BlocksDisjoint, AlignedOnPage

(***************************************************************************)
(* Every step of the allocator preserves the invariant and is a step of    *)
(* the abstract heap or leaves that heap alone.                            *)
(***************************************************************************)
LEMMA AllocStep ==
  ASSUME AllocInv, [AllocNext]_allocVars
  PROVE  AllocInv' /\ [H!Allocate \/ H!Fail]_<<blocks, panicked>>
<1>1. CASE /\ ~initialized
           /\ kmalloc_early_init(EARLY_KMALLOC_START, EARLY_KMALLOC_END)
  <2>1. /\ initialBase' = EARLY_KMALLOC_START /\ currentBase' = EARLY_KMALLOC_START
        /\ maxBase' = EARLY_KMALLOC_END /\ initialized' = TRUE
        /\ panicked' = panicked /\ blocks' = blocks /\ blocks = {}
    BY <1>1 DEF kmalloc_early_init, AllocInv, HeapIsSection
  <2>2. AllocTypeOK'
    <3>1. /\ EARLY_KMALLOC_START \in 0 .. WORD - 1
          /\ EARLY_KMALLOC_END \in 0 .. WORD - 1
      BY AllocAssumption, SMT
    <3> QED
      BY <2>1, <3>1 DEF AllocInv, AllocTypeOK
  <2>3. HeapIsSection' /\ BumpIsFrontier' /\ BlocksDisjoint' /\ AlignedOnPage'
    BY <2>1, AllocAssumption, SMT
    DEF HeapIsSection, BumpIsFrontier, BlocksDisjoint, AlignedOnPage
  <2> QED
    BY <2>1, <2>2, <2>3 DEF AllocInv
<1>2. ASSUME NEW size \in Sizes, kmalloc_early(size)
      PROVE  AllocInv' /\ (H!Allocate \/ H!Fail)
  <2>1. /\ currentBase \in Nat /\ currentBase <= currentBase
        /\ currentBase <= EARLY_KMALLOC_END + PAGE_SIZE
    BY <1>2, AllocAssumption, SMT
    DEF kmalloc_early, AllocInv, AllocTypeOK, HeapIsSection, BumpIsFrontier
  <2> QED
    BY <1>2, <2>1, BumpStep DEF kmalloc_early
<1>3. ASSUME NEW size \in Sizes, kmalloc_early_align(size)
      PROVE  AllocInv' /\ (H!Allocate \/ H!Fail)
  <2>1. currentBase \in Nat /\ currentBase <= EARLY_KMALLOC_END
    BY <1>3, AllocAssumption, SMT
    DEF kmalloc_early_align, AllocInv, AllocTypeOK, HeapIsSection, BumpIsFrontier
  <2>2. /\ PageUp(currentBase) \in Nat
        /\ currentBase <= PageUp(currentBase)
        /\ PageUp(currentBase) <= EARLY_KMALLOC_END + PAGE_SIZE
        /\ PageUp(currentBase) % PAGE_SIZE = 0
    BY <2>1, PageUpSpec
  <2> QED
    BY <1>3, <2>2, BumpStep DEF kmalloc_early_align
<1>4. CASE kmalloc_uninitialized
  <2>1. /\ UNCHANGED <<initialized, initialBase, maxBase, currentBase, blocks>>
        /\ panicked' = TRUE
    BY <1>4 DEF kmalloc_uninitialized, baseVars
  <2> QED
    BY <2>1 DEF H!Fail, AllocInv, AllocTypeOK, HeapIsSection, BumpIsFrontier,
                BlocksDisjoint, AlignedOnPage
<1>5. CASE UNCHANGED allocVars
  BY <1>5 DEF allocVars, AllocInv, AllocTypeOK, HeapIsSection, BumpIsFrontier,
              BlocksDisjoint, AlignedOnPage
<1> QED
  BY <1>1, <1>2, <1>3, <1>4, <1>5 DEF AllocNext, kmalloc_null, Halted

-----------------------------------------------------------------------------
(***************************************************************************)
(* At every moment the allocator's variables are uint32 values, its blocks *)
(* lie in the section .early_kmalloc, no two of them share an address, and *)
(* the placement address is past all of them (alloc.c).                    *)
(***************************************************************************)
THEOREM AllocInvariant == AllocSpec => []AllocInv
<1>1. AllocInv /\ [AllocNext]_allocVars => AllocInv'
  BY AllocStep
<1> QED
  BY <1>1, AllocInvInit, PTL DEF AllocSpec

\* The type invariant of alloc.c, from the inductive invariant.
THEOREM AllocTypeCorrect == AllocSpec => []AllocTypeOK
<1>1. AllocInv => AllocTypeOK
  BY DEF AllocInv
<1> QED
  BY <1>1, AllocInvariant, PTL

(***************************************************************************)
(* The page of a block of kmalloc_early_align is never shared with a block *)
(* handed out before it, so that page_map may give the page to another     *)
(* frame (kmain, with the module list and the module).                     *)
(***************************************************************************)
THEOREM AlignedBlocksAreFresh == AllocSpec => []AlignedBlockStartsFreshPage
<1>1. AllocInv => AlignedBlockStartsFreshPage
  <2> SUFFICES ASSUME AllocInv, NEW b \in blocks, NEW c \in blocks,
                      b.aligned, c.addr < b.addr
               PROVE  (c.addr + c.size - 1) \div PAGE_SIZE < b.addr \div PAGE_SIZE
    BY DEF AlignedBlockStartsFreshPage
  <2>1. /\ b.addr \in Nat /\ c.addr \in Nat
        /\ b.size \in Nat \ {0} /\ c.size \in Nat \ {0}
    BY AllocAssumption, SMT DEF AllocInv, AllocTypeOK, H!Blocks
  <2>2. b # c /\ H!Disjoint(b, c)
    BY <2>1, SMT DEF AllocInv, BlocksDisjoint
  <2>3. c.addr + c.size - 1 \in Nat /\ c.addr + c.size - 1 < b.addr
    BY <2>1, <2>2, SMT DEF H!Disjoint
  <2>4. b.addr % PAGE_SIZE = 0
    BY DEF AllocInv, AlignedOnPage
  <2> QED
    BY <2>1, <2>3, <2>4, BeforeBoundary, AllocAssumption
<1> QED
  BY <1>1, AllocInvariant, PTL

\* The bump allocator implements the abstract heap (Heap.tla).
THEOREM AllocRefinesHeap == AllocSpec => ImplementsHeap
<1>1. AllocInit => H!HeapInit
  BY DEF AllocInit, H!HeapInit
<1>2. AllocInv /\ [AllocNext]_allocVars
        => [H!Allocate \/ H!Fail]_<<blocks, panicked>>
  BY AllocStep
<1>3. H!heapVars = <<blocks, panicked>>
  BY DEF H!heapVars
<1> QED
  BY <1>1, <1>2, AllocInvariant, PTL
  DEF AllocSpec, ImplementsHeap, H!HeapSpec, H!heapVars
=============================================================================
