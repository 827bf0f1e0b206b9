---------------------------- MODULE PagingProofs ----------------------------
(***************************************************************************)
(* Proofs about the address space of the booting kernel, for every size of *)
(* table, image and heap, every boot loader and every set of ranges that   *)
(* meet the assumptions.                                                   *)
(***************************************************************************)
EXTENDS Paging, EarlyAllocProofs

-----------------------------------------------------------------------------
(***************************************************************************)
(* The inductive invariant behind the properties of Paging.                *)
(***************************************************************************)

KernelPages == ImagePages \union KmallocPages
Early == {"start", "kmain", "directory", "reverse"}
Listed == {"module", "module_map", "root", "dev", "nodes", "idle", "range"}
Loaded == {"root", "dev", "nodes", "idle", "range"}
Later == {"modlist", "modlist_map"} \union Listed

\* The heap page p was handed out.
Used(p) == p \in KmallocPages /\ p * PAGE_SIZE < currentBase

\* The heap pages that kmain takes in order to map other frames there.
Given ==
  (IF pc \in Later \ {"modlist"} THEN {new_location} ELSE {}) \union
  (IF pc \in Loaded \union {"module_map"} THEN {mod_new_addr} ELSE {})

\* Those of them that page_map has still to be called for.
Pending ==
  (IF pc = "modlist_map" THEN {new_location} ELSE {}) \union
  (IF pc = "module_map" THEN {mod_new_addr} ELSE {})

StageOK ==
  /\ pc \in Early \union {"report", "low", "high"} \union Later
  /\ loader \in Loaders
  /\ initialized = (pc \notin {"start", "kmain"})
  /\ pc = "start" => ~panicked /\ cr3 = 0 /\ DOMAIN tlb = {}
  /\ pc # "start" =>
       cr3 = IF kernelPagingEnabled THEN pageDirectory - KernelBase ELSE page_directory
  /\ kernelPagingEnabled => pc \in Later /\ pageDirectory \in KmallocPages
  /\ ~panicked /\ pc \in Later => kernelPagingEnabled

\* boot.asm's tables stay as they were built.
BootTables ==
  pc # "start" =>
    /\ mem[page_directory] =
          [ZeroTable EXCEPT
             ![0] = [page |-> lowmem_pt, flags |-> Flags],
             ![KernelBase \div PAGE_ENTRIES] = [page |-> kernel_pt, flags |-> Flags]]
    /\ mem[lowmem_pt] = FilledTable(0, EarlyEnd - 1, 0)
    /\ mem[kernel_pt] = FilledTable(KERNEL_START, KERNEL_END - 1, KernelBase)

\* The kernel's directory, its reverse mapping, and the walk from it.
Dir == mem[pageDirectory - KernelBase]
Rev == mem[ptPhysToVirt - KernelBase]
NewWalk(v) == Walk(mem, pageDirectory - KernelBase, v)

\* Every table is a heap page of its own, known to both.
Tables ==
  /\ ~panicked /\ pc = "reverse" => Used(pageDirectory)
  /\ ~panicked /\ pc \notin Early =>
       /\ Used(pageDirectory) /\ Used(ptPhysToVirt) /\ pageDirectory # ptPhysToVirt
       /\ \A p \in Given : Used(p) /\ p \notin {pageDirectory, ptPhysToVirt}
       /\ pc \in Loaded \union {"module_map"} => new_location # mod_new_addr
       /\ \A i \in Entries :
            IF "P" \in Dir[i].flags
            THEN /\ Used(Rev[i].page)
                 /\ Rev[i].page \notin {pageDirectory, ptPhysToVirt} \union Given
                 /\ Dir[i].page = Rev[i].page - KernelBase
            ELSE Rev[i].page = 0
       /\ \A i, j \in Entries :
            "P" \in Dir[i].flags /\ "P" \in Dir[j].flags /\ Dir[i].page = Dir[j].page => i = j

\* What the kernel's directory maps by now.
Mapping ==
  ~panicked =>
    /\ pc = "low" => /\ next \in Nat /\ next % PAGE_SIZE = 0
                     /\ limit = LOW_PAGES * PAGE_SIZE
                     /\ \A v \in LowPages : v * PAGE_SIZE < next => NewWalk(v) = v
    /\ pc \in {"high"} \union Later => \A v \in LowPages : NewWalk(v) = v
    /\ pc = "high" => /\ next \in Nat /\ next % PAGE_SIZE = 0
                      /\ next >= KERNEL_START * PAGE_SIZE
                      /\ limit = KERNEL_END * PAGE_SIZE
                      /\ \A v \in KernelPages : v * PAGE_SIZE < next => NewWalk(v) = v - KernelBase
    /\ pc \in Later => \A v \in KernelPages \ Given : NewWalk(v) = v - KernelBase
    /\ pc \in Listed => NewWalk(new_location) * PAGE_SIZE = loader.mods_addr
    /\ pc \in Loaded => NewWalk(mod_new_addr) * PAGE_SIZE = loader.mod_start
    /\ pc = "range" =>
         /\ range \in Ranges /\ range.start < range.end /\ limit = PageUp(range.end)
         /\ next \in Nat /\ next >= range.start
         /\ next = range.start \/ (next % PAGE_SIZE = 0 /\ range.start % PAGE_SIZE = 0)
         /\ \A p \in Pages :
              range.start <= p * PAGE_SIZE /\ p * PAGE_SIZE < next => NewWalk(p) = p

\* Since CR3 was loaded only pages in use have been touched.
Cache ==
  kernelPagingEnabled /\ ~panicked =>
    \A v \in DOMAIN tlb : v \in InUse \/ (Used(v) /\ v \notin Pending)

PagingInv ==
  /\ AllocInv /\ PagingTypeOK /\ StageOK /\ BootTables
  /\ Tables /\ Mapping /\ Cache /\ TLBCoherent

-----------------------------------------------------------------------------
(***************************************************************************)
(* Where config/linker.ld and boot.asm put things.                         *)
(***************************************************************************)

\* The directory's entry for the kernel's half.
KI == KernelBase \div PAGE_ENTRIES

\* The three frames of boot.asm.
BootFrames == {page_directory, lowmem_pt, kernel_pt}

\* The kernel's base is the first page behind entry KI of the directory.
LEMMA BaseIndex ==
  /\ PAGE_ENTRIES \in Nat /\ PAGE_ENTRIES >= 4
  /\ LOW_PAGES \in Nat \ {0} /\ PAGE_ENTRIES = 4 * LOW_PAGES
  /\ KernelBase \in Nat /\ KI = 3 * LOW_PAGES
  /\ KernelBase = PAGE_ENTRIES * KI
  /\ KernelBase + PAGE_ENTRIES <= PAGE_ENTRIES * PAGE_ENTRIES
  /\ PAGE_ENTRIES * PAGE_ENTRIES \in Nat
<1>1. /\ PAGE_ENTRIES \in Nat \ {0} /\ PAGE_ENTRIES % 4 = 0
      /\ LOW_PAGES = PAGE_ENTRIES \div 4
  BY PagingAssumption
<1>2. PAGE_ENTRIES = 4 * LOW_PAGES /\ LOW_PAGES \in Nat \ {0} /\ PAGE_ENTRIES >= 4
  BY <1>1, SMT
<1> DEFINE x == LOW_PAGES * LOW_PAGES
<1>3. x \in Nat /\ LOW_PAGES <= x
  <2>1. \A a \in Nat \ {0} : a * a \in Nat /\ a <= a * a
    BY SMT
  <2> QED
    BY <1>2, <2>1
<1>4. PAGE_ENTRIES * PAGE_ENTRIES = 16 * x
  BY <1>2, SMT
<1>5. 3 * PAGE_ENTRIES * PAGE_ENTRIES = 48 * x
  BY <1>2, SMT
<1>6. PAGE_ENTRIES * (3 * LOW_PAGES) = 12 * x
  BY <1>2, SMT
<1>7. KernelBase = 12 * x
  <2> HIDE DEF x
  <2> QED
    BY <1>3, <1>5, SMT DEF KernelBase
<1>8. KI = 3 * LOW_PAGES
  <2>1. KernelBase = PAGE_ENTRIES * (3 * LOW_PAGES) + 0
    <3> HIDE DEF x
    <3> QED
      BY <1>3, <1>6, <1>7, SMT
  <2>2. KernelBase \in Int
    <3> HIDE DEF x
    <3> QED
      BY <1>3, <1>7, SMT
  <2>3. 3 * LOW_PAGES \in Int /\ 0 \in 0 .. PAGE_ENTRIES - 1
    BY <1>2, SMT
  <2> QED
    BY <1>1, <2>1, <2>2, <2>3, PageUnique DEF KI
<1>9. KernelBase + PAGE_ENTRIES <= PAGE_ENTRIES * PAGE_ENTRIES
      /\ KernelBase \in Nat /\ PAGE_ENTRIES * PAGE_ENTRIES \in Nat
  <2> HIDE DEF x
  <2> QED
    BY <1>2, <1>3, <1>4, <1>7, SMT
<1>10. KernelBase = PAGE_ENTRIES * KI
  <2> HIDE DEF x
  <2> QED
    BY <1>6, <1>7, <1>8
<1> QED
  BY <1>2, <1>8, <1>9, <1>10

\* The number of the page that an address lies in.
LEMMA PageIsNat ==
  ASSUME NEW a \in Nat, NEW p \in Nat \ {0}
  PROVE  a \div p \in Nat
BY SMT

\* A page number times the page size is the address of that page.
LEMMA AddressOfPage ==
  ASSUME NEW k \in Nat
  PROVE  /\ k * PAGE_SIZE \in Nat
         /\ (k * PAGE_SIZE) \div PAGE_SIZE = k
         /\ (k * PAGE_SIZE) % PAGE_SIZE = 0
<1>1. PAGE_SIZE \in Nat \ {0}
  BY AllocAssumption
<1>2. k * PAGE_SIZE = PAGE_SIZE * k + 0 /\ k * PAGE_SIZE \in Nat
  BY <1>1, SMT
<1>3. k * PAGE_SIZE \in Int /\ k \in Int /\ 0 \in 0 .. PAGE_SIZE - 1
  BY <1>1, <1>2, SMT
<1> QED
  BY <1>1, <1>2, <1>3, PageUnique

\* Addresses of pages are in the order of the pages.
LEMMA AddressOrder ==
  ASSUME NEW j \in Int, NEW k \in Int
  PROVE  /\ j * PAGE_SIZE < k * PAGE_SIZE <=> j < k
         /\ j * PAGE_SIZE <= k * PAGE_SIZE <=> j <= k
         /\ (k + 1) * PAGE_SIZE = k * PAGE_SIZE + PAGE_SIZE
         /\ k * PAGE_SIZE \in Int
<1>1. PAGE_SIZE \in Nat \ {0}
  BY AllocAssumption
<1>2. (k + 1) * PAGE_SIZE = k * PAGE_SIZE + PAGE_SIZE /\ k * PAGE_SIZE \in Int
      /\ j * PAGE_SIZE \in Int
  BY <1>1, SMT
<1>3. ASSUME j < k PROVE j * PAGE_SIZE < k * PAGE_SIZE
  BY <1>1, <1>3, SMT
<1>4. ASSUME k < j PROVE k * PAGE_SIZE < j * PAGE_SIZE
  BY <1>1, <1>4, SMT
<1>5. CASE j < k
  BY <1>2, <1>3, <1>5, SMT
<1>6. CASE k < j
  BY <1>2, <1>4, <1>6, SMT
<1>7. CASE j = k
  BY <1>2, <1>7, SMT
<1> QED
  BY <1>5, <1>6, <1>7, SMT

\* An address on a page boundary is that of its page.
LEMMA AlignedAddress ==
  ASSUME NEW a \in Nat, a % PAGE_SIZE = 0
  PROVE  a \div PAGE_SIZE \in Nat /\ a = (a \div PAGE_SIZE) * PAGE_SIZE
<1>1. PAGE_SIZE \in Nat \ {0}
  BY AllocAssumption
<1>2. a = PAGE_SIZE * (a \div PAGE_SIZE) + (a % PAGE_SIZE)
  BY <1>1, PageOffset
<1>3. a \div PAGE_SIZE \in Nat
  BY <1>1, SMT
<1> QED
  BY <1>1, <1>2, <1>3, SMT

\* The page of a 32-bit address is one of Pages.
LEMMA PageOfAddress ==
  ASSUME NEW a \in 0 .. WORD - 1
  PROVE  a \div PAGE_SIZE \in Pages
<1>1. PAGE_SIZE \in Nat \ {0} /\ WORD = PAGE_ENTRIES * PAGE_ENTRIES * PAGE_SIZE
  BY AllocAssumption, PagingAssumption
<1> DEFINE q == a \div PAGE_SIZE
           n == PAGE_ENTRIES * PAGE_ENTRIES
<1>2. n \in Nat
  BY BaseIndex
<1>3. WORD \in Nat
  BY AllocAssumption
<1>4. a \in Nat /\ a < n * PAGE_SIZE
  BY <1>1, <1>3, SMT
<1>5. q \in Nat /\ a = PAGE_SIZE * q + (a % PAGE_SIZE) /\ a % PAGE_SIZE \in 0 .. PAGE_SIZE - 1
  BY <1>1, <1>4, PageOffset, PageIsNat
<1>6. q < n
  <2> HIDE DEF q, n
  <2>1. q * PAGE_SIZE <= a
    BY <1>1, <1>5, SMT
  <2>2. q * PAGE_SIZE < n * PAGE_SIZE
    <3>1. q * PAGE_SIZE \in Int /\ n * PAGE_SIZE \in Int
      BY <1>1, <1>2, <1>5, SMT
    <3> QED
      BY <1>4, <2>1, <3>1, SMT
  <2> QED
    BY <1>2, <1>5, <2>2, AddressOrder
<1>7. q \in 0 .. n - 1
  <2> HIDE DEF q, n
  <2> QED
    BY <1>2, <1>5, <1>6, SMT
<1> QED
  BY <1>7, Zenon DEF Pages

(***************************************************************************)
(* The layout in pages: the boot tables in the last of the early pages,    *)
(* then the image, then the heap; with KernelFits all behind entry KI.     *)
(***************************************************************************)
LEMMA Layout ==
  ASSUME KernelFits
  PROVE  /\ EarlyEnd \in Nat /\ EarlyEnd >= LOW_PAGES + 3
         /\ IMAGE_PAGES \in Nat \ {0}
         /\ KERNEL_START = KernelBase + EarlyEnd
         /\ KERNEL_END \in Nat
         /\ KERNEL_START + IMAGE_PAGES < KERNEL_END
         /\ KERNEL_END <= KernelBase + PAGE_ENTRIES
         /\ EARLY_KMALLOC_START = (KERNEL_START + IMAGE_PAGES) * PAGE_SIZE
         /\ EARLY_KMALLOC_END = KERNEL_END * PAGE_SIZE
         /\ KmallocPages = KERNEL_START + IMAGE_PAGES .. KERNEL_END - 1
         /\ KernelPages = KERNEL_START .. KERNEL_END - 1
         /\ HeapFrames = EarlyEnd + IMAGE_PAGES .. KERNEL_END - KernelBase - 1
<1>1. /\ EARLY_PAGES \in Nat /\ EARLY_PAGES >= 3 /\ IMAGE_PAGES \in Nat \ {0}
      /\ EARLY_KMALLOC_START = (KERNEL_START + IMAGE_PAGES) * PAGE_SIZE
      /\ EARLY_KMALLOC_END % PAGE_SIZE = 0
      /\ EARLY_KMALLOC_START \in Nat /\ EARLY_KMALLOC_END \in Nat
      /\ EARLY_KMALLOC_START < EARLY_KMALLOC_END
  BY AllocAssumption, PagingAssumption
<1>2. EarlyEnd \in Nat /\ EarlyEnd >= LOW_PAGES + 3
  BY <1>1, BaseIndex, SMT DEF EarlyEnd
<1>3. KERNEL_START = KernelBase + EarlyEnd /\ KERNEL_START \in Nat
  BY <1>2, BaseIndex, SMT DEF KERNEL_START
<1>4. KERNEL_END \in Nat /\ EARLY_KMALLOC_END = KERNEL_END * PAGE_SIZE
  BY <1>1, AlignedAddress DEF KERNEL_END
<1>5. KERNEL_START + IMAGE_PAGES \in Nat
  BY <1>1, <1>3, SMT
<1>6. KERNEL_START + IMAGE_PAGES < KERNEL_END
  BY <1>1, <1>4, <1>5, AddressOrder
<1>7. KERNEL_END <= KernelBase + PAGE_ENTRIES
  BY <1>4, BaseIndex, SMT DEF KernelFits
<1>8. KmallocPages = KERNEL_START + IMAGE_PAGES .. KERNEL_END - 1
  BY <1>1, <1>5, AddressOfPage DEF KmallocPages
<1>9. KernelPages = KERNEL_START .. KERNEL_END - 1
  BY <1>1, <1>3, <1>4, <1>6, <1>8, SMT DEF KernelPages, ImagePages
<1>10. HeapFrames = EarlyEnd + IMAGE_PAGES .. KERNEL_END - KernelBase - 1
  <2>1. ASSUME NEW f \in HeapFrames
        PROVE  f \in EarlyEnd + IMAGE_PAGES .. KERNEL_END - KernelBase - 1
    <3>1. PICK v \in KmallocPages : f = v - KernelBase
      BY DEF HeapFrames
    <3> QED
      BY <1>1, <1>2, <1>3, <1>4, <1>8, <3>1, BaseIndex, SMT
  <2>2. ASSUME NEW f \in EarlyEnd + IMAGE_PAGES .. KERNEL_END - KernelBase - 1
        PROVE  f \in HeapFrames
    <3> DEFINE w == f + KernelBase
    <3>1. w \in KmallocPages /\ f = w - KernelBase
      BY <1>1, <1>2, <1>3, <1>4, <1>8, BaseIndex, SMT
    <3> HIDE DEF w
    <3>2. \E v \in KmallocPages : f = v - KernelBase
      BY <3>1
    <3> QED
      BY <3>2 DEF HeapFrames
  <2> QED
    BY <2>1, <2>2
<1> QED
  BY <1>1, <1>2, <1>3, <1>4, <1>6, <1>7, <1>8, <1>9, <1>10

\* Pages and frames of the layout have the types the tables need.
LEMMA LayoutTypes ==
  ASSUME KernelFits
  PROVE  /\ KernelPages \subseteq Pages
         /\ 0 .. PAGE_ENTRIES - 1 \subseteq Pages
         /\ ImagePages \subseteq KernelPages /\ KmallocPages \subseteq KernelPages
         /\ ImagePages \intersect KmallocPages = {}
         /\ VgaPage \in LowPages /\ LowPages \subseteq 0 .. EarlyEnd - 1
         /\ EarlyEnd < PAGE_ENTRIES
         /\ TableFrames \subseteq 0 .. PAGE_ENTRIES - 1
         /\ BootFrames \subseteq TableFrames /\ HeapFrames \subseteq TableFrames
         /\ BootFrames \intersect HeapFrames = {}
         /\ BootFrames \subseteq 0 .. EarlyEnd - 1
         /\ lowmem_pt # kernel_pt /\ lowmem_pt # page_directory /\ kernel_pt # page_directory
         /\ \A v \in KmallocPages : v - KernelBase \in HeapFrames /\ v # 0
         /\ \A u \in LowPages : u \notin KernelPages
         /\ KI \in Entries /\ KI # 0 /\ 0 \in Entries
<1> USE Layout, BaseIndex
<1>0. Pages = 0 .. PAGE_ENTRIES * PAGE_ENTRIES - 1 /\ PAGE_ENTRIES * PAGE_ENTRIES \in Nat
      /\ PAGE_ENTRIES <= PAGE_ENTRIES * PAGE_ENTRIES
      /\ KernelBase + PAGE_ENTRIES <= PAGE_ENTRIES * PAGE_ENTRIES
  <2> DEFINE n == PAGE_ENTRIES * PAGE_ENTRIES
  <2>1. KernelBase + PAGE_ENTRIES <= n /\ n \in Nat
    OBVIOUS
  <2> HIDE DEF n
  <2>2. PAGE_ENTRIES <= n
    BY <2>1, SMT
  <2> QED
    BY <2>1, <2>2 DEF Pages, n
<1> DEFINE n == PAGE_ENTRIES * PAGE_ENTRIES
<1> HIDE DEF n
<1>00. Pages = 0 .. n - 1 /\ n \in Nat /\ PAGE_ENTRIES <= n /\ KernelBase + PAGE_ENTRIES <= n
  BY <1>0, Zenon DEF n
<1>1. KernelPages \subseteq Pages /\ 0 .. PAGE_ENTRIES - 1 \subseteq Pages
  BY <1>00, SMT
<1>2. /\ ImagePages \subseteq KernelPages /\ KmallocPages \subseteq KernelPages
      /\ ImagePages \intersect KmallocPages = {}
  BY SMT DEF ImagePages
<1>3. VgaPage \in LowPages /\ LowPages \subseteq 0 .. EarlyEnd - 1 /\ EarlyEnd < PAGE_ENTRIES
  BY SMT DEF VgaPage, LowPages
<1>4. HeapFrames \subseteq 0 .. PAGE_ENTRIES - 1 /\ BootFrames \subseteq 0 .. EarlyEnd - 1
  BY SMT DEF BootFrames, page_directory, lowmem_pt, kernel_pt
<1>5. BootFrames \subseteq TableFrames /\ HeapFrames \subseteq TableFrames
      /\ TableFrames = HeapFrames \union BootFrames
  BY Zenon DEF TableFrames, BootFrames
<1>6. BootFrames \intersect HeapFrames = {}
  BY <1>4, SMT
<1>7. lowmem_pt # kernel_pt /\ lowmem_pt # page_directory /\ kernel_pt # page_directory
  BY SMT DEF page_directory, lowmem_pt, kernel_pt
<1>8. \A v \in KmallocPages : v - KernelBase \in HeapFrames /\ v # 0
  BY SMT
<1>9. \A u \in LowPages : u \notin KernelPages
  BY SMT DEF LowPages
<1>10. KI \in Entries /\ KI # 0 /\ 0 \in Entries
  BY SMT DEF Entries
<1>11. TableFrames \subseteq 0 .. PAGE_ENTRIES - 1
  BY <1>3, <1>4, <1>5, SMT
<1> QED
  BY <1>1, <1>2, <1>3, <1>4, <1>5, <1>6, <1>7, <1>8, <1>9, <1>10, <1>11

(***************************************************************************)
(* How page_map and the MMU split a page number: the index in the          *)
(* directory and the index in the table determine it.                      *)
(***************************************************************************)
LEMMA Indices ==
  ASSUME NEW v \in Pages
  PROVE  /\ v \div PAGE_ENTRIES \in Entries /\ v % PAGE_ENTRIES \in Entries
         /\ v = PAGE_ENTRIES * (v \div PAGE_ENTRIES) + (v % PAGE_ENTRIES)
<1> DEFINE q == v \div PAGE_ENTRIES
           r == v % PAGE_ENTRIES
           n == PAGE_ENTRIES * PAGE_ENTRIES
<1>1. PAGE_ENTRIES \in Nat \ {0} /\ n \in Nat
  BY BaseIndex, SMT
<1>2. v \in Nat /\ v < n
  <2>1. v \in 0 .. n - 1
    BY DEF Pages
  <2> HIDE DEF n
  <2> QED
    BY <1>1, <2>1, SMT
<1>3. q \in Nat /\ r \in 0 .. PAGE_ENTRIES - 1 /\ v = PAGE_ENTRIES * q + r
  BY <1>1, <1>2, PageOffset, PageIsNat
<1>4. q < PAGE_ENTRIES
  <2>1. SUFFICES ASSUME PAGE_ENTRIES <= q PROVE FALSE
    <3> HIDE DEF q, r, n
    <3> QED
      BY <1>1, <1>3, SMT
  <2>2. PAGE_ENTRIES * PAGE_ENTRIES <= PAGE_ENTRIES * q
    <3> HIDE DEF q, r, n
    <3>1. \A a, b \in Nat : b <= a => b * b <= b * a
      BY SMT
    <3> QED
      BY <1>1, <1>3, <2>1, <3>1
  <2>3. PAGE_ENTRIES * q \in Nat
    <3> HIDE DEF q, r, n
    <3> QED
      BY <1>1, <1>3, SMT
  <2>4. n <= PAGE_ENTRIES * q
    BY <2>2
  <2> HIDE DEF q, r, n
  <2> QED
    BY <1>1, <1>2, <1>3, <2>3, <2>4, SMT
<1>5. q \in Entries /\ r \in Entries
  <2> HIDE DEF q, r, n
  <2> QED
    BY <1>1, <1>3, <1>4, SMT DEF Entries
<1> QED
  BY <1>3, <1>5

\* A page of the kernel is behind entry KI of the directory, its index in the
\* table is its distance from the base; the first pages are behind entry 0.
LEMMA KernelIndices ==
  ASSUME KernelFits
  PROVE  /\ \A v \in KernelPages : v \div PAGE_ENTRIES = KI /\ v % PAGE_ENTRIES = v - KernelBase
         /\ \A v \in 0 .. PAGE_ENTRIES - 1 : v \div PAGE_ENTRIES = 0 /\ v % PAGE_ENTRIES = v
<1>0. PAGE_ENTRIES \in Nat \ {0} /\ KI \in Int
  BY BaseIndex, SMT
<1>1. ASSUME NEW v \in KernelPages
      PROVE  v \div PAGE_ENTRIES = KI /\ v % PAGE_ENTRIES = v - KernelBase
  <2>1. v \in Int /\ v - KernelBase \in 0 .. PAGE_ENTRIES - 1
    BY Layout, BaseIndex, SMT
  <2>2. v = PAGE_ENTRIES * KI + (v - KernelBase)
    <3>1. v = KernelBase + (v - KernelBase)
      BY <2>1, BaseIndex, SMT
    <3> QED
      BY <3>1, BaseIndex
  <2> QED
    BY <1>0, <2>1, <2>2, PageUnique
<1>2. ASSUME NEW v \in 0 .. PAGE_ENTRIES - 1
      PROVE  v \div PAGE_ENTRIES = 0 /\ v % PAGE_ENTRIES = v
  <2>1. v \in Int /\ v = PAGE_ENTRIES * 0 + v /\ 0 \in Int
    BY <1>0, SMT
  <2> QED
    BY <1>0, <2>1, PageUnique
<1> QED
  BY <1>1, <1>2

\* Pages with the same two indices are the same page.
LEMMA SamePage ==
  ASSUME NEW u \in Pages, NEW v \in Pages,
         u \div PAGE_ENTRIES = v \div PAGE_ENTRIES,
         u % PAGE_ENTRIES = v % PAGE_ENTRIES
  PROVE  u = v
BY Indices, Zenon

-----------------------------------------------------------------------------
(***************************************************************************)
(* What the tables of boot.asm map.                                        *)
(***************************************************************************)

\* The loops .lowmem and .higher leave in an entry the one page of their range
\* that has its index.
LEMMA FilledEntry ==
  ASSUME NEW first, NEW last, NEW offset, NEW p \in first .. last, NEW i \in Entries,
         p \in Int, p % PAGE_ENTRIES = i,
         \A q \in first .. last : q % PAGE_ENTRIES = i => q = p
  PROVE  FilledTable(first, last, offset)[i] = [page |-> p - offset, flags |-> Flags]
<1>1. {q \in first .. last : q % PAGE_ENTRIES = i} = {p}
  OBVIOUS
<1>2. Max({p}) = p
  <2>1. p \in {p} /\ \A y \in {p} : p >= y
    BY SMT
  <2>2. \A x \in {p} : x = p
    OBVIOUS
  <2> QED
    BY <2>1, <2>2, Zenon DEF Max
<1>3. {p} # {}
  OBVIOUS
<1>4. FilledTable(first, last, offset)[i] =
        IF {q \in first .. last : q % PAGE_ENTRIES = i} = {} THEN Zero
        ELSE [page |-> Max({q \in first .. last : q % PAGE_ENTRIES = i}) - offset, flags |-> Flags]
  BY Zenon DEF FilledTable
<1> QED
  BY <1>1, <1>2, <1>3, <1>4, Zenon

\* The entries of the directory of boot.asm.
LEMMA BootDirectory ==
  ASSUME KernelFits, BootTables, pc # "start"
  PROVE  /\ mem[page_directory][0] = [page |-> lowmem_pt, flags |-> Flags]
         /\ mem[page_directory][KI] = [page |-> kernel_pt, flags |-> Flags]
         /\ \A i \in Entries \ {0, KI} : mem[page_directory][i] = Zero
         /\ mem[page_directory][0].page = lowmem_pt /\ mem[page_directory][KI].page = kernel_pt
<1>1. /\ mem[page_directory][0] = [page |-> lowmem_pt, flags |-> Flags]
      /\ mem[page_directory][KI] = [page |-> kernel_pt, flags |-> Flags]
      /\ \A i \in Entries \ {0, KI} : mem[page_directory][i] = Zero
  BY LayoutTypes DEF BootTables, ZeroTable, KI
<1> QED
  BY <1>1

\* boot.asm maps the first pages to themselves, and the kernel to the frames
\* it was loaded in.
LEMMA BootWalk ==
  ASSUME KernelFits, BootTables, pc # "start"
  PROVE  /\ \A v \in 0 .. EarlyEnd - 1 : Walk(mem, page_directory, v) = v
         /\ \A v \in KernelPages : Walk(mem, page_directory, v) = v - KernelBase
<1>1. lowmem_pt \in TableFrames /\ kernel_pt \in TableFrames /\ "P" \in Flags
  BY LayoutTypes DEF BootFrames, Flags
<1>2. ASSUME NEW v \in 0 .. EarlyEnd - 1
      PROVE  Walk(mem, page_directory, v) = v
  <2>1. \A q \in 0 .. EarlyEnd - 1 : q \in 0 .. PAGE_ENTRIES - 1
    BY LayoutTypes, Layout, BaseIndex, SMT
  <2>2. v \div PAGE_ENTRIES = 0 /\ v % PAGE_ENTRIES = v /\ v \in Entries /\ v \in Int /\ v - 0 = v
    BY <2>1, KernelIndices DEF Entries
  <2>3. \A q \in 0 .. EarlyEnd - 1 : q % PAGE_ENTRIES = v => q = v
    BY <2>1, KernelIndices
  <2>4. mem[lowmem_pt][v] = [page |-> v - 0, flags |-> Flags]
    BY <2>2, <2>3, FilledEntry DEF BootTables
  <2> QED
    BY <1>1, <2>2, <2>4, BootDirectory DEF Walk
<1>3. ASSUME NEW v \in KernelPages
      PROVE  Walk(mem, page_directory, v) = v - KernelBase
  <2>0. v - KernelBase \in Entries /\ v \in Int
    BY Layout, BaseIndex, SMT DEF Entries
  <2>1. v \div PAGE_ENTRIES = KI /\ v % PAGE_ENTRIES = v - KernelBase
        /\ v - KernelBase \in Entries /\ v \in Int
    BY <2>0, KernelIndices
  <2>2. KERNEL_START .. KERNEL_END - 1 = KernelPages /\ v \in KERNEL_START .. KERNEL_END - 1
    BY Layout
  <2>3. \A q \in KERNEL_START .. KERNEL_END - 1 : q % PAGE_ENTRIES = v - KernelBase => q = v
    <3>1. \A q \in KERNEL_START .. KERNEL_END - 1 : q % PAGE_ENTRIES = q - KernelBase
      BY <2>2, KernelIndices, Zenon
    <3>2. \A q \in KERNEL_START .. KERNEL_END - 1 : q - KernelBase = v - KernelBase => q = v
      BY <2>0, BaseIndex, SMT
    <3> QED
      BY <3>1, <3>2, Zenon
  <2>4. mem[kernel_pt][v - KernelBase] = [page |-> v - KernelBase, flags |-> Flags]
    <3> DEFINE i == v - KernelBase
               last == KERNEL_END - 1
    <3>1. i \in Entries /\ v \in Int /\ v % PAGE_ENTRIES = i /\ v \in KERNEL_START .. last
          /\ \A q \in KERNEL_START .. last : q % PAGE_ENTRIES = i => q = v
      BY <2>1, <2>2, <2>3
    <3>2. FilledTable(KERNEL_START, last, KernelBase)[i] = [page |-> v - KernelBase, flags |-> Flags]
      <4> HIDE DEF i, last
      <4> QED
        BY <3>1, FilledEntry
    <3> QED
      BY <3>2 DEF BootTables
  <2> QED
    BY <1>1, <2>1, <2>4, BootDirectory DEF Walk
<1> QED
  BY <1>2, <1>3

\* A walk from the directory of boot.asm visits no other frame than its three.
LEMMA BootWalkSame ==
  ASSUME KernelFits, BootTables, pc # "start",
         NEW m, \A f \in BootFrames : m[f] = mem[f], NEW u \in Pages
  PROVE  Walk(m, page_directory, u) = Walk(mem, page_directory, u)
<1> DEFINE i == u \div PAGE_ENTRIES
           j == u % PAGE_ENTRIES
<1>1. i \in Entries
  BY Indices
<1>2. m[page_directory] = mem[page_directory] /\ m[lowmem_pt] = mem[lowmem_pt]
      /\ m[kernel_pt] = mem[kernel_pt]
  BY DEF BootFrames
<1>3. CASE i = 0
  BY <1>2, <1>3, BootDirectory, Zenon DEF Walk
<1>4. CASE i = KI
  BY <1>2, <1>4, BootDirectory, Zenon DEF Walk
<1>5. CASE i \notin {0, KI}
  <2>1. mem[page_directory][i] = Zero /\ "P" \notin Zero.flags
    BY <1>1, <1>5, BootDirectory DEF Zero
  <2> QED
    BY <1>2, <2>1, Zenon DEF Walk
<1> QED
  BY <1>3, <1>4, <1>5

-----------------------------------------------------------------------------
(***************************************************************************)
(* What the CPU uses, in a state of the invariant.                         *)
(***************************************************************************)

\* Without stale entries the TLB changes no translation.
LEMMA TranslateIsWalk ==
  ASSUME TLBCoherent, NEW v
  PROVE  Translate(v) = Walk(mem, cr3, v)
BY DEF TLBCoherent, Translate

\* Under boot.asm's directory the first pages and the kernel are in place.
LEMMA BootTranslate ==
  ASSUME KernelFits, PagingInv, pc # "start", ~kernelPagingEnabled
  PROVE  /\ cr3 = page_directory
         /\ \A v \in 0 .. EarlyEnd - 1 : Translate(v) = v
         /\ \A v \in KernelPages : Translate(v) = v - KernelBase
<1>1. cr3 = page_directory /\ BootTables /\ TLBCoherent
  BY DEF PagingInv, StageOK
<1> QED
  BY <1>1, BootWalk, TranslateIsWalk

\* The stages after Early and those with the kernel's own directory.
LEMMA Stages ==
  ASSUME PagingInv
  PROVE  /\ pc \notin Early => pc # "start"
         /\ pc \in Later => pc \notin Early
         /\ kernelPagingEnabled \in BOOLEAN
         /\ kernelPagingEnabled => pc \in Later /\ cr3 = pageDirectory - KernelBase
                                   /\ pageDirectory \in KmallocPages
         /\ ~panicked /\ pc \in Later => kernelPagingEnabled
BY DEF PagingInv, StageOK, PagingTypeOK, Early, Later, Listed

\* While the kernel runs, every page of it that was not given away to another
\* frame is translated to the frame it was loaded in.
LEMMA KernelAt ==
  ASSUME KernelFits, PagingInv, ~panicked, pc # "start",
         NEW v \in KernelPages, v \notin Given
  PROVE  Translate(v) = v - KernelBase
<1>1. CASE ~kernelPagingEnabled
  BY <1>1, BootTranslate
<1>2. CASE kernelPagingEnabled
  <2>1. pc \in Later /\ cr3 = pageDirectory - KernelBase /\ Mapping /\ TLBCoherent
    BY <1>2, Stages DEF PagingInv
  <2>2. NewWalk(v) = v - KernelBase
    BY <2>1 DEF Mapping
  <2> QED
    BY <2>1, <2>2, TranslateIsWalk DEF NewWalk
<1> QED
  BY <1>1, <1>2, Stages

\* A heap page in use lies in the kernel and its frame among the heap's.
LEMMA UsedPage ==
  ASSUME KernelFits, NEW p, Used(p)
  PROVE  /\ p \in KmallocPages /\ p \in KernelPages /\ p \in Pages /\ p # 0 /\ p \in Int
         /\ p - KernelBase \in HeapFrames /\ p - KernelBase \in TableFrames
         /\ p - KernelBase \notin BootFrames
BY LayoutTypes, Layout DEF Used

\* Frames of different heap pages are different.
LEMMA FrameOfPage ==
  ASSUME NEW p \in Int, NEW q \in Int, p - KernelBase = q - KernelBase
  PROVE  p = q
BY BaseIndex, SMT

\* The statics of paging.c and the tables it created, as the CPU sees them.
LEMMA TablesAt ==
  ASSUME KernelFits, PagingInv, ~panicked, pc \notin Early
  PROVE  /\ Translate(pageDirectory) = pageDirectory - KernelBase
         /\ Translate(ptPhysToVirt) = ptPhysToVirt - KernelBase
         /\ pageDirectory - KernelBase \in HeapFrames /\ ptPhysToVirt - KernelBase \in HeapFrames
         /\ pageDirectory - KernelBase # ptPhysToVirt - KernelBase
         /\ pageDirectory # 0
         /\ \A i \in Entries : "P" \in Dir[i].flags =>
              /\ Translate(Rev[i].page) = Dir[i].page
              /\ Dir[i].page \in HeapFrames
              /\ Dir[i].page # pageDirectory - KernelBase /\ Dir[i].page # ptPhysToVirt - KernelBase
<1>1. Tables /\ pc # "start"
  BY Stages DEF PagingInv
<1>2. /\ Used(pageDirectory) /\ Used(ptPhysToVirt) /\ pageDirectory # ptPhysToVirt
      /\ pageDirectory \notin Given /\ ptPhysToVirt \notin Given
  BY <1>1 DEF Tables
<1>3. /\ Translate(pageDirectory) = pageDirectory - KernelBase
      /\ Translate(ptPhysToVirt) = ptPhysToVirt - KernelBase
      /\ pageDirectory - KernelBase \in HeapFrames /\ ptPhysToVirt - KernelBase \in HeapFrames
      /\ pageDirectory # 0
      /\ pageDirectory \in Int /\ ptPhysToVirt \in Int
  BY <1>1, <1>2, UsedPage, KernelAt
<1>4. pageDirectory - KernelBase # ptPhysToVirt - KernelBase
  BY <1>2, <1>3, FrameOfPage
<1>5. ASSUME NEW i \in Entries, "P" \in Dir[i].flags
      PROVE  /\ Translate(Rev[i].page) = Dir[i].page
             /\ Dir[i].page \in HeapFrames
             /\ Dir[i].page # pageDirectory - KernelBase /\ Dir[i].page # ptPhysToVirt - KernelBase
  <2> DEFINE p == Rev[i].page
  <2>1. /\ Used(p) /\ p \notin {pageDirectory, ptPhysToVirt} \union Given
        /\ Dir[i].page = p - KernelBase
    BY <1>1, <1>5 DEF Tables
  <2> HIDE DEF p
  <2>2. p \in KernelPages /\ p \in Int /\ p - KernelBase \in HeapFrames
    BY <2>1, UsedPage
  <2>3. Translate(p) = p - KernelBase
    BY <1>1, <2>1, <2>2, KernelAt
  <2>4. p # pageDirectory /\ p # ptPhysToVirt
    BY <2>1
  <2>5. p - KernelBase # pageDirectory - KernelBase /\ p - KernelBase # ptPhysToVirt - KernelBase
    BY <1>3, <2>2, <2>4, FrameOfPage
  <2> QED
    BY <2>1, <2>2, <2>3, <2>5 DEF p
<1> QED
  BY <1>3, <1>4, <1>5

(***************************************************************************)
(* virt_to_phys computes the walk of the MMU, in both its modes, in any    *)
(* memory that has the tables it goes through.                             *)
(***************************************************************************)
LEMMA VirtToPhys ==
  ASSUME KernelFits, PagingInv, ~panicked, pc # "start",
         NEW m, \A f \in BootFrames : m[f] = mem[f],
         kernelPagingEnabled => /\ m[pageDirectory - KernelBase] = Dir
                                /\ m[ptPhysToVirt - KernelBase] = Rev,
         NEW v \in KernelPages
  PROVE  virt_to_phys(m, v) = Walk(m, cr3, v)
<1> DEFINE j == v % PAGE_ENTRIES
<1>1. v \div PAGE_ENTRIES = KI /\ KI \in Entries
  BY KernelIndices, LayoutTypes
<1>2. CASE ~kernelPagingEnabled
  <2>1. cr3 = page_directory /\ Translate(page_directory) = page_directory
        /\ Translate(kernel_pt) = kernel_pt
        /\ page_directory \in TableFrames /\ kernel_pt \in TableFrames
    BY <1>2, BootTranslate, LayoutTypes DEF BootFrames
  <2>2. m[page_directory][KI] = [page |-> kernel_pt, flags |-> Flags]
        /\ m[page_directory][KI].page = kernel_pt
    BY BootDirectory DEF PagingInv, BootFrames
  <2>3. Read(m, cr3, KI) = m[page_directory][KI] /\ Read(m, kernel_pt, j) = m[kernel_pt][j]
    BY <2>1 DEF Read
  <2> QED
    BY <1>1, <1>2, <2>1, <2>2, <2>3, Zenon DEF virt_to_phys, Walk
<1>3. CASE kernelPagingEnabled
  <2> DEFINE d == pageDirectory - KernelBase
             r == ptPhysToVirt - KernelBase
  <2>1. pc \notin Early /\ cr3 = d
    BY <1>3, Stages
  <2>2. Read(m, pageDirectory, KI) = m[d][KI] /\ Read(m, ptPhysToVirt, KI) = m[r][KI]
        /\ m[d] = Dir /\ m[r] = Rev
    BY <1>3, <2>1, TablesAt, LayoutTypes DEF Read
  <2>3. CASE "P" \in Dir[KI].flags
    <3>1. Translate(Rev[KI].page) = Dir[KI].page /\ Dir[KI].page \in TableFrames
      BY <1>1, <2>1, <2>3, TablesAt, LayoutTypes
    <3>2. Read(m, Rev[KI].page, j) = m[Dir[KI].page][j]
      BY <3>1 DEF Read
    <3> QED
      BY <1>1, <1>3, <2>1, <2>2, <3>1, <3>2, Zenon DEF virt_to_phys, Walk
  <2>4. CASE "P" \notin Dir[KI].flags
    BY <1>1, <1>3, <2>1, <2>2, <2>4, Zenon DEF virt_to_phys, Walk
  <2> QED
    BY <2>3, <2>4
<1> QED
  BY <1>2, <1>3, Stages

-----------------------------------------------------------------------------
(***************************************************************************)
(* Pages of the heap as they are handed out.                               *)
(***************************************************************************)

\* A panic keeps the allocator's invariant.
LEMMA PanicKeeps ==
  ASSUME AllocInv, Panic
  PROVE  /\ AllocInv' /\ panicked' /\ initialized' = initialized
         /\ currentBase' = currentBase /\ mem' = mem /\ tlb' = tlb
BY DEF AllocInv, Panic, baseVars, memory, AllocTypeOK, HeapIsSection, BumpIsFrontier,
       BlocksDisjoint, AlignedOnPage, H!Disjoint, H!Blocks

\* A page is in front of the frontier if and only if its address is.
LEMMA PageBelow ==
  ASSUME NEW a \in Nat, NEW k \in Nat
  PROVE  /\ a < k * PAGE_SIZE => a \div PAGE_SIZE < k
         /\ k * PAGE_SIZE <= a => k <= a \div PAGE_SIZE
<1>0. PAGE_SIZE \in Nat \ {0}
  BY AllocAssumption
<1> DEFINE q == a \div PAGE_SIZE
<1>1. q \in Nat /\ a = PAGE_SIZE * q + (a % PAGE_SIZE) /\ a % PAGE_SIZE \in 0 .. PAGE_SIZE - 1
  BY <1>0, PageOffset, PageIsNat
<1> HIDE DEF q
<1>2. PAGE_SIZE * q = q * PAGE_SIZE /\ q * PAGE_SIZE \in Nat /\ k * PAGE_SIZE \in Nat
  BY <1>0, <1>1, SMT
<1>3. q * PAGE_SIZE <= a /\ a < q * PAGE_SIZE + PAGE_SIZE
  BY <1>0, <1>1, <1>2, SMT
<1>4. ASSUME a < k * PAGE_SIZE PROVE q < k
  <2>1. q * PAGE_SIZE < k * PAGE_SIZE
    BY <1>2, <1>3, <1>4, SMT
  <2> QED
    BY <1>1, <2>1, AddressOrder
<1>5. ASSUME k * PAGE_SIZE <= a PROVE k <= q
  <2>1. (q + 1) * PAGE_SIZE = q * PAGE_SIZE + PAGE_SIZE
    BY <1>1, AddressOrder
  <2>2. k * PAGE_SIZE < (q + 1) * PAGE_SIZE
    BY <1>0, <1>2, <1>3, <1>5, <2>1, SMT
  <2>3. k < q + 1
    BY <1>1, <2>2, AddressOrder
  <2> QED
    BY <1>1, <2>3, SMT
<1> QED
  BY <1>4, <1>5 DEF q

(***************************************************************************)
(* kmalloc_early_align hands out whole fresh pages: unless it panics, none *)
(* of the pages of the new block was in use before, and all are afterwards.*)
(***************************************************************************)
LEMMA FreshPages ==
  ASSUME KernelFits, AllocInv, ~panicked, initialized,
         NEW size \in Sizes, size # 0, kmalloc_early_align(size),
         NEW base, base = PageUp(currentBase),
         NEW q, q = base \div PAGE_SIZE,
         NEW last, last = (base + size - 1) \div PAGE_SIZE
  PROVE  /\ AllocInv' /\ panicked' \in BOOLEAN /\ initialized'
         /\ ~panicked' =>
              /\ q \in KmallocPages /\ q .. last \subseteq KmallocPages
              /\ \A p \in q .. last : ~Used(p) /\ Used(p)'
              /\ ~Used(q) /\ Used(q)'
              /\ \A p : Used(p) => Used(p)'
<1>1. /\ WORD \in Nat /\ size \in Nat /\ PAGE_SIZE \in Nat \ {0}
      /\ EARLY_KMALLOC_START \in Nat /\ EARLY_KMALLOC_END \in Nat
      /\ EARLY_KMALLOC_END + PAGE_SIZE + size < WORD
  BY AllocAssumption
<1>2. /\ initialBase = EARLY_KMALLOC_START /\ maxBase = EARLY_KMALLOC_END
      /\ currentBase \in EARLY_KMALLOC_START .. EARLY_KMALLOC_END
  BY DEF AllocInv, HeapIsSection, BumpIsFrontier
<1>3. currentBase \in Nat /\ currentBase <= EARLY_KMALLOC_END /\ EARLY_KMALLOC_START <= currentBase
  BY <1>1, <1>2, SMT
<1>4. /\ base \in Nat /\ currentBase <= base
      /\ base <= EARLY_KMALLOC_END + PAGE_SIZE /\ base % PAGE_SIZE = 0
  BY <1>3, PageUpSpec
<1>5. Bump(base, size, TRUE) /\ UNCHANGED baseVars
  BY DEF kmalloc_early_align
<1>6. AllocInv'
  BY <1>4, <1>5, BumpStep
<1>7. panicked' \in BOOLEAN /\ initialized'
  BY <1>5, <1>6 DEF AllocInv, AllocTypeOK, baseVars
<1>8. ASSUME ~panicked'
      PROVE  /\ q \in KmallocPages /\ q .. last \subseteq KmallocPages
             /\ \A p \in q .. last : ~Used(p) /\ Used(p)'
             /\ ~Used(q) /\ Used(q)'
             /\ \A p : Used(p) => Used(p)'
  <2>1. base + size \in Nat /\ size + base = base + size /\ base + size < WORD
    BY <1>1, <1>4, SMT
  <2>2. (base + size) % WORD = base + size
    BY <1>1, <2>1, NoWrap
  <2>3. base + size <= EARLY_KMALLOC_END /\ currentBase' = base + size
    <3>1. ~Exhausted(base, size)
      BY <1>5, <1>8 DEF Bump
    <3>2. currentBase' = (base + size) % WORD
      BY <1>5, <3>1 DEF Bump
    <3>3. ~(base + size > EARLY_KMALLOC_END)
      BY <1>2, <2>1, <2>2, <3>1 DEF Exhausted
    <3> QED
      BY <1>1, <2>1, <2>2, <3>2, <3>3, SMT
  <2>4. q \in Nat /\ base = q * PAGE_SIZE
    BY <1>4, AlignedAddress
  <2>5. /\ KERNEL_END \in Nat /\ EARLY_KMALLOC_END = KERNEL_END * PAGE_SIZE
        /\ KERNEL_START + IMAGE_PAGES \in Nat
        /\ EARLY_KMALLOC_START = (KERNEL_START + IMAGE_PAGES) * PAGE_SIZE
        /\ KmallocPages = KERNEL_START + IMAGE_PAGES .. KERNEL_END - 1
    BY Layout, BaseIndex, SMT
  <2>6. KERNEL_START + IMAGE_PAGES <= q
    <3>1. EARLY_KMALLOC_START <= base
      BY <1>1, <1>3, <1>4, SMT
    <3> QED
      BY <2>4, <2>5, <3>1, AddressOrder
  <2>7. base + size - 1 \in Nat /\ base + size - 1 < EARLY_KMALLOC_END /\ base <= base + size - 1
    BY <1>1, <1>4, <2>1, <2>3, SMT
  <2>8. last \in Nat /\ last < KERNEL_END /\ q <= last
    <3>1. last \in Nat
      BY <1>1, <2>7, PageIsNat
    <3>2. last < KERNEL_END
      BY <2>5, <2>7, PageBelow
    <3>3. q <= last
      BY <2>4, <2>7, PageBelow
    <3> QED
      BY <3>1, <3>2, <3>3
  <2>9. q \in q .. last /\ q .. last \subseteq KmallocPages /\ q .. last \subseteq Nat
    BY <2>4, <2>5, <2>6, <2>8, SMT
  <2>10. ASSUME NEW p \in q .. last PROVE ~Used(p) /\ Used(p)'
    <3>1. p \in Nat /\ q <= p /\ p <= last /\ p \in KmallocPages
      BY <2>4, <2>8, <2>9, SMT
    <3>2. p * PAGE_SIZE \in Nat /\ q * PAGE_SIZE <= p * PAGE_SIZE
      BY <2>4, <3>1, AddressOrder, AddressOfPage
    <3>3. ~(p * PAGE_SIZE < currentBase)
      BY <1>3, <1>4, <2>4, <3>2, SMT
    <3>4. p * PAGE_SIZE < currentBase'
      <4>1. SUFFICES ASSUME currentBase' <= p * PAGE_SIZE PROVE FALSE
        BY <2>1, <2>3, <3>2, SMT
      <4>2. base + size - 1 < p * PAGE_SIZE
        BY <1>1, <1>4, <2>3, <3>2, <4>1, SMT
      <4>3. last < p
        BY <2>7, <3>1, <4>2, PageBelow
      <4> QED
        BY <2>8, <3>1, <4>3, SMT
    <3> QED
      BY <3>1, <3>3, <3>4 DEF Used
  <2>11. ASSUME NEW p, Used(p) PROVE Used(p)'
    <3>1. p \in KmallocPages /\ p * PAGE_SIZE < currentBase
      BY <2>11 DEF Used
    <3>2. p * PAGE_SIZE \in Int
      BY <2>5, <3>1, AddressOrder
    <3>3. p * PAGE_SIZE < currentBase'
      BY <1>1, <1>3, <1>4, <2>3, <3>1, <3>2, SMT
    <3> QED
      BY <3>1, <3>3 DEF Used
  <2> QED
    BY <2>9, <2>10, <2>11
<1> QED
  BY <1>6, <1>7, <1>8

-----------------------------------------------------------------------------
(***************************************************************************)
(* What the writes of page_map do to the walks from a directory d.         *)
(***************************************************************************)
Memories == [TableFrames -> [Entries -> Words]]
WriteEntry(m, t, j, w) == [m EXCEPT ![t][j] = w]
EnterTable(m, d, r, t, i, table) ==
  [[m EXCEPT ![t] = ZeroTable] EXCEPT
     ![d][i] = [page |-> t, flags |-> Flags],
     ![r][i] = [page |-> table, flags |-> {}]]

\* A walk depends on the two words it reads.
LEMMA SameWalk ==
  ASSUME NEW m, NEW m2, NEW d, NEW u,
         NEW e, e = m[d][u \div PAGE_ENTRIES], m2[d][u \div PAGE_ENTRIES] = e,
         "P" \in e.flags /\ e.page \in TableFrames
           => m2[e.page][u % PAGE_ENTRIES] = m[e.page][u % PAGE_ENTRIES]
  PROVE  Walk(m2, d, u) = Walk(m, d, u)
<1> DEFINE W(x) == IF "P" \in e.flags /\ e.page \in TableFrames /\ "P" \in x.flags
                   THEN x.page ELSE NoFrame
<1>1. Walk(m, d, u) = W(m[e.page][u % PAGE_ENTRIES])
  BY DEF Walk
<1>2. Walk(m2, d, u) = W(m2[e.page][u % PAGE_ENTRIES])
  BY DEF Walk
<1> QED
  BY <1>1, <1>2

\* Only entry v \div PAGE_ENTRIES of directory d leads to the table in frame t.
LeadsTo(m, d, v, t) ==
  /\ m \in Memories /\ d \in TableFrames /\ v \in Pages
  /\ t \in TableFrames /\ t # d
  /\ t = m[d][v \div PAGE_ENTRIES].page
  /\ "P" \in m[d][v \div PAGE_ENTRIES].flags
  /\ \A k \in Entries :
       "P" \in m[d][k].flags /\ m[d][k].page = t => k = v \div PAGE_ENTRIES

\* Memory m2 is m but for frame t, and the walk of page v from d now gives f.
OneWalkSet(m, m2, d, t, v, f) ==
  /\ m2 \in Memories
  /\ \A g \in TableFrames \ {t} : m2[g] = m[g]
  /\ Walk(m2, d, v) = f
  /\ \A u \in Pages \ {v} : Walk(m2, d, u) = Walk(m, d, u)

\* page_map_pte on the entry for v in that table changes the walk of v and no
\* other.
LEMMA SetEntry ==
  ASSUME NEW m, NEW d, NEW v, NEW t, LeadsTo(m, d, v, t),
         NEW w \in Words, "P" \in w.flags,
         NEW m2, m2 = WriteEntry(m, t, v % PAGE_ENTRIES, w)
  PROVE  OneWalkSet(m, m2, d, t, v, w.page)
<1>0. PICK i, j : i = v \div PAGE_ENTRIES /\ j = v % PAGE_ENTRIES
  OBVIOUS
<1>00. /\ m \in Memories /\ d \in TableFrames /\ v \in Pages
       /\ t \in TableFrames /\ t # d /\ t = m[d][i].page /\ "P" \in m[d][i].flags
       /\ \A k \in Entries : "P" \in m[d][k].flags /\ m[d][k].page = t => k = i
       /\ m2 = WriteEntry(m, t, j, w)
  BY <1>0, Zenon DEF LeadsTo
<1>1. i \in Entries /\ j \in Entries
  BY <1>0, <1>00, Indices
<1>2. m[t] \in [Entries -> Words] /\ DOMAIN m = TableFrames
  BY <1>00 DEF Memories
<1>3. m2 = [g \in TableFrames |-> IF g = t THEN [m[t] EXCEPT ![j] = w] ELSE m[g]]
  BY <1>00, <1>2 DEF WriteEntry
<1>4. /\ \A g \in TableFrames \ {t} : m2[g] = m[g]
      /\ m2[t] = [m[t] EXCEPT ![j] = w]
  BY <1>00, <1>3
<1>5. m2 \in Memories
  <2>1. m2[t] \in [Entries -> Words]
    BY <1>1, <1>2, <1>4
  <2> QED
    BY <1>00, <1>3, <1>4, <2>1 DEF Memories
<1>6. m2[d] = m[d]
  BY <1>00, <1>4
<1>7. m2[t][j] = w /\ \A k \in Entries \ {j} : m2[t][k] = m[t][k]
  BY <1>1, <1>2, <1>4
<1>8. Walk(m2, d, v) = w.page
  BY <1>0, <1>00, <1>6, <1>7 DEF Walk
<1>9. ASSUME NEW u \in Pages, u # v
      PROVE  Walk(m2, d, u) = Walk(m, d, u)
  <2> DEFINE a == u \div PAGE_ENTRIES
             b == u % PAGE_ENTRIES
             pde == m[d][a]
  <2>1. a \in Entries /\ b \in Entries /\ m2[d][a] = pde
    BY <1>6, Indices
  <2>2. CASE "P" \in pde.flags /\ pde.page \in TableFrames
    <3>1. CASE pde.page # t
      <4>1. m2[pde.page] = m[pde.page]
        BY <1>4, <2>2, <3>1
      <4> QED
        BY <2>1, <4>1, SameWalk
    <3>2. CASE pde.page = t
      <4>1. a = i
        BY <1>00, <2>1, <2>2, <3>2
      <4>2. b # j
        BY <1>0, <1>00, <1>9, <4>1, SamePage
      <4>3. m2[pde.page][b] = m[pde.page][b]
        BY <1>7, <2>1, <3>2, <4>2, Zenon
      <4>4. PICK e : e = pde
        OBVIOUS
      <4>5. e = m[d][u \div PAGE_ENTRIES] /\ m2[d][u \div PAGE_ENTRIES] = e
            /\ m2[e.page][u % PAGE_ENTRIES] = m[e.page][u % PAGE_ENTRIES]
        BY <2>1, <4>3, <4>4, Zenon
      <4> HIDE DEF pde, a, b
      <4> QED
        BY <4>5, Zenon DEF Walk
    <3> QED
      BY <3>1, <3>2
  <2>3. CASE ~("P" \in pde.flags /\ pde.page \in TableFrames)
    BY <2>1, <2>3, SameWalk
  <2> QED
    BY <2>2, <2>3
<1> QED
  BY <1>4, <1>5, <1>8, <1>9 DEF OneWalkSet

\* Entering a cleared table into an absent entry of the directory d, and into
\* the reverse mapping r, changes no walk.
LEMMA AddTable ==
  ASSUME KernelFits, NEW m \in Memories,
         NEW d \in TableFrames, NEW r \in TableFrames, d # r,
         NEW t \in TableFrames, t # d, t # r, NEW table \in Pages,
         NEW i \in Entries, "P" \notin m[d][i].flags,
         \A k \in Entries : "P" \in m[d][k].flags => m[d][k].page \notin {t, d, r},
         NEW m2, m2 = EnterTable(m, d, r, t, i, table)
  PROVE  /\ m2 \in Memories
         /\ \A g \in TableFrames \ {t, d, r} : m2[g] = m[g]
         /\ m2[t] = ZeroTable
         /\ m2[d][i] = [page |-> t, flags |-> Flags]
         /\ m2[r][i] = [page |-> table, flags |-> {}]
         /\ \A k \in Entries \ {i} : m2[d][k] = m[d][k] /\ m2[r][k] = m[r][k]
         /\ \A u \in Pages : Walk(m2, d, u) = Walk(m, d, u)
<1>1. m[d] \in [Entries -> Words] /\ m[r] \in [Entries -> Words] /\ DOMAIN m = TableFrames
  BY DEF Memories
<1> DEFINE pd == [page |-> t, flags |-> Flags]
           pr == [page |-> table, flags |-> {}]
<1>2. m2 = [g \in TableFrames |->
              IF g = r THEN [m[r] EXCEPT ![i] = pr]
              ELSE IF g = d THEN [m[d] EXCEPT ![i] = pd]
              ELSE IF g = t THEN ZeroTable ELSE m[g]]
  BY <1>1 DEF EnterTable
<1>3. /\ m2[r] = [m[r] EXCEPT ![i] = pr] /\ m2[d] = [m[d] EXCEPT ![i] = pd]
      /\ m2[t] = ZeroTable /\ \A g \in TableFrames \ {t, d, r} : m2[g] = m[g]
  BY <1>2
<1>4. /\ m2[d][i] = pd /\ m2[r][i] = pr
      /\ \A k \in Entries \ {i} : m2[d][k] = m[d][k] /\ m2[r][k] = m[r][k]
  BY <1>1, <1>3
<1>5. m2 \in Memories
  <2>1. Zero \in Words /\ pd \in Words /\ pr \in Words
    <3>1. t \in Pages
      BY LayoutTypes, Zenon
    <3>2. 0 \in Pages
      BY BaseIndex, LayoutTypes
    <3> QED
      BY <3>1, <3>2 DEF Zero, Words
  <2>2. ZeroTable \in [Entries -> Words]
    BY <2>1 DEF ZeroTable
  <2>3. m2[r] \in [Entries -> Words] /\ m2[d] \in [Entries -> Words]
    BY <1>1, <1>3, <2>1
  <2>4. \A g \in TableFrames : m2[g] \in [Entries -> Words]
    BY <1>3, <2>2, <2>3 DEF Memories
  <2> QED
    BY <1>2, <2>4 DEF Memories
<1>6. ASSUME NEW u \in Pages
      PROVE  Walk(m2, d, u) = Walk(m, d, u)
  <2> DEFINE a == u \div PAGE_ENTRIES
             b == u % PAGE_ENTRIES
  <2>1. a \in Entries /\ b \in Entries
    BY Indices
  <2>2. CASE a = i
    <3>1. Walk(m, d, u) = NoFrame
      BY <2>2 DEF Walk
    <3>2. m2[d][a].page = t
      BY <1>4, <2>2
    <3>3. m2[t][b] = Zero /\ "P" \notin Zero.flags
      BY <1>3, <2>1 DEF ZeroTable, Zero
    <3> QED
      BY <3>1, <3>2, <3>3, Zenon DEF Walk
  <2>3. CASE a # i
    <3>1. m2[d][a] = m[d][a]
      BY <1>4, <2>1, <2>3
    <3>2. CASE "P" \in m[d][a].flags /\ m[d][a].page \in TableFrames
      <4>1. m2[m[d][a].page] = m[m[d][a].page]
        BY <1>3, <2>1, <3>2
      <4> QED
        BY <3>1, <4>1, SameWalk
    <3>3. CASE ~("P" \in m[d][a].flags /\ m[d][a].page \in TableFrames)
      BY <3>1, <3>3, SameWalk
    <3> QED
      BY <3>2, <3>3
  <2> QED
    BY <2>2, <2>3
<1> QED
  BY <1>3, <1>4, <1>5, <1>6

-----------------------------------------------------------------------------
(***************************************************************************)
(* page_map.                                                               *)
(***************************************************************************)

\* After a step: the heap page p was handed out, the walk of page u from the
\* kernel's directory (the statics of paging.c unchanged).
UsedAfter(p) == p \in KmallocPages /\ p * PAGE_SIZE < currentBase'
WalkAfter(u) == Walk(mem', pageDirectory - KernelBase, u)

\* Every entry of the directory after a step, with its reverse mapping.
EntriesKept ==
  \A i \in Entries :
    IF "P" \in Dir'[i].flags
    THEN /\ UsedAfter(Rev'[i].page)
         /\ Rev'[i].page \notin {pageDirectory, ptPhysToVirt} \union Given
         /\ Dir'[i].page = Rev'[i].page - KernelBase
    ELSE Rev'[i].page = 0

\* No table has two entries after a step.
EntriesApart ==
  \A i, k \in Entries :
    "P" \in Dir'[i].flags /\ "P" \in Dir'[k].flags /\ Dir'[i].page = Dir'[k].page => i = k

UsedKept == \A p : Used(p) => UsedAfter(p)
BootKept == \A g \in BootFrames : mem'[g] = mem[g]
OthersKept(v) == \A u \in Pages \ {v} : WalkAfter(u) = NewWalk(u)
TableTouched ==
  \E pt : /\ UsedAfter(pt) /\ pt \notin Given
          /\ Touch(InUse \union {pageDirectory, ptPhysToVirt, pt})

\* What a page_map of page v to frame f that returns does to the tables: the
\* structure of Tables is kept, the walk of v becomes f, no other changes.
Mapped(v, f) ==
  /\ mem' \in Memories /\ BootKept /\ UsedKept
  /\ EntriesKept /\ EntriesApart
  /\ WalkAfter(v) = f /\ OthersKept(v)
  /\ TableTouched

\* The word that page_map_pte leaves is present and has the requested frame.
LEMMA MappedWord ==
  ASSUME NEW w \in Words, NEW f \in Pages, NEW perm \in SUBSET Flags
  PROVE  /\ page_map_pte(w, f, perm) \in Words
         /\ page_map_pte(w, f, perm).page = f
         /\ "P" \in page_map_pte(w, f, perm).flags
BY DEF page_map_pte, Words, Flags

\* page_map when the directory has a table for the page.
LEMMA PageMapPresent ==
  ASSUME KernelFits, PagingInv, ~panicked, pc \notin Early, UNCHANGED directory,
         NEW v \in Pages, NEW f \in Pages, NEW perm \in SUBSET Flags,
         NEW i, i = v \div PAGE_ENTRIES, "P" \in Dir[i].flags,
         NEW pt, pt = Rev[i].page,
         NEW m, m = mem,
         mem' = [m EXCEPT ![Translate(pt)][v % PAGE_ENTRIES] = page_map_pte(@, f, perm)],
         Touch(InUse \union {pageDirectory, ptPhysToVirt, pt}),
         currentBase' = currentBase
  PROVE  Mapped(v, f)
<1>1. PICK d, r : d = pageDirectory - KernelBase /\ r = ptPhysToVirt - KernelBase
  OBVIOUS
<1>2. /\ Dir = mem[d] /\ Rev = mem[r] /\ Dir' = mem'[d] /\ Rev' = mem'[r]
      /\ \A u : NewWalk(u) = Walk(mem, d, u) /\ WalkAfter(u) = Walk(mem', d, u)
  BY <1>1 DEF Dir, Rev, NewWalk, WalkAfter, directory
<1>3. i \in Entries /\ v % PAGE_ENTRIES \in Entries /\ mem \in Memories /\ Tables
  BY Indices DEF PagingInv, PagingTypeOK, Memories
<1>4. PICK t, j : t = Dir[i].page /\ j = v % PAGE_ENTRIES
  OBVIOUS
<1>5. Translate(Rev[i].page) = t /\ t \in HeapFrames /\ t # d /\ t # r /\ d \in HeapFrames /\ r \in HeapFrames
  BY <1>1, <1>3, <1>4, TablesAt
<1>6. t \in TableFrames /\ d \in TableFrames /\ r \in TableFrames /\ t \notin BootFrames
      /\ BootFrames \subseteq TableFrames
  BY <1>5, LayoutTypes
<1>7. PICK w : w = page_map_pte(mem[t][j], f, perm)
  OBVIOUS
<1>8. w \in Words /\ w.page = f /\ "P" \in w.flags
  <2>1. mem[t][j] \in Words
    BY <1>3, <1>4, <1>6 DEF Memories
  <2> QED
    BY <1>7, <2>1, MappedWord
<1>9. mem' = WriteEntry(mem, t, j, w)
  <2>1. mem' = [mem EXCEPT ![t][j] = page_map_pte(@, f, perm)]
    BY <1>4, <1>5
  <2> QED
    BY <1>3, <1>6, <1>7, <2>1 DEF WriteEntry, Memories
<1>10. \A k \in Entries : "P" \in mem[d][k].flags /\ mem[d][k].page = t => k = i
  BY <1>2, <1>3, <1>4 DEF Tables
<1>11. PICK m2 : m2 = mem'
  OBVIOUS
<1>12. OneWalkSet(mem, m2, d, t, v, w.page)
  <2>1. LeadsTo(mem, d, v, t)
    BY <1>2, <1>3, <1>4, <1>5, <1>6, <1>10, Zenon DEF LeadsTo
  <2>2. m2 = WriteEntry(mem, t, v % PAGE_ENTRIES, w)
    BY <1>4, <1>9, <1>11, Zenon
  <2> QED
    BY <1>8, <2>1, <2>2, SetEntry, Zenon
<1>13. Dir' = Dir /\ Rev' = Rev /\ BootKept
  BY <1>2, <1>5, <1>6, <1>11, <1>12 DEF BootKept, OneWalkSet
<1>14. \A p : UsedAfter(p) <=> Used(p)
  BY DEF Used, UsedAfter
<1>15. Used(Rev[i].page) /\ Rev[i].page \notin Given
  BY <1>3 DEF Tables
<1>16. mem' \in Memories /\ WalkAfter(v) = f /\ OthersKept(v)
  BY <1>2, <1>8, <1>11, <1>12 DEF OthersKept, OneWalkSet
<1>17. TableTouched
  BY <1>14, <1>15, Zenon DEF TableTouched
<1>18. EntriesKept
  BY <1>3, <1>13, <1>14, Zenon DEF Tables, EntriesKept
<1>19. EntriesApart
  BY <1>3, <1>13, Zenon DEF Tables, EntriesApart
<1>20. UsedKept
  BY <1>14, Zenon DEF UsedKept
<1> QED
  BY <1>13, <1>16, <1>17, <1>18, <1>19, <1>20, Zenon DEF Mapped

\* A fresh page of the heap holds no table and is not one of the given pages;
\* its translation is its own frame, and virt_to_phys, called when the page has
\* been cleared, finds that frame.
LEMMA FreshTable ==
  ASSUME KernelFits, PagingInv, ~panicked, pc \notin Early,
         NEW q \in KmallocPages, ~Used(q)
  PROVE  /\ q \notin {pageDirectory, ptPhysToVirt} \union Given
         /\ Translate(q) = q - KernelBase
         /\ q - KernelBase \in TableFrames \ BootFrames
         /\ q - KernelBase # pageDirectory - KernelBase
         /\ q - KernelBase # ptPhysToVirt - KernelBase
         /\ \A k \in Entries : "P" \in Dir[k].flags => Dir[k].page # q - KernelBase
         /\ virt_to_phys(cleared(q), q) = q - KernelBase
<1>1. Tables /\ pc # "start" /\ mem \in Memories
  BY Stages DEF PagingInv, PagingTypeOK, Memories
<1>2. /\ Used(pageDirectory) /\ Used(ptPhysToVirt) /\ \A p \in Given : Used(p)
  BY <1>1 DEF Tables
<1>3. q \notin {pageDirectory, ptPhysToVirt} \union Given
  BY <1>2
<1>4. q \in KernelPages /\ q \in Int /\ q - KernelBase \in HeapFrames
  BY LayoutTypes, Layout
<1>5. Translate(q) = q - KernelBase
  BY <1>1, <1>3, <1>4, KernelAt
<1>6. q - KernelBase \in TableFrames \ BootFrames
  BY <1>4, LayoutTypes
<1>7. q - KernelBase # pageDirectory - KernelBase /\ q - KernelBase # ptPhysToVirt - KernelBase
  <2>1. pageDirectory \in Int /\ ptPhysToVirt \in Int
    BY <1>2, UsedPage
  <2> QED
    BY <1>3, <1>4, <2>1, FrameOfPage
<1>8. ASSUME NEW k \in Entries, "P" \in Dir[k].flags
      PROVE  Dir[k].page # q - KernelBase
  <2>1. Used(Rev[k].page) /\ Dir[k].page = Rev[k].page - KernelBase
    BY <1>1, <1>8 DEF Tables
  <2>2. Rev[k].page \in Int /\ Rev[k].page # q
    BY <2>1, UsedPage
  <2> QED
    BY <1>4, <2>1, <2>2, FrameOfPage
<1>9. PICK t, c : t = q - KernelBase /\ c = cleared(q)
  OBVIOUS
<1>10. \A g \in TableFrames \ {t} : c[g] = mem[g]
  BY <1>1, <1>5, <1>9 DEF cleared, Memories
<1>11. virt_to_phys(c, q) = Walk(c, cr3, q)
  <2>1. \A g \in BootFrames : c[g] = mem[g]
    BY <1>6, <1>9, <1>10, LayoutTypes
  <2>2. c[pageDirectory - KernelBase] = Dir /\ c[ptPhysToVirt - KernelBase] = Rev
    BY <1>7, <1>9, <1>10, TablesAt, LayoutTypes DEF Dir, Rev
  <2> QED
    BY <1>1, <1>4, <2>1, <2>2, VirtToPhys
<1>12. Walk(c, cr3, q) = Walk(mem, cr3, q)
  <2>1. q \in Pages /\ q \div PAGE_ENTRIES \in Entries
    BY <1>4, LayoutTypes, Indices
  <2>2. CASE ~kernelPagingEnabled
    <3>1. cr3 = page_directory /\ BootTables
      BY <1>1, <2>2, BootTranslate DEF PagingInv
    <3>2. \A g \in BootFrames : c[g] = mem[g]
      BY <1>6, <1>9, <1>10, LayoutTypes
    <3> QED
      BY <1>1, <2>1, <3>1, <3>2, BootWalkSame
  <2>3. CASE kernelPagingEnabled
    <3>1. PICK d : d = pageDirectory - KernelBase
      OBVIOUS
    <3>2. cr3 = d /\ d \in TableFrames /\ d # t /\ Dir = mem[d]
      BY <1>7, <1>9, <2>3, <3>1, Stages, TablesAt, LayoutTypes DEF Dir
    <3>3. PICK e : e = mem[d][q \div PAGE_ENTRIES]
      OBVIOUS
    <3>4. c[d][q \div PAGE_ENTRIES] = e
      BY <1>10, <3>2, <3>3
    <3>5. "P" \in e.flags => e.page # t
      BY <1>8, <1>9, <2>1, <3>2, <3>3
    <3>6. "P" \in e.flags /\ e.page \in TableFrames => c[e.page] = mem[e.page]
      BY <1>10, <3>5
    <3> QED
      BY <3>2, <3>3, <3>4, <3>6, Zenon DEF Walk
  <2> QED
    BY <2>2, <2>3, Stages
<1>13. Walk(mem, cr3, q) = t
  BY <1>5, <1>9, TranslateIsWalk DEF PagingInv
<1>14. virt_to_phys(cleared(q), q) = q - KernelBase
  BY <1>9, <1>11, <1>12, <1>13
<1> QED
  BY <1>3, <1>5, <1>6, <1>7, <1>8, <1>14

\* page_map when it has to create a table, in the fresh heap page q.
LEMMA PageMapAbsent ==
  ASSUME KernelFits, PagingInv, ~panicked, pc \notin Early, UNCHANGED directory,
         NEW v \in Pages, NEW f \in Pages, NEW perm \in SUBSET Flags,
         NEW i, i = v \div PAGE_ENTRIES, "P" \notin Dir[i].flags,
         NEW q \in KmallocPages, ~Used(q), UsedAfter(q), UsedKept,
         NEW m, m = new_table(i, q),
         mem' = [m EXCEPT ![Translate(q)][v % PAGE_ENTRIES] = page_map_pte(@, f, perm)],
         Touch(InUse \union {pageDirectory, ptPhysToVirt, q})
  PROVE  Mapped(v, f)
<1>1. PICK d, r : d = pageDirectory - KernelBase /\ r = ptPhysToVirt - KernelBase
  OBVIOUS
<1>2. /\ Dir = mem[d] /\ Rev = mem[r] /\ Dir' = mem'[d] /\ Rev' = mem'[r]
      /\ \A u : NewWalk(u) = Walk(mem, d, u) /\ WalkAfter(u) = Walk(mem', d, u)
  BY <1>1 DEF Dir, Rev, NewWalk, WalkAfter, directory
<1>3. i \in Entries /\ v % PAGE_ENTRIES \in Entries /\ mem \in Memories /\ Tables
      /\ q \in Pages
  BY Indices, LayoutTypes DEF PagingInv, PagingTypeOK, Memories
<1>4. PICK t, j : t = q - KernelBase /\ j = v % PAGE_ENTRIES
  OBVIOUS
<1>5. /\ q \notin {pageDirectory, ptPhysToVirt} \union Given
      /\ Translate(q) = t /\ t \in TableFrames \ BootFrames /\ t # d /\ t # r
      /\ \A k \in Entries : "P" \in mem[d][k].flags => mem[d][k].page # t
      /\ virt_to_phys(cleared(q), q) = t
  BY <1>1, <1>2, <1>4, FreshTable
<1>6. /\ d \in HeapFrames /\ r \in HeapFrames /\ d # r
      /\ Translate(pageDirectory) = d /\ Translate(ptPhysToVirt) = r
      /\ \A k \in Entries : "P" \in mem[d][k].flags => mem[d][k].page \notin {d, r}
  BY <1>1, <1>2, TablesAt
<1>7. /\ d \in TableFrames /\ r \in TableFrames /\ d \notin BootFrames /\ r \notin BootFrames
      /\ BootFrames \subseteq TableFrames
  BY <1>6, LayoutTypes
<1>8. m = EnterTable(mem, d, r, t, i, q)
  BY <1>5, <1>6 DEF new_table, cleared, EnterTable
<1>9. /\ m \in Memories
      /\ \A g \in TableFrames \ {t, d, r} : m[g] = mem[g]
      /\ m[t] = ZeroTable
      /\ m[d][i] = [page |-> t, flags |-> Flags]
      /\ m[r][i] = [page |-> q, flags |-> {}]
      /\ \A k \in Entries \ {i} : m[d][k] = mem[d][k] /\ m[r][k] = mem[r][k]
      /\ \A u \in Pages : Walk(m, d, u) = Walk(mem, d, u)
  <2>1. "P" \notin mem[d][i].flags
    BY <1>2
  <2>2. \A k \in Entries : "P" \in mem[d][k].flags => mem[d][k].page \notin {t, d, r}
    BY <1>5, <1>6
  <2> QED
    BY <1>3, <1>5, <1>6, <1>7, <1>8, <2>1, <2>2, AddTable
<1>10. m[d][i].page = t /\ "P" \in m[d][i].flags /\ m[r][i].page = q
  BY <1>9 DEF Flags
<1>11. PICK w : w = page_map_pte(m[t][j], f, perm)
  OBVIOUS
<1>12. w \in Words /\ w.page = f /\ "P" \in w.flags
  <2>1. m[t][j] \in Words
    BY <1>3, <1>4, <1>5, <1>9 DEF Memories
  <2> QED
    BY <1>11, <2>1, MappedWord
<1>13. mem' = WriteEntry(m, t, j, w)
  <2>1. mem' = [m EXCEPT ![t][j] = page_map_pte(@, f, perm)]
    BY <1>4, <1>5
  <2> QED
    BY <1>3, <1>5, <1>9, <1>11, <2>1 DEF WriteEntry, Memories
<1>14. PICK m2 : m2 = mem'
  OBVIOUS
<1>15. OneWalkSet(m, m2, d, t, v, w.page)
  <2>1. \A k \in Entries : "P" \in m[d][k].flags /\ m[d][k].page = t => k = i
    BY <1>5, <1>9
  <2>2. LeadsTo(m, d, v, t)
    BY <1>5, <1>7, <1>9, <1>10, <2>1, Zenon DEF LeadsTo
  <2>3. m2 = WriteEntry(m, t, v % PAGE_ENTRIES, w)
    BY <1>4, <1>13, <1>14, Zenon
  <2> QED
    BY <1>12, <2>2, <2>3, SetEntry, Zenon
<1>16. Dir' = m[d] /\ Rev' = m[r]
  BY <1>2, <1>5, <1>7, <1>14, <1>15 DEF OneWalkSet
<1>17. BootKept
  <2>1. \A g \in BootFrames : g \in TableFrames /\ g \notin {t, d, r}
    BY <1>5, <1>7, Zenon
  <2>2. \A g \in BootFrames : m2[g] = m[g] /\ m[g] = mem[g]
    BY <1>9, <1>15, <2>1, Zenon DEF OneWalkSet
  <2> QED
    BY <1>14, <2>2, Zenon DEF BootKept
<1>18. mem' \in Memories /\ WalkAfter(v) = f /\ OthersKept(v)
  BY <1>2, <1>9, <1>12, <1>14, <1>15 DEF OthersKept, OneWalkSet
<1>19. TableTouched
  BY <1>5, Zenon DEF TableTouched
<1>20. EntriesKept
  <2> SUFFICES ASSUME NEW k \in Entries
               PROVE  IF "P" \in Dir'[k].flags
                      THEN /\ UsedAfter(Rev'[k].page)
                           /\ Rev'[k].page \notin {pageDirectory, ptPhysToVirt} \union Given
                           /\ Dir'[k].page = Rev'[k].page - KernelBase
                      ELSE Rev'[k].page = 0
    BY Zenon DEF EntriesKept
  <2>1. CASE k = i
    BY <1>4, <1>5, <1>10, <1>16, <2>1, Zenon
  <2>2. CASE k # i
    <3>1. Dir'[k] = Dir[k] /\ Rev'[k] = Rev[k]
      BY <1>2, <1>9, <1>16, <2>2
    <3> QED
      BY <1>3, <3>1, Zenon DEF Tables, UsedKept
  <2> QED
    BY <2>1, <2>2
<1>21. EntriesApart
  <2> SUFFICES ASSUME NEW h \in Entries, NEW k \in Entries,
                      "P" \in Dir'[h].flags, "P" \in Dir'[k].flags, Dir'[h].page = Dir'[k].page
               PROVE  h = k
    BY Zenon DEF EntriesApart
  <2>1. CASE h # i /\ k # i
    <3>1. Dir'[h] = Dir[h] /\ Dir'[k] = Dir[k]
      BY <1>2, <1>9, <1>16, <2>1
    <3> QED
      BY <1>3, <3>1, Zenon DEF Tables
  <2>2. CASE h = i /\ k # i
    BY <1>5, <1>9, <1>10, <1>16, <2>2
  <2>3. CASE h # i /\ k = i
    BY <1>5, <1>9, <1>10, <1>16, <2>3
  <2> QED
    BY <2>1, <2>2, <2>3
<1> QED
  BY <1>17, <1>18, <1>19, <1>20, <1>21, Zenon DEF Mapped

(***************************************************************************)
(* page_map either panics and leaves the tables alone, or maps the one     *)
(* page it was asked for.                                                  *)
(***************************************************************************)
LEMMA PageMapStep ==
  ASSUME KernelFits, PagingInv, ~panicked, pc \notin Early, UNCHANGED directory,
         NEW virt, NEW phys, NEW perm \in SUBSET Flags, page_map(virt, phys, perm),
         NEW v \in Pages, v = virt \div PAGE_SIZE, NEW f \in Pages, f = phys \div PAGE_SIZE
  PROVE  /\ AllocInv' /\ panicked' \in BOOLEAN /\ initialized'
         /\ panicked' => mem' = mem /\ tlb' = tlb
         /\ ~panicked' => Mapped(v, f) /\ virt % PAGE_SIZE = 0 /\ phys % PAGE_SIZE = 0
<1>0. AllocInv /\ initialized /\ panicked \in BOOLEAN
  BY DEF PagingInv, StageOK, Early, AllocInv, AllocTypeOK
<1>1. PICK i : i = v \div PAGE_ENTRIES
  OBVIOUS
<1>2. i \in Entries
  BY <1>1, Indices
<1>3. Read(mem, pageDirectory, i) = Dir[i] /\ Read(mem, ptPhysToVirt, i) = Rev[i]
  BY TablesAt, LayoutTypes DEF Read, Dir, Rev
<1>4. CASE Panic
  BY <1>0, <1>4, PanicKeeps
<1>5. CASE ~Panic /\ "P" \in Dir[i].flags
  <2>1. /\ virt % PAGE_SIZE = 0 /\ phys % PAGE_SIZE = 0
        /\ mem' = [mem EXCEPT ![Translate(Rev[i].page)][v % PAGE_ENTRIES] =
                     page_map_pte(@, f, perm)]
        /\ Touch(InUse \union {pageDirectory, ptPhysToVirt, Rev[i].page})
        /\ UNCHANGED allocVars
    BY <1>1, <1>3, <1>5, Zenon DEF page_map
  <2>2. AllocInv' /\ panicked' = panicked /\ initialized' /\ currentBase' = currentBase
    BY <1>0, <2>1 DEF AllocInv, AllocTypeOK, HeapIsSection, BumpIsFrontier,
                      BlocksDisjoint, AlignedOnPage, allocVars
  <2>3. Mapped(v, f)
    <3>1. PICK m, pt : m = mem /\ pt = Rev[i].page
      OBVIOUS
    <3>2. /\ mem' = [m EXCEPT ![Translate(pt)][v % PAGE_ENTRIES] = page_map_pte(@, f, perm)]
          /\ Touch(InUse \union {pageDirectory, ptPhysToVirt, pt})
      BY <2>1, <3>1, Zenon
    <3> QED
      BY <1>1, <1>5, <2>2, <3>1, <3>2, PageMapPresent, Zenon
  <2> QED
    BY <1>0, <2>1, <2>2, <2>3, Zenon
<1>6. CASE ~Panic /\ "P" \notin Dir[i].flags
  <2>1. PICK base, q, m : /\ base = PageUp(currentBase) /\ q = base \div PAGE_SIZE
                          /\ m = new_table(i, q)
    OBVIOUS
  <2>2. /\ virt % PAGE_SIZE = 0 /\ phys % PAGE_SIZE = 0
        /\ kmalloc_early_align(PAGE_TABLE_SIZE)
        /\ IF panicked' THEN UNCHANGED memory
           ELSE /\ mem' = [m EXCEPT ![Translate(Read(m, ptPhysToVirt, i).page)][v % PAGE_ENTRIES] =
                             page_map_pte(@, f, perm)]
                /\ Touch(InUse \union {pageDirectory, ptPhysToVirt, Read(m, ptPhysToVirt, i).page})
    BY <1>1, <1>3, <1>6, <2>1, Zenon DEF page_map
  <2>3. PAGE_TABLE_SIZE \in Sizes /\ PAGE_TABLE_SIZE # 0
    BY PagingAssumption
  <2>4. /\ AllocInv' /\ panicked' \in BOOLEAN /\ initialized'
        /\ ~panicked' => q \in KmallocPages /\ ~Used(q) /\ Used(q)' /\ \A p : Used(p) => Used(p)'
    BY <1>0, <2>1, <2>2, <2>3, FreshPages
  <2>5. CASE panicked'
    BY <2>2, <2>4, <2>5 DEF memory
  <2>6. CASE ~panicked'
    <3>1. q \in KmallocPages /\ ~Used(q) /\ UsedAfter(q) /\ UsedKept
      BY <2>4, <2>6, Zenon DEF Used, UsedAfter, UsedKept
    <3>2. Read(m, ptPhysToVirt, i).page = q
      <4>1. /\ Translate(q) = q - KernelBase /\ q - KernelBase \in TableFrames
            /\ virt_to_phys(cleared(q), q) = q - KernelBase
            /\ q - KernelBase # ptPhysToVirt - KernelBase
        BY <3>1, FreshTable
      <4>2. PICK d, r : d = pageDirectory - KernelBase /\ r = ptPhysToVirt - KernelBase
        OBVIOUS
      <4>3. /\ Translate(pageDirectory) = d /\ Translate(ptPhysToVirt) = r /\ d # r
            /\ d \in TableFrames /\ r \in TableFrames /\ mem \in Memories
        BY <4>2, TablesAt, LayoutTypes DEF PagingInv, PagingTypeOK, Memories
      <4>4. m[r][i].page = q
        BY <1>2, <2>1, <4>1, <4>2, <4>3 DEF new_table, cleared, Memories
      <4> QED
        BY <4>3, <4>4 DEF Read
    <3>3. Mapped(v, f)
      <4>1. /\ mem' = [m EXCEPT ![Translate(q)][v % PAGE_ENTRIES] = page_map_pte(@, f, perm)]
            /\ Touch(InUse \union {pageDirectory, ptPhysToVirt, q})
        BY <2>2, <2>6, <3>2, Zenon
      <4> QED
        BY <1>1, <1>6, <2>1, <3>1, <4>1, PageMapAbsent, Zenon
    <3> QED
      BY <2>2, <2>4, <2>6, <3>3
  <2> QED
    BY <2>4, <2>5, <2>6
<1> QED
  BY <1>4, <1>5, <1>6

-----------------------------------------------------------------------------
(***************************************************************************)
(* The TLB.                                                                *)
(***************************************************************************)

\* A walk ends in a page or in no frame.
LEMMA WalkType ==
  ASSUME NEW m \in Memories, NEW d \in TableFrames, NEW u \in Pages
  PROVE  Walk(m, d, u) \in Pages \union {NoFrame}
<1>1. u \div PAGE_ENTRIES \in Entries /\ u % PAGE_ENTRIES \in Entries
  BY Indices
<1>2. \A e \in Words : e.page \in TableFrames => m[e.page][u % PAGE_ENTRIES] \in Words
  BY <1>1 DEF Memories
<1>3. m[d][u \div PAGE_ENTRIES] \in Words
  BY <1>1 DEF Memories
<1>4. \A w \in Words : w.page \in Pages
  BY DEF Words
<1> QED
  BY <1>2, <1>3, <1>4, Zenon DEF Walk

\* The directory in CR3 is a frame of tables.
LEMMA ActiveDirectory ==
  ASSUME KernelFits, PagingInv, pc # "start"
  PROVE  cr3 \in TableFrames
BY LayoutTypes DEF PagingInv, StageOK, BootFrames

\* Accesses cache what the tables say; the cache stays coherent as long as the
\* walks of the cached pages do not change.
LEMMA TouchStep ==
  ASSUME KernelFits, PagingInv, pc # "start", NEW vs \in SUBSET Pages, Touch(vs)
  PROVE  /\ DOMAIN tlb' \subseteq Pages /\ \A u \in DOMAIN tlb' : tlb'[u] \in Pages
         /\ \A u \in DOMAIN tlb' : u \in DOMAIN tlb \/ u \in vs
         /\ (\A u \in DOMAIN tlb' : Walk(mem', cr3', u) = Walk(mem, cr3, u)) => TLBCoherent'
<1>1. /\ DOMAIN tlb' = DOMAIN tlb \union {u \in vs : Translate(u) # NoFrame}
      /\ \A u \in DOMAIN tlb' : tlb'[u] = Translate(u)
  BY DEF Touch
<1>2. DOMAIN tlb \subseteq Pages /\ TLBCoherent
  BY DEF PagingInv, PagingTypeOK
<1>3. DOMAIN tlb' \subseteq Pages
  BY <1>1, <1>2
<1>4. ASSUME NEW u \in DOMAIN tlb' PROVE tlb'[u] \in Pages
  <2>1. CASE u \in DOMAIN tlb
    <3>1. Translate(u) = tlb[u] /\ tlb[u] \in Pages
      BY <2>1 DEF Translate, PagingInv, PagingTypeOK
    <3> QED
      BY <1>1, <3>1
  <2>2. CASE u \in vs /\ Translate(u) # NoFrame
    <3>1. Translate(u) = Walk(mem, cr3, u)
      BY <1>2, TranslateIsWalk
    <3>2. Walk(mem, cr3, u) \in Pages \union {NoFrame}
      BY <1>3, ActiveDirectory, WalkType DEF PagingInv, PagingTypeOK, Memories
    <3> QED
      BY <1>1, <2>2, <3>1, <3>2
  <2> QED
    BY <1>1, <2>1, <2>2
<1>5. ASSUME \A u \in DOMAIN tlb' : Walk(mem', cr3', u) = Walk(mem, cr3, u)
      PROVE  TLBCoherent'
  <2>1. \A u \in DOMAIN tlb' : tlb'[u] = Walk(mem, cr3, u)
    BY <1>1, <1>2, TranslateIsWalk, Zenon
  <2> QED
    BY <1>5, <2>1, Zenon DEF TLBCoherent
<1> QED
  BY <1>1, <1>3, <1>4, <1>5

\* Walks, and with them the boot tables and a coherent cache, survive a step
\* that leaves memory and CR3 alone.
LEMMA FrameWalks ==
  ASSUME PagingInv, mem' = mem, cr3' = cr3
  PROVE  /\ \A u : Walk(mem', cr3', u) = Walk(mem, cr3, u)
         /\ pc # "start" => BootTables'
         /\ tlb' = tlb => TLBCoherent'
BY DEF PagingInv, BootTables, TLBCoherent, Walk

\* Pages in use are pages.
LEMMA InUsePages ==
  ASSUME KernelFits
  PROVE  InUse \subseteq Pages /\ InUse \intersect KmallocPages = {}
<1>1. ImagePages \subseteq Pages /\ ImagePages \intersect KmallocPages = {}
  BY LayoutTypes
<1>2. VgaPage \in Pages /\ VgaPage \notin KmallocPages
  BY LayoutTypes, Layout, BaseIndex
<1> QED
  BY <1>1, <1>2 DEF InUse

-----------------------------------------------------------------------------
(***************************************************************************)
(* The actions that call page_map.                                         *)
(***************************************************************************)

\* The moves of pc over the calls of page_map.
MapMoves ==
  {<<"low", "low">>, <<"high", "high">>, <<"modlist_map", "module">>,
   <<"module_map", "root">>, <<"range", "range">>}

\* Mapping v to f makes no cached translation stale: nothing of the directory
\* is cached yet, or nobody touched v, or v leads to f already.
Untouched(v, f) ==
  kernelPagingEnabled => v \in Pending \/ NewWalk(v) = f \/ v \notin KernelPages \union {VgaPage}

\* What the stages of MapMoves have in common.
LEMMA MapStages ==
  ASSUME <<pc, pc'>> \in MapMoves, UNCHANGED modules
  PROVE  /\ pc \notin Early /\ pc' \notin Early /\ pc # "start" /\ pc' # "start" /\ pc' # "reverse"
         /\ pc' \in Early \union {"report", "low", "high"} \union Later
         /\ pc' \notin {"start", "kmain"} /\ pc \notin {"start", "kmain"}
         /\ pc \in Later <=> pc' \in Later
         /\ pc \in Loaded \union {"module_map"} <=> pc' \in Loaded \union {"module_map"}
         /\ Given' = Given /\ Pending' \subseteq Pending /\ Pending \subseteq Given
<1>1. \/ pc = "low" /\ pc' = "low"
      \/ pc = "high" /\ pc' = "high"
      \/ pc = "modlist_map" /\ pc' = "module"
      \/ pc = "module_map" /\ pc' = "root"
      \/ pc = "range" /\ pc' = "range"
  BY DEF MapMoves
<1> QED
  BY <1>1 DEF Early, Later, Listed, Loaded, Given, Pending, modules

\* The cached pages after a page_map are in use, or heap pages handed out that
\* are not waiting for their own page_map.
LEMMA MapCache ==
  ASSUME KernelFits, PagingInv, ~panicked, <<pc, pc'>> \in MapMoves, UNCHANGED <<directory, modules>>,
         NEW pt, UsedAfter(pt), pt \notin Given, UsedKept,
         Touch(InUse \union {pageDirectory, ptPhysToVirt, pt})
  PROVE  /\ DOMAIN tlb' \subseteq Pages /\ \A u \in DOMAIN tlb' : tlb'[u] \in Pages
         /\ kernelPagingEnabled =>
              \A u \in DOMAIN tlb' : u \in InUse \/ (UsedAfter(u) /\ u \notin Pending)
         /\ (\A u \in DOMAIN tlb' : Walk(mem', cr3', u) = Walk(mem, cr3, u)) => TLBCoherent'
<1>1. /\ pc \notin Early /\ pc # "start" /\ Pending \subseteq Given
  BY MapStages DEF modules
<1>2. /\ Used(pageDirectory) /\ Used(ptPhysToVirt)
      /\ pageDirectory \notin Given /\ ptPhysToVirt \notin Given
  BY <1>1 DEF PagingInv, Tables
<1>3. pageDirectory \in Pages /\ ptPhysToVirt \in Pages /\ pt \in Pages
  BY LayoutTypes DEF PagingInv, PagingTypeOK, UsedAfter
<1>4. PICK vs : vs = InUse \union {pageDirectory, ptPhysToVirt, pt}
  OBVIOUS
<1>5. vs \in SUBSET Pages
  BY <1>3, <1>4, InUsePages
<1>6. /\ DOMAIN tlb' \subseteq Pages /\ \A u \in DOMAIN tlb' : tlb'[u] \in Pages
      /\ \A u \in DOMAIN tlb' : u \in DOMAIN tlb \/ u \in vs
      /\ (\A u \in DOMAIN tlb' : Walk(mem', cr3', u) = Walk(mem, cr3, u)) => TLBCoherent'
  BY <1>1, <1>4, <1>5, TouchStep
<1>7. ASSUME kernelPagingEnabled, NEW u \in DOMAIN tlb'
      PROVE  u \in InUse \/ (UsedAfter(u) /\ u \notin Pending)
  <2>1. CASE u \in DOMAIN tlb
    BY <1>7, <2>1 DEF PagingInv, Cache, UsedKept
  <2>2. CASE u \in vs
    BY <1>1, <1>2, <1>4, <2>2 DEF UsedKept
  <2> QED
    BY <1>6, <2>1, <2>2
<1> QED
  BY <1>6, <1>7

\* Every action around page_map keeps the invariant, but for the part Mapping,
\* which depends on the caller's loop.
LEMMA MapStep ==
  ASSUME KernelFits, PagingInv, ~panicked, <<pc, pc'>> \in MapMoves, UNCHANGED <<directory, modules>>,
         NEW virt, NEW phys, NEW perm \in SUBSET Flags, page_map(virt, phys, perm),
         NEW v \in Pages, v = virt \div PAGE_SIZE, NEW f \in Pages, f = phys \div PAGE_SIZE,
         Untouched(v, f)
  PROVE  /\ AllocInv' /\ PagingTypeOK' /\ StageOK' /\ BootTables'
         /\ Tables' /\ Cache' /\ TLBCoherent'
         /\ \A u \in Pages \ {v} : Walk(mem', cr3', u) = Walk(mem, cr3, u)
         /\ ~kernelPagingEnabled => Walk(mem', cr3', v) = Walk(mem, cr3, v)
         /\ panicked' \in BOOLEAN
         /\ panicked' => mem' = mem
         /\ ~panicked' => /\ WalkAfter(v) = f /\ OthersKept(v)
                          /\ virt % PAGE_SIZE = 0 /\ phys % PAGE_SIZE = 0
<1>1. UNCHANGED directory /\ UNCHANGED modules
  OBVIOUS
<1>2. /\ pc \notin Early /\ pc' \notin Early /\ pc # "start" /\ pc' # "start" /\ pc' # "reverse"
      /\ pc' \in Early \union {"report", "low", "high"} \union Later
      /\ pc' \notin {"start", "kmain"} /\ pc \notin {"start", "kmain"}
      /\ pc \in Later <=> pc' \in Later
      /\ pc \in Loaded \union {"module_map"} <=> pc' \in Loaded \union {"module_map"}
      /\ Given' = Given /\ Pending' \subseteq Pending /\ Pending \subseteq Given
  BY <1>1, MapStages
<1>3. /\ AllocInv' /\ panicked' \in BOOLEAN /\ initialized'
      /\ panicked' => mem' = mem /\ tlb' = tlb
      /\ ~panicked' => Mapped(v, f) /\ virt % PAGE_SIZE = 0 /\ phys % PAGE_SIZE = 0
  BY <1>1, <1>2, PageMapStep
<1>4. /\ cr3' = cr3 /\ pageDirectory' = pageDirectory /\ ptPhysToVirt' = ptPhysToVirt
      /\ kernelPagingEnabled' = kernelPagingEnabled /\ loader' = loader
      /\ new_location' = new_location /\ mod_new_addr' = mod_new_addr
  BY <1>1 DEF directory, modules
<1>5. StageOK'
  <2>1. StageOK
    BY DEF PagingInv
  <2> QED
    BY <1>2, <1>3, <1>4, <2>1 DEF StageOK
<1>6. CASE panicked'
  <2>1. mem' = mem /\ tlb' = tlb
    BY <1>3, <1>6
  <2>2. PagingTypeOK'
    BY <1>4, <2>1 DEF PagingInv, PagingTypeOK
  <2>3. BootTables' /\ TLBCoherent' /\ \A u : Walk(mem', cr3', u) = Walk(mem, cr3, u)
    BY <1>2, <1>4, <2>1, FrameWalks
  <2>4. Tables' /\ Cache'
    BY <1>6 DEF Tables, Cache
  <2> QED
    BY <1>3, <1>5, <1>6, <2>1, <2>2, <2>3, <2>4
<1>7. CASE ~panicked'
  <2>1. Mapped(v, f)
    BY <1>3, <1>7
  <2>2. PICK pt : /\ UsedAfter(pt) /\ pt \notin Given
                  /\ Touch(InUse \union {pageDirectory, ptPhysToVirt, pt})
    BY <2>1 DEF Mapped, TableTouched
  <2>3. /\ DOMAIN tlb' \subseteq Pages /\ \A u \in DOMAIN tlb' : tlb'[u] \in Pages
        /\ kernelPagingEnabled =>
             \A u \in DOMAIN tlb' : u \in InUse \/ (UsedAfter(u) /\ u \notin Pending)
        /\ (\A u \in DOMAIN tlb' : Walk(mem', cr3', u) = Walk(mem, cr3, u)) => TLBCoherent'
    BY <1>1, <2>1, <2>2, MapCache DEF Mapped
  <2>4. PagingTypeOK'
    BY <1>4, <2>1, <2>3 DEF PagingInv, PagingTypeOK, Mapped, Memories
  <2>5. BootTables'
    BY <1>2, <2>1 DEF PagingInv, BootTables, Mapped, BootKept, BootFrames
  <2>6. /\ \A u \in Pages \ {v} : Walk(mem', cr3', u) = Walk(mem, cr3, u)
        /\ ~kernelPagingEnabled => Walk(mem', cr3', v) = Walk(mem, cr3, v)
    <3>1. CASE ~kernelPagingEnabled
      <4>1. cr3 = page_directory /\ BootTables
        BY <1>2, <3>1, BootTranslate DEF PagingInv
      <4>2. \A u \in Pages : Walk(mem', page_directory, u) = Walk(mem, page_directory, u)
        BY <1>2, <2>1, <4>1, BootWalkSame DEF Mapped, BootKept
      <4> QED
        BY <1>4, <4>1, <4>2
    <3>2. CASE kernelPagingEnabled
      <4>1. cr3 = pageDirectory - KernelBase
        BY <3>2, Stages
      <4> QED
        BY <1>4, <2>1, <3>2, <4>1 DEF Mapped, OthersKept, WalkAfter, NewWalk
    <3> QED
      BY <3>1, <3>2, Stages
  <2>7. \A u \in DOMAIN tlb' : Walk(mem', cr3', u) = Walk(mem, cr3, u)
    <3>1. SUFFICES ASSUME kernelPagingEnabled, v \in DOMAIN tlb'
                   PROVE  Walk(mem', cr3', v) = Walk(mem, cr3, v)
      BY <2>3, <2>6, Stages
    <3>2. v \in InUse \/ (UsedAfter(v) /\ v \notin Pending)
      BY <2>3, <3>1
    <3>3. v \in KernelPages \union {VgaPage} /\ v \notin Pending
      <4>1. CASE v \in InUse
        <5>1. v \in KernelPages \union {VgaPage} /\ v \notin KmallocPages
          BY <4>1, InUsePages, LayoutTypes DEF InUse
        <5>2. \A p \in Given : p \in KmallocPages
          BY <1>2, UsedPage DEF PagingInv, Tables
        <5> QED
          BY <1>2, <5>1, <5>2
      <4>2. CASE UsedAfter(v) /\ v \notin Pending
        BY <4>2, LayoutTypes DEF UsedAfter
      <4> QED
        BY <3>2, <4>1, <4>2
    <3>4. NewWalk(v) = f
      BY <3>1, <3>3 DEF Untouched
    <3>5. cr3 = pageDirectory - KernelBase
      BY <3>1, Stages
    <3> QED
      BY <1>4, <2>1, <3>4, <3>5 DEF Mapped, WalkAfter, NewWalk
  <2>8. TLBCoherent'
    BY <2>3, <2>7
  <2>9. Cache'
    <3>1. \A u : Used(u)' <=> UsedAfter(u)
      BY DEF Used, UsedAfter
    <3>2. ASSUME kernelPagingEnabled, NEW u \in DOMAIN tlb'
          PROVE  u \in InUse \/ (Used(u)' /\ u \notin Pending')
      BY <1>2, <2>3, <3>1, <3>2
    <3> QED
      BY <1>4, <3>2, Zenon DEF Cache, InUse, ImagePages, VgaPage, KERNEL_START, EarlyEnd, KernelBase
  <2>10. Tables'
    <3>1. \A u : Used(u)' <=> UsedAfter(u)
      BY DEF Used, UsedAfter
    <3>2. /\ Used(pageDirectory) /\ Used(ptPhysToVirt) /\ pageDirectory # ptPhysToVirt
          /\ \A p \in Given : Used(p) /\ p \notin {pageDirectory, ptPhysToVirt}
          /\ pc \in Loaded \union {"module_map"} => new_location # mod_new_addr
      BY <1>2 DEF PagingInv, Tables
    <3>3. UsedKept /\ EntriesKept /\ EntriesApart
      BY <2>1 DEF Mapped
    <3>4. /\ Used(pageDirectory)' /\ Used(ptPhysToVirt)' /\ pageDirectory' # ptPhysToVirt'
          /\ \A p \in Given' : Used(p)' /\ p \notin {pageDirectory', ptPhysToVirt'}
          /\ pc' \in Loaded \union {"module_map"} => new_location' # mod_new_addr'
      BY <1>2, <1>4, <3>2, <3>3, Zenon DEF Used, UsedAfter, UsedKept
    <3>5. \A i \in Entries :
            IF "P" \in Dir'[i].flags
            THEN /\ Used(Rev[i].page)'
                 /\ Rev'[i].page \notin {pageDirectory', ptPhysToVirt'} \union Given'
                 /\ Dir'[i].page = Rev'[i].page - KernelBase
            ELSE Rev'[i].page = 0
      BY <1>2, <1>4, <3>3, Zenon DEF Used, UsedAfter, EntriesKept
    <3> QED
      BY <1>2, <3>3, <3>4, <3>5, Zenon DEF Tables, EntriesApart
  <2> QED
    BY <1>3, <1>5, <1>7, <2>1, <2>4, <2>5, <2>6, <2>8, <2>9, <2>10 DEF Mapped
<1> QED
  BY <1>3, <1>6, <1>7

\* A step into a panic that leaves the tables alone keeps the invariant.
LEMMA PanickedStep ==
  ASSUME KernelFits, PagingInv, AllocInv', panicked', mem' = mem, tlb' = tlb,
         UNCHANGED <<directory, loader>>, new_location' \in Pages, mod_new_addr' \in Pages,
         pc # "start", pc' \in {"directory", "reverse", "report", "low", "high"} \union Later,
         initialized', kernelPagingEnabled => pc' \in Later
  PROVE  PagingInv'
<1>1. /\ cr3' = cr3 /\ pageDirectory' = pageDirectory /\ ptPhysToVirt' = ptPhysToVirt
      /\ kernelPagingEnabled' = kernelPagingEnabled /\ loader' = loader
  BY DEF directory
<1>2. PagingTypeOK'
  BY <1>1 DEF PagingInv, PagingTypeOK
<1>3. pc' \notin {"start", "kmain"} /\ pc' \in Early \union {"report", "low", "high"} \union Later
  BY DEF Early, Later, Listed
<1>4. StageOK'
  BY <1>1, <1>3 DEF PagingInv, StageOK
<1>5. BootTables' /\ TLBCoherent'
  BY <1>1, FrameWalks
<1>6. Tables' /\ Mapping' /\ Cache'
  BY DEF Tables, Mapping, Cache
<1> QED
  BY <1>2, <1>4, <1>5, <1>6 DEF PagingInv

\* Pages of the first megabyte.
LEMMA LowPage ==
  ASSUME KernelFits, NEW u \in LowPages
  PROVE  u \in Nat /\ u \in Pages /\ u \notin KernelPages /\ u \in 0 .. EarlyEnd - 1
<1>1. u \in Nat /\ u < LOW_PAGES
  BY BaseIndex, SMT DEF LowPages
<1>2. u \in 0 .. PAGE_ENTRIES - 1
  BY <1>1, BaseIndex, SMT
<1> QED
  BY <1>1, <1>2, LayoutTypes

\* The first loop of init_paging: the first megabyte, page by page.
LEMMA LowStep ==
  ASSUME KernelFits, PagingInv, init_paging_low
  PROVE  /\ PagingInv' /\ UNCHANGED <<directory, modules>> /\ pc' = pc
         /\ \A u \in Pages : Walk(mem', cr3', u) = Walk(mem, cr3, u)
<1>1. /\ pc = "low" /\ pc' = "low" /\ ~panicked /\ next < limit
      /\ page_map(next, next - 0, {"RW"}) /\ next' = next + PAGE_SIZE
      /\ UNCHANGED <<directory, modules>> /\ limit' = limit
  BY DEF init_paging_low, MapNext, Goto
<1>2. /\ next \in Nat /\ next % PAGE_SIZE = 0 /\ limit = LOW_PAGES * PAGE_SIZE
      /\ \A u \in LowPages : u * PAGE_SIZE < next => NewWalk(u) = u
  BY <1>1 DEF PagingInv, Mapping
<1>3. PICK v : v = next \div PAGE_SIZE
  OBVIOUS
<1>4. v \in Nat /\ next = v * PAGE_SIZE
  BY <1>2, <1>3, AlignedAddress
<1>5. v < LOW_PAGES /\ v \in LowPages /\ v \in Pages
  <2>1. LOW_PAGES \in Nat
    BY BaseIndex
  <2>2. v < LOW_PAGES
    BY <1>1, <1>2, <1>4, <2>1, AddressOrder
  <2>3. v \in 0 .. LOW_PAGES - 1
    BY <1>4, <2>1, <2>2, SMT
  <2>4. v \in 0 .. PAGE_ENTRIES - 1
    BY <1>4, <2>1, <2>2, BaseIndex, SMT
  <2> QED
    BY <2>2, <2>3, <2>4, LayoutTypes DEF LowPages
<1>6. <<pc, pc'>> \in MapMoves /\ ~kernelPagingEnabled /\ Untouched(v, v)
  BY <1>1, Stages DEF MapMoves, Later, Listed, Untouched
<1>7. next - 0 = next
  BY <1>2, SMT
<1>8. PICK a : a = next
  OBVIOUS
<1>9. page_map(a, a, {"RW"}) /\ v = a \div PAGE_SIZE /\ {"RW"} \in SUBSET Flags
  BY <1>1, <1>3, <1>7, <1>8 DEF Flags
<1>10. /\ AllocInv' /\ PagingTypeOK' /\ StageOK' /\ BootTables'
       /\ Tables' /\ Cache' /\ TLBCoherent'
       /\ \A u \in Pages \ {v} : Walk(mem', cr3', u) = Walk(mem, cr3, u)
       /\ ~kernelPagingEnabled => Walk(mem', cr3', v) = Walk(mem, cr3, v)
       /\ panicked' \in BOOLEAN
       /\ ~panicked' => WalkAfter(v) = v /\ OthersKept(v)
  BY <1>1, <1>5, <1>6, <1>9, MapStep, Zenon
<1>11. Mapping'
  <2>1. SUFFICES ASSUME ~panicked' PROVE Mapping'
    BY DEF Mapping
  <2>2. \A u : NewWalk(u)' = WalkAfter(u)
    BY <1>1 DEF NewWalk, WalkAfter, directory
  <2>3. v + 1 \in Nat /\ next' = (v + 1) * PAGE_SIZE
    BY <1>1, <1>4, AddressOrder, SMT
  <2>4. next' \in Nat /\ next' % PAGE_SIZE = 0
    BY <2>3, AddressOfPage
  <2>5. ASSUME NEW u \in LowPages, u * PAGE_SIZE < next' PROVE NewWalk(u)' = u
    <3>1. u \in Nat /\ u \in Pages
      BY LowPage
    <3>2. u < v + 1
      BY <2>3, <2>5, <3>1, AddressOrder
    <3>3. CASE u = v
      BY <1>10, <2>1, <2>2, <3>3
    <3>4. CASE u # v
      <4>1. u < v
        BY <1>4, <3>1, <3>2, <3>4, SMT
      <4>2. u * PAGE_SIZE < next
        BY <1>4, <3>1, <4>1, AddressOrder
      <4> QED
        BY <1>2, <1>10, <2>1, <2>2, <3>1, <3>4, <4>2 DEF OthersKept
    <3> QED
      BY <3>3, <3>4
  <2> QED
    BY <1>1, <1>2, <2>4, <2>5 DEF Mapping, Later, Listed, Loaded
<1>12. \A u \in Pages : Walk(mem', cr3', u) = Walk(mem, cr3, u)
  BY <1>6, <1>10
<1> QED
  BY <1>1, <1>10, <1>11, <1>12 DEF PagingInv

\* The second loop of init_paging: the kernel, page by page.
LEMMA HighStep ==
  ASSUME KernelFits, PagingInv, init_paging_high
  PROVE  /\ PagingInv' /\ UNCHANGED <<directory, modules>> /\ pc' = pc
         /\ \A u \in Pages : Walk(mem', cr3', u) = Walk(mem, cr3, u)
<1>1. /\ pc = "high" /\ pc' = "high" /\ ~panicked /\ next < limit
      /\ page_map(next, next - KernelBase * PAGE_SIZE, {"RW"}) /\ next' = next + PAGE_SIZE
      /\ UNCHANGED <<directory, modules>> /\ limit' = limit
  BY DEF init_paging_high, MapNext, Goto
<1>2. /\ next \in Nat /\ next % PAGE_SIZE = 0 /\ limit = KERNEL_END * PAGE_SIZE
      /\ next >= KERNEL_START * PAGE_SIZE
      /\ \A u \in LowPages : NewWalk(u) = u
      /\ \A u \in KernelPages : u * PAGE_SIZE < next => NewWalk(u) = u - KernelBase
  BY <1>1 DEF PagingInv, Mapping
<1>3. PICK v : v = next \div PAGE_SIZE
  OBVIOUS
<1>4. v \in Nat /\ next = v * PAGE_SIZE
  BY <1>2, <1>3, AlignedAddress
<1>5. v \in KernelPages /\ v \in Pages
  <2>1. KERNEL_END \in Nat /\ KERNEL_START \in Nat
    BY Layout, BaseIndex
  <2>2. v < KERNEL_END
    BY <1>1, <1>2, <1>4, <2>1, AddressOrder
  <2>3. KERNEL_START <= v
    <3>1. KERNEL_START * PAGE_SIZE <= v * PAGE_SIZE
      BY <1>2, <1>4, <2>1, AddressOrder, SMT
    <3> QED
      BY <1>4, <2>1, <3>1, AddressOrder
  <2>4. v \in KERNEL_START .. KERNEL_END - 1
    BY <1>4, <2>1, <2>2, <2>3, SMT
  <2> QED
    BY <2>4, Layout, LayoutTypes
<1>6. PICK f : f = v - KernelBase
  OBVIOUS
<1>7. f \in Nat /\ f \in Pages
  <2>1. f \in 0 .. PAGE_ENTRIES - 1
    BY <1>5, <1>6, Layout, BaseIndex, SMT
  <2> QED
    BY <2>1, LayoutTypes
<1>8. <<pc, pc'>> \in MapMoves /\ ~kernelPagingEnabled /\ Untouched(v, f)
  BY <1>1, Stages DEF MapMoves, Later, Listed, Untouched
<1>9. next - KernelBase * PAGE_SIZE = f * PAGE_SIZE
  <2>1. PAGE_SIZE \in Nat /\ KernelBase \in Nat
    BY AllocAssumption, BaseIndex
  <2> QED
    BY <1>4, <1>6, <2>1, SMT
<1>10. PICK a, b : a = next /\ b = f * PAGE_SIZE
  OBVIOUS
<1>11. /\ page_map(a, b, {"RW"}) /\ v = a \div PAGE_SIZE /\ f = b \div PAGE_SIZE
       /\ {"RW"} \in SUBSET Flags
  BY <1>1, <1>3, <1>7, <1>9, <1>10, AddressOfPage DEF Flags
<1>12. /\ AllocInv' /\ PagingTypeOK' /\ StageOK' /\ BootTables'
       /\ Tables' /\ Cache' /\ TLBCoherent'
       /\ \A u \in Pages \ {v} : Walk(mem', cr3', u) = Walk(mem, cr3, u)
       /\ ~kernelPagingEnabled => Walk(mem', cr3', v) = Walk(mem, cr3, v)
       /\ panicked' \in BOOLEAN
       /\ ~panicked' => WalkAfter(v) = f /\ OthersKept(v)
  BY <1>1, <1>5, <1>7, <1>8, <1>11, MapStep, Zenon
<1>13. Mapping'
  <2>1. SUFFICES ASSUME ~panicked' PROVE Mapping'
    BY DEF Mapping
  <2>2. \A u : NewWalk(u)' = WalkAfter(u)
    BY <1>1 DEF NewWalk, WalkAfter, directory
  <2>3. v + 1 \in Nat /\ next' = (v + 1) * PAGE_SIZE
    BY <1>1, <1>4, AddressOrder, SMT
  <2>4. next' \in Nat /\ next' % PAGE_SIZE = 0
    BY <2>3, AddressOfPage
  <2>5. next' >= KERNEL_START * PAGE_SIZE
    <3>1. PAGE_SIZE \in Nat /\ KERNEL_START * PAGE_SIZE \in Int
      BY AllocAssumption, Layout, BaseIndex, AddressOrder
    <3> QED
      BY <1>1, <1>2, <3>1, SMT
  <2>6. ASSUME NEW u \in LowPages PROVE NewWalk(u)' = u
    <3>1. u \in Pages /\ u # v
      BY <1>5, LowPage
    <3> QED
      BY <1>2, <1>12, <2>1, <2>2, <3>1 DEF OthersKept
  <2>7. ASSUME NEW u \in KernelPages, u * PAGE_SIZE < next' PROVE NewWalk(u)' = u - KernelBase
    <3>1. u \in Int /\ u \in Pages
      BY LayoutTypes, Layout
    <3>2. u < v + 1
      BY <2>3, <2>7, <3>1, AddressOrder
    <3>3. CASE u = v
      BY <1>6, <1>12, <2>1, <2>2, <3>3
    <3>4. CASE u # v
      <4>1. u < v
        BY <1>4, <3>1, <3>2, <3>4, SMT
      <4>2. u * PAGE_SIZE < next
        BY <1>4, <3>1, <4>1, AddressOrder
      <4> QED
        BY <1>2, <1>12, <2>1, <2>2, <3>1, <3>4, <4>2 DEF OthersKept
    <3> QED
      BY <3>3, <3>4
  <2> QED
    BY <1>1, <1>2, <2>4, <2>5, <2>6, <2>7 DEF Mapping, Later, Listed, Loaded
<1>14. \A u \in Pages : Walk(mem', cr3', u) = Walk(mem, cr3, u)
  BY <1>8, <1>12
<1> QED
  BY <1>1, <1>12, <1>13, <1>14 DEF PagingInv

\* The pages that kmain took for the module list and the module.
LEMMA GivenPages ==
  ASSUME KernelFits, PagingInv, ~panicked, pc \notin Early, NEW p \in Given
  PROVE  /\ Used(p) /\ p \in KmallocPages /\ p \in KernelPages /\ p \in Pages /\ p \in Nat
         /\ p \notin LowPages /\ p \notin ImagePages
         /\ p * PAGE_SIZE \in Nat /\ (p * PAGE_SIZE) \div PAGE_SIZE = p
<1>1. Used(p)
  BY DEF PagingInv, Tables
<1>2. p \in KmallocPages /\ p \in KernelPages /\ p \in Pages /\ p \notin LowPages /\ p \notin ImagePages
  BY <1>1, UsedPage, LowPage, LayoutTypes
<1>3. p \in Nat
  BY <1>2, Layout, BaseIndex
<1> QED
  BY <1>1, <1>2, <1>3, AddressOfPage

\* A step that changes the walk of one page at most, and of none of the first
\* megabyte or the image.
OneWalkChanges ==
  \E v \in Pages :
    /\ \A u \in Pages \ {v} : Walk(mem', cr3', u) = Walk(mem, cr3, u)
    /\ v \in LowPages \union ImagePages => Walk(mem', cr3', v) = Walk(mem, cr3, v)

\* A step that changes no walk.
WalksKept == \A u \in Pages : Walk(mem', cr3', u) = Walk(mem, cr3, u)

\* In particular a step that changes none.
LEMMA KeptIsOne ==
  ASSUME KernelFits, WalksKept
  PROVE  OneWalkChanges
<1>1. 0 \in Pages
  BY LayoutTypes, BaseIndex
<1> QED
  BY <1>1, Zenon DEF OneWalkChanges, WalksKept

\* What kmain maps after the switch: a page it took to a frame of the loader.
LEMMA GivenStep ==
  ASSUME KernelFits, PagingInv, ~panicked, UNCHANGED <<directory, modules>>,
         <<pc, pc'>> \in {<<"modlist_map", "module">>, <<"module_map", "root">>},
         NEW p, p = IF pc = "modlist_map" THEN new_location ELSE mod_new_addr,
         NEW a, a = IF pc = "modlist_map" THEN loader.mods_addr ELSE loader.mod_start,
         page_map(p * PAGE_SIZE, a, {"RW"})
  PROVE  PagingInv' /\ OneWalkChanges
<1>1. /\ pc \in {"modlist_map", "module_map"} /\ pc' \in {"module", "root"}
      /\ pc = "modlist_map" <=> pc' = "module"
      /\ <<pc, pc'>> \in MapMoves
  BY DEF MapMoves
<1>2. /\ pc \notin Early /\ pc \in Later /\ pc' \in Later /\ pc' \in Listed /\ pc' \notin {"low", "high", "range"}
  BY <1>1 DEF Early, Later, Listed
<1>3. p \in Given /\ p \in Pending
  BY <1>1 DEF Given, Pending, Later, Listed, Loaded
<1>4. /\ p \in KernelPages /\ p \in Pages /\ p \notin LowPages /\ p \notin ImagePages
      /\ p * PAGE_SIZE \in Nat /\ (p * PAGE_SIZE) \div PAGE_SIZE = p
  BY <1>2, <1>3, GivenPages
<1>5. loader \in Loaders /\ a \in 0 .. WORD - 1
  <2>1. loader \in Loaders
    BY DEF PagingInv, StageOK
  <2>2. LoaderOK(loader)
    BY <2>1, PagingAssumption
  <2> QED
    BY <2>1, <2>2 DEF LoaderOK
<1>6. PICK f : f = a \div PAGE_SIZE
  OBVIOUS
<1>7. f \in Pages
  BY <1>5, <1>6, PageOfAddress
<1>8. Untouched(p, f) /\ {"RW"} \in SUBSET Flags
  BY <1>3 DEF Untouched, Flags
<1>9. PICK virt : virt = p * PAGE_SIZE
  OBVIOUS
<1>10. /\ AllocInv' /\ PagingTypeOK' /\ StageOK' /\ BootTables'
       /\ Tables' /\ Cache' /\ TLBCoherent'
       /\ \A u \in Pages \ {p} : Walk(mem', cr3', u) = Walk(mem, cr3, u)
       /\ panicked' \in BOOLEAN
       /\ ~panicked' => WalkAfter(p) = f /\ OthersKept(p) /\ a % PAGE_SIZE = 0
  <2>1. page_map(virt, a, {"RW"}) /\ p = virt \div PAGE_SIZE
    BY <1>4, <1>9
  <2> QED
    BY <1>1, <1>4, <1>6, <1>7, <1>8, <2>1, MapStep, Zenon
<1>11. Mapping'
  <2>1. SUFFICES ASSUME ~panicked' PROVE Mapping'
    BY DEF Mapping
  <2>2. /\ \A u : NewWalk(u)' = WalkAfter(u)
        /\ new_location' = new_location /\ mod_new_addr' = mod_new_addr /\ loader' = loader
    BY <1>1 DEF NewWalk, WalkAfter, directory, modules
  <2>3. Given' = Given
    BY <1>1, MapStages
  <2>4. \A u \in Pages : u # p => NewWalk(u)' = NewWalk(u)
    BY <1>10, <2>1, <2>2 DEF OthersKept
  <2>5. NewWalk(p)' * PAGE_SIZE = a
    <3>1. f * PAGE_SIZE = a
      <4>1. a \in Nat
        BY <1>5, AllocAssumption, SMT
      <4> QED
        BY <1>6, <1>10, <2>1, <4>1, AlignedAddress
    <3> QED
      BY <1>10, <2>1, <2>2, <3>1
  <2>6. \A u \in LowPages : NewWalk(u)' = u
    <3>1. \A u \in LowPages : NewWalk(u) = u
      BY <1>2 DEF PagingInv, Mapping
    <3> QED
      BY <1>4, <2>4, <3>1, LowPage
  <2>7. \A u \in KernelPages \ Given' : NewWalk(u)' = u - KernelBase
    <3>1. \A u \in KernelPages \ Given : NewWalk(u) = u - KernelBase
      BY <1>2 DEF PagingInv, Mapping
    <3> QED
      BY <1>3, <2>3, <2>4, <3>1, LayoutTypes
  <2>8. CASE pc = "modlist_map"
    <3>1. NewWalk(new_location)' * PAGE_SIZE = loader'.mods_addr
      <4>1. NewWalk(new_location)' = WalkAfter(new_location)
        BY <2>2 DEF NewWalk, WalkAfter, directory
      <4> QED
        BY <2>2, <2>5, <2>8, <4>1
    <3>2. pc' \notin Loaded
      BY <1>1, <2>8 DEF Loaded
    <3> QED
      BY <1>2, <2>6, <2>7, <3>1, <3>2 DEF Mapping
  <2>9. CASE pc = "module_map"
    <3>1. pc \in Listed /\ new_location \in Pages /\ new_location # p
      BY <2>9 DEF PagingInv, Tables, PagingTypeOK, Listed, Loaded, Early
    <3>2. NewWalk(new_location)' * PAGE_SIZE = loader'.mods_addr
      <4>1. NewWalk(new_location) * PAGE_SIZE = loader.mods_addr
        BY <3>1 DEF PagingInv, Mapping
      <4>2. NewWalk(new_location)' = WalkAfter(new_location)
        BY <2>2 DEF NewWalk, WalkAfter, directory
      <4> QED
        BY <2>2, <2>4, <3>1, <4>1, <4>2
    <3>3. NewWalk(mod_new_addr)' * PAGE_SIZE = loader'.mod_start
      <4>1. NewWalk(mod_new_addr)' = WalkAfter(mod_new_addr)
        BY <2>2 DEF NewWalk, WalkAfter, directory
      <4> QED
        BY <2>2, <2>5, <2>9, <4>1
    <3> QED
      BY <1>2, <2>6, <2>7, <3>2, <3>3 DEF Mapping
  <2> QED
    BY <1>1, <2>8, <2>9
<1>12. OneWalkChanges
  BY <1>4, <1>10 DEF OneWalkChanges
<1> QED
  BY <1>10, <1>11, <1>12 DEF PagingInv

\* Rounding up a 32-bit address: to a 32-bit address, not past a page boundary
\* that it does not exceed, and, unless it wraps, not below it.
LEMMA RoundUp ==
  ASSUME NEW a \in 0 .. WORD - 1
  PROVE  /\ PageUp(a) \in 0 .. WORD - 1
         /\ \A k \in Nat : a <= k * PAGE_SIZE /\ k * PAGE_SIZE < WORD => PageUp(a) <= k * PAGE_SIZE
         /\ a <= WORD - PAGE_SIZE => a <= PageUp(a) /\ PageUp(a) % PAGE_SIZE = 0
<1>0. WORD \in Nat /\ PAGE_SIZE \in Nat \ {0} /\ a \in Nat /\ a < WORD /\ PAGE_SIZE < WORD
  BY AllocAssumption, SMT
<1>1. CASE a % PAGE_SIZE = 0
  <2>1. PageUp(a) = a
    BY <1>1 DEF PageUp
  <2> QED
    BY <1>0, <1>1, <2>1
<1>2. CASE a % PAGE_SIZE # 0
  <2> DEFINE q == a \div PAGE_SIZE
             r == a % PAGE_SIZE
             up == a - r + PAGE_SIZE
  <2>1. /\ q \in Nat /\ r \in 1 .. PAGE_SIZE - 1 /\ r <= a /\ a = PAGE_SIZE * q + r
        /\ PageUp(a) = up % WORD /\ up % PAGE_SIZE = 0
    <3>1. r \in 0 .. PAGE_SIZE - 1 /\ r <= a /\ a = PAGE_SIZE * q + r
      BY <1>0, PageOffset
    <3>2. r \in 1 .. PAGE_SIZE - 1
      <4> HIDE DEF q, r
      <4>1. r # 0
        BY <1>2 DEF r
      <4> QED
        BY <1>0, <3>1, <4>1, SMT
    <3>3. PageUp(a) = up % WORD
      BY <1>2 DEF PageUp
    <3>4. q \in Nat
      BY <1>0, PageIsNat
    <3>5. up % PAGE_SIZE = 0
      BY <1>0, NextPageAligned
    <3> QED
      BY <3>1, <3>2, <3>3, <3>4, <3>5
  <2>2. up \in Nat /\ up = (q + 1) * PAGE_SIZE /\ a < up
    <3>1. (q + 1) * PAGE_SIZE = q * PAGE_SIZE + PAGE_SIZE /\ q * PAGE_SIZE = PAGE_SIZE * q
      <4> HIDE DEF q, r
      <4> QED
        BY <1>0, <2>1, SMT
    <3>2. PAGE_SIZE * q \in Nat
      <4> HIDE DEF q, r
      <4> QED
        BY <1>0, <2>1, SMT
    <3>3. up = PAGE_SIZE * q + PAGE_SIZE /\ up \in Nat /\ a < up
      <4> HIDE DEF q, r
      <4> QED
        BY <1>0, <2>1, <3>2, SMT
    <3> QED
      BY <3>1, <3>3
  <2> HIDE DEF q, r, up
  <2>3. PageUp(a) \in 0 .. WORD - 1
    BY <1>0, <2>1, <2>2, SMT
  <2>4. ASSUME NEW k \in Nat, a <= k * PAGE_SIZE, k * PAGE_SIZE < WORD
        PROVE  PageUp(a) <= k * PAGE_SIZE
    <3>1. q < k
      <4>1. k * PAGE_SIZE \in Nat /\ q * PAGE_SIZE < a
        BY <1>0, <2>1, AddressOfPage, SMT
      <4>2. q * PAGE_SIZE < k * PAGE_SIZE
        BY <1>0, <2>1, <2>4, <4>1, AddressOfPage, SMT
      <4> QED
        BY <2>1, <4>2, AddressOrder
    <3>2. up <= k * PAGE_SIZE
      <4>1. q + 1 <= k /\ q + 1 \in Int
        BY <2>1, <3>1, SMT
      <4> QED
        BY <2>2, <4>1, AddressOrder
    <3>3. up < WORD
      BY <1>0, <2>2, <2>4, <3>2, AddressOfPage, SMT
    <3> QED
      BY <1>0, <2>1, <2>2, <3>2, <3>3, NoWrap
  <2>5. ASSUME a <= WORD - PAGE_SIZE
        PROVE  a <= PageUp(a) /\ PageUp(a) % PAGE_SIZE = 0
    <3>1. PICK n \in Nat : WORD = n * PAGE_SIZE
      <4>1. PAGE_ENTRIES * PAGE_ENTRIES \in Nat /\ WORD = (PAGE_ENTRIES * PAGE_ENTRIES) * PAGE_SIZE
        BY BaseIndex, PagingAssumption
      <4> QED
        BY <4>1
    <3>2. n - 1 \in Int /\ WORD - PAGE_SIZE = (n - 1) * PAGE_SIZE
      BY <1>0, <3>1, SMT
    <3>3. up < WORD
      <4>1. q * PAGE_SIZE < a
        BY <1>0, <2>1, AddressOfPage, SMT
      <4>2. q * PAGE_SIZE < (n - 1) * PAGE_SIZE
        BY <1>0, <2>1, <2>5, <3>2, <4>1, AddressOfPage, SMT
      <4>3. q < n - 1
        BY <2>1, <3>2, <4>2, AddressOrder
      <4>4. q + 1 < n /\ q + 1 \in Int
        BY <2>1, <3>1, <4>3, SMT
      <4> QED
        BY <2>2, <3>1, <4>4, AddressOrder
    <3>4. PageUp(a) = up
      BY <1>0, <2>1, <2>2, <3>3, NoWrap
    <3> QED
      BY <1>0, <2>1, <2>2, <3>4, SMT
  <2> QED
    BY <2>3, <2>4, <2>5
<1> QED
  BY <1>1, <1>2

\* An iteration of page_ident_map_range, outside the kernel.
LEMMA RangeStep ==
  ASSUME KernelFits, RangesApart, PagingInv, page_ident_map_next
  PROVE  PagingInv' /\ OneWalkChanges /\ UNCHANGED <<directory, modules>> /\ pc' = pc
<1>1. PICK perm \in {{}, {"RW"}} : MapNext("range", 0, perm)
  BY DEF page_ident_map_next
<1>2. /\ pc = "range" /\ pc' = "range" /\ ~panicked /\ next < limit
      /\ page_map(next, next - 0, perm) /\ next' = next + PAGE_SIZE
      /\ UNCHANGED <<directory, modules>> /\ limit' = limit /\ range' = range
  BY <1>1 DEF MapNext, Goto
<1>3. /\ range \in Ranges /\ range.start < range.end /\ limit = PageUp(range.end)
      /\ next \in Nat /\ next >= range.start
      /\ next = range.start \/ (next % PAGE_SIZE = 0 /\ range.start % PAGE_SIZE = 0)
      /\ \A p \in Pages : range.start <= p * PAGE_SIZE /\ p * PAGE_SIZE < next => NewWalk(p) = p
      /\ \A u \in LowPages : NewWalk(u) = u
      /\ \A u \in KernelPages \ Given : NewWalk(u) = u - KernelBase
      /\ NewWalk(new_location) * PAGE_SIZE = loader.mods_addr
      /\ NewWalk(mod_new_addr) * PAGE_SIZE = loader.mod_start
  BY <1>2 DEF PagingInv, Mapping, Later, Listed, Loaded
<1>4. PICK start, end : start = range.start /\ end = range.end
  OBVIOUS
<1>5. /\ start \in 0 .. WORD - 1 /\ end \in 0 .. WORD - 1 /\ WORD \in Nat
      /\ end <= KernelBase * PAGE_SIZE \/ start >= KERNEL_END * PAGE_SIZE
  BY <1>3, <1>4, PagingAssumption, AllocAssumption DEF RangesApart
<1>6. PICK v : v = next \div PAGE_SIZE
  OBVIOUS
<1>7. PICK a : a = next
  OBVIOUS
<1>8. a \in 0 .. WORD - 1 /\ a - 0 = a /\ a \in Nat
  <2>1. PageUp(end) \in 0 .. WORD - 1
    BY <1>5, RoundUp
  <2> QED
    BY <1>2, <1>3, <1>4, <1>5, <1>7, <2>1, SMT
<1>9. v \in Pages /\ v \in Nat /\ v = a \div PAGE_SIZE
  BY <1>6, <1>7, <1>8, PageOfAddress, PageIsNat, AllocAssumption
<1>10. v \notin KernelPages
  <2>1. KernelBase \in Nat /\ KERNEL_END \in Nat /\ KERNEL_START >= KernelBase /\ KERNEL_START \in Nat
        /\ KernelPages = KERNEL_START .. KERNEL_END - 1
    BY Layout, BaseIndex
  <2>2. CASE end <= KernelBase * PAGE_SIZE
    <3>1. KernelBase * PAGE_SIZE < WORD
      <4>1. KernelBase * PAGE_SIZE < KERNEL_END * PAGE_SIZE
        <5>1. KernelBase < KERNEL_END
          BY Layout, BaseIndex, SMT
        <5> QED
          BY <2>1, <5>1, AddressOrder
      <4>2. KERNEL_END * PAGE_SIZE = EARLY_KMALLOC_END /\ EARLY_KMALLOC_END < WORD
        <5>1. EARLY_KMALLOC_END < WORD
          BY AllocAssumption, SMT
        <5> QED
          BY <5>1, Layout
      <4> QED
        BY <1>5, <2>1, <4>1, <4>2, AddressOfPage, SMT
    <3>2. PageUp(end) <= KernelBase * PAGE_SIZE /\ PageUp(end) \in 0 .. WORD - 1
      BY <1>5, <2>1, <2>2, <3>1, RoundUp
    <3>3. a < KernelBase * PAGE_SIZE
      BY <1>2, <1>3, <1>4, <1>5, <1>7, <1>8, <2>1, <3>2, AddressOfPage, SMT
    <3>4. v < KernelBase
      BY <1>8, <1>9, <2>1, <3>3, PageBelow
    <3> QED
      BY <1>9, <2>1, <3>4, SMT
  <2>3. CASE start >= KERNEL_END * PAGE_SIZE
    <3>1. KERNEL_END * PAGE_SIZE <= a
      <4>1. a >= start
        BY <1>3, <1>4, <1>7, Zenon
      <4>2. KERNEL_END * PAGE_SIZE \in Nat
        BY <2>1, AddressOfPage
      <4> QED
        BY <1>5, <1>8, <2>3, <4>1, <4>2, SMT
    <3>2. KERNEL_END <= v
      BY <1>8, <1>9, <2>1, <3>1, PageBelow
    <3> QED
      BY <1>9, <2>1, <3>2, SMT
  <2> QED
    BY <1>5, <2>2, <2>3
<1>11. Untouched(v, v)
  <2>1. VgaPage \in LowPages
    BY LayoutTypes
  <2> QED
    BY <1>3, <1>10, <2>1 DEF Untouched
<1>12. <<pc, pc'>> \in MapMoves /\ page_map(a, a, perm) /\ perm \in SUBSET Flags
  BY <1>1, <1>2, <1>7, <1>8 DEF MapMoves, Flags
<1>13. /\ AllocInv' /\ PagingTypeOK' /\ StageOK' /\ BootTables'
       /\ Tables' /\ Cache' /\ TLBCoherent'
       /\ \A u \in Pages \ {v} : Walk(mem', cr3', u) = Walk(mem, cr3, u)
       /\ panicked' \in BOOLEAN /\ panicked' => mem' = mem
       /\ ~panicked' => WalkAfter(v) = v /\ OthersKept(v) /\ a % PAGE_SIZE = 0
  BY <1>2, <1>9, <1>11, <1>12, MapStep, Zenon
<1>14. \A u : NewWalk(u)' = WalkAfter(u)
  BY <1>2 DEF NewWalk, WalkAfter, directory
<1>15. Mapping'
  <2>1. SUFFICES ASSUME ~panicked' PROVE Mapping'
    BY DEF Mapping
  <2>2. Given' = Given /\ pc \notin Early /\ new_location \in Given /\ mod_new_addr \in Given
    BY <1>2, <1>12, MapStages DEF Given, Later, Listed, Loaded
  <2>3. a = v * PAGE_SIZE /\ start % PAGE_SIZE = 0 /\ a >= start
    BY <1>3, <1>4, <1>7, <1>8, <1>9, <1>13, <2>1, AlignedAddress
  <2>4. v + 1 \in Nat /\ next' = (v + 1) * PAGE_SIZE
    <3>1. next' = v * PAGE_SIZE + PAGE_SIZE
      BY <1>2, <1>7, <2>3, Zenon
    <3>2. v + 1 \in Nat /\ v \in Int
      BY <1>9, SMT
    <3> QED
      BY <3>1, <3>2, AddressOrder, Zenon
  <2>5. next' \in Nat /\ next' % PAGE_SIZE = 0
    BY <2>4, AddressOfPage
  <2>6. next' >= range'.start
    BY <1>2, <1>4, <1>5, <1>7, <1>8, <2>3, AllocAssumption, SMT
  <2>7. ASSUME NEW p \in Pages, start <= p * PAGE_SIZE, p * PAGE_SIZE < next'
        PROVE  NewWalk(p)' = p
    <3>1. p \in Int
      BY BaseIndex DEF Pages
    <3>2. CASE p = v
      BY <1>13, <1>14, <2>1, <3>2
    <3>3. CASE p # v
      <4>1. p < v + 1
        BY <2>4, <2>7, <3>1, AddressOrder
      <4>2. p < v
        BY <1>9, <3>1, <3>3, <4>1, SMT
      <4>3. p * PAGE_SIZE < a
        BY <1>9, <2>3, <3>1, <4>2, AddressOrder
      <4>4. NewWalk(p) = p
        BY <1>3, <1>4, <1>7, <2>7, <4>3
      <4> QED
        BY <1>13, <1>14, <2>1, <3>3, <4>4 DEF OthersKept
    <3> QED
      BY <3>2, <3>3
  <2>8. \A u \in LowPages : NewWalk(u)' = u
    BY <1>3, <1>13, <1>14, <2>1, LowPage DEF OthersKept
  <2>9. \A u \in KernelPages : u \in Pages /\ NewWalk(u)' = NewWalk(u)
    BY <1>10, <1>13, <1>14, <2>1, LayoutTypes DEF OthersKept
  <2>10. /\ new_location \in KernelPages /\ mod_new_addr \in KernelPages
         /\ new_location' = new_location /\ mod_new_addr' = mod_new_addr /\ loader' = loader
    BY <1>2, <2>2, GivenPages DEF modules
  <2>11. /\ NewWalk(new_location)' * PAGE_SIZE = loader'.mods_addr
         /\ NewWalk(mod_new_addr)' * PAGE_SIZE = loader'.mod_start
    <3>1. PICK l, m : l = new_location /\ m = mod_new_addr
      OBVIOUS
    <3>2. NewWalk(new_location)' = NewWalk(l)' /\ NewWalk(mod_new_addr)' = NewWalk(m)'
      BY <2>10, <3>1 DEF NewWalk
    <3> QED
      BY <1>3, <2>9, <2>10, <3>1, <3>2
  <2>12. \A u \in KernelPages \ Given' : NewWalk(u)' = u - KernelBase
    BY <1>3, <2>2, <2>9
  <2>13. /\ range' \in Ranges /\ range'.start < range'.end /\ limit' = PageUp(range'.end)
         /\ next' = range'.start \/ (next' % PAGE_SIZE = 0 /\ range'.start % PAGE_SIZE = 0)
    BY <1>2, <1>3, <1>4, <2>3, <2>5
  <2>14. \A p \in Pages : range'.start <= p * PAGE_SIZE /\ p * PAGE_SIZE < next' => NewWalk(p)' = p
    BY <1>2, <1>4, <2>7
  <2>15. pc' \notin {"low", "high"}
    BY <1>2
  <2> QED
    BY <2>5, <2>6, <2>8, <2>11, <2>12, <2>13, <2>14, <2>15, Zenon DEF Mapping
<1>16. OneWalkChanges
  <2>1. CASE panicked'
    <3>1. cr3' = cr3
      BY <1>2 DEF directory
    <3>2. WalksKept
      BY <1>13, <2>1, <3>1, FrameWalks DEF WalksKept
    <3> QED
      BY <3>2, KeptIsOne
  <2>2. CASE ~panicked'
    <3>1. v \notin ImagePages
      BY <1>10, LayoutTypes
    <3>2. ASSUME v \in LowPages PROVE Walk(mem', cr3', v) = Walk(mem, cr3, v)
      <4>1. NewWalk(v) = v /\ WalkAfter(v) = v
        BY <1>3, <1>13, <2>2, <3>2
      <4>2. cr3 = pageDirectory - KernelBase /\ cr3' = cr3
        <5>1. pc \in Later
          BY <1>2 DEF Later, Listed
        <5> QED
          BY <1>2, <5>1, Stages DEF directory
      <4> QED
        BY <4>1, <4>2 DEF NewWalk, WalkAfter
    <3> QED
      BY <1>9, <1>13, <3>1, <3>2 DEF OneWalkChanges
  <2> QED
    BY <1>13, <2>1, <2>2
<1> QED
  BY <1>2, <1>13, <1>15, <1>16 DEF PagingInv

-----------------------------------------------------------------------------
(***************************************************************************)
(* The actions that take pages of the heap.                                *)
(***************************************************************************)

\* The moves of pc over the allocations that follow the switch.
TakeMoves ==
  {<<"modlist", "modlist_map">>, <<"module", "module_map">>, <<"root", "dev">>,
   <<"dev", "nodes">>, <<"nodes", "idle">>}

\* The pages that a block of the heap covers.
Block(base, size) == base \div PAGE_SIZE .. (base + size - 1) \div PAGE_SIZE

\* What these moves leave as it is: the stages that kmain and ramdisk_init have
\* passed, and the pages given away in them.
LEMMA TakeStages ==
  ASSUME <<pc, pc'>> \in TakeMoves
  PROVE  /\ pc \in Later /\ pc' \in Later /\ pc \notin Early /\ pc' \notin Early /\ Pending = {}
         /\ pc' \notin {"low", "high", "range"}
         /\ pc' \in Listed => pc \in Listed
         /\ pc' \in Loaded => pc \in Loaded
         /\ pc \in Listed => new_location \in Given
         /\ pc \in Loaded => mod_new_addr \in Given
         /\ pc \in Loaded <=> pc' \in Loaded
         /\ pc = "modlist" => pc' \notin Loaded \union {"module_map"}
         /\ pc = "modlist" <=> pc' = "modlist_map"
         /\ pc = "module" <=> pc' = "module_map"
<1>1. \/ pc = "modlist" /\ pc' = "modlist_map"
      \/ pc = "module" /\ pc' = "module_map"
      \/ pc = "root" /\ pc' = "dev"
      \/ pc = "dev" /\ pc' = "nodes"
      \/ pc = "nodes" /\ pc' = "idle"
  BY DEF TakeMoves
<1> QED
  BY <1>1 DEF Early, Later, Listed, Loaded, Given, Pending

(***************************************************************************)
(* kmain and ramdisk_init allocate: a page for the module list, a page for *)
(* the module, the inodes.  The new pages are nobody's; those that will be *)
(* given to other frames are not touched before page_map is called.        *)
(***************************************************************************)
LEMMA TakeStep ==
  ASSUME KernelFits, PagingInv, ~panicked, <<pc, pc'>> \in TakeMoves,
         NEW size \in Sizes, size # 0, kmalloc_early_align(size),
         UNCHANGED <<mem, directory, loader>>,
         NEW base, base = PageUp(currentBase), NEW q, q = base \div PAGE_SIZE,
         new_location' = IF pc = "modlist" /\ ~panicked' THEN q ELSE new_location,
         mod_new_addr' = IF pc = "module" /\ ~panicked' THEN q ELSE mod_new_addr,
         NEW vs, vs \subseteq InUse \union Given \union
                   (IF pc \in Loaded /\ ~panicked' THEN Block(base, size) ELSE {}),
         Touch(vs) \/ tlb' = tlb
  PROVE  PagingInv' /\ WalksKept
<1>1. /\ pc \in Later /\ pc' \in Later /\ pc \notin Early /\ pc' \notin Early /\ Pending = {}
      /\ pc' \notin {"low", "high", "range"}
      /\ pc' \in Listed => pc \in Listed
      /\ pc' \in Loaded => pc \in Loaded
      /\ pc \in Listed => new_location \in Given
      /\ pc \in Loaded => mod_new_addr \in Given
      /\ pc \in Loaded <=> pc' \in Loaded
      /\ pc = "modlist" => pc' \notin Loaded \union {"module_map"}
      /\ pc = "modlist" <=> pc' = "modlist_map"
      /\ pc = "module" <=> pc' = "module_map"
  BY TakeStages
<1>2. AllocInv /\ initialized /\ pc # "start" /\ pc # "kmain" /\ pc' # "start" /\ pc' # "kmain"
      /\ Tables /\ Mapping /\ Cache /\ StageOK
  BY <1>1 DEF PagingInv, StageOK, Early
<1>3. PICK last : last = (base + size - 1) \div PAGE_SIZE
  OBVIOUS
<1>4. /\ AllocInv' /\ panicked' \in BOOLEAN /\ initialized'
      /\ ~panicked' =>
           /\ q \in KmallocPages /\ q .. last \subseteq KmallocPages
           /\ \A p \in q .. last : ~Used(p) /\ Used(p)'
           /\ ~Used(q) /\ Used(q)'
           /\ \A p : Used(p) => Used(p)'
  BY <1>2, <1>3, FreshPages
<1>5. Block(base, size) = q .. last
  BY <1>3 DEF Block
<1>6. /\ cr3' = cr3 /\ pageDirectory' = pageDirectory /\ ptPhysToVirt' = ptPhysToVirt
      /\ kernelPagingEnabled' = kernelPagingEnabled /\ loader' = loader /\ mem' = mem
  BY DEF directory
<1>8. \A p \in Given : Used(p) /\ p \in KmallocPages /\ p \in Pages
  BY <1>1, GivenPages
<1>9. vs \in SUBSET Pages
  <2>1. ~panicked' => Block(base, size) \subseteq Pages
    BY <1>4, <1>5, LayoutTypes
  <2> QED
    BY <1>8, <2>1, InUsePages
<1>10. /\ DOMAIN tlb' \subseteq Pages /\ \A u \in DOMAIN tlb' : tlb'[u] \in Pages
       /\ \A u \in DOMAIN tlb' : u \in DOMAIN tlb \/ u \in vs
       /\ TLBCoherent'
  <2>1. CASE tlb' = tlb
    BY <1>2, <1>6, <2>1, FrameWalks DEF PagingInv, PagingTypeOK
  <2>2. CASE Touch(vs)
    BY <1>2, <1>6, <1>9, <2>2, TouchStep
  <2> QED
    BY <2>1, <2>2
<1>11. BootTables' /\ WalksKept
  BY <1>2, <1>6, FrameWalks DEF WalksKept
<1>12. StageOK'
  BY <1>1, <1>2, <1>4, <1>6 DEF StageOK
<1>13. PagingTypeOK'
  <2>1. ~panicked' => q \in Pages
    BY <1>4, LayoutTypes
  <2> QED
    BY <1>6, <1>10, <2>1 DEF PagingInv, PagingTypeOK
<1>14. CASE panicked'
  <2>1. Tables' /\ Mapping' /\ Cache'
    BY <1>14 DEF Tables, Mapping, Cache
  <2> QED
    BY <1>4, <1>10, <1>11, <1>12, <1>13, <2>1 DEF PagingInv
<1>15. CASE ~panicked'
  <2>1. q \notin Given /\ \A p : Used(p) => p # q
    BY <1>4, <1>8, <1>15
  <2>2. Given \subseteq Given' /\ Given' \subseteq Given \union {q} /\ Pending' \subseteq {q}
    <3>1. \/ pc = "modlist" /\ pc' = "modlist_map"
          \/ pc = "module" /\ pc' = "module_map"
          \/ pc = "root" /\ pc' = "dev"
          \/ pc = "dev" /\ pc' = "nodes"
          \/ pc = "nodes" /\ pc' = "idle"
      BY DEF TakeMoves
    <3>2. CASE pc = "modlist" /\ pc' = "modlist_map"
      BY <1>15, <3>2 DEF Given, Pending, Later, Listed, Loaded
    <3>3. CASE pc = "module" /\ pc' = "module_map"
      BY <1>15, <3>3 DEF Given, Pending, Later, Listed, Loaded
    <3>4. CASE pc \in {"root", "dev", "nodes"} /\ pc' \in {"dev", "nodes", "idle"}
      BY <1>15, <3>4 DEF Given, Pending, Later, Listed, Loaded
    <3> QED
      BY <3>1, <3>2, <3>3, <3>4
  <2>3. pc \in Loaded => Pending' = {}
    BY <1>1 DEF Pending, Loaded
  <2>4. Cache'
    <3>1. ASSUME kernelPagingEnabled, NEW u \in DOMAIN tlb'
          PROVE  u \in InUse \/ (Used(u)' /\ u \notin Pending')
      <4>1. CASE u \in InUse
        BY <4>1
      <4>2. CASE Used(u)
        BY <1>4, <1>15, <2>1, <2>2, <4>2
      <4>3. CASE pc \in Loaded /\ u \in q .. last
        BY <1>4, <1>15, <2>3, <4>3
      <4>4. u \in DOMAIN tlb => u \in InUse \/ Used(u)
        BY <1>2, <3>1 DEF Cache
      <4>5. u \in vs => u \in InUse \/ Used(u) \/ (pc \in Loaded /\ u \in q .. last)
        BY <1>5, <1>8, <1>15
      <4> QED
        BY <1>10, <4>1, <4>2, <4>3, <4>4, <4>5
    <3> QED
      BY <1>6, <3>1, Zenon DEF Cache
  <2>5. Tables'
    <3>1. /\ Used(pageDirectory) /\ Used(ptPhysToVirt) /\ pageDirectory # ptPhysToVirt
          /\ \A p \in Given : Used(p) /\ p \notin {pageDirectory, ptPhysToVirt}
          /\ pc \in Loaded \union {"module_map"} => new_location # mod_new_addr
          /\ \A i \in Entries :
               IF "P" \in Dir[i].flags
               THEN /\ Used(Rev[i].page)
                    /\ Rev[i].page \notin {pageDirectory, ptPhysToVirt} \union Given
                    /\ Dir[i].page = Rev[i].page - KernelBase
               ELSE Rev[i].page = 0
          /\ \A i, j \in Entries :
               "P" \in Dir[i].flags /\ "P" \in Dir[j].flags /\ Dir[i].page = Dir[j].page => i = j
      BY <1>1, <1>2 DEF Tables
    <3>2. Dir' = Dir /\ Rev' = Rev
      BY <1>6 DEF Dir, Rev
    <3>3. \A p : Used(p)' <=> UsedAfter(p)
      BY DEF Used, UsedAfter
    <3>4. UsedKept
      BY <1>4, <1>15, <3>3 DEF UsedKept
    <3>5. /\ Used(pageDirectory)' /\ Used(ptPhysToVirt)' /\ pageDirectory' # ptPhysToVirt'
      <4>1. UsedAfter(pageDirectory) /\ UsedAfter(ptPhysToVirt)
        BY <3>1, <3>4 DEF UsedKept
      <4> QED
        BY <1>6, <3>1, <4>1, Zenon DEF Used, UsedAfter
    <3>6. \A p \in Given' : Used(p)' /\ p \notin {pageDirectory', ptPhysToVirt'}
      BY <1>4, <1>6, <1>15, <2>1, <2>2, <3>1
    <3>7. pc' \in Loaded \union {"module_map"} => new_location' # mod_new_addr'
      <4>1. CASE pc = "modlist"
        BY <1>1, <4>1
      <4>2. CASE pc = "module"
        <5>1. new_location \in Given
          BY <4>2 DEF Given, Later, Listed
        <5> QED
          BY <1>15, <2>1, <4>2, <5>1
      <4>3. CASE pc \notin {"modlist", "module"}
        BY <1>1, <3>1, <4>3
      <4> QED
        BY <4>1, <4>2, <4>3
    <3>8. \A i \in Entries :
            IF "P" \in Dir[i].flags
            THEN /\ UsedAfter(Rev[i].page)
                 /\ Rev[i].page \notin {pageDirectory, ptPhysToVirt} \union Given'
                 /\ Dir[i].page = Rev[i].page - KernelBase
            ELSE Rev[i].page = 0
      BY <2>1, <2>2, <3>1, <3>4 DEF UsedKept
    <3>9. \A i \in Entries :
            IF "P" \in Dir'[i].flags
            THEN /\ Used(Rev[i].page)'
                 /\ Rev'[i].page \notin {pageDirectory', ptPhysToVirt'} \union Given'
                 /\ Dir'[i].page = Rev'[i].page - KernelBase
            ELSE Rev'[i].page = 0
      BY <1>6, <3>2, <3>8, Zenon DEF Used, UsedAfter
    <3>10. \A i, j \in Entries :
            "P" \in Dir'[i].flags /\ "P" \in Dir'[j].flags /\ Dir'[i].page = Dir'[j].page => i = j
      BY <3>1, <3>2, Zenon
    <3>11. pc' # "reverse"
      BY <1>1 DEF Early
    <3> QED
      BY <3>5, <3>6, <3>7, <3>9, <3>10, <3>11, Zenon DEF Tables
  <2>6. Mapping'
    <3>1. \A u : NewWalk(u)' = NewWalk(u)
      BY <1>6 DEF NewWalk
    <3>2. \A u \in LowPages : NewWalk(u)' = u
      BY <1>1, <1>2, <3>1 DEF Mapping
    <3>3. \A u \in KernelPages \ Given' : NewWalk(u)' = u - KernelBase
      BY <1>1, <1>2, <2>2, <3>1 DEF Mapping
    <3>4. pc' \in Listed => NewWalk(new_location)' * PAGE_SIZE = loader'.mods_addr
      <4>1. ASSUME pc' \in Listed
            PROVE  /\ new_location' = new_location
                   /\ NewWalk(new_location) * PAGE_SIZE = loader.mods_addr
        <5>1. pc \in Listed /\ pc # "modlist"
          BY <1>1, <4>1 DEF Listed
        <5> QED
          BY <1>2, <5>1 DEF Mapping
      <4> QED
        BY <1>6, <4>1 DEF NewWalk
    <3>5. pc' \in Loaded => NewWalk(mod_new_addr)' * PAGE_SIZE = loader'.mod_start
      <4>1. ASSUME pc' \in Loaded
            PROVE  /\ mod_new_addr' = mod_new_addr
                   /\ NewWalk(mod_new_addr) * PAGE_SIZE = loader.mod_start
        <5>1. pc \in Loaded /\ pc # "module"
          BY <1>1, <4>1 DEF Loaded
        <5> QED
          BY <1>2, <5>1 DEF Mapping
      <4> QED
        BY <1>6, <4>1 DEF NewWalk
    <3> QED
      BY <1>1, <3>2, <3>3, <3>4, <3>5, Zenon DEF Mapping
  <2> QED
    BY <1>4, <1>10, <1>11, <1>12, <1>13, <2>4, <2>5, <2>6 DEF PagingInv
<1> QED
  BY <1>4, <1>11, <1>14, <1>15

\* The allocation of kmain for the module list.
LEMMA ModlistStep ==
  ASSUME KernelFits, PagingInv, kmain_modlist
  PROVE  PagingInv' /\ WalksKept /\ UNCHANGED directory /\ pc # "start" /\ pc' # "start"
<1>1. /\ pc = "modlist" /\ pc' = "modlist_map" /\ ~panicked
      /\ kmalloc_early_align(SIZEOF_MODULE)
      /\ new_location' = AllocatedPage(new_location)
      /\ UNCHANGED memory /\ UNCHANGED directory /\ mod_new_addr' = mod_new_addr /\ loader' = loader
  BY DEF kmain_modlist, Goto
<1>2. SIZEOF_MODULE \in Sizes /\ SIZEOF_MODULE # 0
  BY PagingAssumption
<1>3. PICK base, q, vs : base = PageUp(currentBase) /\ q = base \div PAGE_SIZE /\ vs = {}
  OBVIOUS
<1>4. /\ new_location' = IF pc = "modlist" /\ ~panicked' THEN q ELSE new_location
      /\ mod_new_addr' = IF pc = "module" /\ ~panicked' THEN q ELSE mod_new_addr
  BY <1>1, <1>3 DEF AllocatedPage
<1>5. /\ <<pc, pc'>> \in TakeMoves /\ tlb' = tlb /\ UNCHANGED <<mem, directory, loader>>
      /\ vs \subseteq InUse \union Given \union
                   (IF pc \in Loaded /\ ~panicked' THEN Block(base, SIZEOF_MODULE) ELSE {})
  BY <1>1, <1>3 DEF TakeMoves, memory
<1>6. PagingInv' /\ WalksKept
  BY <1>1, <1>2, <1>3, <1>4, <1>5, TakeStep, Zenon
<1> QED
  BY <1>1, <1>6

\* The allocation of kmain for the module, after it read the module list.
LEMMA ModuleStep ==
  ASSUME KernelFits, PagingInv, kmain_module
  PROVE  PagingInv' /\ WalksKept /\ UNCHANGED directory /\ pc # "start" /\ pc' # "start"
<1>1. /\ pc = "module" /\ pc' = "module_map" /\ ~panicked
      /\ kmalloc_early_align(SIZEOF_UINT32)
      /\ mod_new_addr' = AllocatedPage(mod_new_addr)
      /\ Touch(InUse \union {new_location})
      /\ mem' = mem /\ UNCHANGED directory /\ new_location' = new_location /\ loader' = loader
  BY DEF kmain_module, Goto
<1>2. SIZEOF_UINT32 \in Sizes /\ SIZEOF_UINT32 # 0
  BY PagingAssumption
<1>3. PICK base, q, vs : /\ base = PageUp(currentBase) /\ q = base \div PAGE_SIZE
                         /\ vs = InUse \union {new_location}
  OBVIOUS
<1>4. /\ new_location' = IF pc = "modlist" /\ ~panicked' THEN q ELSE new_location
      /\ mod_new_addr' = IF pc = "module" /\ ~panicked' THEN q ELSE mod_new_addr
  BY <1>1, <1>3 DEF AllocatedPage
<1>5. /\ <<pc, pc'>> \in TakeMoves /\ Touch(vs) /\ UNCHANGED <<mem, directory, loader>>
      /\ new_location \in Given
  BY <1>1, <1>3 DEF TakeMoves, Given, Later, Listed
<1>6. vs \subseteq InUse \union Given \union
                   (IF pc \in Loaded /\ ~panicked' THEN Block(base, SIZEOF_UINT32) ELSE {})
  BY <1>3, <1>5
<1>7. PagingInv' /\ WalksKept
  BY <1>1, <1>2, <1>3, <1>4, <1>5, <1>6, TakeStep, Zenon
<1> QED
  BY <1>1, <1>7

\* The allocations of ramdisk_init.
LEMMA RamdiskStep ==
  ASSUME KernelFits, PagingInv, ramdisk_root \/ ramdisk_dev \/ ramdisk_nodes
  PROVE  PagingInv' /\ WalksKept /\ UNCHANGED directory /\ pc # "start" /\ pc' # "start"
<1>1. PICK size : /\ size \in Sizes \union {0}
                  /\ \/ RamdiskAlloc("root", "dev", size)
                     \/ RamdiskAlloc("dev", "nodes", size)
                     \/ RamdiskAlloc("nodes", "idle", size)
  <2>1. SIZEOF_INODE \in Sizes
    BY PagingAssumption
  <2>2. SIZEOF_INODE * loader.nfiles \in Sizes \union {0}
    BY PagingAssumption DEF PagingInv, StageOK
  <2> QED
    BY <2>1, <2>2 DEF ramdisk_root, ramdisk_dev, ramdisk_nodes
<1>2. PICK base, q, vs :
        /\ base = PageUp(currentBase) /\ q = base \div PAGE_SIZE
        /\ vs = InUse \union {mod_new_addr} \union (IF panicked' THEN {} ELSE Block(base, size))
  OBVIOUS
<1>3. /\ <<pc, pc'>> \in {<<"root", "dev">>, <<"dev", "nodes">>, <<"nodes", "idle">>} /\ ~panicked
      /\ kmalloc_early_align(size) /\ Touch(vs)
      /\ UNCHANGED directory /\ UNCHANGED modules /\ mem' = mem
  BY <1>1, <1>2 DEF RamdiskAlloc, Goto, Block
<1>4. size \in Sizes /\ size # 0
  BY <1>1, <1>3 DEF kmalloc_early_align
<1>5. /\ <<pc, pc'>> \in TakeMoves /\ UNCHANGED <<mem, directory, loader>>
      /\ pc \in Loaded /\ mod_new_addr \in Given
      /\ pc \notin {"modlist", "module"} /\ pc # "start" /\ pc' # "start"
      /\ new_location' = new_location /\ mod_new_addr' = mod_new_addr
  BY <1>3 DEF TakeMoves, Given, Loaded, modules
<1>6. vs \subseteq InUse \union Given \union
                   (IF pc \in Loaded /\ ~panicked' THEN Block(base, size) ELSE {})
  BY <1>2, <1>5
<1>7. /\ new_location' = IF pc = "modlist" /\ ~panicked' THEN q ELSE new_location
      /\ mod_new_addr' = IF pc = "module" /\ ~panicked' THEN q ELSE mod_new_addr
  BY <1>5
<1>8. PagingInv' /\ WalksKept
  BY <1>2, <1>3, <1>4, <1>5, <1>6, <1>7, TakeStep, Zenon
<1> QED
  BY <1>3, <1>5, <1>8

\* The calls of page_map in kmain; the first reads the loader's structure.
LEMMA ModuleMapsStep ==
  ASSUME KernelFits, PagingInv, kmain_modlist_map \/ kmain_module_map
  PROVE  PagingInv' /\ OneWalkChanges /\ UNCHANGED directory /\ pc # "start" /\ pc' # "start"
<1>1. CASE kmain_module_map
  <2>1. /\ pc = "module_map" /\ pc' = "root" /\ ~panicked /\ UNCHANGED <<directory, modules>>
        /\ page_map(mod_new_addr * PAGE_SIZE, loader.mod_start, {"RW"})
    BY <1>1 DEF kmain_module_map, Goto
  <2>2. PICK p, a : p = mod_new_addr /\ a = loader.mod_start
    OBVIOUS
  <2>3. /\ <<pc, pc'>> \in {<<"modlist_map", "module">>, <<"module_map", "root">>}
        /\ p = IF pc = "modlist_map" THEN new_location ELSE mod_new_addr
        /\ a = IF pc = "modlist_map" THEN loader.mods_addr ELSE loader.mod_start
        /\ page_map(p * PAGE_SIZE, a, {"RW"})
    BY <2>1, <2>2
  <2>4. PagingInv' /\ OneWalkChanges
    BY <2>1, <2>3, GivenStep, Zenon
  <2> QED
    BY <2>1, <2>4
<1>2. CASE kmain_modlist_map
  <2>1. /\ pc = "modlist_map" /\ pc' = "module" /\ ~panicked /\ UNCHANGED <<directory, modules>>
        /\ Panic \/ page_map(new_location * PAGE_SIZE, loader.mods_addr, {"RW"})
    BY <1>2 DEF kmain_modlist_map, Goto
  <2>2. CASE Panic
    <3>1. AllocInv' /\ panicked' /\ initialized' = initialized /\ mem' = mem /\ tlb' = tlb
      BY <2>2, PanicKeeps DEF PagingInv
    <3>2. /\ new_location' \in Pages /\ mod_new_addr' \in Pages /\ UNCHANGED <<directory, loader>>
          /\ initialized' /\ cr3' = cr3
          /\ pc' \in {"directory", "reverse", "report", "low", "high"} \union Later /\ pc' \in Later
      BY <2>1, <3>1 DEF modules, directory, PagingInv, PagingTypeOK, StageOK, Later, Listed
    <3>3. PagingInv'
      BY <2>1, <3>1, <3>2, PanickedStep
    <3>4. OneWalkChanges
      BY <3>1, <3>2, FrameWalks, KeptIsOne DEF WalksKept
    <3> QED
      BY <2>1, <3>3, <3>4
  <2>3. CASE page_map(new_location * PAGE_SIZE, loader.mods_addr, {"RW"})
    <3>1. PICK p, a : p = new_location /\ a = loader.mods_addr
      OBVIOUS
    <3>2. /\ <<pc, pc'>> \in {<<"modlist_map", "module">>, <<"module_map", "root">>}
          /\ p = IF pc = "modlist_map" THEN new_location ELSE mod_new_addr
          /\ a = IF pc = "modlist_map" THEN loader.mods_addr ELSE loader.mod_start
          /\ page_map(p * PAGE_SIZE, a, {"RW"})
      BY <2>1, <2>3, <3>1
    <3>3. PagingInv' /\ OneWalkChanges
      BY <2>1, <3>2, GivenStep, Zenon
    <3> QED
      BY <2>1, <3>3
  <2> QED
    BY <2>1, <2>2, <2>3
<1> QED
  BY <1>1, <1>2

-----------------------------------------------------------------------------
(***************************************************************************)
(* The boot up to the loops of init_paging.                                *)
(***************************************************************************)

\* A table filled from a range with one page for each index is a table.
LEMMA FilledType ==
  ASSUME NEW first, NEW last, NEW offset,
         \A p \in first .. last : p \in Int /\ p - offset \in Pages,
         \A p, q \in first .. last : p % PAGE_ENTRIES = q % PAGE_ENTRIES => p = q
  PROVE  FilledTable(first, last, offset) \in [Entries -> Words]
<1>1. SUFFICES ASSUME NEW i \in Entries
               PROVE  FilledTable(first, last, offset)[i] \in Words
  BY DEF FilledTable
<1>2. CASE \E p \in first .. last : p % PAGE_ENTRIES = i
  <2>1. PICK p \in first .. last : p % PAGE_ENTRIES = i
    BY <1>2
  <2>2. FilledTable(first, last, offset)[i] = [page |-> p - offset, flags |-> Flags]
    <3>1. \A q \in first .. last : q % PAGE_ENTRIES = i => q = p
      BY <2>1
    <3> QED
      BY <2>1, <3>1, FilledEntry
  <2> QED
    BY <2>2 DEF Words
<1>3. CASE ~ \E p \in first .. last : p % PAGE_ENTRIES = i
  <2>1. {p \in first .. last : p % PAGE_ENTRIES = i} = {}
    BY <1>3
  <2>2. FilledTable(first, last, offset)[i] = Zero
    BY <2>1, Zenon DEF FilledTable
  <2>3. 0 \in Pages
    BY BaseIndex, SMT DEF Pages
  <2> QED
    BY <2>2, <2>3 DEF Zero, Words
<1> QED
  BY <1>2, <1>3

\* The three tables of boot.asm are tables.
LEMMA BootTypes ==
  ASSUME KernelFits
  PROVE  /\ FilledTable(0, EarlyEnd - 1, 0) \in [Entries -> Words]
         /\ FilledTable(KERNEL_START, KERNEL_END - 1, KernelBase) \in [Entries -> Words]
         /\ [ZeroTable EXCEPT
               ![0] = [page |-> lowmem_pt, flags |-> Flags],
               ![KernelBase \div PAGE_ENTRIES] = [page |-> kernel_pt, flags |-> Flags]]
              \in [Entries -> Words]
<1>1. FilledTable(0, EarlyEnd - 1, 0) \in [Entries -> Words]
  <2>1. \A p \in 0 .. EarlyEnd - 1 : p \in Int /\ p \in 0 .. PAGE_ENTRIES - 1
    BY Layout, LayoutTypes, BaseIndex, SMT
  <2>2. \A p \in 0 .. EarlyEnd - 1 : p \in Int /\ p - 0 \in Pages
    BY <2>1, LayoutTypes, SMT
  <2>3. \A p, q \in 0 .. EarlyEnd - 1 : p % PAGE_ENTRIES = q % PAGE_ENTRIES => p = q
    BY <2>1, KernelIndices, Zenon
  <2> QED
    BY <2>2, <2>3, FilledType
<1>2. FilledTable(KERNEL_START, KERNEL_END - 1, KernelBase) \in [Entries -> Words]
  <2>1. KernelPages = KERNEL_START .. KERNEL_END - 1
    BY Layout
  <2>2. \A p \in KernelPages : p \in Int /\ p - KernelBase \in 0 .. PAGE_ENTRIES - 1
    BY Layout, BaseIndex, SMT
  <2>3. \A p \in KernelPages : p \in Int /\ p - KernelBase \in Pages
    BY <2>2, LayoutTypes, Zenon
  <2>4. \A p, q \in KernelPages : p % PAGE_ENTRIES = q % PAGE_ENTRIES => p = q
    BY <2>2, KernelIndices, FrameOfPage
  <2>5. PICK last : last = KERNEL_END - 1
    OBVIOUS
  <2>6. /\ \A p \in KERNEL_START .. last : p \in Int /\ p - KernelBase \in Pages
        /\ \A p, q \in KERNEL_START .. last : p % PAGE_ENTRIES = q % PAGE_ENTRIES => p = q
    BY <2>1, <2>3, <2>4, <2>5, Zenon
  <2>7. FilledTable(KERNEL_START, last, KernelBase) \in [Entries -> Words]
    BY <2>6, FilledType, Zenon
  <2> QED
    BY <2>5, <2>7, Zenon
<1>3. 0 \in Pages /\ lowmem_pt \in Pages /\ kernel_pt \in Pages
  BY LayoutTypes DEF BootFrames, Entries
<1>4. ZeroTable \in [Entries -> Words]
  BY <1>3 DEF ZeroTable, Zero, Words
<1> QED
  BY <1>1, <1>2, <1>3, <1>4 DEF Words

(***************************************************************************)
(* boot.asm builds its tables in junk and turns paging on: from then on    *)
(* the first megabyte and the kernel are in place.                         *)
(***************************************************************************)
LEMMA StartStep ==
  ASSUME KernelFits, PagingInv, _start
  PROVE  /\ PagingInv' /\ pc = "start" /\ pc' = "kmain" /\ kernelPagingEnabled' = FALSE
         /\ cr3' = page_directory
<1>1. /\ pc = "start" /\ pc' = "kmain" /\ cr3' = page_directory
      /\ UNCHANGED allocVars /\ UNCHANGED modules /\ tlb' = tlb
      /\ pageDirectory' = pageDirectory /\ ptPhysToVirt' = ptPhysToVirt
      /\ kernelPagingEnabled' = kernelPagingEnabled
  BY DEF _start
<1>2. kernelPagingEnabled = FALSE /\ panicked = FALSE /\ DOMAIN tlb = {} /\ initialized = FALSE
  BY <1>1 DEF PagingInv, StageOK, PagingTypeOK, Later, Listed, AllocInv, AllocTypeOK
<1>3. /\ panicked' = panicked /\ initialized' = initialized /\ new_location' = new_location
      /\ mod_new_addr' = mod_new_addr /\ loader' = loader
  BY <1>1 DEF allocVars, modules
<1>4. AllocInv'
  BY <1>1 DEF allocVars, PagingInv, AllocInv, AllocTypeOK, HeapIsSection, BumpIsFrontier,
              BlocksDisjoint, AlignedOnPage
<1>5. PICK d, a, k :
        /\ d = [ZeroTable EXCEPT
                  ![0] = [page |-> lowmem_pt, flags |-> Flags],
                  ![KernelBase \div PAGE_ENTRIES] = [page |-> kernel_pt, flags |-> Flags]]
        /\ a = FilledTable(0, EarlyEnd - 1, 0)
        /\ k = FilledTable(KERNEL_START, KERNEL_END - 1, KernelBase)
  OBVIOUS
<1>6. d \in [Entries -> Words] /\ a \in [Entries -> Words] /\ k \in [Entries -> Words]
  BY <1>5, BootTypes, Zenon
<1>7. mem' = [mem EXCEPT ![page_directory] = d, ![lowmem_pt] = a, ![kernel_pt] = k]
  BY <1>5, Zenon DEF _start
<1>8. mem \in [TableFrames -> [Entries -> Words]]
  BY DEF PagingInv, PagingTypeOK
<1>9. /\ mem' \in [TableFrames -> [Entries -> Words]]
      /\ mem'[page_directory] = d /\ mem'[lowmem_pt] = a /\ mem'[kernel_pt] = k
      /\ page_directory \in TableFrames
  BY <1>6, <1>7, <1>8, LayoutTypes DEF BootFrames
<1>10. BootTables'
  BY <1>5, <1>9, Zenon DEF BootTables
<1>11. PagingTypeOK'
  BY <1>1, <1>2, <1>3, <1>9 DEF PagingInv, PagingTypeOK
<1>12. StageOK'
  BY <1>1, <1>2, <1>3 DEF PagingInv, StageOK, Early, Later, Listed
<1>13. Tables' /\ Mapping' /\ Cache' /\ TLBCoherent'
  BY <1>1, <1>2 DEF Tables, Mapping, Cache, TLBCoherent, Early, Later, Listed, Loaded
<1> QED
  BY <1>1, <1>2, <1>4, <1>10, <1>11, <1>12, <1>13 DEF PagingInv

\* kmain sets up the heap.
LEMMA HeapStep ==
  ASSUME KernelFits, PagingInv, kmain_heap
  PROVE  PagingInv' /\ WalksKept /\ UNCHANGED directory /\ pc # "start" /\ pc' # "start"
<1>1. /\ pc = "kmain" /\ pc' = "directory" /\ ~panicked
      /\ kmalloc_early_init(EARLY_KMALLOC_START, EARLY_KMALLOC_END)
      /\ Touch(InUse) /\ mem' = mem
      /\ UNCHANGED directory /\ UNCHANGED modules
  BY DEF kmain_heap, Goto
<1>2. AllocInv /\ ~initialized /\ pc # "start" /\ ~kernelPagingEnabled
  BY <1>1 DEF PagingInv, StageOK, Later, Listed
<1>3. AllocInv' /\ initialized' = TRUE /\ panicked' = panicked
  <2>1. AllocNext
    BY <1>1, <1>2 DEF AllocNext
  <2> QED
    BY <1>1, <1>2, <2>1, AllocStep DEF kmalloc_early_init
<1>4. /\ cr3' = cr3 /\ pageDirectory' = pageDirectory /\ ptPhysToVirt' = ptPhysToVirt
      /\ kernelPagingEnabled' = kernelPagingEnabled
      /\ new_location' = new_location /\ mod_new_addr' = mod_new_addr /\ loader' = loader
  BY <1>1 DEF directory, modules
<1>5. BootTables' /\ \A u : Walk(mem', cr3', u) = Walk(mem, cr3, u)
  BY <1>1, <1>2, <1>4, FrameWalks
<1>6. DOMAIN tlb' \subseteq Pages /\ (\A u \in DOMAIN tlb' : tlb'[u] \in Pages) /\ TLBCoherent'
  <2>1. InUse \in SUBSET Pages
    BY InUsePages
  <2> QED
    BY <1>1, <1>2, <1>5, <2>1, TouchStep
<1>7. PagingTypeOK'
  BY <1>1, <1>4, <1>6 DEF PagingInv, PagingTypeOK
<1>8. StageOK'
  BY <1>1, <1>2, <1>3, <1>4 DEF PagingInv, StageOK, Early, Later, Listed
<1>9. Tables' /\ Mapping' /\ Cache'
  BY <1>1, <1>2, <1>4 DEF Tables, Mapping, Cache, Early, Later, Listed, Loaded
<1> QED
  BY <1>1, <1>2, <1>3, <1>5, <1>6, <1>7, <1>8, <1>9 DEF PagingInv, WalksKept

\* init_paging allocates the directory.
LEMMA DirectoryStep ==
  ASSUME KernelFits, PagingInv, init_paging_directory
  PROVE  /\ PagingInv' /\ WalksKept /\ pc # "start" /\ pc' # "start"
         /\ kernelPagingEnabled' = kernelPagingEnabled
<1>1. /\ pc = "directory" /\ pc' = "reverse" /\ ~panicked
      /\ kmalloc_early_align(PAGE_TABLE_SIZE)
      /\ pageDirectory' = AllocatedPage(pageDirectory)
      /\ mem' = mem /\ tlb' = tlb /\ cr3' = cr3 /\ ptPhysToVirt' = ptPhysToVirt
      /\ kernelPagingEnabled' = kernelPagingEnabled
      /\ new_location' = new_location /\ mod_new_addr' = mod_new_addr /\ loader' = loader
  BY DEF init_paging_directory, Goto, memory, modules
<1>2. AllocInv /\ initialized /\ pc # "start" /\ ~kernelPagingEnabled
  BY <1>1 DEF PagingInv, StageOK, Later, Listed
<1>3. PAGE_TABLE_SIZE \in Sizes /\ PAGE_TABLE_SIZE # 0
  BY PagingAssumption
<1>4. PICK base, q : base = PageUp(currentBase) /\ q = base \div PAGE_SIZE
  OBVIOUS
<1>5. /\ AllocInv' /\ panicked' \in BOOLEAN /\ initialized'
      /\ ~panicked' => q \in KmallocPages /\ Used(q)'
  BY <1>1, <1>2, <1>3, <1>4, FreshPages
<1>6. pageDirectory' = IF panicked' THEN pageDirectory ELSE q
  BY <1>1, <1>4 DEF AllocatedPage
<1>7. BootTables' /\ TLBCoherent' /\ WalksKept
  BY <1>1, <1>2, FrameWalks DEF WalksKept
<1>8. PagingTypeOK'
  <2>1. ~panicked' => q \in Pages
    BY <1>5, LayoutTypes
  <2> QED
    BY <1>1, <1>6, <2>1 DEF PagingInv, PagingTypeOK
<1>9. StageOK'
  BY <1>1, <1>2, <1>5 DEF PagingInv, StageOK, Early, Later, Listed
<1>10. Tables'
  BY <1>1, <1>5, <1>6 DEF Tables, Early, Used
<1>11. Mapping' /\ Cache'
  BY <1>1, <1>2 DEF Mapping, Cache, Later, Listed, Loaded
<1> QED
  BY <1>1, <1>2, <1>5, <1>7, <1>8, <1>9, <1>10, <1>11 DEF PagingInv

(***************************************************************************)
(* init_paging allocates the reverse mapping and clears both: two pages of *)
(* the heap of their own, so that the tables in use are not disturbed.     *)
(***************************************************************************)
LEMMA ReverseStep ==
  ASSUME KernelFits, PagingInv, init_paging_reverse
  PROVE  /\ PagingInv' /\ WalksKept /\ pc # "start" /\ pc' # "start"
         /\ kernelPagingEnabled' = kernelPagingEnabled
<1>1. /\ pc = "reverse" /\ pc' = "report" /\ ~panicked
      /\ kmalloc_early_align(PAGE_TABLE_SIZE)
      /\ ptPhysToVirt' = AllocatedPage(ptPhysToVirt)
      /\ cr3' = cr3 /\ pageDirectory' = pageDirectory
      /\ kernelPagingEnabled' = kernelPagingEnabled
      /\ new_location' = new_location /\ mod_new_addr' = mod_new_addr /\ loader' = loader
  BY DEF init_paging_reverse, Goto, modules
<1>2. AllocInv /\ initialized /\ pc # "start" /\ ~kernelPagingEnabled /\ Used(pageDirectory)
  BY <1>1 DEF PagingInv, StageOK, Later, Listed, Tables
<1>3. PAGE_TABLE_SIZE \in Sizes /\ PAGE_TABLE_SIZE # 0
  BY PagingAssumption
<1>4. PICK base, q : base = PageUp(currentBase) /\ q = base \div PAGE_SIZE
  OBVIOUS
<1>5. /\ AllocInv' /\ panicked' \in BOOLEAN /\ initialized'
      /\ ~panicked' => /\ q \in KmallocPages /\ ~Used(q) /\ Used(q)'
                       /\ \A p : Used(p) => Used(p)'
  BY <1>1, <1>2, <1>3, <1>4, FreshPages
<1>6. ptPhysToVirt' = IF panicked' THEN ptPhysToVirt ELSE q
  BY <1>1, <1>4 DEF AllocatedPage
<1>7. CASE panicked'
  <2>1. mem' = mem /\ tlb' = tlb
    BY <1>7 DEF init_paging_reverse
  <2>2. UNCHANGED <<directory, loader>> /\ new_location' \in Pages /\ mod_new_addr' \in Pages
    BY <1>1, <1>6, <1>7 DEF directory, PagingInv, PagingTypeOK
  <2>3. WalksKept
    BY <1>1, <2>1, FrameWalks DEF WalksKept
  <2>4. PagingInv'
    BY <1>1, <1>2, <1>5, <1>7, <2>1, <2>2, PanickedStep
  <2> QED
    BY <1>1, <2>3, <2>4
<1>8. CASE ~panicked'
  <2>1. PICK d, r : d = pageDirectory - KernelBase /\ r = q - KernelBase
    OBVIOUS
  <2>2. /\ pageDirectory \in KernelPages /\ q \in KernelPages
        /\ d \in HeapFrames /\ r \in HeapFrames /\ pageDirectory # q
        /\ pageDirectory \in Pages /\ q \in Pages
    BY <1>2, <1>5, <1>8, <2>1, UsedPage, LayoutTypes
  <2>3. Translate(pageDirectory) = d /\ Translate(q) = r /\ cr3 = page_directory
    BY <1>2, <2>1, <2>2, BootTranslate
  <2>4. /\ mem' = [f \in TableFrames |-> IF f \in {d, r} THEN ZeroTable ELSE mem[f]]
        /\ Touch(InUse \union {pageDirectory, q})
    BY <1>6, <1>8, <2>3 DEF init_paging_reverse
  <2>5. /\ mem' \in [TableFrames -> [Entries -> Words]]
        /\ mem'[d] = ZeroTable /\ mem'[r] = ZeroTable
        /\ \A f \in BootFrames : mem'[f] = mem[f]
    <3>1. ZeroTable \in [Entries -> Words]
      BY LayoutTypes DEF ZeroTable, Zero, Words, Entries
    <3>2. mem \in [TableFrames -> [Entries -> Words]]
      BY DEF PagingInv, PagingTypeOK
    <3>3. d \in TableFrames /\ r \in TableFrames /\ BootFrames \subseteq TableFrames
          /\ d \notin BootFrames /\ r \notin BootFrames
      BY <2>2, LayoutTypes
    <3> QED
      BY <2>4, <3>1, <3>2, <3>3
  <2>6. BootTables'
    BY <1>2, <2>5 DEF PagingInv, BootTables, BootFrames
  <2>7. WalksKept
    <3>1. PICK m : m = mem'
      OBVIOUS
    <3>2. \A u \in Pages : Walk(m, page_directory, u) = Walk(mem, page_directory, u)
      BY <1>2, <2>5, <3>1, BootWalkSame DEF PagingInv
    <3> QED
      BY <1>1, <2>3, <3>1, <3>2, Zenon DEF WalksKept
  <2>8. DOMAIN tlb' \subseteq Pages /\ (\A u \in DOMAIN tlb' : tlb'[u] \in Pages) /\ TLBCoherent'
    <3>1. PICK vs : vs = InUse \union {pageDirectory, q}
      OBVIOUS
    <3>2. vs \in SUBSET Pages /\ Touch(vs)
      BY <2>2, <2>4, <3>1, InUsePages
    <3> QED
      BY <1>2, <2>7, <3>2, TouchStep DEF WalksKept
  <2>9. PagingTypeOK'
    BY <1>1, <1>6, <1>8, <2>2, <2>5, <2>8 DEF PagingInv, PagingTypeOK
  <2>10. StageOK'
    BY <1>1, <1>2, <1>5 DEF PagingInv, StageOK, Early, Later, Listed
  <2>11. Tables'
    <3>1. Dir' = ZeroTable /\ Rev' = ZeroTable
      BY <1>1, <1>6, <1>8, <2>1, <2>5 DEF Dir, Rev
    <3>2. \A i \in Entries : ZeroTable[i] = Zero
      BY DEF ZeroTable
    <3>3. \A i \in Entries : "P" \notin Dir'[i].flags /\ Rev'[i].page = 0
      BY <3>1, <3>2 DEF Zero
    <3>4. Given' = {} /\ pc' # "reverse" /\ pc' \notin Loaded \union {"module_map"}
      BY <1>1 DEF Given, Later, Listed, Loaded
    <3>5. UsedAfter(pageDirectory) /\ UsedAfter(q)
      BY <1>2, <1>5, <1>8 DEF Used, UsedAfter
    <3>6. Used(pageDirectory)' /\ Used(ptPhysToVirt)' /\ pageDirectory' # ptPhysToVirt'
      BY <1>1, <1>6, <1>8, <2>2, <3>5, Zenon DEF Used, UsedAfter
    <3> QED
      BY <3>3, <3>4, <3>6, Zenon DEF Tables
  <2>12. Mapping' /\ Cache'
    BY <1>1, <1>2 DEF Mapping, Cache, Later, Listed, Loaded
  <2> QED
    BY <1>1, <1>2, <1>5, <2>6, <2>7, <2>8, <2>9, <2>10, <2>11, <2>12 DEF PagingInv
<1> QED
  BY <1>5, <1>7, <1>8

-----------------------------------------------------------------------------
(***************************************************************************)
(* The steps between the loops.                                            *)
(***************************************************************************)

\* The moves of pc that write no table and take no page.
QuietMoves ==
  {<<"report", "low">>, <<"low", "high">>, <<"nodes", "idle">>,
   <<"idle", "range">>, <<"range", "idle">>}

\* Such a step keeps the invariant if it keeps the part about the loops.
LEMMA QuietStep ==
  ASSUME KernelFits, PagingInv, ~panicked, <<pc, pc'>> \in QuietMoves, UNCHANGED allocVars,
         UNCHANGED memory, UNCHANGED directory, UNCHANGED modules, Mapping'
  PROVE  PagingInv' /\ WalksKept
<1>1. \/ pc = "report" /\ pc' = "low"
      \/ pc = "low" /\ pc' = "high"
      \/ pc = "nodes" /\ pc' = "idle"
      \/ pc = "idle" /\ pc' = "range"
      \/ pc = "range" /\ pc' = "idle"
  BY DEF QuietMoves
<1>2. /\ mem' = mem /\ tlb' = tlb /\ cr3' = cr3 /\ pageDirectory' = pageDirectory
      /\ ptPhysToVirt' = ptPhysToVirt /\ kernelPagingEnabled' = kernelPagingEnabled
      /\ new_location' = new_location /\ mod_new_addr' = mod_new_addr /\ loader' = loader
      /\ panicked' = panicked /\ initialized' = initialized /\ currentBase' = currentBase
  BY DEF memory, directory, modules, allocVars
<1>3. /\ pc \notin Early /\ pc' \notin Early /\ pc' # "reverse" /\ pc # "start" /\ pc' # "start"
      /\ pc' \in Early \union {"report", "low", "high"} \union Later
      /\ pc \in Later <=> pc' \in Later
      /\ pc' \notin {"start", "kmain"} /\ pc \notin {"start", "kmain"}
      /\ pc \in Loaded \union {"module_map"} <=> pc' \in Loaded \union {"module_map"}
  BY <1>1 DEF Early, Later, Listed, Loaded
<1>4. Given' = Given /\ Pending' = Pending
  BY <1>1, <1>2 DEF Given, Pending, Later, Listed, Loaded
<1>5. AllocInv'
  BY DEF allocVars, PagingInv, AllocInv, AllocTypeOK, HeapIsSection, BumpIsFrontier,
         BlocksDisjoint, AlignedOnPage
<1>6. BootTables' /\ TLBCoherent' /\ WalksKept
  BY <1>2, <1>3, FrameWalks DEF WalksKept
<1>7. PagingTypeOK'
  BY <1>2 DEF PagingInv, PagingTypeOK
<1>8. StageOK'
  BY <1>2, <1>3 DEF PagingInv, StageOK
<1>9. \A p : Used(p)' <=> Used(p)
  BY <1>2 DEF Used
<1>10. Cache'
  BY <1>2, <1>4 DEF PagingInv, Cache, Used
<1>11. Dir' = Dir /\ Rev' = Rev
  BY <1>2 DEF Dir, Rev
<1>12. Tables'
  <2>1. /\ Used(pageDirectory) /\ Used(ptPhysToVirt) /\ pageDirectory # ptPhysToVirt
        /\ \A p \in Given : Used(p) /\ p \notin {pageDirectory, ptPhysToVirt}
        /\ pc \in Loaded \union {"module_map"} => new_location # mod_new_addr
        /\ \A i \in Entries :
             IF "P" \in Dir[i].flags
             THEN /\ Used(Rev[i].page)
                  /\ Rev[i].page \notin {pageDirectory, ptPhysToVirt} \union Given
                  /\ Dir[i].page = Rev[i].page - KernelBase
             ELSE Rev[i].page = 0
        /\ \A i, j \in Entries :
             "P" \in Dir[i].flags /\ "P" \in Dir[j].flags /\ Dir[i].page = Dir[j].page => i = j
    BY <1>3 DEF PagingInv, Tables
  <2>2. Used(pageDirectory)' /\ Used(ptPhysToVirt)' /\ \A p \in Given' : Used(p)'
    BY <1>2, <1>4, <2>1, Zenon DEF Used
  <2>3. \A i \in Entries :
          IF "P" \in Dir'[i].flags
          THEN /\ Used(Rev[i].page)'
               /\ Rev'[i].page \notin {pageDirectory', ptPhysToVirt'} \union Given'
               /\ Dir'[i].page = Rev'[i].page - KernelBase
          ELSE Rev'[i].page = 0
    BY <1>2, <1>4, <1>11, <2>1, Zenon DEF Used
  <2>4. \A i, j \in Entries :
          "P" \in Dir'[i].flags /\ "P" \in Dir'[j].flags /\ Dir'[i].page = Dir'[j].page => i = j
    BY <1>11, <2>1, Zenon
  <2> QED
    BY <1>2, <1>3, <1>4, <2>1, <2>2, <2>3, <2>4, Zenon DEF Tables
<1> QED
  BY <1>5, <1>6, <1>7, <1>8, <1>10, <1>12 DEF PagingInv

\* virt_to_phys finds the directory's frame: neither of its two calls in
\* init_paging fails an ASSERT.
LEMMA DirectoryFrame ==
  ASSUME KernelFits, PagingInv, ~panicked, pc \notin Early, ~kernelPagingEnabled
  PROVE  /\ virt_to_phys(mem, pageDirectory) = pageDirectory - KernelBase
         /\ pageDirectory - KernelBase # NoFrame
         /\ pageDirectory - KernelBase \in TableFrames
         /\ pageDirectory \in KmallocPages
<1>1. Used(pageDirectory) /\ pc # "start"
  BY DEF PagingInv, Tables, Early
<1>2. /\ pageDirectory \in KernelPages /\ pageDirectory \in KmallocPages
      /\ pageDirectory - KernelBase \in TableFrames
  BY <1>1, UsedPage
<1>3. virt_to_phys(mem, pageDirectory) = Walk(mem, cr3, pageDirectory)
  BY <1>1, <1>2, VirtToPhys
<1>4. Walk(mem, cr3, pageDirectory) = pageDirectory - KernelBase
  <2>1. TLBCoherent
    BY DEF PagingInv
  <2> QED
    BY <1>1, <1>2, <2>1, BootTranslate, TranslateIsWalk
<1>5. pageDirectory - KernelBase # NoFrame
  BY <1>2, LayoutTypes, BaseIndex, SMT DEF NoFrame
<1> QED
  BY <1>2, <1>3, <1>4, <1>5

\* The message of init_paging, and the start of its first loop.
LEMMA ReportStep ==
  ASSUME KernelFits, PagingInv, init_paging_report
  PROVE  PagingInv' /\ WalksKept /\ UNCHANGED directory /\ pc # "start" /\ pc' # "start"
<1>1. /\ pc = "report" /\ pc' = "low" /\ ~panicked /\ UNCHANGED directory /\ UNCHANGED modules
      /\ next' = 0 /\ limit' = LOW_PAGES * PAGE_SIZE
  BY DEF init_paging_report, Goto
<1>2. pc \notin Early /\ ~kernelPagingEnabled /\ <<pc, pc'>> \in QuietMoves
  BY <1>1 DEF Early, QuietMoves, PagingInv, StageOK, Later, Listed
<1>3. UNCHANGED allocVars /\ UNCHANGED memory
  BY <1>1, <1>2, DirectoryFrame DEF init_paging_report
<1>4. Mapping'
  <2>1. next' \in Nat /\ next' % PAGE_SIZE = 0
    BY <1>1, AllocAssumption, SMT
  <2>2. \A v \in LowPages : ~(v * PAGE_SIZE < next')
    <3>1. SUFFICES ASSUME NEW v \in LowPages PROVE ~(v * PAGE_SIZE < 0)
      BY <1>1
    <3>2. v * PAGE_SIZE \in Nat
      BY LowPage, AddressOfPage
    <3> QED
      BY <3>2, SMT
  <2> QED
    BY <1>1, <2>1, <2>2 DEF Mapping, Later, Listed, Loaded
<1>5. PagingInv' /\ WalksKept
  BY <1>1, <1>2, <1>3, <1>4, QuietStep
<1> QED
  BY <1>1, <1>5

\* From the first loop of init_paging to the second.
LEMMA LowEndStep ==
  ASSUME KernelFits, PagingInv, init_paging_low_end
  PROVE  PagingInv' /\ WalksKept /\ UNCHANGED directory /\ pc # "start" /\ pc' # "start"
<1>1. /\ pc = "low" /\ pc' = "high" /\ ~panicked /\ UNCHANGED directory /\ UNCHANGED modules
      /\ next >= limit /\ next' = KERNEL_START * PAGE_SIZE /\ limit' = KERNEL_END * PAGE_SIZE
      /\ UNCHANGED allocVars /\ UNCHANGED memory
  BY DEF init_paging_low_end, Goto
<1>2. <<pc, pc'>> \in QuietMoves
  BY <1>1 DEF QuietMoves
<1>3. /\ next \in Nat /\ limit = LOW_PAGES * PAGE_SIZE
      /\ \A v \in LowPages : v * PAGE_SIZE < next => NewWalk(v) = v
  BY <1>1 DEF PagingInv, Mapping
<1>4. \A v : NewWalk(v)' = NewWalk(v)
  BY <1>1 DEF NewWalk, memory, directory
<1>5. ASSUME NEW v \in LowPages PROVE NewWalk(v) = v
  <2>1. v \in Int /\ v < LOW_PAGES /\ LOW_PAGES \in Int
    BY BaseIndex, SMT DEF LowPages
  <2>2. v * PAGE_SIZE < LOW_PAGES * PAGE_SIZE /\ v * PAGE_SIZE \in Int
        /\ LOW_PAGES * PAGE_SIZE \in Int
    BY <2>1, AddressOrder
  <2>3. PICK x, y : x = v * PAGE_SIZE /\ y = LOW_PAGES * PAGE_SIZE
    OBVIOUS
  <2>4. x < next
    BY <1>1, <1>3, <2>2, <2>3, SMT
  <2> QED
    BY <1>3, <2>3, <2>4
<1>6. /\ next' \in Nat /\ next' % PAGE_SIZE = 0 /\ next' >= KERNEL_START * PAGE_SIZE
      /\ KERNEL_START \in Nat
  <2>1. KERNEL_START \in Nat
    BY Layout, BaseIndex
  <2> QED
    BY <1>1, <2>1, AddressOfPage
<1>7. \A v \in KernelPages : ~(v * PAGE_SIZE < next')
  <2>1. \A v \in KernelPages : v \in Int /\ ~(v < KERNEL_START)
    BY <1>6, Layout, SMT
  <2> QED
    BY <1>1, <1>6, <2>1, AddressOrder
<1>8. Mapping'
  BY <1>1, <1>4, <1>5, <1>6, <1>7 DEF Mapping, Later, Listed, Loaded
<1>9. PagingInv' /\ WalksKept
  BY <1>1, <1>2, <1>8, QuietStep
<1> QED
  BY <1>1, <1>9

(***************************************************************************)
(* init_paging loads CR3 with the frame of the kernel's directory, which   *)
(* maps the first megabyte and the kernel as boot.asm's directory did.     *)
(***************************************************************************)
LEMMA SwitchStep ==
  ASSUME KernelFits, PagingInv, init_paging_switch
  PROVE  /\ PagingInv' /\ pc # "start" /\ pc' # "start"
         /\ ~kernelPagingEnabled /\ kernelPagingEnabled'
         /\ \A v \in LowPages \union KernelPages : Walk(mem', cr3', v) = Walk(mem, cr3, v)
<1>1. /\ pc = "high" /\ pc' = "modlist" /\ ~panicked /\ UNCHANGED modules
      /\ next >= limit /\ pageDirectory' = pageDirectory /\ ptPhysToVirt' = ptPhysToVirt
  BY DEF init_paging_switch, Goto
<1>2. pc \notin Early /\ ~kernelPagingEnabled /\ pc # "start"
  BY <1>1 DEF Early, PagingInv, StageOK, Later, Listed
<1>3. PICK d : d = pageDirectory - KernelBase
  OBVIOUS
<1>4. /\ virt_to_phys(mem, pageDirectory) = d /\ d # NoFrame /\ d \in TableFrames
      /\ pageDirectory \in KmallocPages
  BY <1>1, <1>2, <1>3, DirectoryFrame
<1>5. /\ cr3' = d /\ DOMAIN tlb' = {} /\ kernelPagingEnabled' = TRUE
      /\ UNCHANGED allocVars /\ mem' = mem
  BY <1>4 DEF init_paging_switch
<1>6. /\ panicked' = panicked /\ initialized' = initialized /\ currentBase' = currentBase
      /\ new_location' = new_location /\ mod_new_addr' = mod_new_addr /\ loader' = loader
  BY <1>1, <1>5 DEF allocVars, modules
<1>7. AllocInv'
  BY <1>5 DEF allocVars, PagingInv, AllocInv, AllocTypeOK, HeapIsSection, BumpIsFrontier,
              BlocksDisjoint, AlignedOnPage
<1>8. BootTables'
  BY <1>2, <1>5 DEF PagingInv, BootTables
<1>9. PagingTypeOK'
  BY <1>1, <1>4, <1>5, <1>6 DEF PagingInv, PagingTypeOK
<1>10. StageOK'
  BY <1>1, <1>2, <1>3, <1>4, <1>5, <1>6 DEF PagingInv, StageOK, Early, Later, Listed
<1>11. Cache' /\ TLBCoherent'
  BY <1>5 DEF Cache, TLBCoherent
<1>12. /\ next \in Nat /\ limit = KERNEL_END * PAGE_SIZE
       /\ \A v \in LowPages : NewWalk(v) = v
       /\ \A v \in KernelPages : v * PAGE_SIZE < next => NewWalk(v) = v - KernelBase
  BY <1>1 DEF PagingInv, Mapping
<1>13. ASSUME NEW v \in KernelPages PROVE NewWalk(v) = v - KernelBase
  <2>1. v \in Int /\ v < KERNEL_END /\ KERNEL_END \in Int
    BY Layout, BaseIndex, SMT
  <2>2. v * PAGE_SIZE < KERNEL_END * PAGE_SIZE /\ v * PAGE_SIZE \in Int
        /\ KERNEL_END * PAGE_SIZE \in Int
    BY <2>1, AddressOrder
  <2>3. PICK x, y : x = v * PAGE_SIZE /\ y = KERNEL_END * PAGE_SIZE
    OBVIOUS
  <2>4. x < next
    BY <1>1, <1>12, <2>2, <2>3, SMT
  <2> QED
    BY <1>12, <2>3, <2>4
<1>14. \A v : NewWalk(v)' = NewWalk(v) /\ Walk(mem', cr3', v) = NewWalk(v)
  BY <1>1, <1>3, <1>5 DEF NewWalk
<1>15. Given = {} /\ Given' = {} /\ pc' # "reverse" /\ pc' \notin Loaded \union {"module_map"}
       /\ pc \notin Loaded \union {"module_map"}
  BY <1>1 DEF Given, Later, Listed, Loaded
<1>16. Mapping'
  BY <1>1, <1>12, <1>13, <1>14 DEF Mapping, Listed, Loaded
<1>17. Tables'
  <2>1. /\ Used(pageDirectory) /\ Used(ptPhysToVirt) /\ pageDirectory # ptPhysToVirt
        /\ \A i \in Entries :
             IF "P" \in Dir[i].flags
             THEN /\ Used(Rev[i].page)
                  /\ Rev[i].page \notin {pageDirectory, ptPhysToVirt} \union Given
                  /\ Dir[i].page = Rev[i].page - KernelBase
             ELSE Rev[i].page = 0
        /\ \A i, j \in Entries :
             "P" \in Dir[i].flags /\ "P" \in Dir[j].flags /\ Dir[i].page = Dir[j].page => i = j
    BY <1>1, <1>2 DEF PagingInv, Tables
  <2>2. Dir' = Dir /\ Rev' = Rev
    BY <1>1, <1>5 DEF Dir, Rev
  <2>3. Used(pageDirectory)' /\ Used(ptPhysToVirt)' /\ pageDirectory' # ptPhysToVirt'
    BY <1>1, <1>6, <2>1, Zenon DEF Used
  <2>4. \A i \in Entries :
          IF "P" \in Dir'[i].flags
          THEN /\ Used(Rev[i].page)'
               /\ Rev'[i].page \notin {pageDirectory', ptPhysToVirt'} \union Given'
               /\ Dir'[i].page = Rev'[i].page - KernelBase
          ELSE Rev'[i].page = 0
    BY <1>1, <1>6, <1>15, <2>1, <2>2, Zenon DEF Used
  <2>5. \A i, j \in Entries :
          "P" \in Dir'[i].flags /\ "P" \in Dir'[j].flags /\ Dir'[i].page = Dir'[j].page => i = j
    BY <2>1, <2>2, Zenon
  <2>6. \A p \in Given' : Used(p)' /\ p \notin {pageDirectory', ptPhysToVirt'}
    BY <1>15
  <2> QED
    BY <1>15, <2>3, <2>4, <2>5, <2>6, Zenon DEF Tables
<1>18. ASSUME NEW v \in LowPages \union KernelPages
       PROVE  Walk(mem', cr3', v) = Walk(mem, cr3, v)
  <2>1. Walk(mem, cr3, v) = Translate(v)
    BY TranslateIsWalk DEF PagingInv
  <2>2. CASE v \in LowPages
    BY <1>2, <1>12, <1>14, <2>1, <2>2, BootTranslate, LowPage
  <2>3. CASE v \in KernelPages
    BY <1>2, <1>13, <1>14, <2>1, <2>3, BootTranslate
  <2> QED
    BY <2>2, <2>3
<1> QED
  BY <1>1, <1>2, <1>5, <1>7, <1>8, <1>9, <1>10, <1>11, <1>16, <1>17, <1>18 DEF PagingInv

\* What the directory maps once the ramdisk is up, and stays mapped.
LEMMA LoadedMapping ==
  ASSUME PagingInv, ~panicked, pc \in Loaded,
         UNCHANGED memory, UNCHANGED directory, UNCHANGED modules, pc' \in Loaded
  PROVE  /\ \A v \in LowPages : NewWalk(v)' = v
         /\ \A v \in KernelPages \ Given' : NewWalk(v)' = v - KernelBase
         /\ NewWalk(new_location)' * PAGE_SIZE = loader'.mods_addr
         /\ NewWalk(mod_new_addr)' * PAGE_SIZE = loader'.mod_start
         /\ pc' \notin {"low", "high"}
<1>1. /\ mem' = mem /\ pageDirectory' = pageDirectory /\ loader' = loader
      /\ new_location' = new_location /\ mod_new_addr' = mod_new_addr
  BY DEF memory, directory, modules
<1>2. pc \in Later /\ pc \in Listed /\ pc' \notin {"low", "high"}
  BY DEF Later, Listed, Loaded
<1>3. Given' = Given
  BY <1>1 DEF Given, Later, Listed, Loaded
<1>4. \A v : NewWalk(v)' = NewWalk(v)
  BY <1>1 DEF NewWalk
<1>5. /\ \A v \in LowPages : NewWalk(v) = v
      /\ \A v \in KernelPages \ Given : NewWalk(v) = v - KernelBase
      /\ NewWalk(new_location) * PAGE_SIZE = loader.mods_addr
      /\ NewWalk(mod_new_addr) * PAGE_SIZE = loader.mod_start
  BY <1>2 DEF PagingInv, Mapping
<1> QED
  BY <1>1, <1>2, <1>3, <1>4, <1>5, Zenon DEF NewWalk

\* A ramdisk without files, and the return of page_ident_map_range.
LEMMA ReturnStep ==
  ASSUME KernelFits, PagingInv, ramdisk_no_nodes \/ page_ident_map_end
  PROVE  PagingInv' /\ WalksKept /\ UNCHANGED directory /\ pc # "start" /\ pc' # "start"
<1>1. /\ pc \in {"nodes", "range"} /\ pc' = "idle" /\ ~panicked /\ UNCHANGED directory
      /\ UNCHANGED modules /\ UNCHANGED allocVars /\ UNCHANGED memory
  BY DEF ramdisk_no_nodes, page_ident_map_end, Goto, kmalloc_null
<1>2. <<pc, pc'>> \in QuietMoves /\ pc \in Loaded /\ pc' \in Loaded
  BY <1>1 DEF QuietMoves, Loaded
<1>3. Mapping'
  BY <1>1, <1>2, LoadedMapping, Zenon DEF Mapping
<1>4. PagingInv' /\ WalksKept
  BY <1>1, <1>2, <1>3, QuietStep
<1> QED
  BY <1>1, <1>4

\* A call of page_ident_map_range: an empty range fails its ASSERT.
LEMMA RangeStartStep ==
  ASSUME KernelFits, PagingInv, page_ident_map_range
  PROVE  PagingInv' /\ WalksKept /\ UNCHANGED directory /\ pc # "start" /\ pc' # "start"
<1>1. /\ pc = "idle" /\ pc' = "range" /\ ~panicked /\ UNCHANGED directory /\ UNCHANGED modules
  BY DEF page_ident_map_range, Goto
<1>2. PICK r \in Ranges : /\ IF r.start < r.end THEN UNCHANGED <<allocVars, memory>> ELSE Panic
                          /\ next' = r.start /\ limit' = PageUp(r.end) /\ range' = r
  BY DEF page_ident_map_range
<1>3. <<pc, pc'>> \in QuietMoves /\ pc \in Loaded /\ pc' \in Loaded /\ pc' \in Later
  BY <1>1 DEF QuietMoves, Loaded, Later, Listed
<1>4. CASE r.start < r.end
  <2>1. UNCHANGED allocVars /\ UNCHANGED memory
    BY <1>2, <1>4
  <2>2. /\ \A v \in LowPages : NewWalk(v)' = v
        /\ \A v \in KernelPages \ Given' : NewWalk(v)' = v - KernelBase
        /\ NewWalk(new_location)' * PAGE_SIZE = loader'.mods_addr
        /\ NewWalk(mod_new_addr)' * PAGE_SIZE = loader'.mod_start
        /\ pc' \notin {"low", "high"}
    BY <1>1, <1>3, <2>1, LoadedMapping
  <2>3. next' \in Nat /\ next' >= range'.start /\ next' = range'.start
    <3>1. r.start \in 0 .. WORD - 1 /\ WORD \in Nat
      BY PagingAssumption, AllocAssumption
    <3> QED
      BY <1>2, <3>1, SMT
  <2>4. \A p \in Pages : ~(range'.start <= p * PAGE_SIZE /\ p * PAGE_SIZE < next')
    <3>1. SUFFICES ASSUME NEW p \in Pages, range'.start <= p * PAGE_SIZE, p * PAGE_SIZE < next'
                   PROVE  FALSE
      OBVIOUS
    <3>2. p \in Nat
      BY BaseIndex, SMT DEF Pages
    <3>3. PICK x, y : x = p * PAGE_SIZE /\ y = next'
      OBVIOUS
    <3>4. x \in Nat /\ y \in Nat /\ y <= x /\ x < y
      BY <2>3, <3>1, <3>2, <3>3, AddressOfPage, Zenon
    <3> QED
      BY <3>4, SMT
  <2>5. Mapping'
    BY <1>1, <1>2, <1>4, <2>2, <2>3, <2>4, Zenon DEF Mapping
  <2>6. PagingInv' /\ WalksKept
    BY <1>1, <1>3, <2>1, <2>5, QuietStep
  <2> QED
    BY <1>1, <2>6
<1>5. CASE ~(r.start < r.end)
  <2>1. AllocInv' /\ panicked' /\ initialized' = initialized /\ mem' = mem /\ tlb' = tlb
    BY <1>2, <1>5, PanicKeeps DEF PagingInv
  <2>2. /\ new_location' \in Pages /\ mod_new_addr' \in Pages /\ UNCHANGED <<directory, loader>>
        /\ initialized' /\ cr3' = cr3
    BY <1>1, <2>1 DEF modules, directory, PagingInv, PagingTypeOK, StageOK
  <2>3. PagingInv'
    BY <1>1, <1>3, <2>1, <2>2, PanickedStep
  <2>4. WalksKept
    BY <2>1, <2>2, FrameWalks DEF WalksKept
  <2> QED
    BY <1>1, <2>3, <2>4
<1> QED
  BY <1>4, <1>5

-----------------------------------------------------------------------------
(***************************************************************************)
(* The invariant.                                                          *)
(***************************************************************************)

\* A step that changes nothing keeps the invariant.
LEMMA StutterStep ==
  ASSUME PagingInv, UNCHANGED vars
  PROVE  PagingInv'
<1>1. /\ mem' = mem /\ tlb' = tlb /\ cr3' = cr3 /\ pageDirectory' = pageDirectory
      /\ ptPhysToVirt' = ptPhysToVirt /\ kernelPagingEnabled' = kernelPagingEnabled
      /\ new_location' = new_location /\ mod_new_addr' = mod_new_addr /\ loader' = loader
      /\ panicked' = panicked /\ initialized' = initialized /\ currentBase' = currentBase
      /\ pc' = pc /\ next' = next /\ limit' = limit /\ range' = range
      /\ UNCHANGED allocVars
  BY DEF vars, memory, directory, modules, loop, allocVars
<1>2. AllocInv'
  BY <1>1 DEF allocVars, PagingInv, AllocInv, AllocTypeOK, HeapIsSection, BumpIsFrontier,
              BlocksDisjoint, AlignedOnPage
<1>3. PagingTypeOK' /\ StageOK' /\ BootTables'
  BY <1>1, Zenon DEF PagingInv, PagingTypeOK, StageOK, BootTables
<1>4. Given' = Given /\ Pending' = Pending
  BY <1>1 DEF Given, Pending
<1>5. TLBCoherent' /\ Cache'
  BY <1>1, <1>4, Zenon DEF PagingInv, TLBCoherent, Cache, Used
<1>6. Tables'
  BY <1>1, <1>4, Zenon DEF PagingInv, Tables, Used, Dir, Rev
<1>7. Mapping'
  BY <1>1, <1>4, Zenon DEF PagingInv, Mapping, NewWalk
<1> QED
  BY <1>2, <1>3, <1>5, <1>6, <1>7 DEF PagingInv

\* The machine before boot.asm runs.
LEMMA PagingStart ==
  ASSUME KernelFits, PagingInit
  PROVE  PagingInv
<1>1. /\ AllocInit /\ cr3 = 0 /\ DOMAIN tlb = {} /\ pageDirectory = 0 /\ ptPhysToVirt = 0
      /\ kernelPagingEnabled = FALSE /\ new_location = 0 /\ mod_new_addr = 0
      /\ loader \in Loaders /\ pc = "start"
  BY DEF PagingInit
<1>2. AllocInv
  BY <1>1, AllocInvInit
<1>3. initialized = FALSE /\ panicked = FALSE
  BY <1>1 DEF AllocInit
<1>4. PagingTypeOK
  <2>1. mem \in [TableFrames -> [Entries -> Words]]
    BY PagingAssumption DEF PagingInit
  <2>2. 0 \in Pages
    BY LayoutTypes DEF Entries
  <2>3. kernelPagingEnabled \in BOOLEAN
    BY <1>1, Zenon
  <2>4. DOMAIN tlb \subseteq Pages /\ \A v \in DOMAIN tlb : tlb[v] \in Pages
    BY <1>1, Zenon
  <2> QED
    BY <1>1, <2>1, <2>2, <2>3, <2>4, Zenon DEF PagingTypeOK
<1>5. StageOK /\ BootTables
  <2>1. initialized = (pc \notin {"start", "kmain"})
    <3>1. (pc \notin {"start", "kmain"}) = FALSE
      BY <1>1
    <3> QED
      BY <1>3, <3>1, Zenon
  <2>2. pc \in Early \union {"report", "low", "high"} \union Later
    BY <1>1 DEF Early
  <2>3. ~kernelPagingEnabled /\ ~panicked /\ pc \notin Later
    BY <1>1, <1>3 DEF Later, Listed
  <2> QED
    BY <1>1, <2>1, <2>2, <2>3, Zenon DEF StageOK, BootTables
<1>6. Tables /\ Mapping /\ Cache /\ TLBCoherent
  BY <1>1 DEF Tables, Mapping, Cache, TLBCoherent, Early, Later, Listed, Loaded
<1> QED
  BY <1>2, <1>4, <1>5, <1>6 DEF PagingInv

\* What a step does to the walks: boot.asm turns paging on; init_paging
\* exchanges the directory under the first megabyte and the kernel; page_map
\* changes one walk afterwards; nothing else changes any.
SpaceMoves ==
  \/ pc = "start" /\ pc' = "kmain" /\ cr3' = page_directory /\ ~kernelPagingEnabled'
  \/ /\ pc # "start" /\ pc' # "start" /\ kernelPagingEnabled' = kernelPagingEnabled
     /\ WalksKept
  \/ /\ pc # "start" /\ pc' # "start" /\ kernelPagingEnabled' = kernelPagingEnabled
     /\ kernelPagingEnabled /\ OneWalkChanges
  \/ /\ pc # "start" /\ pc' # "start" /\ ~kernelPagingEnabled /\ kernelPagingEnabled'
     /\ \A v \in LowPages \union KernelPages : Walk(mem', cr3', v) = Walk(mem, cr3, v)
  \/ UNCHANGED vars

\* Every step keeps the invariant, and is one of these.
LEMMA PagingStep ==
  ASSUME KernelFits, RangesApart, PagingInv, [PagingNext]_vars
  PROVE  PagingInv' /\ SpaceMoves
<1>1. CASE _start
  BY <1>1, StartStep DEF SpaceMoves
<1>2. CASE \/ kmain_heap \/ init_paging_report \/ init_paging_low_end \/ kmain_modlist
           \/ kmain_module \/ ramdisk_root \/ ramdisk_dev \/ ramdisk_nodes \/ ramdisk_no_nodes
           \/ page_ident_map_range \/ page_ident_map_end
  <2>1. PagingInv' /\ WalksKept /\ UNCHANGED directory /\ pc # "start" /\ pc' # "start"
    BY <1>2, HeapStep, ReportStep, LowEndStep, ModlistStep, ModuleStep, RamdiskStep,
       ReturnStep, RangeStartStep, Zenon
  <2> QED
    BY <2>1 DEF SpaceMoves, directory
<1>3. CASE init_paging_directory \/ init_paging_reverse
  BY <1>3, DirectoryStep, ReverseStep DEF SpaceMoves
<1>4. CASE init_paging_low \/ init_paging_high
  <2>1. /\ PagingInv' /\ UNCHANGED directory /\ pc' = pc
        /\ \A u \in Pages : Walk(mem', cr3', u) = Walk(mem, cr3, u)
    BY <1>4, LowStep, HighStep
  <2>2. pc # "start"
    BY <1>4 DEF init_paging_low, init_paging_high, MapNext, Goto
  <2> QED
    BY <2>1, <2>2 DEF SpaceMoves, WalksKept, directory
<1>5. CASE init_paging_switch
  BY <1>5, SwitchStep DEF SpaceMoves
<1>6. CASE kmain_modlist_map \/ kmain_module_map \/ page_ident_map_next
  <2>1. ~panicked /\ pc \in Later /\ pc # "start"
    BY <1>6 DEF kmain_modlist_map, kmain_module_map, page_ident_map_next, MapNext, Goto,
                Later, Listed
  <2>2. PagingInv' /\ OneWalkChanges /\ UNCHANGED directory /\ pc' # "start"
    BY <1>6, <2>1, ModuleMapsStep, RangeStep
  <2>3. kernelPagingEnabled
    BY <2>1, Stages
  <2> QED
    BY <2>1, <2>2, <2>3 DEF SpaceMoves, directory
<1>7. CASE UNCHANGED vars
  BY <1>7, StutterStep DEF SpaceMoves
<1>8. CASE PanicHalt
  BY <1>8, StutterStep DEF SpaceMoves, PanicHalt
<1> QED
  BY <1>1, <1>2, <1>3, <1>4, <1>5, <1>6, <1>7, <1>8, Zenon DEF PagingNext, Boot

-----------------------------------------------------------------------------
(***************************************************************************)
(* Theorems.  All hold for a kernel that fits behind one entry of the      *)
(* directory and calls of page_ident_map_range outside the kernel.         *)
(***************************************************************************)

(***************************************************************************)
(* Every step of the boot, from boot.asm to the loop at the end of kmain,  *)
(* keeps the inductive invariant.                                          *)
(***************************************************************************)
THEOREM PagingInvariant == KernelFits /\ RangesApart /\ PagingSpec => []PagingInv
<1> SUFFICES ASSUME KernelFits, RangesApart PROVE PagingSpec => []PagingInv
  OBVIOUS
<1>1. PagingInit => PagingInv
  BY PagingStart
<1>2. PagingInv /\ [PagingNext]_vars => PagingInv'
  BY PagingStep
<1> QED
  BY <1>1, <1>2, PTL DEF PagingSpec

(***************************************************************************)
(* Tables, statics and TLB keep their types: page_map writes page numbers  *)
(* into the frames of tables and nowhere else.                             *)
(***************************************************************************)
THEOREM PagingTypes == KernelFits /\ RangesApart /\ PagingSpec => []PagingTypeOK
<1>1. PagingInv => PagingTypeOK
  BY DEF PagingInv
<1> QED
  BY <1>1, PagingInvariant, PTL

(***************************************************************************)
(* No translation in the TLB is ever stale, although the code never        *)
(* executes invlpg: page_map is given fresh pages only.                    *)
(***************************************************************************)
THEOREM NeverStale == KernelFits /\ RangesApart /\ PagingSpec => []TLBCoherent
<1>1. PagingInv => TLBCoherent
  BY DEF PagingInv
<1> QED
  BY <1>1, PagingInvariant, PTL

(***************************************************************************)
(* boot.asm's tables map the whole kernel to the frames it was loaded in   *)
(* for as long as they are in use.                                         *)
(***************************************************************************)
THEOREM BootMapIsRight == KernelFits /\ RangesApart /\ PagingSpec => []BootMapsKernel
<1> SUFFICES ASSUME KernelFits, RangesApart PROVE PagingSpec => []BootMapsKernel
  OBVIOUS
<1>1. PagingInv => BootMapsKernel
  <2>1. SUFFICES ASSUME PagingInv, cr3 = page_directory,
                        NEW v \in ImagePages \union KmallocPages
                 PROVE  Translate(v) = v - KernelBase
    BY DEF BootMapsKernel
  <2>2. v \in KernelPages
    BY DEF KernelPages
  <2>3. page_directory # 0 /\ page_directory \in BootFrames
    BY Layout, BaseIndex DEF page_directory, BootFrames
  <2>4. pc # "start"
    BY <2>1, <2>3 DEF PagingInv, StageOK
  <2>5. ~kernelPagingEnabled
    BY <2>1, <2>3, Stages, LayoutTypes
  <2> QED
    BY <2>1, <2>2, <2>4, <2>5, BootTranslate
<1>2. PagingSpec => []PagingInv
  BY PagingInvariant
<1> QED
  BY <1>1, <1>2, PTL

(***************************************************************************)
(* ptPhysToVirt and the directory always name the same tables, the one by  *)
(* virtual page and the other by frame.                                    *)
(***************************************************************************)
THEOREM ReverseMapIsRight == KernelFits /\ RangesApart /\ PagingSpec => []ReverseMapSound
<1> SUFFICES ASSUME KernelFits, RangesApart PROVE PagingSpec => []ReverseMapSound
  OBVIOUS
<1>1. PagingInv => ReverseMapSound
  <2>1. SUFFICES ASSUME PagingInv, pc \notin Early, ~panicked, NEW i \in Entries
                 PROVE  IF "P" \in Read(mem, pageDirectory, i).flags
                        THEN /\ Read(mem, ptPhysToVirt, i).page # 0
                             /\ Translate(Read(mem, ptPhysToVirt, i).page)
                                  = Read(mem, pageDirectory, i).page
                        ELSE Read(mem, ptPhysToVirt, i).page = 0
    BY Zenon DEF ReverseMapSound, Early
  <2>2. Read(mem, pageDirectory, i) = Dir[i] /\ Read(mem, ptPhysToVirt, i) = Rev[i]
    BY <2>1, TablesAt, LayoutTypes DEF Read, Dir, Rev
  <2>3. IF "P" \in Dir[i].flags THEN Used(Rev[i].page) ELSE Rev[i].page = 0
    BY <2>1 DEF PagingInv, Tables
  <2>4. "P" \in Dir[i].flags => Rev[i].page # 0 /\ Translate(Rev[i].page) = Dir[i].page
    BY <2>1, <2>3, UsedPage, TablesAt
  <2> QED
    BY <2>2, <2>3, <2>4, Zenon
<1>2. PagingSpec => []PagingInv
  BY PagingInvariant
<1> QED
  BY <1>1, <1>2, PTL

(***************************************************************************)
(* virt_to_phys agrees with the MMU on every page of the kernel, in both   *)
(* its modes.                                                              *)
(***************************************************************************)
THEOREM VirtToPhysIsRight == KernelFits /\ RangesApart /\ PagingSpec => []VirtToPhysAgrees
<1> SUFFICES ASSUME KernelFits, RangesApart PROVE PagingSpec => []VirtToPhysAgrees
  OBVIOUS
<1>1. PagingInv => VirtToPhysAgrees
  <2>1. SUFFICES ASSUME PagingInv, pc # "start", ~panicked,
                        NEW v \in ImagePages \union KmallocPages
                 PROVE  virt_to_phys(mem, v) = Translate(v)
    BY DEF VirtToPhysAgrees
  <2>2. v \in KernelPages
    BY DEF KernelPages
  <2>3. virt_to_phys(mem, v) = Walk(mem, cr3, v)
    BY <2>1, <2>2, VirtToPhys DEF Dir, Rev
  <2>4. Translate(v) = Walk(mem, cr3, v)
    BY <2>1, TranslateIsWalk DEF PagingInv
  <2> QED
    BY <2>3, <2>4
<1>2. PagingSpec => []PagingInv
  BY PagingInvariant
<1> QED
  BY <1>1, <1>2, PTL

\* With the kernel's directory in CR3, what the CPU uses is its walk.
LEMMA TranslateIsNewWalk ==
  ASSUME PagingInv, ~panicked, pc \in Later, NEW v
  PROVE  Translate(v) = NewWalk(v)
<1>1. kernelPagingEnabled /\ cr3 = pageDirectory - KernelBase
  BY Stages
<1>2. Translate(v) = Walk(mem, cr3, v)
  BY TranslateIsWalk DEF PagingInv
<1> QED
  BY <1>1, <1>2 DEF NewWalk

(***************************************************************************)
(* kmain reads the module list and the module through the pages it mapped  *)
(* them at, whatever is allocated and mapped later.                        *)
(***************************************************************************)
THEOREM ModulesStayVisible == KernelFits /\ RangesApart /\ PagingSpec => []ModulesVisible
<1>1. PagingInv => ModulesVisible
  <2>1. SUFFICES ASSUME PagingInv, ~panicked
                 PROVE  /\ pc \in Listed =>
                             Translate(new_location) * PAGE_SIZE = loader.mods_addr
                        /\ pc \in Loaded =>
                             Translate(mod_new_addr) * PAGE_SIZE = loader.mod_start
    BY Zenon DEF ModulesVisible, Listed, Loaded
  <2>2. pc \in Listed \/ pc \in Loaded => pc \in Later
    BY DEF Later, Listed, Loaded
  <2>3. pc \in Listed => NewWalk(new_location) * PAGE_SIZE = loader.mods_addr
    BY <2>1 DEF PagingInv, Mapping
  <2>4. pc \in Loaded => NewWalk(mod_new_addr) * PAGE_SIZE = loader.mod_start
    BY <2>1 DEF PagingInv, Mapping
  <2> QED
    BY <2>1, <2>2, <2>3, <2>4, TranslateIsNewWalk, Zenon
<1> QED
  BY <1>1, PagingInvariant, PTL

\* The pages of a range of addresses, as page_ident_map_range visits them.
LEMMA RangePages ==
  ASSUME NEW start \in 0 .. WORD - 1, NEW end \in 0 .. WORD - 1, start % PAGE_SIZE = 0, start < end,
         NEW p \in start \div PAGE_SIZE .. (end - 1) \div PAGE_SIZE
  PROVE  p \in Pages /\ start <= p * PAGE_SIZE /\ p * PAGE_SIZE < end
<1>1. start \in Nat /\ end \in Nat /\ end - 1 \in 0 .. WORD - 1 /\ end - 1 \in Nat
      /\ PAGE_SIZE \in Nat \ {0}
  BY AllocAssumption, SMT
<1>2. PICK s, e : s = start \div PAGE_SIZE /\ e = (end - 1) \div PAGE_SIZE
  OBVIOUS
<1>3. s \in Nat /\ start = s * PAGE_SIZE
  BY <1>1, <1>2, AlignedAddress
<1>4. e \in Pages /\ s \in Pages
  BY <1>1, <1>2, PageOfAddress
<1>5. p \in s .. e
  BY <1>2
<1>6. p \in Pages /\ p \in Nat /\ s <= p /\ p <= e /\ e \in Nat
  BY <1>3, <1>4, <1>5, BaseIndex, SMT DEF Pages
<1>7. start <= p * PAGE_SIZE
  BY <1>3, <1>6, AddressOrder
<1>8. p * PAGE_SIZE < end
  <2>1. p * PAGE_SIZE <= e * PAGE_SIZE /\ p * PAGE_SIZE \in Int /\ e * PAGE_SIZE \in Int
    <3>1. p \in Int /\ e \in Int
      BY <1>6
    <3>2. p * PAGE_SIZE \in Int /\ e * PAGE_SIZE \in Int
      BY <3>1, AddressOrder, Zenon
    <3>3. p * PAGE_SIZE <= e * PAGE_SIZE <=> p <= e
      BY <3>1, AddressOrder, Zenon
    <3> QED
      BY <1>6, <3>2, <3>3, Zenon
  <2>2. end - 1 = PAGE_SIZE * e + ((end - 1) % PAGE_SIZE) /\ (end - 1) % PAGE_SIZE \in 0 .. PAGE_SIZE - 1
    BY <1>1, <1>2, PageOffset
  <2>3. PAGE_SIZE * e = e * PAGE_SIZE
    BY <1>1, <1>6, SMT
  <2>4. PICK x, y, z : x = p * PAGE_SIZE /\ y = e * PAGE_SIZE /\ z = (end - 1) % PAGE_SIZE
    OBVIOUS
  <2>5. x <= y /\ x \in Int /\ y \in Int /\ end - 1 = y + z /\ z \in 0 .. PAGE_SIZE - 1
    BY <2>1, <2>2, <2>3, <2>4, Zenon
  <2>6. x < end
    BY <1>1, <2>5, SMT
  <2> QED
    BY <2>4, <2>6
<1> QED
  BY <1>6, <1>7, <1>8

(***************************************************************************)
(* When page_ident_map_range returns, every page of its range leads to the *)
(* frame of the same address.                                              *)
(***************************************************************************)
THEOREM RangeIsMapped == KernelFits /\ RangesApart /\ PagingSpec => RangeMapped
<1> SUFFICES ASSUME KernelFits, RangesApart PROVE PagingSpec => RangeMapped
  OBVIOUS
<1>1. ASSUME PagingInv, [PagingNext]_vars, pc = "range", pc' = "idle",
             range.end <= WORD - PAGE_SIZE,
             NEW p \in range.start \div PAGE_SIZE .. (range.end - 1) \div PAGE_SIZE
      PROVE  Translate(p) = p
  <2>1. ~panicked /\ next >= limit
    <3>1. page_ident_map_end
      BY <1>1 DEF PagingNext, Boot, _start, kmain_heap, init_paging_directory,
        init_paging_reverse, init_paging_report, init_paging_low, init_paging_low_end,
        init_paging_high, init_paging_switch, kmain_modlist, kmain_modlist_map, kmain_module,
        kmain_module_map, ramdisk_root, ramdisk_dev, ramdisk_nodes, ramdisk_no_nodes,
        page_ident_map_range, page_ident_map_next, PanicHalt, MapNext, RamdiskAlloc, Goto, vars
    <3> QED
      BY <3>1 DEF page_ident_map_end, Goto
  <2>2. PICK start, end : start = range.start /\ end = range.end
    OBVIOUS
  <2>3. /\ range \in Ranges /\ start < end /\ limit = PageUp(end)
        /\ next \in Nat /\ next >= start
        /\ next = start \/ (next % PAGE_SIZE = 0 /\ start % PAGE_SIZE = 0)
        /\ \A u \in Pages : start <= u * PAGE_SIZE /\ u * PAGE_SIZE < next => NewWalk(u) = u
    BY <1>1, <2>1, <2>2 DEF PagingInv, Mapping
  <2>4. start \in 0 .. WORD - 1 /\ end \in 0 .. WORD - 1 /\ WORD \in Nat /\ PAGE_SIZE \in Nat
    BY <2>2, <2>3, PagingAssumption, AllocAssumption
  <2>5. end <= limit /\ limit \in Int
    BY <1>1, <2>2, <2>3, <2>4, RoundUp, SMT
  <2>6. end <= next /\ next # start
    BY <2>1, <2>3, <2>4, <2>5, SMT
  <2>7. p \in Pages /\ start <= p * PAGE_SIZE /\ p * PAGE_SIZE < end
    BY <1>1, <2>2, <2>3, <2>4, <2>6, RangePages
  <2>8. p * PAGE_SIZE < next
    <3>1. PICK x : x = p * PAGE_SIZE
      OBVIOUS
    <3>2. x \in Int
      BY <2>7, <3>1, BaseIndex, AddressOrder, SMT DEF Pages
    <3>3. x < next
      BY <2>3, <2>4, <2>6, <2>7, <3>1, <3>2, SMT
    <3> QED
      BY <3>1, <3>3
  <2>9. NewWalk(p) = p
    BY <2>3, <2>7, <2>8
  <2>10. pc \in Later
    BY <1>1 DEF Later, Listed
  <2> QED
    BY <1>1, <2>1, <2>9, <2>10, TranslateIsNewWalk
<1>2. PagingInv /\ [PagingNext]_vars =>
        [(pc = "range" /\ pc' = "idle" /\ range.end <= WORD - PAGE_SIZE) =>
           \A p \in range.start \div PAGE_SIZE .. (range.end - 1) \div PAGE_SIZE :
             Translate(p) = p]_vars
  BY <1>1, Zenon
<1>3. PagingSpec => []PagingInv
  BY PagingInvariant
<1> QED
  BY <1>2, <1>3, PTL DEF PagingSpec, RangeMapped

\* What the CPU uses under boot.asm's directory.
BootSpace ==
  pc # "start" /\ ~kernelPagingEnabled =>
    /\ \A v \in LowPages : Translate(v) = v
    /\ \A v \in KernelPages : Translate(v) = v - KernelBase

(***************************************************************************)
(* boot.asm and paging.c implement the address space that the kernel was   *)
(* promised: from the moment paging is on, the first megabyte and the      *)
(* kernel are in place, the exchange of the directories moves none of      *)
(* those pages, and a page_map after it changes one page.                  *)
(***************************************************************************)
THEOREM PagingRefinesAddressSpace ==
  KernelFits /\ RangesApart /\ PagingSpec => ImplementsAddressSpace
<1> SUFFICES ASSUME KernelFits, RangesApart PROVE PagingSpec => ImplementsAddressSpace
  OBVIOUS
<1>1. PagingInit => Space!SpaceInit
  BY DEF PagingInit, Space!SpaceInit
<1>2. PagingInv => BootSpace
  <2>1. \A v \in LowPages : v \in 0 .. EarlyEnd - 1
    BY LowPage
  <2> QED
    BY <2>1, BootTranslate, Zenon DEF BootSpace
<1>3. ASSUME PagingInv, PagingInv', BootSpace', [PagingNext]_vars
      PROVE  [Space!PagingOn \/ Space!Switch \/ Space!Remap]_(Space!spaceVars)
  <2>1. SpaceMoves
    BY <1>3, PagingStep
  <2>2. PICK t, t2 :
          /\ t = [v \in Pages |-> IF pc = "start" THEN NoFrame ELSE Translate(v)]
          /\ t2 = [v \in Pages |-> IF pc = "start" THEN NoFrame ELSE Translate(v)]'
    OBVIOUS
  <2>3. PICK h, h2 :
          /\ h = IF pc = "start" THEN "off"
                 ELSE IF kernelPagingEnabled THEN "kernel" ELSE "boot"
          /\ h2 = IF pc' = "start" THEN "off"
                  ELSE IF kernelPagingEnabled' THEN "kernel" ELSE "boot"
    OBVIOUS
  <2>4. /\ \A v \in Pages : pc # "start" => t[v] = Walk(mem, cr3, v)
        /\ \A v \in Pages : pc' # "start" => t2[v] = Walk(mem', cr3', v)
    <3>1. \A v \in Pages : Translate(v) = Walk(mem, cr3, v)
      BY <1>3, TranslateIsWalk DEF PagingInv
    <3>2. TLBCoherent'
      BY <1>3 DEF PagingInv
    <3>3. \A v \in Pages : Translate(v)' = Walk(mem', cr3', v)
      BY <3>2, Zenon DEF Translate, TLBCoherent
    <3> QED
      BY <2>2, <3>1, <3>3
  <2>5. UNCHANGED vars => t2 = t /\ h2 = h
    <3>1. ASSUME UNCHANGED vars
          PROVE  /\ mem' = mem /\ tlb' = tlb /\ cr3' = cr3 /\ pc' = pc
                 /\ kernelPagingEnabled' = kernelPagingEnabled
      BY <3>1 DEF vars, memory, directory
    <3>2. ASSUME UNCHANGED vars
          PROVE  \A v \in Pages : Translate(v)' = Translate(v)
      BY <3>1, <3>2, Zenon DEF Translate
    <3>3. ASSUME UNCHANGED vars PROVE t2 = t
      BY <2>2, <3>1, <3>2, <3>3
    <3> QED
      BY <2>3, <3>1, <3>3
  <2>6. LowPages \subseteq Pages /\ KernelPages \subseteq Pages
        /\ KernelPages = ImagePages \union KmallocPages
    BY LowPage, LayoutTypes DEF KernelPages
  <2>7. CASE pc = "start" /\ pc' = "kmain" /\ ~kernelPagingEnabled'
    <3>1. /\ \A v \in LowPages : t2[v] = v
          /\ \A v \in ImagePages \union KmallocPages : t2[v] = v - KernelBase
      BY <1>3, <2>2, <2>6, <2>7 DEF BootSpace
    <3>2. h = "off" /\ h2 = "boot"
      BY <2>3, <2>7
    <3>3. Space!PagingOn
      BY <2>2, <2>3, <3>1, <3>2, Zenon DEF Space!PagingOn
    <3> QED
      BY <3>3
  <2>8. CASE /\ pc # "start" /\ pc' # "start" /\ kernelPagingEnabled' = kernelPagingEnabled
             /\ WalksKept
    <3>1. h2 = h
      BY <2>3, <2>8
    <3>2. \A v \in Pages : t2[v] = t[v]
      BY <2>4, <2>8 DEF WalksKept
    <3>3. t2 = t
      BY <2>2, <3>2
    <3>4. UNCHANGED Space!spaceVars
      BY <2>2, <2>3, <3>1, <3>3, Zenon DEF Space!spaceVars
    <3> QED
      BY <3>4
  <2>9. CASE /\ pc # "start" /\ pc' # "start" /\ kernelPagingEnabled' = kernelPagingEnabled
             /\ kernelPagingEnabled /\ OneWalkChanges
    <3>1. h = "kernel" /\ h2 = "kernel"
      BY <2>3, <2>9
    <3>2. PICK v \in Pages :
            /\ \A u \in Pages \ {v} : Walk(mem', cr3', u) = Walk(mem, cr3, u)
            /\ v \in LowPages \union ImagePages => Walk(mem', cr3', v) = Walk(mem, cr3, v)
      BY <2>9 DEF OneWalkChanges
    <3>3. \A u \in LowPages \union ImagePages : t2[u] = t[u]
      BY <2>4, <2>6, <2>9, <3>2
    <3>4. \A u, w \in {x \in Pages : t2[x] # t[x]} : u = w
      BY <2>4, <2>9, <3>2
    <3>5. Space!Remap
      BY <2>2, <2>3, <3>1, <3>3, <3>4, Zenon DEF Space!Remap
    <3> QED
      BY <3>5
  <2>10. CASE /\ pc # "start" /\ pc' # "start" /\ ~kernelPagingEnabled /\ kernelPagingEnabled'
              /\ \A v \in LowPages \union KernelPages : Walk(mem', cr3', v) = Walk(mem, cr3, v)
    <3>1. h = "boot" /\ h2 = "kernel"
      BY <2>3, <2>10
    <3>2. \A v \in LowPages \union ImagePages \union KmallocPages : t2[v] = t[v]
      BY <2>4, <2>6, <2>10
    <3>3. Space!Switch
      BY <2>2, <2>3, <3>1, <3>2, Zenon DEF Space!Switch
    <3> QED
      BY <3>3
  <2>11. CASE UNCHANGED vars
    <3>1. UNCHANGED Space!spaceVars
      BY <2>2, <2>3, <2>5, <2>11, Zenon DEF Space!spaceVars
    <3> QED
      BY <3>1
  <2> QED
    BY <2>1, <2>7, <2>8, <2>9, <2>10, <2>11, Zenon DEF SpaceMoves
<1>4. PagingSpec => []PagingInv
  BY PagingInvariant
<1> QED
  BY <1>1, <1>2, <1>3, <1>4, PTL DEF PagingSpec, ImplementsAddressSpace, Space!SpaceSpec
=============================================================================
