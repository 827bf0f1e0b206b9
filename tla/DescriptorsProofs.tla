-------------------------- MODULE DescriptorsProofs --------------------------
(***************************************************************************)
(* Proofs about the descriptor tables, wherever the linker puts the GDT    *)
(* and the stubs.                                                          *)
(***************************************************************************)
EXTENDS Descriptors, TLAPS

-----------------------------------------------------------------------------
(***************************************************************************)
(* The inductive invariant behind SegmentsFlat and VectorsArrive: which    *)
(* entries are filled in, and what is loaded, at every point of gdt_init   *)
(* and idt_init.                                                           *)
(***************************************************************************)
GdtFilled ==
  /\ DOMAIN g_gdt = 0 .. GDT_DESCRIPTORS - 1
  /\ pc = "gdt" => k \in 0 .. GDT_DESCRIPTORS /\ \A m \in 0 .. k - 1 : g_gdt[m] = segment_of(m)
  /\ pc \in {"idt", "ready"} =>
       /\ \A m \in 0 .. GDT_DESCRIPTORS - 1 : g_gdt[m] = segment_of(m)
       /\ gdtr = 160 /\ cs = 8 /\ ds = 16
  /\ pc \in {"gdt", "panic"} => cs = BootSelector

IdtFilled ==
  /\ DOMAIN g_idt = 0 .. IDT_DESCRIPTORS - 1
  /\ \A v \in 0 .. IDT_DESCRIPTORS - 1 : v \notin Gates => g_idt[v] = NoGate
  /\ pc = "idt" => /\ k \in Gates \union {IDT_DESCRIPTORS}
                   /\ \A v \in Gates : v < k => g_idt[v] = gate(Stub(v), 8, 142)
  /\ pc = "ready" => /\ \A v \in Gates : g_idt[v] = gate(Stub(v), 8, 142)
                     /\ idtr = idt_limit
  /\ pc # "ready" => arrived = <<>>

DescriptorsInv ==
  /\ pc \in {"gdt", "panic", "idt", "ready"}
  /\ GdtFilled /\ IdtFilled /\ VectorsArrive

-----------------------------------------------------------------------------
(***************************************************************************)
(* What the processor reads back.                                          *)
(***************************************************************************)

\* A segment from 0 to the last byte, cut into its fields and put together.
LEMMA FlatSegment ==
  ASSUME NEW access
  PROVE  /\ SegmentBase(segment(Zero, Ones, access, 207)) = Zero
         /\ SegmentLimit(segment(Zero, Ones, access, 207)) = Ones
         /\ segment(Zero, Ones, access, 207).access = access
<1> DEFINE d == segment(Zero, Ones, access, 207)
<1>1. 65535 % 16 = 15 /\ 207 \div 16 = 12 /\ 0 % 256 = 0 /\ 0 \div 256 = 0
  BY SMT
<1>2. /\ d.segment_limit = 65535 /\ d.base_low = 0 /\ d.base_middle = 0
      /\ d.access = access /\ d.granularity = 207 /\ d.base_high = 0
  BY <1>1 DEF segment, Zero, Ones, HALF
<1> HIDE DEF d
<1>3. SegmentBase(d) = Zero
  BY <1>2 DEF SegmentBase, Zero
<1>4. 207 % 16 = 15 /\ 207 \div 128 = 1 /\ 1 % 2 = 1 /\ 65535 \div 16 = 4095
  BY SMT
<1>5. SegmentLimit(d) = Ones
  BY <1>1, <1>2, <1>4 DEF SegmentLimit, Ones, HALF
<1> QED
  BY <1>2, <1>3, <1>5 DEF d

\* The kernel's code and data segments in a filled GDT.
LEMMA KernelSegments ==
  /\ segment_of(1) = segment(Zero, Ones, 154, 207)
  /\ segment_of(2) = segment(Zero, Ones, 146, 207)
<1>1. 1 # 0 /\ 2 # 0 /\ 2 # 1
  BY SMT
<1> QED
  BY <1>1 DEF segment_of

\* The limits in the 16-bit fields of the pointers.
LEMMA Limits ==
  /\ (DESCRIPTOR * GDT_DESCRIPTORS * (GDT_DESCRIPTORS - 1)) % HALF = 160
  /\ idt_limit = 63488
<1>1. 160 % 65536 = 160 /\ 522240 % 65536 = 63488
  BY SMT
<1> QED
  BY <1>1 DEF DESCRIPTOR, GDT_DESCRIPTORS, IDT_DESCRIPTORS, HALF, idt_limit

\* A gate that idt_set_entry wrote is accepted, an empty one is not.
LEMMA GateAccepted ==
  ASSUME DescriptorsInv, pc = "ready", NEW v \in 0 .. IDT_DESCRIPTORS - 1
  PROVE  Accepted(v) <=> v \in Gates
<1>1. /\ gdtr = 160 /\ idtr = 63488
      /\ g_gdt[1] = segment(Zero, Ones, 154, 207)
  BY Limits, KernelSegments DEF DescriptorsInv, GdtFilled, IdtFilled, GDT_DESCRIPTORS
<1>2. v \in 0 .. 255 /\ 8 \div 8 = 1 /\ 154 \div 8 = 19
  BY SMT DEF IDT_DESCRIPTORS
<1>3. CASE v \in Gates
  <2>1. g_idt[v] = gate(Stub(v), 8, 142)
    BY <1>3 DEF DescriptorsInv, IdtFilled
  <2>2. g_idt[v].type = 142 /\ g_idt[v].segment_selector = 8
    BY <2>1 DEF gate
  <2>3. g_gdt[1].access = 154
    BY <1>1, FlatSegment
  <2> QED
    BY <1>1, <1>2, <1>3, <2>2, <2>3 DEF Accepted, DESCRIPTOR
<1>4. CASE v \notin Gates
  <2>1. g_idt[v].type = 0
    BY <1>4 DEF DescriptorsInv, IdtFilled, NoGate
  <2> QED
    BY <1>4, <2>1 DEF Accepted
<1> QED
  BY <1>3, <1>4

-----------------------------------------------------------------------------
(***************************************************************************)
(* The invariant, step by step.                                            *)
(***************************************************************************)

LEMMA InitDescriptors == Init => DescriptorsInv
<1> SUFFICES ASSUME Init PROVE DescriptorsInv
  OBVIOUS
<1>1. pc = "gdt" /\ k = 0 /\ arrived = <<>> /\ cs = BootSelector
  BY DEF Init
<1>2. GdtFilled
  BY <1>1 DEF Init, GdtFilled, GDT_DESCRIPTORS
<1>3. IdtFilled
  BY <1>1 DEF Init, IdtFilled
<1> QED
  BY <1>1, <1>2, <1>3 DEF DescriptorsInv, VectorsArrive

LEMMA SetGdtStep ==
  ASSUME DescriptorsInv, gdt_set_entry
  PROVE  DescriptorsInv'
<1>1. /\ pc = "gdt" /\ k \in 0 .. GDT_DESCRIPTORS - 1 /\ k' = k + 1
      /\ g_gdt' = [g_gdt EXCEPT ![k] = segment_of(k)]
      /\ pc' \in {"gdt", "panic"}
      /\ UNCHANGED <<place, stubs, g_idt, gdtr, idtr, cs, ds, arrived>>
  BY DEF gdt_set_entry, DescriptorsInv, GdtFilled, GDT_DESCRIPTORS
<1>2. \A m \in 0 .. k' - 1 : g_gdt'[m] = segment_of(m)
  <2> SUFFICES ASSUME NEW m \in 0 .. k' - 1
               PROVE  g_gdt'[m] = segment_of(m)
    OBVIOUS
  <2>1. m \in 0 .. GDT_DESCRIPTORS - 1 /\ (m = k \/ m \in 0 .. k - 1)
    BY <1>1 DEF GDT_DESCRIPTORS
  <2> QED
    BY <1>1, <2>1 DEF DescriptorsInv, GdtFilled
<1>3. GdtFilled'
  <2>1. k' \in 0 .. GDT_DESCRIPTORS
    BY <1>1 DEF GDT_DESCRIPTORS
  <2> QED
    BY <1>1, <1>2, <2>1 DEF DescriptorsInv, GdtFilled
<1>4. IdtFilled'
  BY <1>1 DEF DescriptorsInv, IdtFilled
<1> QED
  BY <1>1, <1>3, <1>4 DEF DescriptorsInv, VectorsArrive, IdtFilled

LEMMA LoadGdtStep ==
  ASSUME DescriptorsInv, load_gdt
  PROVE  DescriptorsInv'
<1>1. /\ pc = "gdt" /\ k = GDT_DESCRIPTORS
      /\ gdtr' = 160 /\ ds' = 16 /\ cs' = 8 /\ pc' = "idt" /\ k' = 0
      /\ UNCHANGED <<place, stubs, g_gdt, g_idt, idtr, arrived>>
  BY Limits DEF load_gdt
<1>2. GdtFilled'
  BY <1>1 DEF DescriptorsInv, GdtFilled
<1>3. IdtFilled'
  <2>1. 0 \in Gates /\ \A v \in Gates : ~(v < 0)
    BY DEF Gates
  <2> QED
    BY <1>1, <2>1 DEF DescriptorsInv, IdtFilled
<1> QED
  BY <1>1, <1>2, <1>3 DEF DescriptorsInv, VectorsArrive, IdtFilled

LEMMA SetIdtStep ==
  ASSUME DescriptorsInv, idt_set_entry
  PROVE  DescriptorsInv'
<1>1. /\ pc = "idt" /\ pc' = "idt" /\ k \in Gates
      /\ g_idt' = [g_idt EXCEPT ![k] = gate(Stub(k), 8, 142)]
      /\ k' = IF k + 1 \in Gates THEN k + 1 ELSE IF k < 128 THEN 128 ELSE IDT_DESCRIPTORS
      /\ UNCHANGED <<place, stubs, g_gdt, gdtr, idtr, cs, ds, pc, arrived>>
  BY DEF idt_set_entry
<1>2. k' \in Gates \union {IDT_DESCRIPTORS}
  BY <1>1 DEF Gates
<1>3. \A v \in Gates : v < k' => v = k \/ v < k
  BY <1>1 DEF Gates, IDT_DESCRIPTORS
<1>4. Gates \subseteq 0 .. IDT_DESCRIPTORS - 1
  BY DEF Gates, IDT_DESCRIPTORS
<1>5. \A v \in Gates : v < k' => g_idt'[v] = gate(Stub(v), 8, 142)
  BY <1>1, <1>3, <1>4 DEF DescriptorsInv, IdtFilled
<1>6. \A v : gate(Stub(v), 8, 142)' = gate(Stub(v), 8, 142)
  BY <1>1 DEF gate, Stub
<1>7. IdtFilled'
  BY <1>1, <1>2, <1>4, <1>5, <1>6 DEF DescriptorsInv, IdtFilled
<1>8. GdtFilled'
  BY <1>1 DEF DescriptorsInv, GdtFilled
<1> QED
  BY <1>1, <1>7, <1>8 DEF DescriptorsInv, VectorsArrive, IdtFilled

LEMMA LoadIdtStep ==
  ASSUME DescriptorsInv, load_idt
  PROVE  DescriptorsInv'
<1>1. /\ pc = "idt" /\ k = IDT_DESCRIPTORS /\ idtr' = idt_limit /\ pc' = "ready"
      /\ UNCHANGED <<place, stubs, g_gdt, g_idt, gdtr, cs, ds, k, arrived>>
  BY DEF load_idt
<1>2. \A v \in Gates : v < IDT_DESCRIPTORS
  BY DEF Gates, IDT_DESCRIPTORS
<1>3. \A v : gate(Stub(v), 8, 142)' = gate(Stub(v), 8, 142)
  BY <1>1 DEF gate, Stub
<1>4. idt_limit' = idt_limit
  BY DEF idt_limit
<1>5. IdtFilled'
  BY <1>1, <1>2, <1>3, <1>4 DEF DescriptorsInv, IdtFilled
<1>6. GdtFilled'
  BY <1>1 DEF DescriptorsInv, GdtFilled
<1> QED
  BY <1>1, <1>5, <1>6 DEF DescriptorsInv, VectorsArrive, IdtFilled

(***************************************************************************)
(* An interrupt finds its own gate, or that of the general protection      *)
(* fault, which is always accepted.                                        *)
(***************************************************************************)
LEMMA InterruptStep ==
  ASSUME DescriptorsInv, NEW v \in 0 .. IDT_DESCRIPTORS - 1, Interrupt(v)
  PROVE  DescriptorsInv'
<1>1. GP \in Gates /\ GP \in 0 .. IDT_DESCRIPTORS - 1
  BY DEF GP, Gates, IDT_DESCRIPTORS
<1>2. pc = "ready" /\ Accepted(GP) /\ (Accepted(v) <=> v \in Gates)
  BY <1>1, GateAccepted DEF Interrupt
<1>3. /\ arrived' = <<v, Target(v)>>
      /\ UNCHANGED <<place, stubs, g_gdt, g_idt, gdtr, idtr, cs, ds, k, pc>>
  BY <1>2 DEF Interrupt
<1> DEFINE w == IF v \in Gates THEN v ELSE GP
<1>4. w \in Gates /\ Target(v) = [hi |-> g_idt[w].base_high, lo |-> g_idt[w].base_low]
  BY <1>1, <1>2 DEF Target
<1>5. g_idt[w] = gate(Stub(w), 8, 142)
  BY <1>2, <1>4 DEF DescriptorsInv, IdtFilled
<1>6. Target(v) = Stub(w)
  <2>1. Target(v) = [hi |-> Stub(w).hi, lo |-> Stub(w).lo]
    BY <1>4, <1>5 DEF gate
  <2> QED
    BY <2>1 DEF Stub, Plus
<1>7. VectorsArrive'
  <2>1. arrived'[1] = v /\ arrived'[2] = Stub(w)
    BY <1>3, <1>6
  <2>2. Stub(w)' = Stub(w)
    BY <1>3 DEF Stub
  <2> QED
    BY <1>2, <1>3, <2>1, <2>2 DEF VectorsArrive, Stub
<1>8. \A u : gate(Stub(u), 8, 142)' = gate(Stub(u), 8, 142)
  BY <1>3 DEF gate, Stub
<1>9. IdtFilled'
  BY <1>2, <1>3, <1>8 DEF DescriptorsInv, IdtFilled, idt_limit
<1>10. GdtFilled'
  BY <1>3 DEF DescriptorsInv, GdtFilled
<1> QED
  BY <1>2, <1>3, <1>7, <1>9, <1>10 DEF DescriptorsInv

-----------------------------------------------------------------------------
(***************************************************************************)
(* The tables hold what gdt_init and idt_init have written so far.         *)
(***************************************************************************)
THEOREM DescriptorsInvariant == Spec => []DescriptorsInv
<1>1. DescriptorsInv /\ [Next]_vars => DescriptorsInv'
  <2> SUFFICES ASSUME DescriptorsInv, [Next]_vars PROVE DescriptorsInv'
    OBVIOUS
  <2>1. CASE UNCHANGED vars
    BY <2>1 DEF vars, DescriptorsInv, GdtFilled, IdtFilled, VectorsArrive, Stub, gate,
                idt_limit
  <2> QED
    BY <2>1, SetGdtStep, LoadGdtStep, SetIdtStep, LoadIdtStep, InterruptStep
    DEF Next, Stopped
<1> QED
  BY <1>1, InitDescriptors, PTL DEF Spec

\* After load_gdt the kernel runs on flat segments.
THEOREM AlwaysFlat == Spec => []SegmentsFlat
<1>1. DescriptorsInv => SegmentsFlat
  <2> SUFFICES ASSUME DescriptorsInv, cs # BootSelector PROVE SegmentsFlat
    BY DEF SegmentsFlat
  <2>1. gdtr = 160 /\ cs = 8 /\ ds = 16
    BY DEF DescriptorsInv, GdtFilled
  <2>2. g_gdt[1] = segment_of(1) /\ g_gdt[2] = segment_of(2)
    BY DEF DescriptorsInv, GdtFilled, GDT_DESCRIPTORS
  <2>3. 8 \div DESCRIPTOR = 1 /\ 16 \div DESCRIPTOR = 2
    BY SMT DEF DESCRIPTOR
  <2>4. SegmentsFlat!2!(8)
    BY <2>1, <2>2, <2>3, KernelSegments, FlatSegment
  <2>5. SegmentsFlat!2!(16)
    BY <2>1, <2>2, <2>3, KernelSegments, FlatSegment
  <2> QED
    BY <2>1, <2>4, <2>5 DEF SegmentsFlat
<1> QED
  BY <1>1, DescriptorsInvariant, PTL

\* Every vector leads to the stub meant for it, and none to a reset.
THEOREM AlwaysArrives == Spec => []VectorsArrive
<1>1. DescriptorsInv => VectorsArrive
  BY DEF DescriptorsInv
<1> QED
  BY <1>1, DescriptorsInvariant, PTL
=============================================================================
