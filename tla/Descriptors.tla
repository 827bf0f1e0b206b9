----------------------------- MODULE Descriptors -----------------------------
(***************************************************************************)
(* The descriptor tables: gdt_init with load_gdt, then idt_init with       *)
(* load_idt, byte fields and all, and how the processor reads them back.   *)
(* A 32-bit number is a record of its halves.                              *)
(***************************************************************************)
EXTENDS Integers

CONSTANTS
  GdtAddresses,   \* where the linker may put g_gdt
  StubAddresses   \* where it may put the first stub; a stub takes STUB bytes

HALF == 65536
STUB == 16
U32 == [hi : 0 .. HALF - 1, lo : 0 .. HALF - 1]
Zero == [hi |-> 0, lo |-> 0]
Ones == [hi |-> HALF - 1, lo |-> HALF - 1]
Plus(a, n) ==
  [hi |-> (a.hi + (a.lo + n) \div HALF) % HALF, lo |-> (a.lo + n) % HALF]

ASSUME DescriptorsAssumption == GdtAddresses \subseteq U32 /\ StubAddresses \subseteq U32

VARIABLES
  place, stubs,   \* the linker's choice
  g_gdt, g_idt,   \* the tables
  gdtr, idtr,     \* the limits in the pointers that were loaded, or Unloaded
  cs, ds,         \* selectors in the segment registers
  pc, k,
  arrived         \* the last interrupt, and the address it led to

vars == <<place, stubs, g_gdt, g_idt, gdtr, idtr, cs, ds, pc, k, arrived>>

GDT_DESCRIPTORS == 5
IDT_DESCRIPTORS == 256
DESCRIPTOR == 8   \* bytes of either
Unloaded == -1
BootSelector == 65535

Stub(v) == Plus(stubs, STUB * v)
Gates == 0 .. 47 \union {128}

NoSegment == [segment_limit |-> 0, base_low |-> 0, base_middle |-> 0, access |-> 0,
              granularity |-> 0, base_high |-> 0]
NoGate == [base_low |-> 0, segment_selector |-> 0, type |-> 0, base_high |-> 0]

Init ==
  /\ place \in GdtAddresses /\ stubs \in StubAddresses
  /\ g_gdt = [n \in 0 .. GDT_DESCRIPTORS - 1 |-> NoSegment]
  /\ g_idt = [v \in 0 .. IDT_DESCRIPTORS - 1 |-> NoGate]
  /\ gdtr = Unloaded /\ idtr = Unloaded
  /\ cs = BootSelector /\ ds = BootSelector
  /\ pc = "gdt" /\ k = 0 /\ arrived = <<>>

-----------------------------------------------------------------------------
\* Bug: the upper bits of the limit are lost.
segment_short(base, limit, access, gran) ==
  [segment_limit |-> limit.lo, base_low |-> base.lo, base_middle |-> base.hi % 256,
   access |-> access, granularity |-> (gran \div 16) * 16, base_high |-> base.hi \div 256]

\* gdt_set_entry: base and limit in pieces.
segment(base, limit, access, gran) ==
  [segment_limit |-> limit.lo, base_low |-> base.lo, base_middle |-> base.hi % 256,
   access |-> access, granularity |-> (limit.hi % 16) + (gran \div 16) * 16,
   base_high |-> base.hi \div 256]

\* The arguments of gdt_init for entry n.
segment_of(n) ==
  IF n = 0 THEN segment(Zero, Zero, 0, 0)
  ELSE segment(Zero, Ones, CASE n = 1 -> 154 [] n = 2 -> 146 [] n = 3 -> 250 [] n = 4 -> 242, 207)

\* 0x001010D8 behind the kernel's base.
Trap == [hi |-> 49168, lo |-> 4312]

\* Bug: the lower halves alone are compared.
Trapped_low(n) == Plus(place, DESCRIPTOR * n).lo = Trap.lo

\* The entry that gdt_set_entry panics at, by its address.
Trapped(n) == Plus(place, DESCRIPTOR * n) = Trap

gdt_set_entry ==
  /\ pc = "gdt" /\ k < GDT_DESCRIPTORS
  /\ g_gdt' = [g_gdt EXCEPT ![k] = segment_of(k)]
  /\ k' = k + 1
  /\ pc' = IF Trapped(k) THEN "panic" ELSE pc
  /\ UNCHANGED <<place, stubs, g_idt, gdtr, idtr, cs, ds, arrived>>

\* sizeof(g_gdt) * (GDT_DESCRIPTORS - 1), in 16 bits, and load_gdt.
load_gdt ==
  /\ pc = "gdt" /\ k = GDT_DESCRIPTORS
  /\ gdtr' = (DESCRIPTOR * GDT_DESCRIPTORS * (GDT_DESCRIPTORS - 1)) % HALF
  /\ ds' = 16 /\ cs' = 8
  /\ pc' = "idt" /\ k' = 0
  /\ UNCHANGED <<place, stubs, g_gdt, g_idt, idtr, arrived>>

\* Bug: the upper half of the address is that of the first stub.
gate_near(base, seg_sel, flags) ==
  [base_low |-> base.lo, segment_selector |-> seg_sel, type |-> flags, base_high |-> stubs.hi]

gate(base, seg_sel, flags) ==
  [base_low |-> base.lo, segment_selector |-> seg_sel, type |-> flags, base_high |-> base.hi]

idt_set_entry ==
  /\ pc = "idt" /\ k \in Gates
  /\ g_idt' = [g_idt EXCEPT ![k] = gate(Stub(k), 8, 142)]
  /\ k' = IF k + 1 \in Gates THEN k + 1 ELSE IF k < 128 THEN 128 ELSE IDT_DESCRIPTORS
  /\ UNCHANGED <<place, stubs, g_gdt, gdtr, idtr, cs, ds, pc, arrived>>

\* sizeof(g_idt) * (IDT_DESCRIPTORS - 1), in 16 bits.
idt_limit == (DESCRIPTOR * IDT_DESCRIPTORS * (IDT_DESCRIPTORS - 1)) % HALF

load_idt ==
  /\ pc = "idt" /\ k = IDT_DESCRIPTORS
  /\ idtr' = idt_limit
  /\ pc' = "ready"
  /\ UNCHANGED <<place, stubs, g_gdt, g_idt, gdtr, cs, ds, k, arrived>>

-----------------------------------------------------------------------------
\* The processor: the base and the limit of a segment, both 32 bits wide.
SegmentBase(d) == [hi |-> d.base_high * 256 + d.base_middle, lo |-> d.base_low]
SegmentLimit(d) ==
  LET upper == d.granularity % 16
  IN IF (d.granularity \div 128) % 2 = 0 THEN [hi |-> upper, lo |-> d.segment_limit]
     ELSE [hi |-> upper * 4096 + d.segment_limit \div 16, lo |-> (d.segment_limit % 16) * 4096 + 4095]

\* A vector has a gate the processor accepts: within the limit, an interrupt
\* gate that is present, to a present code segment within the limit.
Accepted(v) ==
  LET g == g_idt[v]
      n == g.segment_selector \div DESCRIPTOR
  IN /\ DESCRIPTOR * v + 7 <= idtr
     /\ g.type = 142
     /\ n > 0 /\ DESCRIPTOR * n + 7 <= gdtr
     /\ g_gdt[n].access \div 8 = 19

\* Interrupt v: by its gate, or a general protection fault by the gate of 13,
\* or, when that fails too, the processor is reset.
GP == 13
Target(v) ==
  LET g == IF Accepted(v) THEN g_idt[v] ELSE g_idt[GP]
  IN [hi |-> g.base_high, lo |-> g.base_low]

Interrupt(v) ==
  /\ pc = "ready"
  /\ IF Accepted(v) \/ Accepted(GP)
     THEN arrived' = <<v, Target(v)>> /\ UNCHANGED pc
     ELSE pc' = "reset" /\ UNCHANGED arrived
  /\ UNCHANGED <<place, stubs, g_gdt, g_idt, gdtr, idtr, cs, ds, k>>

Stopped == pc \in {"panic", "reset"} /\ UNCHANGED vars

Next ==
  \/ gdt_set_entry \/ load_gdt \/ idt_set_entry \/ load_idt
  \/ \E v \in 0 .. IDT_DESCRIPTORS - 1 : Interrupt(v)
  \/ Stopped

\* Straight-line code with interrupts off.
Spec == Init /\ [][Next]_vars
             /\ WF_vars(gdt_set_entry \/ load_gdt \/ idt_set_entry \/ load_idt)

-----------------------------------------------------------------------------
(***************************************************************************)
(* From the load of the GDT on, the segments in use are flat: they start   *)
(* at 0 and reach to the last byte of memory, code executable, data        *)
(* writable, both of the kernel.                                           *)
(***************************************************************************)
SegmentsFlat ==
  cs # BootSelector =>
    \A s \in {cs, ds} :
      LET d == g_gdt[s \div DESCRIPTOR]
      IN /\ s + 7 <= gdtr
         /\ SegmentBase(d) = Zero /\ SegmentLimit(d) = Ones
         /\ d.access = IF s = cs THEN 154 ELSE 146

(***************************************************************************)
(* An interrupt reaches the stub that was written for its vector, whatever *)
(* the linker made of the addresses; a vector without stub reaches the one *)
(* of the general protection fault, and the processor is never reset.      *)
(***************************************************************************)
VectorsArrive ==
  /\ pc # "reset"
  /\ arrived # <<>> =>
       arrived[2] = Stub(IF arrived[1] \in Gates THEN arrived[1] ELSE GP)

\* The tables are loaded, unless g_gdt lies where gdt_set_entry panics.
TablesLoaded ==
  (\E n \in 0 .. GDT_DESCRIPTORS - 1 : Plus(place, DESCRIPTOR * n) = Trap) \/ <>(pc = "ready")
=============================================================================
