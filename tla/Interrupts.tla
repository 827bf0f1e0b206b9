----------------------------- MODULE Interrupts -----------------------------
(***************************************************************************)
(* Interrupts from boot to the idle loop: the IDT (kernel/idt.c), the      *)
(* stubs (asm/irq.asm, asm/exceptions.asm), the dispatch (kernel/isr.c),   *)
(* the driver of the two 8259 PICs (drivers/8259_pic.c), the timer and     *)
(* sleep (kernel/timer.c), panic (libc/kerror.c), and kmain, which sets    *)
(* them up and then waits.  The processor and the PICs are external: they  *)
(* are modelled as far as the code depends on them.                        *)
(*                                                                         *)
(* The CPU runs kmain while stack is empty and otherwise the handler whose *)
(* frame is last in it.                                                    *)
(***************************************************************************)
EXTENDS Integers, Sequences, FiniteSetsExt

CONSTANTS
  Lines,        \* the interrupt lines with a device: 0 is the PIT
  Masks,        \* the masks the BIOS may leave in the PICs
  Exceptions,   \* the exceptions the processor may raise
  HZ,           \* the 100 of timer_init
  Secs,         \* arguments of sleep
  TICKS,        \* 2^32: the number of values of g_ticks
  MaxDepth      \* bound: frames on the stack when an exception is raised

ASSUME InterruptsAssumption ==
  /\ Lines \subseteq (0 .. 15) \ {2}
  /\ Masks \subseteq SUBSET (0 .. 15)
  /\ Exceptions \subseteq 0 .. 31
  /\ HZ \in Nat
  /\ Secs \subseteq Nat
  /\ TICKS \in Nat \ {0}
  /\ MaxDepth \in Nat

VARIABLES
  ifl,           \* EFLAGS.IF
  shadow,        \* the instruction after sti has not been executed yet
  stack,         \* the frames of the running handlers
  gates,         \* vectors with an entry in the loaded IDT
  handlers,      \* g_interrupt_handlers
  irr, inService, imr,   \* the PICs' request, in-service and mask registers
  base,          \* their vector bases, master and slave
  ready,         \* both PICs have their four initialization words
  saved,         \* a1 and a2 of pic8259_init
  g_freq_hz,
  g_ticks,
  pc,            \* where kmain is
  end,           \* the local of sleep
  slept,         \* history: what sleep was asked, and the ticks since
  panicked

cpu == <<ifl, shadow, stack, panicked>>
pic == <<irr, inService, imr, base, ready>>
timer == <<g_freq_hz, g_ticks>>
main == <<pc, end, saved>>
vars == <<cpu, pic, timer, main, gates, handlers, slept>>

Vectors == 0 .. 255
IRQ_BASE == 32
NULL == "NULL"
Master == 0 .. 7
Slave == 8 .. 15

Init ==
  /\ ifl = FALSE                            \* GRUB enters with IF clear
  /\ shadow = FALSE
  /\ stack = <<>>
  /\ gates = {}
  /\ handlers = [v \in Vectors |-> NULL]
  /\ irr = {} /\ inService = {}
  /\ imr \in Masks
  /\ base = [master |-> 8, slave |-> 112]   \* the BIOS's
  /\ ready = TRUE
  /\ saved = {}
  /\ g_freq_hz = 0
  /\ g_ticks = 0
  /\ pc = "idt"
  /\ end = 0
  /\ slept = [start |-> 0, ticks |-> 0, elapsed |-> 0]
  /\ panicked = FALSE

-----------------------------------------------------------------------------
(***************************************************************************)
(* The PICs, in fully nested mode, the slave on input 2 of the master.     *)
(***************************************************************************)

\* The master's input that line l arrives at.
Input(l) == IF l \in Slave THEN 2 ELSE l

\* The bits an acknowledged line sets in the in-service registers.
Bits(l) == {l, Input(l)}

\* The PICs forward line l: it is requested, masked nowhere, and no line of
\* its priority or above is in service.
Forwarded(l) ==
  /\ l \in irr
  /\ imr \intersect Bits(l) = {}
  /\ \A s \in inService : /\ s \in Master => Input(l) < s
                          /\ s \in Slave /\ l \in Slave => l < s

\* l comes before k in the priority order 0, 1, 8, ..., 15, 3, ..., 7.
Before(l, k) == Input(l) < Input(k) \/ (Input(l) = Input(k) /\ l < k)

VectorOf(l) == IF l \in Slave THEN base.slave + l - 8 ELSE base.master + l

\* A non-specific end of interrupt at the chip with the inputs chip.
EndOfInterrupt(s, chip) ==
  IF s \intersect chip = {} THEN s ELSE s \ {Min(s \intersect chip)}

\* A device pulls its line.  A request that is already latched is lost.
Raise(l) ==
  /\ l \notin irr
  /\ irr' = irr \union {l}
  /\ UNCHANGED <<cpu, timer, main, inService, imr, base, ready, gates, handlers, slept>>

-----------------------------------------------------------------------------
(***************************************************************************)
(* The processor.                                                          *)
(***************************************************************************)

Top == stack[Len(stack)]
Running(at) == ~panicked /\ stack # <<>> /\ Top.at = at
InMain == ~panicked /\ stack = <<>>

\* Bug: the gates are trap gates (0x8F), which leave IF alone.
EnterTrap(frame) ==
  /\ stack' = Append(stack, frame)
  /\ UNCHANGED ifl

\* Entry through an interrupt gate (type 0x8E in every idt_set_entry).
Enter(frame) ==
  /\ stack' = Append(stack, frame)
  /\ ifl' = FALSE

\* irq: the PICs sent it; bits: what it set in service; flag: the IF saved.
Frame(irq, vec, bits) ==
  [irq |-> irq, vec |-> vec, bits |-> bits, flag |-> ifl, at |-> "stub"]

CanInterrupt == ifl /\ ~shadow /\ ready

\* Between two instructions the CPU acknowledges the line the PICs forward.
Interrupt(l) ==
  /\ CanInterrupt
  /\ Forwarded(l)
  /\ \A k \in Lines \ {l} : Forwarded(k) => Before(l, k)
  /\ Enter(Frame(TRUE, VectorOf(l), Bits(l)))
  /\ irr' = irr \ {l}
  /\ inService' = inService \union Bits(l)
  /\ UNCHANGED <<timer, main, shadow, panicked, imr, base, ready, gates, handlers, slept>>

\* The request vanished before the acknowledgement: the master answers with
\* its vector 7 and sets no bit, or the slave does and the master sets bit 2.
Spurious(l) ==
  /\ CanInterrupt
  /\ l = 15 => /\ 2 \notin imr
               /\ \A s \in inService : s \notin {0, 1, 2} \union Slave
  /\ LET bits == IF l = 15 THEN {2} ELSE {}
     IN  /\ Enter(Frame(TRUE, VectorOf(l), bits))
         /\ inService' = inService \union bits
  /\ UNCHANGED <<timer, main, shadow, panicked, irr, imr, base, ready, gates, handlers, slept>>

\* A fault, trap or NMI, in kmain or in a handler.
Exception(n) ==
  /\ ~panicked
  /\ n \in gates
  /\ Len(stack) < MaxDepth
  /\ Enter(Frame(FALSE, n, {}))
  /\ shadow' = FALSE
  /\ UNCHANGED <<pic, timer, main, gates, handlers, slept, panicked>>

-----------------------------------------------------------------------------
(***************************************************************************)
(* irq_n, irq_handler, isr_irq_handler; exception_n, isr_exception_handler.*)
(***************************************************************************)

Step(to) == stack' = [stack EXCEPT ![Len(stack)].at = to]

\* cli and the pushes of the stub irq_n.
irq_stub ==
  /\ Running("stub")
  /\ Top.vec >= IRQ_BASE
  /\ Step("dispatch")
  /\ ifl' = FALSE
  /\ UNCHANGED <<pic, timer, main, gates, handlers, slept, shadow, panicked>>

\* Bug: the tick is not counted.
timer_handler_idle == UNCHANGED <<g_ticks, slept>>

\* timer_handler; no entry of g_timer_function_manager has a timeout, so
\* its loop calls nothing.
timer_handler ==
  /\ g_ticks' = (g_ticks + 1) % TICKS
  /\ slept' = IF pc = "sleep" /\ slept.elapsed < slept.ticks
              THEN [slept EXCEPT !.elapsed = @ + 1]
              ELSE slept

\* isr_irq_handler up to the EOI.
isr_irq_handler ==
  /\ Running("dispatch")
  /\ Step("eoi")
  /\ IF handlers[Top.vec] = "timer_handler"
     THEN timer_handler
     ELSE UNCHANGED <<g_ticks, slept>>
  /\ UNCHANGED <<pic, main, ifl, shadow, panicked, gates, handlers, g_freq_hz>>

\* Bug: the slave gets no EOI for its first line.
eoi_above(vec, s) ==
  EndOfInterrupt(IF vec > 40 THEN EndOfInterrupt(s, Slave) ELSE s, Master)

\* Bug: both writes stand inside the if.
eoi_braces(vec, s) ==
  IF vec >= 40 THEN EndOfInterrupt(EndOfInterrupt(s, Slave), Master) ELSE s

\* The in-service registers after pic8259_eoi's writes.
eoi(vec, s) ==
  EndOfInterrupt(IF vec >= 40 THEN EndOfInterrupt(s, Slave) ELSE s, Master)

pic8259_eoi ==
  /\ Running("eoi")
  /\ Step("sti")
  /\ inService' = eoi(Top.vec, inService)
  /\ UNCHANGED <<timer, main, gates, handlers, slept, ifl, shadow, panicked,
                 irr, imr, base, ready>>

\* Bug: other instructions stand between sti and iret.
irq_sti_early ==
  /\ Running("sti")
  /\ Step("iret")
  /\ ifl' = TRUE
  /\ UNCHANGED <<pic, timer, main, gates, handlers, slept, shadow, panicked>>

\* The registers are restored, then sti; it takes effect after the iret.
irq_sti ==
  /\ Running("sti")
  /\ Step("iret")
  /\ ifl' = TRUE
  /\ shadow' = TRUE
  /\ UNCHANGED <<pic, timer, main, gates, handlers, slept, panicked>>

irq_iret ==
  /\ Running("iret")
  /\ ifl' = Top.flag
  /\ shadow' = FALSE
  /\ stack' = SubSeq(stack, 1, Len(stack) - 1)
  /\ UNCHANGED <<pic, timer, main, gates, handlers, slept, panicked>>

\* exception_n and exception_handler up to the call.
exception_stub ==
  /\ Running("stub")
  /\ Top.vec < IRQ_BASE
  /\ Step("exception")
  /\ ifl' = FALSE
  /\ UNCHANGED <<pic, timer, main, gates, handlers, slept, shadow, panicked>>

\* A registered handler (page_fault_handler) panics, and so does the code
\* after it: the end of exception_handler is never reached.
isr_exception_handler ==
  /\ Running("exception")
  /\ panicked' = TRUE
  /\ ifl' = FALSE
  /\ UNCHANGED <<pic, timer, main, gates, handlers, slept, shadow, stack>>

-----------------------------------------------------------------------------
(***************************************************************************)
(* kmain.                                                                  *)
(***************************************************************************)

At(from, to) == InMain /\ pc = from /\ pc' = to

\* gdt_init and idt_init; load_idt makes the gates known to the CPU.
idt_init ==
  /\ At("idt", "paging")
  /\ gates' = (0 .. 47) \union {128}
  /\ UNCHANGED <<cpu, pic, timer, end, saved, handlers, slept>>

isr_register_interrupt_handler(num, handler) ==
  handlers' = IF num < 256 THEN [handlers EXCEPT ![num] = handler] ELSE handlers

\* init_paging's part in interrupts.
init_paging ==
  /\ At("paging", "icw1")
  /\ isr_register_interrupt_handler(14, "page_fault_handler")
  /\ UNCHANGED <<cpu, pic, timer, end, saved, gates, slept>>

\* pic8259_init: both masks are saved; ICW1 clears all three registers, and
\* the chips wait for their words.
pic8259_init ==
  /\ At("icw1", "icw2")
  /\ saved' = imr
  /\ irr' = {} /\ inService' = {} /\ imr' = {}
  /\ ready' = FALSE
  /\ UNCHANGED <<cpu, timer, end, base, gates, handlers, slept>>

\* Bug: the vector bases are not sent.
pic8259_icw2_missing ==
  /\ At("icw2", "icw4")
  /\ UNCHANGED <<cpu, timer, pic, end, saved, gates, handlers, slept>>

pic8259_icw2 ==
  /\ At("icw2", "icw4")
  /\ base' = [master |-> 32, slave |-> 40]
  /\ UNCHANGED <<cpu, timer, end, saved, irr, inService, imr, ready, gates, handlers, slept>>

\* ICW3 (the cascade on input 2) and ICW4.
pic8259_icw4 ==
  /\ At("icw4", "mask")
  /\ ready' = TRUE
  /\ UNCHANGED <<cpu, timer, end, saved, irr, inService, imr, base, gates, handlers, slept>>

\* Bug: the masks, cleared by ICW1, are not restored.
pic8259_mask_open ==
  /\ At("mask", "timer")
  /\ UNCHANGED <<cpu, pic, timer, end, saved, gates, handlers, slept>>

pic8259_mask ==
  /\ At("mask", "timer")
  /\ imr' = saved
  /\ UNCHANGED <<cpu, timer, end, saved, irr, inService, base, ready, gates, handlers, slept>>

timer_init ==
  /\ At("timer", "fs")
  /\ g_freq_hz' = HZ
  /\ isr_register_interrupt_handler(IRQ_BASE, "timer_handler")
  /\ UNCHANGED <<cpu, pic, g_ticks, end, saved, gates, slept>>

\* The module list, the ramdisk and the listing of its files.
kmain_files ==
  /\ At("fs", "sti")
  /\ UNCHANGED <<cpu, pic, timer, end, saved, gates, handlers, slept>>

\* A failed ASSERT, an exhausted heap or an empty file on the way.
panic ==
  /\ InMain
  /\ pc \in {"paging", "fs"}
  /\ panicked' = TRUE
  /\ ifl' = FALSE
  /\ UNCHANGED <<pic, timer, main, gates, handlers, slept, shadow, stack>>

kmain_sti ==
  /\ At("sti", "hlt")
  /\ ifl' = TRUE
  /\ shadow' = TRUE
  /\ UNCHANGED <<pic, timer, end, saved, gates, handlers, slept, stack, panicked>>

\* The first hlt ends the shadow of the sti; the loop then only waits.
kmain_hlt ==
  /\ At("hlt", "idle")
  /\ shadow' = FALSE
  /\ UNCHANGED <<pic, timer, end, saved, gates, handlers, slept, ifl, stack, panicked>>

\* Bug: the wait is one tick short.
sleep_short(sec) ==
  /\ At("idle", "sleep")
  /\ end' = (g_ticks + sec * g_freq_hz - 1) % TICKS
  /\ slept' = [start |-> g_ticks, ticks |-> sec * g_freq_hz, elapsed |-> 0]
  /\ UNCHANGED <<cpu, pic, timer, saved, gates, handlers>>

\* sleep, for code that runs after the sti (nothing calls it yet).
sleep(sec) ==
  /\ At("idle", "sleep")
  /\ end' = (g_ticks + sec * g_freq_hz) % TICKS
  /\ slept' = [start |-> g_ticks, ticks |-> sec * g_freq_hz, elapsed |-> 0]
  /\ UNCHANGED <<cpu, pic, timer, saved, gates, handlers>>

\* The loop of sleep reads g_ticks afresh each time (the build has no -O).
sleep_return ==
  /\ At("sleep", "idle")
  /\ g_ticks >= end
  /\ UNCHANGED <<cpu, pic, timer, end, saved, gates, handlers, slept>>

-----------------------------------------------------------------------------

Handler ==
  \/ irq_stub
  \/ isr_irq_handler
  \/ pic8259_eoi
  \/ irq_sti
  \/ irq_iret
  \/ exception_stub
  \/ isr_exception_handler

Setup ==
  \/ idt_init
  \/ init_paging
  \/ pic8259_init
  \/ pic8259_icw2
  \/ pic8259_icw4
  \/ pic8259_mask
  \/ timer_init
  \/ kmain_files
  \/ kmain_sti
  \/ kmain_hlt

\* hlt in the idle loop, in panic and in a waiting sleep changes nothing.
Wait == (panicked \/ (InMain /\ pc \in {"idle", "sleep"})) /\ UNCHANGED vars

Next ==
  \/ Handler
  \/ Setup
  \/ panic
  \/ \E sec \in Secs : sleep(sec)
  \/ sleep_return
  \/ \E l \in Lines : Raise(l)
  \/ \E l \in Lines : Interrupt(l)
  \/ \E l \in {7, 15} : Spurious(l)
  \/ \E n \in Exceptions : Exception(n)
  \/ Wait

Safety == Init /\ [][Next]_vars

(***************************************************************************)
(* The processor executes what it has to execute, and takes an interrupt   *)
(* that stays pending; the PIT fires again and again.  Between two ticks   *)
(* the loop of sleep runs many times: a condition that holds for a whole   *)
(* tick again and again is seen.                                           *)
(***************************************************************************)
Fairness ==
  /\ WF_vars(Handler)
  /\ WF_vars(Setup)
  /\ WF_vars(Raise(0))
  /\ SF_vars(Interrupt(0))
  /\ SF_vars(sleep_return)

Spec == Safety /\ Fairness

-----------------------------------------------------------------------------
(***************************************************************************)
(* Properties.                                                             *)
(***************************************************************************)

Frames ==
  [irq : BOOLEAN, vec : Vectors, bits : SUBSET (0 .. 15), flag : BOOLEAN,
   at : {"stub", "dispatch", "eoi", "sti", "iret", "exception"}]

\* Type invariant: IDT and handler table, PIC registers, frames, ticks.
TypeOK ==
  /\ ifl \in BOOLEAN /\ shadow \in BOOLEAN /\ panicked \in BOOLEAN
  /\ stack \in Seq(Frames)
  /\ gates \subseteq Vectors
  /\ handlers \in [Vectors -> {NULL, "page_fault_handler", "timer_handler"}]
  /\ irr \subseteq Lines
  /\ inService \subseteq 0 .. 15
  /\ imr \subseteq 0 .. 15 /\ saved \subseteq 0 .. 15
  /\ base \in [master : Vectors, slave : Vectors]
  /\ ready \in BOOLEAN
  /\ pc \in {"idt", "paging", "icw1", "icw2", "icw4", "mask", "timer", "fs",
             "sti", "hlt", "idle", "sleep"}
  /\ g_ticks \in 0 .. TICKS - 1

(***************************************************************************)
(* An interrupt is handled to its iret before the next one is taken: the   *)
(* gates clear IF and the stub's sti opens no window before its iret.  The *)
(* 16 KB kernel stack depends on it.                                       *)
(***************************************************************************)
NoNesting == \A i \in 1 .. Len(stack) : stack[i].irq => i = 1

(***************************************************************************)
(* Whenever interrupts can be taken, nothing is left in service on either  *)
(* PIC: no line is blocked by an interrupt whose handler is over.          *)
(***************************************************************************)
EnabledMeansRetired == CanInterrupt => inService = {}

(***************************************************************************)
(* pic8259_eoi's non-specific EOIs retire the bits of the interrupt being  *)
(* handled and no other's, also when the interrupt was spurious and had    *)
(* none of its own.                                                        *)
(***************************************************************************)
EoiRetiresOwn ==
  [][\A b \in inService \ inService' :
       pc = "icw1" \/ (stack # <<>> /\ b \in Top.bits)]_vars

(***************************************************************************)
(* When IF is first set the machine is ready for it: every interrupt has   *)
(* an entry in the IDT and one of the vectors 32 to 47, so that none is    *)
(* taken for an exception, and the timer's finds its handler.              *)
(***************************************************************************)
OnlyRemappedVectors ==
  \A i \in 1 .. Len(stack) :
    /\ stack[i].vec \in gates
    /\ stack[i].irq => stack[i].vec \in 32 .. 47
    /\ stack[i].vec = IRQ_BASE => handlers[IRQ_BASE] = "timer_handler"

(***************************************************************************)
(* The inductive invariant behind the properties above.                    *)
(***************************************************************************)

Remapped == [master |-> 32, slave |-> 40]
AllGates == (0 .. 47) \union {128}
Enabling == {"hlt", "idle", "sleep"}     \* kmain after its sti

\* How far kmain has prepared the machine.
Prepared ==
  /\ pc # "idt" => gates = AllGates
  /\ pc \in {"icw4", "mask", "timer", "fs", "sti"} \union Enabling =>
       base = Remapped
  /\ pc \in {"fs", "sti"} \union Enabling =>
       handlers[IRQ_BASE] = "timer_handler"

\* IF is set only in kmain after its sti, or right before an iret.
OpenWindow ==
  ifl => /\ ~panicked
         /\ pc \in Enabling
         /\ stack = <<>> \/ (Len(stack) = 1 /\ stack[1].at = "iret" /\ shadow)

\* A frame of an interrupt is the first and was pushed with IF set; a frame
\* of an exception never gets as far as its iret.
FramesOK ==
  \A i \in 1 .. Len(stack) :
    IF stack[i].irq
    THEN /\ i = 1
         /\ pc \in Enabling
         /\ stack[i].flag
         /\ stack[i].vec \in 32 .. 47
         /\ stack[i].bits \in {Bits(stack[i].vec - 32), {2}, {}}
    ELSE /\ stack[i].vec \in gates \intersect 0 .. 31
         /\ stack[i].at \in {"stub", "exception"}

\* The in-service registers hold exactly the bits of an interrupt whose
\* handler has not reached pic8259_eoi.
ServiceExact ==
  inService = IF /\ stack # <<>>
                 /\ stack[1].irq
                 /\ stack[1].at \in {"stub", "dispatch", "eoi"}
              THEN stack[1].bits
              ELSE {}

(***************************************************************************)
(* The whole invariant, for every moment from the boot on: what the CPU,   *)
(* the PICs and the stack of handlers have to do with each other.          *)
(***************************************************************************)
InterruptInv == TypeOK /\ Prepared /\ OpenWindow /\ FramesOK /\ ServiceExact

(***************************************************************************)
(* A line that was masked when the kernel took over stays silent, on the   *)
(* master and on the slave, although ICW1 opens every line for a while:    *)
(* nothing is ever in service that pic8259_init found masked.  (That goes  *)
(* for the timer too: if line 0 was masked, it never ticks.)               *)
(***************************************************************************)
MaskKept == \A k \in DOMAIN stack : stack[k].bits \intersect saved = {}

(***************************************************************************)
(* sleep does not return before the ticks it was asked for have passed,    *)
(* unless its end lies past the wrap of g_ticks: then g_ticks < end is     *)
(* false at once.                                                          *)
(***************************************************************************)
SleepNotEarly ==
  [][pc = "sleep" /\ pc' = "idle" =>
       \/ slept.elapsed = slept.ticks
       \/ slept.start + slept.ticks >= TICKS]_vars

\* Once interrupts are on, a request of an unmasked timer is taken.
TimerServed ==
  (pc \in {"idle", "sleep"} /\ 0 \notin imr /\ 0 \in irr)
    ~> (0 \notin irr \/ panicked)

\* With an unmasked timer sleep returns, whatever the other lines do.
SleepReturns ==
  (pc = "sleep" /\ 0 \notin imr) ~> (pc = "idle" \/ panicked)
=============================================================================
