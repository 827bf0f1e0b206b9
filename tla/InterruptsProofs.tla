-------------------------- MODULE InterruptsProofs --------------------------
(***************************************************************************)
(* Proofs about interrupt handling, for every set of lines, every mask the *)
(* BIOS may leave, every timer frequency and width of the tick counter.    *)
(***************************************************************************)
EXTENDS Interrupts, SequenceTheorems, TLAPS

-----------------------------------------------------------------------------
(***************************************************************************)
(* What MaskKept and SleepNotEarly need beside InterruptInv.               *)
(***************************************************************************)

\* From the end of pic8259_init on the chips have the masks it found.
MaskRestored ==
  pc \in {"timer", "fs", "sti"} \union Enabling => imr = saved

(***************************************************************************)
(* While sleep waits for an end before the wrap, g_ticks has counted every *)
(* tick since its call.                                                    *)
(***************************************************************************)
SleepCounts ==
  /\ g_freq_hz \in Nat
  /\ slept \in [start : Nat, ticks : Nat, elapsed : Nat]
  /\ pc = "sleep" /\ slept.start + slept.ticks < TICKS =>
       /\ end = slept.start + slept.ticks
       /\ slept.elapsed <= slept.ticks
       /\ slept.elapsed < slept.ticks => g_ticks = slept.start + slept.elapsed

-----------------------------------------------------------------------------
(***************************************************************************)
(* What the EOIs do.                                                       *)
(***************************************************************************)

\* A chip with one line in service retires it, one with none does nothing.
LEMMA EndOfOne ==
  ASSUME NEW s, NEW chip, NEW l \in Int, s \intersect chip = {l}
  PROVE  EndOfInterrupt(s, chip) = s \ {l}
<1>1. Min({l}) = l
  BY SMT DEF Min
<1> QED
  BY <1>1 DEF EndOfInterrupt

LEMMA EndOfNone ==
  ASSUME NEW s, NEW chip, s \intersect chip = {}
  PROVE  EndOfInterrupt(s, chip) = s
BY DEF EndOfInterrupt

(***************************************************************************)
(* pic8259_eoi retires all the bits that the interrupt of vector vec set:  *)
(* a line of the master, a line of the slave with the cascade, or what a   *)
(* spurious interrupt sets.                                                *)
(***************************************************************************)
LEMMA EoiClears ==
  ASSUME NEW vec \in 32 .. 47, NEW bits \in {Bits(vec - 32), {2}, {}}
  PROVE  eoi(vec, bits) = {}
<1>1. CASE bits = {}
  BY <1>1, EndOfNone DEF eoi
<1>2. CASE bits = {2}
  <2>1. bits \intersect Slave = {} /\ bits \intersect Master = {2}
    BY <1>2, SMT DEF Slave, Master
  <2> QED
    BY <1>2, <2>1, EndOfNone, EndOfOne DEF eoi
<1>3. CASE bits = Bits(vec - 32) /\ vec < 40
  <2>1. vec - 32 \in Master /\ vec - 32 \notin Slave
    BY <1>3, SMT DEF Slave, Master
  <2>2. bits = {vec - 32}
    BY <1>3, <2>1 DEF Bits, Input
  <2>3. bits \intersect Master = {vec - 32}
    BY <2>1, <2>2
  <2>4. eoi(vec, bits) = EndOfInterrupt(bits, Master)
    BY <1>3, SMT DEF eoi
  <2> QED
    BY <2>2, <2>3, <2>4, EndOfOne
<1>4. CASE bits = Bits(vec - 32) /\ vec >= 40
  <2>1. vec - 32 \in Slave /\ vec - 32 \notin Master /\ 2 \in Master /\ 2 \notin Slave
    BY <1>4, SMT DEF Slave, Master
  <2>2. bits = {vec - 32, 2}
    BY <1>4, <2>1 DEF Bits, Input
  <2>3. bits \intersect Slave = {vec - 32}
    BY <2>1, <2>2
  <2>4. EndOfInterrupt(bits, Slave) = {2}
    BY <2>1, <2>2, <2>3, EndOfOne
  <2>5. {2} \intersect Master = {2}
    BY <2>1
  <2>6. EndOfInterrupt({2}, Master) = {}
    BY <2>5, EndOfOne
  <2> QED
    BY <1>4, <2>4, <2>6 DEF eoi
<1> QED
  BY <1>1, <1>2, <1>3, <1>4

-----------------------------------------------------------------------------
(***************************************************************************)
(* Facts about the stack in states of the invariant.                       *)
(***************************************************************************)

\* What is left of TypeOK once stack and pc are set apart.
LEMMA StackType ==
  ASSUME InterruptInv, stack # <<>>
  PROVE  /\ Len(stack) \in Nat \ {0}
         /\ Top = stack[Len(stack)]
         /\ Top \in Frames
         /\ stack[1] \in Frames
BY DEF InterruptInv, TypeOK, Top

\* A handler past its stub is that of the only frame, an interrupt's.
LEMMA RunningIrq ==
  ASSUME InterruptInv, stack # <<>>,
         Top.at \notin {"stub", "exception"} \/ Top.vec >= 32
  PROVE  /\ Len(stack) = 1
         /\ Top = stack[1]
         /\ stack[1].irq /\ stack[1].flag = TRUE
         /\ stack[1].vec \in 32 .. 47
         /\ stack[1].bits \in {Bits(stack[1].vec - 32), {2}, {}}
         /\ pc \in Enabling
<1>1. Len(stack) \in Nat \ {0} /\ Top = stack[Len(stack)] /\ Top \in Frames
  BY StackType
<1>2. Len(stack) \in 1 .. Len(stack)
  BY <1>1, SMT
<1>3. Top.irq
  <2> SUFFICES ASSUME ~Top.irq PROVE FALSE
    OBVIOUS
  <2>1. Top.vec \in 0 .. 31 /\ Top.at \in {"stub", "exception"}
    BY <1>1, <1>2 DEF InterruptInv, FramesOK
  <2>2. \A v \in 0 .. 31 : ~(v >= 32)
    BY SMT
  <2> QED
    BY <2>1, <2>2
<1>4. Len(stack) = 1
  BY <1>1, <1>2, <1>3 DEF InterruptInv, FramesOK
<1> QED
  BY <1>1, <1>2, <1>3, <1>4 DEF InterruptInv, FramesOK, Frames

-----------------------------------------------------------------------------
(***************************************************************************)
(* The invariant, action by action.                                        *)
(***************************************************************************)

\* The machine at the jump to kmain.
LEMMA InitInv == Init => InterruptInv
<1> SUFFICES ASSUME Init PROVE InterruptInv
  OBVIOUS
<1>1. TypeOK
  <2>1. 0 \in 0 .. TICKS - 1 /\ 8 \in Vectors /\ 112 \in Vectors
    BY InterruptsAssumption, SMT DEF Vectors
  <2>2. imr \subseteq 0 .. 15
    BY InterruptsAssumption DEF Init
  <2>3. stack \in Seq(Frames)
    BY SMT DEF Init
  <2> QED
    BY <2>1, <2>2, <2>3 DEF Init, TypeOK
<1>2. Len(stack) = 0
  BY SMT DEF Init
<1>3. FramesOK
  BY <1>2, SMT DEF FramesOK
<1>4. Prepared /\ OpenWindow /\ ServiceExact
  BY DEF Init, Prepared, OpenWindow, ServiceExact, Enabling
<1> QED
  BY <1>1, <1>3, <1>4 DEF InterruptInv

(***************************************************************************)
(* The steps of kmain outside any handler: stack and in-service registers  *)
(* stay empty.                                                             *)
(***************************************************************************)
LEMMA SetupInv ==
  ASSUME InterruptInv, Setup
  PROVE  InterruptInv'
<1>0. InMain /\ stack' = stack /\ panicked' = panicked /\ stack = <<>> /\ Len(stack) = 0
  BY SMT DEF Setup, idt_init, init_paging, pic8259_init, pic8259_icw2, pic8259_icw4,
     pic8259_mask, timer_init, kmain_files, kmain_sti, kmain_hlt, At, InMain, cpu
<1>1. FramesOK'
  BY <1>0, SMT DEF FramesOK
<1>2. inService' = {}
  BY <1>0 DEF InterruptInv, ServiceExact, Setup, idt_init, init_paging, pic8259_init,
     pic8259_icw2, pic8259_icw4, pic8259_mask, timer_init, kmain_files, kmain_sti,
     kmain_hlt, pic
<1>3. ServiceExact'
  BY <1>0, <1>2 DEF ServiceExact
<1>4. ASSUME NEW num \in 0 .. 255,
             NEW h \in {"page_fault_handler", "timer_handler"},
             isr_register_interrupt_handler(num, h)
      PROVE  /\ handlers' = [handlers EXCEPT ![num] = h]
             /\ handlers' \in [Vectors -> {NULL, "page_fault_handler", "timer_handler"}]
  <2>1. handlers' = [handlers EXCEPT ![num] = h]
    BY <1>4, SMT DEF isr_register_interrupt_handler
  <2> QED
    BY <1>4, <2>1 DEF InterruptInv, TypeOK, Vectors
<1>5. CASE idt_init
  <2>1. AllGates \subseteq Vectors
    BY SMT DEF AllGates, Vectors
  <2>2. /\ pc = "idt" /\ pc' = "paging" /\ gates' = AllGates
        /\ UNCHANGED <<cpu, pic, timer, saved, handlers>>
    BY <1>5 DEF idt_init, At, AllGates
  <2>3. TypeOK'
    BY <2>1, <2>2 DEF InterruptInv, TypeOK, cpu, pic, timer
  <2>4. Prepared' /\ OpenWindow'
    BY <2>2 DEF InterruptInv, Prepared, OpenWindow, cpu, Enabling
  <2> QED
    BY <1>1, <1>3, <2>3, <2>4 DEF InterruptInv
<1>6. CASE init_paging
  <2>1. handlers' \in [Vectors -> {NULL, "page_fault_handler", "timer_handler"}]
    BY <1>4, <1>6, 14 \in 0 .. 255 DEF init_paging
  <2> QED
    BY <1>0, <1>1, <1>3, <1>6, <2>1
    DEF InterruptInv, TypeOK, Prepared, OpenWindow, init_paging, At, cpu, pic, timer,
        Enabling
<1>7. CASE pic8259_init
  BY <1>0, <1>1, <1>3, <1>7
  DEF InterruptInv, TypeOK, Prepared, OpenWindow, pic8259_init, At, cpu, timer, Enabling
<1>8. CASE pic8259_icw2
  <2>1. Remapped \in [master : Vectors, slave : Vectors]
    BY SMT DEF Remapped, Vectors
  <2> QED
    BY <1>0, <1>1, <1>3, <1>8, <2>1
    DEF InterruptInv, TypeOK, Prepared, OpenWindow, pic8259_icw2, At, cpu, timer,
        Remapped, Enabling
<1>9. CASE pic8259_icw4
  BY <1>0, <1>1, <1>3, <1>9
  DEF InterruptInv, TypeOK, Prepared, OpenWindow, pic8259_icw4, At, cpu, timer, Enabling
<1>10. CASE pic8259_mask
  BY <1>0, <1>1, <1>3, <1>10
  DEF InterruptInv, TypeOK, Prepared, OpenWindow, pic8259_mask, At, cpu, timer, Enabling
<1>11. CASE timer_init
  <2>1. /\ handlers' = [handlers EXCEPT ![IRQ_BASE] = "timer_handler"]
        /\ handlers' \in [Vectors -> {NULL, "page_fault_handler", "timer_handler"}]
    BY <1>4, <1>11, IRQ_BASE \in 0 .. 255 DEF timer_init, IRQ_BASE
  <2>2. handlers'[IRQ_BASE] = "timer_handler"
    BY <2>1, IRQ_BASE \in Vectors DEF InterruptInv, TypeOK, IRQ_BASE, Vectors
  <2> QED
    BY <1>0, <1>1, <1>3, <1>11, <2>1, <2>2
    DEF InterruptInv, TypeOK, Prepared, OpenWindow, timer_init, At, cpu, pic, Enabling
<1>12. CASE kmain_files
  BY <1>0, <1>1, <1>3, <1>12
  DEF InterruptInv, TypeOK, Prepared, OpenWindow, kmain_files, At, cpu, pic, timer, Enabling
<1>13. CASE kmain_sti
  BY <1>0, <1>1, <1>3, <1>13
  DEF InterruptInv, TypeOK, Prepared, OpenWindow, kmain_sti, At, pic, timer, Enabling, InMain
<1>14. CASE kmain_hlt
  <2>1. /\ pc = "hlt" /\ pc' = "idle" /\ shadow' = FALSE
        /\ UNCHANGED <<pic, timer, saved, gates, handlers, ifl>>
    BY <1>14 DEF kmain_hlt, At
  <2>2. TypeOK'
    BY <1>0, <2>1 DEF InterruptInv, TypeOK, pic, timer
  <2>3. Prepared'
    BY <2>1 DEF InterruptInv, Prepared, Enabling, pic
  <2>4. OpenWindow'
    BY <1>0, <2>1 DEF InterruptInv, OpenWindow, Enabling
  <2> QED
    BY <1>1, <1>3, <2>2, <2>3, <2>4 DEF InterruptInv
<1> QED
  BY <1>5, <1>6, <1>7, <1>8, <1>9, <1>10, <1>11, <1>12, <1>13, <1>14 DEF Setup

(***************************************************************************)
(* The processor: an interrupt, real or spurious, is taken on an empty     *)
(* stack.                                                                  *)
(***************************************************************************)

\* With the window open and no shadow, kmain is running after its sti.
LEMMA WindowOpen ==
  ASSUME InterruptInv, CanInterrupt
  PROVE  /\ stack = <<>> /\ inService = {} /\ ~panicked
         /\ pc \in Enabling /\ base = Remapped
         /\ gates = AllGates /\ handlers[IRQ_BASE] = "timer_handler"
<1>1. stack = <<>> /\ ~panicked /\ pc \in Enabling
  BY DEF InterruptInv, OpenWindow, CanInterrupt
<1>2. inService = {}
  BY <1>1 DEF InterruptInv, ServiceExact
<1> QED
  BY <1>1, <1>2 DEF InterruptInv, Prepared, Enabling

\* The vectors of the remapped PICs.
LEMMA RemappedVector ==
  ASSUME base = Remapped, NEW l \in 0 .. 15
  PROVE  VectorOf(l) \in 32 .. 47 /\ VectorOf(l) - 32 = l
<1>1. base.master = 32 /\ base.slave = 40
  BY DEF Remapped
<1> QED
  BY <1>1, SMT DEF VectorOf, Slave

\* Taking interrupt l, which sets the given bits in service.
LEMMA TakeInv ==
  ASSUME InterruptInv, CanInterrupt,
         NEW l \in 0 .. 15, NEW bits \in {Bits(l), {2}, {}},
         Enter(Frame(TRUE, VectorOf(l), bits)),
         inService' = inService \union bits,
         irr' \subseteq irr,
         UNCHANGED <<timer, main, shadow, panicked, imr, base, ready, gates, handlers>>
  PROVE  InterruptInv'
<1> DEFINE f == Frame(TRUE, VectorOf(l), bits)
<1>1. /\ stack = <<>> /\ inService = {} /\ ~panicked
      /\ pc \in Enabling /\ base = Remapped /\ ifl = TRUE
  BY WindowOpen DEF CanInterrupt, InterruptInv, TypeOK
<1>2. VectorOf(l) \in 32 .. 47 /\ VectorOf(l) - 32 = l
  BY <1>1, RemappedVector
<1>3. bits \in SUBSET (0 .. 15)
  <2>1. Bits(l) \subseteq 0 .. 15
    BY SMT DEF Bits, Input, Slave
  <2>2. 2 \in 0 .. 15
    BY SMT
  <2> QED
    BY <2>1, <2>2
<1>4. f \in Frames /\ f.irq = TRUE /\ f.vec = VectorOf(l) /\ f.bits = bits
      /\ f.flag = TRUE /\ f.at = "stub"
  <2>1. VectorOf(l) \in Vectors
    BY <1>2, SMT DEF Vectors
  <2> QED
    BY <1>1, <1>3, <2>1 DEF Frame, Frames
<1> HIDE DEF f
<1>5. stack' = <<f>> /\ ifl' = FALSE
  <2>1. stack' = Append(stack, f) /\ ifl' = FALSE
    BY DEF Enter, f
  <2>2. Append(<<>>, f) = <<f>>
    BY SMT
  <2> QED
    BY <1>1, <2>1, <2>2
<1>6. Len(stack') = 1 /\ stack'[1] = f /\ stack' \in Seq(Frames) /\ stack' # <<>>
  BY <1>4, <1>5, SMT
<1>7. UNCHANGED <<g_freq_hz, g_ticks, pc, end, saved>>
  BY DEF timer, main
<1>8. TypeOK'
  BY <1>1, <1>3, <1>5, <1>6, <1>7 DEF InterruptInv, TypeOK
<1>9. Prepared' /\ OpenWindow'
  BY <1>5, <1>7 DEF InterruptInv, Prepared, OpenWindow
<1>10. FramesOK'
  <2> SUFFICES ASSUME NEW i \in 1 .. Len(stack')
               PROVE  FramesOK!(i)'
    BY DEF FramesOK
  <2>1. i = 1 /\ stack'[i] = f
    BY <1>6, SMT
  <2> QED
    BY <1>1, <1>2, <1>4, <1>7, <2>1
<1>11. ServiceExact'
  BY <1>1, <1>4, <1>6 DEF ServiceExact
<1> QED
  BY <1>8, <1>9, <1>10, <1>11 DEF InterruptInv

LEMMA InterruptStep ==
  ASSUME InterruptInv, NEW l \in Lines, Interrupt(l)
  PROVE  InterruptInv'
<1>1. l \in 0 .. 15
  BY InterruptsAssumption
<1> QED
  BY <1>1, TakeInv DEF Interrupt

LEMMA SpuriousStep ==
  ASSUME InterruptInv, NEW l \in {7, 15}, Spurious(l)
  PROVE  InterruptInv'
<1>1. l \in 0 .. 15
  BY SMT
<1> DEFINE bits == IF l = 15 THEN {2} ELSE {}
<1>2. bits \in {Bits(l), {2}, {}}
  OBVIOUS
<1>3. /\ CanInterrupt
      /\ Enter(Frame(TRUE, VectorOf(l), bits))
      /\ inService' = inService \union bits
      /\ irr' \subseteq irr
      /\ UNCHANGED <<timer, main, shadow, panicked, imr, base, ready, gates, handlers>>
  BY DEF Spurious
<1> HIDE DEF bits
<1> QED
  BY <1>1, <1>2, <1>3, TakeInv

\* An exception on any stack: its frame goes on top and starts in its stub.
LEMMA ExceptionStep ==
  ASSUME InterruptInv, NEW n \in Exceptions, Exception(n)
  PROVE  InterruptInv'
<1> DEFINE f == Frame(FALSE, n, {})
           k == Len(stack)
<1>1. n \in 0 .. 31 /\ n \in Vectors /\ n \in gates /\ ~panicked
  BY InterruptsAssumption, SMT DEF Exception, Vectors
<1>2. f \in Frames /\ f.irq = FALSE /\ f.vec = n /\ f.at = "stub"
  BY <1>1 DEF Frame, Frames, InterruptInv, TypeOK
<1> HIDE DEF f
<1>3. stack' = Append(stack, f) /\ ifl' = FALSE /\ shadow' = FALSE
  BY DEF Exception, Enter, f
<1>4. stack \in Seq(Frames) /\ k \in Nat
  BY SMT DEF InterruptInv, TypeOK
<1>5. /\ stack' \in Seq(Frames) /\ Len(stack') = k + 1 /\ stack' # <<>>
      /\ stack'[k + 1] = f
      /\ \A i \in 1 .. k : stack'[i] = stack[i]
  BY <1>2, <1>3, <1>4, SMT
<1>6. UNCHANGED <<irr, inService, imr, base, ready, g_freq_hz, g_ticks, pc, end, saved,
                  gates, handlers, panicked>>
  BY DEF Exception, pic, timer, main
<1>7. TypeOK'
  BY <1>3, <1>5, <1>6 DEF InterruptInv, TypeOK
<1>8. Prepared' /\ OpenWindow'
  BY <1>3, <1>6 DEF InterruptInv, Prepared, OpenWindow
<1>9. FramesOK'
  <2> SUFFICES ASSUME NEW i \in 1 .. Len(stack')
               PROVE  FramesOK!(i)'
    BY DEF FramesOK
  <2>1. CASE i = k + 1
    BY <1>1, <1>2, <1>5, <1>6, <2>1
  <2>2. CASE i # k + 1
    <3>1. i \in 1 .. k
      BY <1>4, <1>5, <2>2, SMT
    <3> QED
      BY <1>5, <1>6, <3>1 DEF InterruptInv, FramesOK
  <2> QED
    BY <2>1, <2>2
<1>10. ServiceExact'
  <2>1. CASE k = 0
    <3>1. stack = <<>> /\ stack'[1] = f
      BY <1>4, <1>5, <2>1, SMT
    <3> QED
      BY <1>2, <1>5, <1>6, <3>1 DEF InterruptInv, ServiceExact
  <2>2. CASE k # 0
    <3>1. stack # <<>> /\ stack'[1] = stack[1]
      BY <1>4, <1>5, <2>2, SMT
    <3> QED
      BY <1>5, <1>6, <3>1 DEF InterruptInv, ServiceExact
  <2> QED
    BY <2>1, <2>2
<1> QED
  BY <1>7, <1>8, <1>9, <1>10 DEF InterruptInv

(***************************************************************************)
(* The handlers.                                                           *)
(***************************************************************************)

\* Advancing the only frame changes nothing but where it is.
LEMMA StepFrame ==
  ASSUME InterruptInv, Len(stack) = 1,
         NEW to \in {"dispatch", "eoi", "sti", "iret"}, Step(to)
  PROVE  /\ stack' \in Seq(Frames) /\ Len(stack') = 1 /\ stack' # <<>>
         /\ stack'[1] = [stack[1] EXCEPT !.at = to]
         /\ stack[1] \in Frames
<1> DEFINE f == [stack[1] EXCEPT !.at = to]
<1>1. stack \in Seq(Frames) /\ 1 \in 1 .. Len(stack)
  BY SMT DEF InterruptInv, TypeOK
<1>2. stack[1] \in Frames
  BY <1>1, ElementOfSeq
<1>3. f \in Frames
  BY <1>2 DEF Frames
<1>4. stack' = [stack EXCEPT ![1] = f]
  BY DEF Step
<1> HIDE DEF f
<1>5. /\ stack' \in Seq(Frames) /\ Len(stack') = 1
      /\ stack'[1] = f
  BY <1>1, <1>3, <1>4, ExceptSeq
<1>6. stack' # <<>>
  <2>1. Len(stack') # 0
    BY <1>5
  <2> QED
    BY <2>1, EmptySeq
<1> QED
  BY <1>2, <1>5, <1>6 DEF f

\* The invariant after a handler of an interrupt has moved on, from the few
\* facts that differ between its steps.
LEMMA AdvanceInv ==
  ASSUME InterruptInv, ~panicked, stack # <<>>,
         Top.at \notin {"stub", "exception"} \/ Top.vec >= 32,
         NEW to \in {"dispatch", "eoi", "sti", "iret"}, Step(to),
         inService' = IF to \in {"dispatch", "eoi"} THEN stack[1].bits ELSE {},
         ifl' \in BOOLEAN, shadow' \in BOOLEAN,
         ifl' => to = "iret" /\ shadow',
         g_ticks' \in 0 .. TICKS - 1,
         UNCHANGED <<main, irr, imr, base, ready, gates, handlers, panicked>>
  PROVE  InterruptInv'
<1>1. /\ Len(stack) = 1
      /\ stack[1].irq /\ stack[1].flag = TRUE
      /\ stack[1].vec \in 32 .. 47
      /\ stack[1].bits \in {Bits(stack[1].vec - 32), {2}, {}}
      /\ pc \in Enabling
  BY RunningIrq
<1>2. /\ stack' \in Seq(Frames) /\ Len(stack') = 1 /\ stack' # <<>>
      /\ stack'[1] = [stack[1] EXCEPT !.at = to]
      /\ stack[1] \in Frames
  BY <1>1, StepFrame
<1>3. /\ stack'[1].irq = stack[1].irq /\ stack'[1].flag = stack[1].flag
      /\ stack'[1].vec = stack[1].vec /\ stack'[1].bits = stack[1].bits
      /\ stack'[1].at = to
  BY <1>2 DEF Frames
<1>4. pc' = pc /\ saved' = saved
  BY DEF main
<1>5. TypeOK'
  <2>1. inService' \subseteq 0 .. 15
    BY <1>2 DEF Frames
  <2> QED
    BY <1>2, <1>4, <2>1 DEF InterruptInv, TypeOK
<1>6. Prepared'
  BY <1>4 DEF InterruptInv, Prepared
<1>7. OpenWindow'
  BY <1>1, <1>2, <1>3, <1>4 DEF OpenWindow
<1>8. FramesOK'
  <2> SUFFICES ASSUME NEW i \in 1 .. Len(stack')
               PROVE  FramesOK!(i)'
    BY DEF FramesOK
  <2>1. i = 1
    BY <1>2, SMT
  <2> QED
    BY <1>1, <1>3, <1>4, <2>1
<1>9. ServiceExact'
  BY <1>1, <1>2, <1>3 DEF ServiceExact
<1> QED
  BY <1>5, <1>6, <1>7, <1>8, <1>9 DEF InterruptInv

\* At the three stages before the EOI the bits are still in service, and IF
\* is clear.
LEMMA BeforeEoi ==
  ASSUME InterruptInv, ~panicked, stack # <<>>,
         Top.at \notin {"stub", "exception"} \/ Top.vec >= 32,
         Top.at \in {"stub", "dispatch", "eoi"}
  PROVE  inService = stack[1].bits /\ ifl = FALSE
<1>1. Len(stack) = 1 /\ Top = stack[1] /\ stack[1].irq
  BY RunningIrq
<1>2. inService = stack[1].bits
  BY <1>1 DEF InterruptInv, ServiceExact
<1>3. ~ifl
  BY <1>1 DEF InterruptInv, OpenWindow
<1> QED
  BY <1>2, <1>3 DEF InterruptInv, TypeOK

LEMMA HandlerInv ==
  ASSUME InterruptInv, Handler
  PROVE  InterruptInv'
<1>0. /\ ifl \in BOOLEAN /\ shadow \in BOOLEAN /\ g_ticks \in 0 .. TICKS - 1
  BY DEF InterruptInv, TypeOK
<1>1. CASE irq_stub
  <2>1. /\ ~panicked /\ stack # <<>> /\ Top.at = "stub" /\ Top.vec >= 32
        /\ Step("dispatch") /\ ifl' = FALSE
        /\ UNCHANGED <<inService, shadow, g_ticks>>
        /\ UNCHANGED <<main, irr, imr, base, ready, gates, handlers, panicked>>
    BY <1>1 DEF irq_stub, Running, IRQ_BASE, pic, timer
  <2> QED
    BY <1>0, <2>1, BeforeEoi, AdvanceInv
<1>2. CASE isr_irq_handler
  <2>1. /\ ~panicked /\ stack # <<>> /\ Top.at = "dispatch"
        /\ Step("eoi")
        /\ UNCHANGED <<inService, ifl, shadow>>
        /\ UNCHANGED <<main, irr, imr, base, ready, gates, handlers, panicked>>
    BY <1>2 DEF isr_irq_handler, Running, pic
  <2>2. g_ticks' \in 0 .. TICKS - 1
    <3>1. g_ticks' = g_ticks \/ g_ticks' = (g_ticks + 1) % TICKS
      BY <1>2 DEF isr_irq_handler, timer_handler
    <3>2. (g_ticks + 1) % TICKS \in 0 .. TICKS - 1
      BY <1>0, InterruptsAssumption, SMT
    <3> QED
      BY <1>0, <3>1, <3>2
  <2> QED
    BY <1>0, <2>1, <2>2, BeforeEoi, AdvanceInv
<1>3. CASE pic8259_eoi
  <2>1. /\ ~panicked /\ stack # <<>> /\ Top.at = "eoi"
        /\ Step("sti")
        /\ inService' = eoi(Top.vec, inService)
        /\ UNCHANGED <<ifl, shadow, g_ticks>>
        /\ UNCHANGED <<main, irr, imr, base, ready, gates, handlers, panicked>>
    BY <1>3 DEF pic8259_eoi, Running, timer
  <2>2. /\ Top = stack[1] /\ stack[1].vec \in 32 .. 47
        /\ stack[1].bits \in {Bits(stack[1].vec - 32), {2}, {}}
    BY <2>1, RunningIrq
  <2>3. inService = stack[1].bits /\ ifl = FALSE
    BY <2>1, BeforeEoi
  <2>4. inService' = {}
    BY <2>1, <2>2, <2>3, EoiClears
  <2> QED
    BY <1>0, <2>1, <2>3, <2>4, AdvanceInv
<1>4. CASE irq_sti
  <2>1. /\ ~panicked /\ stack # <<>> /\ Top.at = "sti"
        /\ Step("iret") /\ ifl' = TRUE /\ shadow' = TRUE
        /\ UNCHANGED <<inService, g_ticks>>
        /\ UNCHANGED <<main, irr, imr, base, ready, gates, handlers, panicked>>
    BY <1>4 DEF irq_sti, Running, pic, timer
  <2>2. Top = stack[1]
    BY <2>1, RunningIrq
  <2>3. inService = {}
    BY <2>1, <2>2 DEF InterruptInv, ServiceExact
  <2> QED
    BY <1>0, <2>1, <2>3, AdvanceInv
<1>5. CASE irq_iret
  <2>1. /\ ~panicked /\ stack # <<>> /\ Top.at = "iret"
        /\ ifl' = Top.flag /\ shadow' = FALSE
        /\ stack' = SubSeq(stack, 1, Len(stack) - 1)
        /\ UNCHANGED <<irr, inService, imr, base, ready, g_freq_hz, g_ticks, pc, end,
                       saved, gates, handlers, panicked>>
    BY <1>5 DEF irq_iret, Running, pic, timer, main
  <2>2. /\ Len(stack) = 1 /\ Top = stack[1] /\ stack[1].flag = TRUE
        /\ pc \in Enabling
    BY <2>1, RunningIrq
  <2>3. inService = {}
    BY <2>1, <2>2 DEF InterruptInv, ServiceExact
  <2>4. stack' = <<>>
    BY <2>1, <2>2, SubSeqEmpty, SMT
  <2>5. stack' \in Seq(Frames) /\ Len(stack') = 0
    BY <2>4, EmptySeq
  <2>6. TypeOK'
    BY <2>1, <2>2, <2>5 DEF InterruptInv, TypeOK
  <2>7. Prepared'
    BY <2>1 DEF InterruptInv, Prepared
  <2>8. OpenWindow'
    BY <2>1, <2>2, <2>4 DEF OpenWindow
  <2>9. FramesOK'
    BY <2>5, SMT DEF FramesOK
  <2>10. ServiceExact'
    BY <2>1, <2>3, <2>4 DEF ServiceExact
  <2> QED
    BY <2>6, <2>7, <2>8, <2>9, <2>10 DEF InterruptInv
<1>6. CASE exception_stub
  <2> DEFINE k == Len(stack)
             f == [stack[k] EXCEPT !.at = "exception"]
  <2>1. /\ ~panicked /\ stack # <<>> /\ Top.at = "stub" /\ Top.vec < 32
        /\ Step("exception") /\ ifl' = FALSE
        /\ UNCHANGED <<irr, inService, imr, base, ready, g_freq_hz, g_ticks, pc, end,
                       saved, gates, handlers, shadow, panicked>>
    BY <1>6 DEF exception_stub, Running, IRQ_BASE, pic, timer, main
  <2>2. k \in Nat \ {0} /\ stack \in Seq(Frames) /\ stack[k] \in Frames
    BY <2>1, StackType DEF InterruptInv, TypeOK
  <2>3. k \in 1 .. k
    BY <2>2, SMT
  <2>4. ~stack[k].irq
    <3>1. stack[k].vec < 32
      BY <2>1 DEF Top
    <3>2. stack[k].irq => stack[k].vec \in 32 .. 47
      BY <2>3 DEF InterruptInv, FramesOK
    <3>3. \A v \in 32 .. 47 : ~(v < 32)
      BY SMT
    <3> QED
      BY <3>1, <3>2, <3>3
  <2>5. stack[k].vec \in gates \intersect 0 .. 31
    BY <2>3, <2>4 DEF InterruptInv, FramesOK
  <2>6. /\ f \in Frames /\ f.irq = stack[k].irq /\ f.vec = stack[k].vec
        /\ f.at = "exception"
    BY <2>2 DEF Frames
  <2>7. stack' = [stack EXCEPT ![k] = f]
    BY <2>1 DEF Step
  <2> HIDE DEF f
  <2>8. /\ stack' \in Seq(Frames) /\ Len(stack') = k /\ stack' # <<>>
        /\ \A i \in 1 .. k : stack'[i] = IF i = k THEN f ELSE stack[i]
    <3>1. /\ stack' \in Seq(Frames) /\ Len(stack') = k
          /\ \A i \in 1 .. k : stack'[i] = IF i = k THEN f ELSE stack[i]
      BY <2>2, <2>3, <2>6, <2>7, ExceptSeq
    <3>2. stack' # <<>>
      BY <2>2, <3>1, EmptySeq
    <3> QED
      BY <3>1, <3>2
  <2>9. TypeOK'
    BY <2>1, <2>8 DEF InterruptInv, TypeOK
  <2>10. Prepared' /\ OpenWindow'
    BY <2>1 DEF InterruptInv, Prepared, OpenWindow
  <2>11. FramesOK'
    <3> SUFFICES ASSUME NEW i \in 1 .. Len(stack')
                 PROVE  FramesOK!(i)'
      BY DEF FramesOK
    <3>1. i \in 1 .. k
      BY <2>8
    <3>2. CASE i = k
      BY <2>1, <2>4, <2>5, <2>6, <2>8, <3>1, <3>2
    <3>3. CASE i # k
      BY <2>1, <2>8, <3>1, <3>3 DEF InterruptInv, FramesOK
    <3> QED
      BY <3>2, <3>3
  <2>12. ServiceExact'
    <3>1. 1 \in 1 .. k
      BY <2>2, SMT
    <3>2. CASE k = 1
      BY <2>1, <2>4, <2>6, <2>8, <3>1, <3>2 DEF InterruptInv, ServiceExact
    <3>3. CASE k # 1
      <4>1. stack'[1] = stack[1]
        BY <2>8, <3>1, <3>3
      <4> QED
        BY <2>1, <2>8, <4>1 DEF InterruptInv, ServiceExact
    <3> QED
      BY <3>2, <3>3
  <2> QED
    BY <2>9, <2>10, <2>11, <2>12 DEF InterruptInv
<1>7. CASE isr_exception_handler
  <2>1. /\ panicked' = TRUE /\ ifl' = FALSE
        /\ UNCHANGED <<irr, inService, imr, base, ready, g_freq_hz, g_ticks, pc, end,
                       saved, gates, handlers, shadow, stack>>
    BY <1>7 DEF isr_exception_handler, pic, timer, main
  <2> QED
    BY <2>1 DEF InterruptInv, TypeOK, Prepared, OpenWindow, FramesOK, ServiceExact
<1> QED
  BY <1>1, <1>2, <1>3, <1>4, <1>5, <1>6, <1>7 DEF Handler

-----------------------------------------------------------------------------
(***************************************************************************)
(* All steps together.                                                     *)
(***************************************************************************)
LEMMA NextInv ==
  ASSUME InterruptInv, [Next]_vars
  PROVE  InterruptInv'
<1>1. CASE panic
  <2>1. /\ panicked' = TRUE /\ ifl' = FALSE
        /\ UNCHANGED <<irr, inService, imr, base, ready, g_freq_hz, g_ticks, pc, end,
                       saved, gates, handlers, shadow, stack>>
    BY <1>1 DEF panic, pic, timer, main
  <2> QED
    BY <2>1 DEF InterruptInv, TypeOK, Prepared, OpenWindow, FramesOK, ServiceExact
<1>2. ASSUME pc \in {"idle", "sleep"}, pc' \in {"idle", "sleep"}, stack = <<>>,
             UNCHANGED <<cpu, pic, timer, saved, gates, handlers>>
      PROVE  InterruptInv'
  <2>1. UNCHANGED <<ifl, shadow, stack, panicked, irr, inService, imr, base, ready,
                    g_ticks>>
    BY <1>2 DEF cpu, pic, timer
  <2>2. TypeOK'
    BY <1>2, <2>1 DEF InterruptInv, TypeOK
  <2>3. Prepared'
    BY <1>2, <2>1 DEF InterruptInv, Prepared, Enabling
  <2>4. OpenWindow'
    BY <1>2, <2>1 DEF InterruptInv, OpenWindow, Enabling
  <2>5. FramesOK'
    BY <1>2, <2>1 DEF InterruptInv, FramesOK, Enabling
  <2>6. ServiceExact'
    BY <2>1 DEF InterruptInv, ServiceExact
  <2> QED
    BY <2>2, <2>3, <2>4, <2>5, <2>6 DEF InterruptInv
<1>3. ASSUME NEW sec \in Secs, sleep(sec)
      PROVE  InterruptInv'
  BY <1>2, <1>3 DEF sleep, At, InMain
<1>4. CASE sleep_return
  BY <1>2, <1>4 DEF sleep_return, At, InMain
<1>5. ASSUME NEW l \in Lines, Raise(l)
      PROVE  InterruptInv'
  <2>1. /\ irr' = irr \union {l}
        /\ UNCHANGED <<ifl, shadow, stack, panicked, inService, imr, base, ready,
                       g_freq_hz, g_ticks, pc, end, saved, gates, handlers>>
    BY <1>5 DEF Raise, cpu, timer, main
  <2> QED
    BY <2>1 DEF InterruptInv, TypeOK, Prepared, OpenWindow, FramesOK, ServiceExact
<1>6. CASE UNCHANGED vars
  BY <1>6
  DEF vars, cpu, pic, timer, main, InterruptInv, TypeOK, Prepared, OpenWindow,
      FramesOK, ServiceExact
<1>7. CASE Wait
  BY <1>6, <1>7 DEF Wait
<1> QED
  BY <1>1, <1>3, <1>4, <1>5, <1>6, <1>7, SetupInv, HandlerInv, InterruptStep,
     SpuriousStep, ExceptionStep
  DEF Next

-----------------------------------------------------------------------------
(***************************************************************************)
(* The invariant holds from boot on, whatever lines fire and whenever: the *)
(* in-service registers hold exactly what the running handler has still to *)
(* retire, and IF is set only where an interrupt does no harm.             *)
(***************************************************************************)
THEOREM InterruptInvariant == Safety => []InterruptInv
<1>1. InterruptInv /\ [Next]_vars => InterruptInv'
  BY NextInv
<1> QED
  BY <1>1, InitInv, PTL DEF Safety

\* Handlers of interrupts never nest (irq.asm's cli, sti and iret).
THEOREM NeverNested == Safety => []NoNesting
<1>1. InterruptInv => NoNesting
  BY DEF InterruptInv, FramesOK, NoNesting
<1> QED
  BY <1>1, InterruptInvariant, PTL

\* An enabled CPU finds both PICs free (pic8259_eoi).
THEOREM AlwaysRetired == Safety => []EnabledMeansRetired
<1>1. InterruptInv => EnabledMeansRetired
  BY WindowOpen DEF EnabledMeansRetired
<1> QED
  BY <1>1, InterruptInvariant, PTL

(***************************************************************************)
(* No interrupt reaches the CPU through the BIOS's vectors, or before the  *)
(* IDT and the timer's handler are in place (the order of kmain).          *)
(***************************************************************************)
THEOREM AlwaysRemapped == Safety => []OnlyRemappedVectors
<1>1. InterruptInv => OnlyRemappedVectors
  <2> SUFFICES ASSUME InterruptInv, NEW i \in 1 .. Len(stack)
               PROVE  OnlyRemappedVectors!(i)
    BY DEF OnlyRemappedVectors
  <2>1. CASE stack[i].irq
    <3>1. stack[i].vec \in 32 .. 47 /\ pc \in Enabling
      BY <2>1 DEF InterruptInv, FramesOK
    <3>2. gates = AllGates /\ handlers[IRQ_BASE] = "timer_handler"
      BY <3>1 DEF InterruptInv, Prepared, Enabling
    <3>3. 32 .. 47 \subseteq AllGates
      BY SMT DEF AllGates
    <3> QED
      BY <3>1, <3>2, <3>3
  <2>2. CASE ~stack[i].irq
    <3>1. stack[i].vec \in gates /\ stack[i].vec \in 0 .. 31
      BY <2>2 DEF InterruptInv, FramesOK
    <3>2. IRQ_BASE \notin 0 .. 31
      BY SMT DEF IRQ_BASE
    <3> QED
      BY <2>2, <3>1, <3>2
  <2> QED
    BY <2>1, <2>2
<1> QED
  BY <1>1, InterruptInvariant, PTL

(***************************************************************************)
(* The EOIs of pic8259_eoi retire no interrupt but the one being handled,  *)
(* although they do not say which one they mean.                           *)
(***************************************************************************)
THEOREM EoiIsOwn == Safety => EoiRetiresOwn
<1> DEFINE A == \A b \in inService \ inService' :
                  pc = "icw1" \/ (stack # <<>> /\ b \in Top.bits)
<1>1. InterruptInv /\ [Next]_vars => [A]_vars
  <2> SUFFICES ASSUME InterruptInv, Next PROVE A
    OBVIOUS
  <2>1. CASE pic8259_eoi
    <3>1. ~panicked /\ stack # <<>> /\ Top.at = "eoi"
      BY <2>1 DEF pic8259_eoi, Running
    <3>2. inService = stack[1].bits /\ Top = stack[1]
      BY <3>1, BeforeEoi, RunningIrq
    <3> QED
      BY <3>1, <3>2
  <2>2. CASE pic8259_init
    BY <2>2 DEF pic8259_init, At
  <2>3. CASE ~pic8259_eoi /\ ~pic8259_init
    <3>1. inService \subseteq inService'
      BY <2>3
      DEF Next, Handler, irq_stub, isr_irq_handler, irq_sti, irq_iret,
          exception_stub, isr_exception_handler, Setup, idt_init, init_paging, pic8259_icw2,
          pic8259_icw4, pic8259_mask, timer_init, kmain_files, kmain_sti, kmain_hlt,
          panic, sleep, sleep_return, Raise, Interrupt, Spurious, Exception, Wait,
          vars, pic
    <3> QED
      BY <3>1
  <2> QED
    BY <2>1, <2>2, <2>3
<1> QED
  BY <1>1, InterruptInvariant, PTL DEF Safety, EoiRetiresOwn

-----------------------------------------------------------------------------
(***************************************************************************)
(* Masked lines.                                                           *)
(***************************************************************************)

\* A frame that is pushed with unmasked bits leaves the others as they were.
LEMMA PushMasked ==
  ASSUME InterruptInv, MaskKept, NEW frame \in Frames,
         frame.bits \intersect saved = {},
         stack' = Append(stack, frame), saved' = saved
  PROVE  MaskKept'
<1>1. stack \in Seq(Frames) /\ Len(stack) \in Nat
  BY DEF InterruptInv, TypeOK
<1>2. ASSUME NEW k \in DOMAIN stack'
      PROVE  stack'[k].bits \intersect saved' = {}
  <2>1. stack' \in Seq(Frames) /\ Len(stack') = Len(stack) + 1
    BY <1>1
  <2>2. k \in 1 .. Len(stack) + 1
    BY <1>2, <2>1
  <2>3. CASE k = Len(stack) + 1
    <3>1. stack'[k] = frame
      BY <1>1, <2>3
    <3> QED
      BY <3>1
  <2>4. CASE k # Len(stack) + 1
    <3>1. k \in DOMAIN stack /\ stack'[k] = stack[k]
      BY <1>1, <2>2, <2>4
    <3> QED
      BY <3>1 DEF MaskKept
  <2> QED
    BY <2>3, <2>4
<1> QED
  BY <1>2 DEF MaskKept

\* A handler that goes on, or its iret, changes the bits of no frame.
LEMMA HandlerMasked ==
  ASSUME InterruptInv, MaskKept, Handler
  PROVE  MaskKept'
<1>1. saved' = saved
  BY DEF Handler, irq_stub, isr_irq_handler, pic8259_eoi, irq_sti, irq_iret,
         exception_stub, isr_exception_handler, main
<1>2. stack \in Seq(Frames) /\ Len(stack) \in Nat
  BY DEF InterruptInv, TypeOK
<1>3. ASSUME NEW to, stack # <<>>, Step(to)
      PROVE  MaskKept'
  <2>1. stack' = [stack EXCEPT ![Len(stack)].at = to]
    BY <1>3 DEF Step
  <2>2. DOMAIN stack' = DOMAIN stack
    BY <2>1
  <2>3. \A k \in DOMAIN stack : stack'[k].bits = stack[k].bits
    BY <1>2, <2>1 DEF Frames
  <2> QED
    BY <1>1, <2>2, <2>3 DEF MaskKept
<1>4. CASE irq_iret
  <2>1. stack # <<>> /\ stack' = SubSeq(stack, 1, Len(stack) - 1)
    BY <1>4 DEF irq_iret, Running
  <2>2. \A k \in DOMAIN stack' : k \in DOMAIN stack /\ stack'[k] = stack[k]
    BY <1>2, <2>1
  <2> QED
    BY <1>1, <2>2 DEF MaskKept
<1>5. CASE isr_exception_handler
  BY <1>1, <1>5 DEF isr_exception_handler, MaskKept
<1> QED
  BY <1>3, <1>4, <1>5
  DEF Handler, Running, irq_stub, isr_irq_handler, pic8259_eoi, irq_sti, exception_stub

\* An interrupt that can be taken pushes a frame with the bits it set.
LEMMA TakenFrame ==
  ASSUME InterruptInv, CanInterrupt,
         NEW l \in 0 .. 15, NEW bits \in {Bits(l), {2}, {}}
  PROVE  /\ Frame(TRUE, VectorOf(l), bits) \in Frames
         /\ Frame(TRUE, VectorOf(l), bits).bits = bits
<1>1. base = Remapped /\ ifl \in BOOLEAN
  BY WindowOpen DEF InterruptInv, TypeOK
<1>2. VectorOf(l) \in Vectors
  <2>1. VectorOf(l) \in 32 .. 47
    BY <1>1, RemappedVector
  <2> QED
    BY <2>1, SMT DEF Vectors
<1>3. bits \in SUBSET (0 .. 15)
  <2>1. Bits(l) \subseteq 0 .. 15 /\ 2 \in 0 .. 15
    BY SMT DEF Bits, Input, Slave
  <2> QED
    BY <2>1
<1> QED
  BY <1>1, <1>2, <1>3 DEF Frame, Frames

\* The mask pic8259_init found is back before any interrupt can be taken.
LEMMA MaskStep ==
  ASSUME InterruptInv, MaskKept, MaskRestored, [Next]_vars
  PROVE  MaskKept' /\ MaskRestored'
<1>1. CASE Handler
  <2>1. UNCHANGED <<pc, imr, saved>>
    BY <1>1 DEF Handler, irq_stub, isr_irq_handler, pic8259_eoi, irq_sti, irq_iret,
                exception_stub, isr_exception_handler, main, pic
  <2> QED
    BY <1>1, <2>1, HandlerMasked DEF MaskRestored
<1>2. CASE Setup
  <2>1. stack = <<>> /\ stack' = <<>>
    BY <1>2
    DEF Setup, idt_init, init_paging, pic8259_init, pic8259_icw2, pic8259_icw4,
        pic8259_mask, timer_init, kmain_files, kmain_sti, kmain_hlt, At, InMain, cpu
  <2>2. MaskKept'
    BY <2>1 DEF MaskKept
  <2>3. MaskRestored'
    BY <1>2
    DEF Setup, idt_init, init_paging, pic8259_init, pic8259_icw2, pic8259_icw4,
        pic8259_mask, timer_init, kmain_files, kmain_sti, kmain_hlt, At, InMain,
        pic, MaskRestored, Enabling
  <2> QED
    BY <2>2, <2>3
<1>3. ASSUME CanInterrupt, NEW frame \in Frames, Enter(frame),
             frame.bits \intersect imr = {},
             UNCHANGED <<pc, imr, saved>>
      PROVE  MaskKept' /\ MaskRestored'
  <2>1. imr = saved
    BY <1>3 DEF CanInterrupt, InterruptInv, OpenWindow, MaskRestored
  <2>2. MaskKept'
    BY <1>3, <2>1, PushMasked DEF Enter
  <2> QED
    BY <1>3, <2>2 DEF MaskRestored
<1>4. ASSUME NEW l \in Lines, Interrupt(l)
      PROVE  MaskKept' /\ MaskRestored'
  <2> DEFINE f == Frame(TRUE, VectorOf(l), Bits(l))
  <2>1. CanInterrupt /\ Enter(f) /\ UNCHANGED <<pc, imr, saved>>
    BY <1>4 DEF Interrupt, main
  <2>2. f \in Frames /\ f.bits = Bits(l)
    BY <2>1, TakenFrame, InterruptsAssumption
  <2>3. Bits(l) \intersect imr = {}
    BY <1>4 DEF Interrupt, Forwarded
  <2> HIDE DEF f
  <2> QED
    BY <1>3, <2>1, <2>2, <2>3
<1>5. ASSUME NEW l \in {7, 15}, Spurious(l)
      PROVE  MaskKept' /\ MaskRestored'
  <2> DEFINE bits == IF l = 15 THEN {2} ELSE {}
             f == Frame(TRUE, VectorOf(l), bits)
  <2>1. CanInterrupt /\ Enter(f) /\ UNCHANGED <<pc, imr, saved>>
    BY <1>5 DEF Spurious, main
  <2>2. f \in Frames /\ f.bits = bits
    <3>1. l \in 0 .. 15 /\ bits \in {Bits(l), {2}, {}}
      BY SMT
    <3> QED
      BY <2>1, <3>1, TakenFrame
  <2>3. bits \intersect imr = {}
    BY <1>5 DEF Spurious
  <2> HIDE DEF f, bits
  <2> QED
    BY <1>3, <2>1, <2>2, <2>3
<1>6. ASSUME NEW n \in Exceptions, Exception(n)
      PROVE  MaskKept' /\ MaskRestored'
  <2>1. Frame(FALSE, n, {}) \in Frames
    BY <1>6, InterruptsAssumption DEF Frame, Frames, Exception, InterruptInv, TypeOK
  <2>2. Frame(FALSE, n, {}).bits = {}
    BY DEF Frame
  <2>3. UNCHANGED <<pc, imr, saved>>
    BY <1>6 DEF Exception, main, pic
  <2>4. MaskKept'
    BY <1>6, <2>1, <2>2, <2>3, PushMasked DEF Exception, Enter
  <2> QED
    BY <2>3, <2>4 DEF MaskRestored
<1>7. CASE panic \/ sleep_return \/ (\E sec \in Secs : sleep(sec))
           \/ (\E l \in Lines : Raise(l)) \/ Wait \/ UNCHANGED vars
  <2>1. UNCHANGED <<stack, saved, imr>>
    BY <1>7 DEF panic, sleep_return, sleep, Raise, Wait, vars, cpu, pic, main
  <2>2. pc' = pc \/ pc \in Enabling
    BY <1>7 DEF panic, sleep_return, sleep, Raise, Wait, vars, main, At, Enabling
  <2> QED
    BY <2>1, <2>2 DEF MaskKept, MaskRestored
<1> QED
  BY <1>1, <1>2, <1>4, <1>5, <1>6, <1>7 DEF Next

(***************************************************************************)
(* No line the BIOS left masked is ever acknowledged: pic8259_init puts    *)
(* back the masks that ICW1 clears before kmain executes its sti.          *)
(***************************************************************************)
THEOREM MasksAreKept == Safety => []MaskKept
<1>1. Init => MaskKept /\ MaskRestored
  BY DEF Init, MaskKept, MaskRestored, Enabling
<1>2. InterruptInv /\ (MaskKept /\ MaskRestored) /\ [Next]_vars
        => (MaskKept /\ MaskRestored)'
  BY MaskStep
<1> QED
  BY <1>1, <1>2, InterruptInvariant, PTL DEF Safety

-----------------------------------------------------------------------------
(***************************************************************************)
(* sleep.                                                                  *)
(***************************************************************************)

\* One tick: as long as the end is not reached, g_ticks does not wrap.
LEMMA TickCounts ==
  ASSUME InterruptInv, SleepCounts, timer_handler, UNCHANGED <<pc, end, g_freq_hz>>
  PROVE  SleepCounts'
<1>1. TICKS \in Nat \ {0} /\ g_ticks \in 0 .. TICKS - 1
  BY InterruptsAssumption DEF InterruptInv, TypeOK
<1>2. slept \in [start : Nat, ticks : Nat, elapsed : Nat]
  BY DEF SleepCounts
<1>3. CASE pc = "sleep" /\ slept.elapsed < slept.ticks
  <2>1. slept' = [slept EXCEPT !.elapsed = slept.elapsed + 1]
    BY <1>3 DEF timer_handler
  <2>2. /\ slept' \in [start : Nat, ticks : Nat, elapsed : Nat]
        /\ slept'.start = slept.start /\ slept'.ticks = slept.ticks
        /\ slept'.elapsed = slept.elapsed + 1
    BY <1>2, <2>1
  <2>3. ASSUME slept.start + slept.ticks < TICKS
        PROVE  g_ticks' = slept.start + slept.elapsed + 1
    <3>1. g_ticks = slept.start + slept.elapsed
      BY <1>3, <2>3 DEF SleepCounts
    <3>2. g_ticks + 1 \in Nat /\ g_ticks + 1 < TICKS
      BY <1>1, <1>2, <1>3, <2>3, <3>1
    <3>3. g_ticks' = g_ticks + 1
      BY <1>1, <3>2 DEF timer_handler
    <3> QED
      BY <1>2, <3>1, <3>3
  <2> QED
    BY <1>2, <1>3, <2>2, <2>3 DEF SleepCounts
<1>4. CASE ~(pc = "sleep" /\ slept.elapsed < slept.ticks)
  <2>1. slept' = slept
    BY <1>4 DEF timer_handler
  <2> QED
    BY <1>2, <1>4, <2>1 DEF SleepCounts
<1> QED
  BY <1>3, <1>4

LEMMA SleepStep ==
  ASSUME InterruptInv, SleepCounts, [Next]_vars
  PROVE  SleepCounts'
<1>1. CASE isr_irq_handler
  <2>1. UNCHANGED <<pc, end, g_freq_hz>>
    BY <1>1 DEF isr_irq_handler, main
  <2>2. CASE timer_handler
    BY <2>1, <2>2, TickCounts
  <2>3. CASE UNCHANGED <<g_ticks, slept>>
    BY <2>1, <2>3 DEF SleepCounts
  <2> QED
    BY <1>1, <2>2, <2>3 DEF isr_irq_handler
<1>2. ASSUME NEW sec \in Secs, sleep(sec)
      PROVE  SleepCounts'
  <2>1. /\ g_freq_hz \in Nat /\ sec \in Nat /\ g_ticks \in 0 .. TICKS - 1
        /\ TICKS \in Nat \ {0}
    BY InterruptsAssumption DEF SleepCounts, InterruptInv, TypeOK
  <2> DEFINE t == sec * g_freq_hz
  <2>2. t \in Nat
    BY <2>1
  <2>3. /\ slept' = [start |-> g_ticks, ticks |-> t, elapsed |-> 0]
        /\ end' = (g_ticks + t) % TICKS
        /\ g_ticks' = g_ticks /\ g_freq_hz' = g_freq_hz
    BY <1>2 DEF sleep, timer
  <2> HIDE DEF t
  <2>4. g_ticks + t < TICKS => end' = g_ticks + t
    BY <2>1, <2>2, <2>3
  <2> QED
    BY <2>1, <2>2, <2>3, <2>4 DEF SleepCounts
<1>3. CASE timer_init
  <2>1. pc' = "fs" /\ g_freq_hz' = HZ /\ slept' = slept
    BY <1>3 DEF timer_init, At
  <2> QED
    BY <2>1, InterruptsAssumption DEF SleepCounts
<1>4. CASE /\ UNCHANGED <<end, g_ticks, g_freq_hz, slept>>
           /\ pc' # "sleep" \/ pc' = pc
  BY <1>4 DEF SleepCounts
<1> QED
  BY <1>1, <1>2, <1>3, <1>4
  DEF Next, Handler, irq_stub, pic8259_eoi, irq_sti, irq_iret,
      exception_stub, isr_exception_handler, Setup, idt_init, init_paging, pic8259_init,
      pic8259_icw2, pic8259_icw4, pic8259_mask, kmain_files, kmain_sti, kmain_hlt, At,
      panic, sleep_return, Raise, Interrupt, Spurious, Exception, Wait, vars, timer, main

(***************************************************************************)
(* sleep returns after all the ticks it was asked for, for every frequency *)
(* and width of the counter, except when its end is past the wrap.         *)
(***************************************************************************)
THEOREM SleepsLongEnough == Safety => SleepNotEarly
<1>1. Init => SleepCounts
  BY DEF Init, SleepCounts
<1>2. InterruptInv /\ SleepCounts /\ [Next]_vars => SleepCounts'
  BY SleepStep
<1> DEFINE A == pc = "sleep" /\ pc' = "idle" =>
                  \/ slept.elapsed = slept.ticks
                  \/ slept.start + slept.ticks >= TICKS
<1>3. InterruptInv /\ SleepCounts /\ [Next]_vars => [A]_vars
  <2> SUFFICES ASSUME InterruptInv, SleepCounts, Next, pc = "sleep", pc' = "idle",
                      slept.start + slept.ticks < TICKS
               PROVE  slept.elapsed = slept.ticks
    BY InterruptsAssumption DEF SleepCounts
  <2>1. sleep_return
    BY DEF Next, Handler, irq_stub, isr_irq_handler, pic8259_eoi, irq_sti, irq_iret,
      exception_stub, isr_exception_handler, Setup, idt_init, init_paging, pic8259_init,
      pic8259_icw2, pic8259_icw4, pic8259_mask, timer_init, kmain_files, kmain_sti,
      kmain_hlt, At, panic, sleep, Raise, Interrupt, Spurious, Exception, Wait, vars, main
  <2>2. g_ticks >= end
    BY <2>1 DEF sleep_return
  <2> QED
    BY <2>2 DEF SleepCounts
<1> QED
  BY <1>1, <1>2, <1>3, InterruptInvariant, PTL DEF Safety, SleepNotEarly
=============================================================================
