--------------------------- MODULE InterruptProofs ---------------------------
(***************************************************************************)
(* Proofs about Interrupt.tla, for any table of processes, any number of   *)
(* lines, any length of a write() and any interleaving: types, nesting,    *)
(* masks, and whose registers are where; and, from there, that it          *)
(* implements Schedule.tla and RoundRobin.tla.                             *)
(***************************************************************************)
EXTENDS Interrupt, Induction, SequenceTheorems, TLAPS

(* What the entry at place n of the kernel stack may be.                   *)
(* kernel_main() and system calls are at the bottom, the others are the    *)
(* handlers of their lines.                                                *)
EntryInv(n) ==
  /\ stack[n].handler = "kernel_main" =>
       /\ n = 1 /\ Len(stack) = 1 /\ stack[n].pc = "ret" /\ stack[n].irq = Boot
       /\ running = Boot
  /\ stack[n].handler \in SysCalls =>
       /\ n = 1 /\ stack[n].irq = Boot
       /\ stack[n].pc \in {"call", "crtc", "ret"}
  /\ stack[n].handler = "clock_handler" =>
       stack[n].irq = CLOCK_IRQ /\ stack[n].pc # "crtc"
  /\ stack[n].handler = "keyboard_handler" =>
       /\ stack[n].irq = KEYBOARD_IRQ /\ stack[n].pc \in {"call", "ret"}
       /\ tty_pc \in {"loop", "cli"}
  /\ stack[n].handler # "spurious_irq"
  /\ stack[n].pc = "crtc" =>
       stack[n].handler = "sys_write" /\ stack[n].arg > 0 /\ n = Len(stack)

StackInv == \A n \in 1 .. Len(stack) : EntryInv(n)

(* Which handler each line has.                                            *)
TableInv ==
  irq_table = [i \in Lines |->
    IF i = CLOCK_IRQ THEN "clock_handler"
    ELSE IF i = KEYBOARD_IRQ /\ tty_pc \notin {"disable_irq", "irq_table"}
    THEN "keyboard_handler" ELSE "spurious_irq"]

(* Where interrupts are off.                                               *)
FlagInv ==
  /\ tty_pc = "cli" => InProcess /\ running = TTY
  /\ eflags_if <=>
       /\ tty_pc # "cli"
       /\ ~InProcess => Top.pc # "crtc" /\ Top.handler # "kernel_main"

(* TypeOK but for the height of the kernel stack.                          *)
TypeInv ==
  /\ ticks \in 0 .. TickMod - 1
  /\ proc_ticks \in [Proc -> Int]
  /\ p_proc_ready \in Proc
  /\ eflags_if \in BOOLEAN
  /\ imr \in SUBSET Lines
  /\ irr \in SUBSET Lines
  /\ esp0 \in Proc \union {Boot}
  /\ frame \in [Proc -> STACK_FRAME]
  /\ running \in Proc \union {Boot}
  /\ stack \in Seq(Entry)
  /\ scan \in [p : 0 .. NR_TASKS + NR_PROCS, greatest_ticks : Nat]
  /\ tty_pc \in {"disable_irq", "irq_table", "enable_irq", "loop", "cli"}

IInv == TypeInv /\ NestingInv /\ MaskInv /\ FrameInv /\ StackInv /\ TableInv /\ FlagInv

-----------------------------------------------------------------------------
(* The kernel stack as a sequence: its top, and what a step does to it.    *)
LEMMA TopFacts ==
  ASSUME stack \in Seq(Entry), ~InProcess
  PROVE  /\ Len(stack) \in Nat \ {0} /\ Len(stack) \in 1 .. Len(stack)
         /\ Top = stack[Len(stack)] /\ Top \in Entry
         /\ Front(stack) \in Seq(Entry) /\ Len(Front(stack)) = Len(stack) - 1
         /\ \A n \in 1 .. Len(stack) - 1 : Front(stack)[n] = stack[n]
<1>1. Len(stack) \in Nat /\ Len(stack) # 0
  BY DEF InProcess
<1>2. Top = stack[Len(stack)] /\ Top \in Entry
  BY <1>1 DEF Top, Last
<1>3. Front(stack) = SubSeq(stack, 1, Len(stack) - 1)
  BY DEF Front
<1>4. \A n \in 1 .. Len(stack) - 1 : stack[n] \in Entry
  BY <1>1
<1>5. /\ Front(stack) \in Seq(Entry)
      /\ Len(Front(stack)) =
           IF 1 <= Len(stack) - 1 THEN Len(stack) - 1 - 1 + 1 ELSE 0
      /\ \A n \in 1 .. Len(stack) - 1 - 1 + 1 :
           Front(stack)[n] = stack[1 + n - 1]
  BY <1>1, <1>3, <1>4, SubSeqProperties, SMTT(30)
<1>6. \A n \in 1 .. Len(stack) - 1 : Front(stack)[n] = stack[n]
  <2> SUFFICES ASSUME NEW n \in 1 .. Len(stack) - 1
               PROVE  Front(stack)[n] = stack[n]
    OBVIOUS
  <2>1. 1 + n - 1 = n /\ n \in 1 .. Len(stack) - 1 - 1 + 1
    BY <1>1
  <2> QED
    BY <1>5, <2>1
<1>7. Len(Front(stack)) = Len(stack) - 1
  <2> DEFINE l == Len(stack)
             f == Len(Front(stack))
  <2>1. l \in Nat \ {0} /\ f = IF 1 <= l - 1 THEN l - 1 - 1 + 1 ELSE 0
    BY <1>1, <1>5
  <2> HIDE DEF l, f
  <2>2. f = l - 1
    BY <2>1
  <2> QED
    BY <2>2 DEF l, f
<1>8. Len(stack) \in Nat \ {0} /\ Len(stack) \in 1 .. Len(stack)
  BY <1>1
<1> QED
  BY <1>2, <1>5, <1>6, <1>7, <1>8

(* The entry on top goes on to e.                                          *)
LEMMA TopReplaced ==
  ASSUME stack \in Seq(Entry), ~InProcess, NEW e \in Entry,
         stack' = [stack EXCEPT ![Len(stack)] = e]
  PROVE  /\ stack' \in Seq(Entry) /\ Len(stack') = Len(stack)
         /\ stack'[Len(stack)] = e
         /\ \A n \in 1 .. Len(stack) - 1 : stack'[n] = stack[n]
         /\ ~InProcess' /\ Top' = e
<1>1. Len(stack) \in Nat \ {0}
  BY TopFacts
<1>2. stack' \in Seq(Entry) /\ Len(stack') = Len(stack)
  BY <1>1
<1>3. /\ stack'[Len(stack)] = e
      /\ \A n \in 1 .. Len(stack) - 1 : stack'[n] = stack[n]
  BY <1>1
<1>4. ~InProcess'
  BY <1>1, <1>2 DEF InProcess
<1>5. Top' = stack'[Len(stack')]
  BY DEF Top, Last
<1> QED
  BY <1>2, <1>3, <1>4, <1>5

(* A step of the entry on top that stays in its handler, and what it has   *)
(* to leave alone.                                                         *)
LEMMA GotoKeepsIInv ==
  ASSUME IInv, ~InProcess, NEW e \in Entry,
         stack' = [stack EXCEPT ![Len(stack)] = e],
         e.handler = Top.handler, e.irq = Top.irq, e.exit = Top.exit,
         e.esi = Top.esi, e.p_proc = Top.p_proc,
         e.handler # "kernel_main",
         e.handler \in SysCalls => e.pc \in {"call", "crtc", "ret"},
         e.handler = "clock_handler" => e.pc # "crtc",
         e.handler = "keyboard_handler" => e.pc \in {"call", "ret"},
         e.pc = "crtc" => e.handler = "sys_write" /\ e.arg > 0,
         UNCHANGED <<imr, irr, irq_table, k_reenter, esp0, frame, running, tty_pc>>
  PROVE  /\ stack' \in Seq(Entry)
         /\ NestingInv' /\ MaskInv' /\ FrameInv' /\ StackInv' /\ TableInv'
         /\ (tty_pc = "cli" => InProcess /\ running = TTY)'
         /\ ~InProcess' /\ Top' = e
<1> DEFINE L == Len(stack)
<1>0. stack \in Seq(Entry)
  BY DEF IInv, TypeInv
<1>1. L \in Nat \ {0} /\ Top = stack[L] /\ Top \in Entry
  BY <1>0, TopFacts
<1>2. /\ stack' \in Seq(Entry) /\ Len(stack') = L
      /\ stack'[L] = e
      /\ \A n \in 1 .. L - 1 : stack'[n] = stack[n]
      /\ ~InProcess' /\ Top' = e
  BY <1>0, TopReplaced
<1>3. \A n \in 1 .. L :
        /\ stack'[n].handler = stack[n].handler /\ stack'[n].irq = stack[n].irq
        /\ stack'[n].exit = stack[n].exit /\ stack'[n].esi = stack[n].esi
        /\ stack'[n].p_proc = stack[n].p_proc
  BY <1>1, <1>2
<1>4. L = Len(stack)
  OBVIOUS
<1> HIDE DEF L
<1>5. NestingInv'
  BY <1>2, <1>3, <1>4 DEF IInv, NestingInv
<1>6. MaskInv'
  <2>1. \A m, n \in 1 .. L :
          stack'[m].irq = stack'[n].irq => m = n \/ stack'[m].irq = Boot
    BY <1>3, <1>4 DEF IInv, MaskInv
  <2>2. \A i \in Lines : (\E n \in 1 .. L : stack[n].irq = i)
                         <=> \E n \in 1 .. L : stack'[n].irq = i
    BY <1>3
  <2>3. \A n \in 1 .. L : stack'[n].handler # "spurious_irq"
    BY <1>3, <1>4 DEF IInv, MaskInv
  <2>4. \A i \in Lines :
          i \in imr <=> \/ \E n \in 1 .. L : stack[n].irq = i
                        \/ i = KEYBOARD_IRQ /\ tty_pc \notin {"loop", "cli"}
                        \/ i \notin {CLOCK_IRQ, KEYBOARD_IRQ}
    BY <1>4 DEF IInv, MaskInv
  <2> QED
    BY <1>2, <2>1, <2>2, <2>3, <2>4 DEF MaskInv
<1>7. InProcess' <=> InProcess
  BY <1>2
<1>8. FrameInv'
  <2>1. \A n \in 1 .. L :
          stack'[n].handler \in SysCalls =>
            n = 1 /\ running = stack'[n].esi /\ running = stack'[n].p_proc
    BY <1>3, <1>4 DEF IInv, FrameInv
  <2> QED
    BY <1>2, <1>7, <2>1 DEF IInv, FrameInv
<1>9. TableInv'
  BY DEF IInv, TableInv
<1>10. StackInv'
  <2>1. \A n \in 1 .. L : EntryInv(n)
    BY <1>4 DEF IInv, StackInv
  <2>2. ASSUME NEW n \in 1 .. L PROVE EntryInv(n)'
    <3>1. CASE n = L
      <4>1. stack[L].handler # "kernel_main" /\ stack[L].handler # "spurious_irq"
        BY <1>1, <2>1, <3>1 DEF EntryInv
      <4>2. EntryInv(L)
        BY <2>1, <3>1
      <4> HIDE DEF Top
      <4> QED
        BY <1>1, <1>2, <1>4, <3>1, <4>1, <4>2 DEF EntryInv
    <3>2. CASE n # L
      <4>1. n \in 1 .. L - 1 /\ stack'[n] = stack[n]
        BY <1>1, <1>2, <3>2
      <4>2. stack[n].pc # "crtc" /\ stack[n].handler # "kernel_main"
        BY <4>1, <1>1, <1>4, <2>1, <3>2 DEF EntryInv
      <4>3. EntryInv(n)
        BY <2>1
      <4> QED
        BY <1>2, <1>4, <4>1, <4>2, <4>3 DEF EntryInv
    <3> QED
      BY <3>1, <3>2
  <2> QED
    BY <2>2, <1>2 DEF StackInv
<1>11. (tty_pc = "cli" => InProcess /\ running = TTY)'
  BY <1>7 DEF IInv, FlagInv
<1> QED
  BY <1>2, <1>5, <1>6, <1>8, <1>9, <1>10, <1>11

(* The step of the entry on top, as a replacement of it.                   *)
LEMMA GotoFacts ==
  ASSUME stack \in Seq(Entry), ~InProcess, NEW pc, NEW v, NEW a
  PROVE  /\ Goto(pc) <=>
              stack' = [stack EXCEPT ![Len(stack)] = [Top EXCEPT !.pc = pc]]
         /\ Answer(v) <=>
              stack' = [stack EXCEPT ![Len(stack)] =
                          [Top EXCEPT !.pc = "ret", !.eax = v]]
         /\ [stack EXCEPT ![Len(stack)].pc = "call",
                          ![Len(stack)].arg = @ - 1]
            = [stack EXCEPT ![Len(stack)] =
                 [Top EXCEPT !.pc = "call", !.arg = @ - 1]]
<1>1. Top = stack[Len(stack)] /\ Len(stack) \in 1 .. Len(stack) /\ Top \in Entry
  BY TopFacts
<1>2. Goto(pc) <=>
        stack' = [stack EXCEPT ![Len(stack)] = [Top EXCEPT !.pc = pc]]
  BY <1>1 DEF Goto
<1>3. Answer(v) <=>
        stack' = [stack EXCEPT ![Len(stack)] =
                    [Top EXCEPT !.pc = "ret", !.eax = v]]
  BY <1>1 DEF Answer
<1>4. [stack EXCEPT ![Len(stack)].pc = "call", ![Len(stack)].arg = @ - 1]
      = [stack EXCEPT ![Len(stack)] =
           [Top EXCEPT !.pc = "call", !.arg = @ - 1]]
  BY <1>1
<1> QED
  BY <1>2, <1>3, <1>4

(* save pushes an entry, and the frame it writes is the running process's. *)
LEMMA SaveFacts ==
  ASSUME IInv, NEW h \in Handlers \union SysCalls, NEW i \in Lines \union {Boot},
         NEW arg \in 0 .. MaxLen, Save(h, i, arg)
  PROVE  \E e \in Entry :
           /\ e.handler = h /\ e.pc = "call" /\ e.irq = i /\ e.arg = arg
           /\ InProcess => e.esi = running /\ e.p_proc = running
           /\ stack' \in Seq(Entry) /\ Len(stack') = Len(stack) + 1
           /\ stack'[Len(stack) + 1] = e
           /\ \A n \in 1 .. Len(stack) : stack'[n] = stack[n]
           /\ ~InProcess' /\ Top' = e
           /\ NestingInv'
           /\ frame' \in [Proc -> STACK_FRAME]
           /\ \A p \in Proc : frame'[p].proc = p
<1> DEFINE L == Len(stack)
           e == [handler |-> h, pc |-> "call", irq |-> i, arg |-> arg,
                 eax |-> 0, esi |-> IF InProcess THEN esp0 ELSE Boot,
                 p_proc |-> p_proc_ready,
                 exit |-> IF Outermost THEN "restart" ELSE "restart_reenter"]
<1>1. stack \in Seq(Entry) /\ L \in Nat
  BY DEF IInv, TypeInv
<1>2. InProcess <=> L = 0
  BY <1>1 DEF InProcess
<1>3. Outermost <=> L = 0
  BY <1>1 DEF IInv, NestingInv, Outermost
<1>4. InProcess => running = p_proc_ready /\ esp0 = running /\ running \in Proc
  BY InterruptAssumption DEF IInv, TypeInv, FrameInv
<1>5. e \in Entry
  <2>1. 0 \in 0 .. TickMod - 1
    BY InterruptAssumption
  <2>2. (IF InProcess THEN esp0 ELSE Boot) \in Proc \union {Boot}
    BY DEF IInv, TypeInv
  <2>3. p_proc_ready \in Proc
    BY DEF IInv, TypeInv
  <2> QED
    BY <2>1, <2>2, <2>3 DEF Entry
<1>6. /\ e.handler = h /\ e.pc = "call" /\ e.irq = i /\ e.arg = arg
      /\ InProcess => e.esi = running /\ e.p_proc = running
      /\ e.exit = IF L = 0 THEN "restart" ELSE "restart_reenter"
  BY <1>3, <1>4
<1>7. stack' = Append(stack, e)
  <2>1. stack' = IF Outermost THEN <<e>> ELSE Append(stack, e)
    BY DEF Save
  <2> HIDE DEF e
  <2>2. L = 0 => Append(stack, e) = <<e>>
    BY <1>1, <1>2 DEF InProcess
  <2> QED
    BY <2>1, <2>2, <1>3
<1> HIDE DEF e
<1>8. /\ stack' \in Seq(Entry) /\ Len(stack') = L + 1
      /\ stack'[L + 1] = e
      /\ \A n \in 1 .. L : stack'[n] = stack[n]
      /\ stack' # <<>>
  BY <1>1, <1>5, <1>7, AppendProperties
<1>9. ~InProcess' /\ Top' = e
  <2>1. ~InProcess'
    BY <1>8 DEF InProcess
  <2>2. Top' = stack'[Len(stack')]
    BY DEF Top, Last
  <2> QED
    BY <2>1, <2>2, <1>8
<1>10. NestingInv'
  <2>1. k_reenter' = k_reenter + 1
    BY DEF Save
  <2>2. k_reenter = L - 1 /\ \A n \in 1 .. L : stack[n].exit = "restart" <=> n = 1
    BY DEF IInv, NestingInv
  <2>3. \A n \in 1 .. L + 1 : stack'[n].exit = "restart" <=> n = 1
    BY <2>2, <1>1, <1>6, <1>8
  <2> HIDE DEF L
  <2>4. k_reenter' = (L + 1) - 1
    BY <2>1, <2>2, <1>1
  <2> QED
    BY <2>3, <2>4, <1>8 DEF NestingInv
<1>11. frame' \in [Proc -> STACK_FRAME] /\ \A p \in Proc : frame'[p].proc = p
  <2>1. frame \in [Proc -> STACK_FRAME] /\ \A p \in Proc : frame[p].proc = p
    BY DEF IInv, TypeInv, FrameInv
  <2>2. frame' = IF InProcess
                 THEN [frame EXCEPT ![esp0] = [proc |-> running, eax |-> 0]]
                 ELSE frame
    BY DEF Save
  <2>3. InProcess => [proc |-> running, eax |-> 0] \in STACK_FRAME
    BY <1>4, InterruptAssumption DEF STACK_FRAME
  <2> QED
    BY <2>1, <2>2, <2>3, <1>4
<1> QED
  BY <1>5, <1>6, <1>8, <1>9, <1>10, <1>11

(* With interrupts on, nothing on the kernel stack is in its way.          *)
LEMMA InterruptsOn ==
  ASSUME IInv, eflags_if
  PROVE  /\ tty_pc # "cli"
         /\ InProcess => running \in Proc
         /\ \A n \in 1 .. Len(stack) : /\ stack[n].pc # "crtc"
                                       /\ stack[n].handler # "kernel_main"
<1>1. tty_pc # "cli"
  BY DEF IInv, FlagInv
<1>2. InProcess => running \in Proc
  BY DEF IInv, FrameInv, TypeInv
<1>3. ASSUME NEW n \in 1 .. Len(stack)
      PROVE  stack[n].pc # "crtc" /\ stack[n].handler # "kernel_main"
  <2>1. stack \in Seq(Entry)
    BY DEF IInv, TypeInv
  <2>2. ~InProcess
    BY <2>1, <1>3 DEF InProcess
  <2>3. Top = stack[Len(stack)] /\ Len(stack) \in Nat \ {0}
    BY <2>1, <2>2, TopFacts
  <2>4. Top.pc # "crtc" /\ Top.handler # "kernel_main"
    BY <2>2 DEF IInv, FlagInv
  <2>5. EntryInv(n)
    BY DEF IInv, StackInv
  <2> QED
    BY <2>3, <2>4, <2>5 DEF EntryInv
<1> QED
  BY <1>1, <1>2, <1>3

LEMMA HwIntKeepsIInv ==
  ASSUME IInv, NEW i \in Lines, HwInt(i)
  PROVE  IInv'
<1> DEFINE L == Len(stack)
<1>0. /\ eflags_if /\ i \in irr \ imr
      /\ irr' = irr \ {i} /\ imr' = imr \union {i}
      /\ Save(irq_table[i], i, 0)
      /\ UNCHANGED <<ticks, proc_ticks, p_proc_ready, scan, irq_table,
                     eflags_if, esp0, running, tty_pc>>
  BY DEF HwInt, kernel
<1>1. i = CLOCK_IRQ \/ (i = KEYBOARD_IRQ /\ tty_pc \in {"loop", "cli"})
  BY <1>0 DEF IInv, MaskInv
<1>2. irq_table[i] = IF i = CLOCK_IRQ THEN "clock_handler" ELSE "keyboard_handler"
  BY <1>1 DEF IInv, TableInv, TypeInv, CLOCK_IRQ, KEYBOARD_IRQ
<1>3. irq_table[i] \in Handlers /\ 0 \in 0 .. MaxLen
  BY <1>2, InterruptAssumption DEF Handlers
<1>4. PICK e \in Entry :
           /\ e.handler = irq_table[i] /\ e.pc = "call" /\ e.irq = i
           /\ stack' \in Seq(Entry) /\ Len(stack') = Len(stack) + 1
           /\ stack'[Len(stack) + 1] = e
           /\ \A n \in 1 .. Len(stack) : stack'[n] = stack[n]
           /\ ~InProcess' /\ Top' = e
           /\ NestingInv'
           /\ frame' \in [Proc -> STACK_FRAME]
           /\ \A p \in Proc : frame'[p].proc = p
  BY <1>0, <1>3, SaveFacts
<1>5. /\ tty_pc # "cli"
      /\ \A n \in 1 .. L : /\ stack[n].pc # "crtc"
                           /\ stack[n].handler # "kernel_main"
  BY <1>0, InterruptsOn
<1>6. L \in Nat /\ L = Len(stack)
  BY DEF IInv, TypeInv
<1> HIDE DEF L
<1>7. Len(stack') = L + 1 /\ stack'[L + 1] = e /\ \A n \in 1 .. L : stack'[n] = stack[n]
  BY <1>4, <1>6
<1>8. TypeInv'
  BY <1>0, <1>4 DEF IInv, TypeInv
<1>9. MaskInv'
  <2>1. \A n \in 1 .. L : stack[n].irq # i
    BY <1>0, <1>6 DEF IInv, MaskInv
  <2>2. i # Boot
    BY InterruptAssumption
  <2>3. \A m, n \in 1 .. L : stack[m].irq = stack[n].irq => m = n \/ stack[m].irq = Boot
    BY <1>6 DEF IInv, MaskInv
  <2>4. \A m, n \in 1 .. L + 1 : stack'[m].irq = stack'[n].irq => m = n \/ stack'[m].irq = Boot
    <3> SUFFICES ASSUME NEW m \in 1 .. L + 1, NEW n \in 1 .. L + 1,
                        stack'[m].irq = stack'[n].irq
                 PROVE  m = n \/ stack'[m].irq = Boot
      OBVIOUS
    <3>1. CASE m \in 1 .. L /\ n \in 1 .. L
      BY <3>1, <2>3, <1>7
    <3>2. CASE m \in 1 .. L /\ n = L + 1
      BY <3>2, <2>1, <1>7, <1>4
    <3>3. CASE m = L + 1 /\ n \in 1 .. L
      BY <3>3, <2>1, <1>7, <1>4
    <3> QED
      BY <3>1, <3>2, <3>3, <1>6
  <2>5. \A j \in Lines : (\E n \in 1 .. L + 1 : stack'[n].irq = j)
                         <=> j = i \/ \E n \in 1 .. L : stack[n].irq = j
    <3>1. L + 1 \in 1 .. L + 1 /\ \A n \in 1 .. L + 1 : n = L + 1 \/ n \in 1 .. L
      BY <1>6
    <3>2. \A n \in 1 .. L : n \in 1 .. L + 1
      BY <1>6
    <3> QED
      BY <3>1, <3>2, <1>7, <1>4
  <2>6. \A j \in Lines :
          j \in imr <=> \/ \E n \in 1 .. L : stack[n].irq = j
                        \/ j = KEYBOARD_IRQ /\ tty_pc \notin {"loop", "cli"}
                        \/ j \notin {CLOCK_IRQ, KEYBOARD_IRQ}
    BY <1>6 DEF IInv, MaskInv
  <2>7. \A j \in Lines :
          j \in imr' <=> \/ \E n \in 1 .. L + 1 : stack'[n].irq = j
                         \/ j = KEYBOARD_IRQ /\ tty_pc \notin {"loop", "cli"}
                         \/ j \notin {CLOCK_IRQ, KEYBOARD_IRQ}
    BY <1>0, <2>5, <2>6
  <2>8. \A n \in 1 .. L + 1 : stack'[n].handler # "spurious_irq"
    <3>1. \A n \in 1 .. L : stack[n].handler # "spurious_irq"
      BY <1>6 DEF IInv, MaskInv
    <3>2. e.handler # "spurious_irq"
      BY <1>2, <1>4
    <3> QED
      BY <3>1, <3>2, <1>6, <1>7
  <2> QED
    BY <2>4, <2>7, <2>8, <1>0, <1>7 DEF MaskInv
<1>10. FrameInv'
  <2>1. e.handler \notin SysCalls
    BY <1>2, <1>4 DEF SysCalls
  <2>2. \A n \in 1 .. L : stack[n].handler \in SysCalls =>
          n = 1 /\ running = stack[n].esi /\ running = stack[n].p_proc
    BY <1>6 DEF IInv, FrameInv
  <2>3. \A n \in 1 .. L + 1 : stack'[n].handler \in SysCalls =>
          n = 1 /\ running = stack'[n].esi /\ running = stack'[n].p_proc
    BY <2>1, <2>2, <1>6, <1>7
  <2> QED
    BY <2>3, <1>0, <1>4, <1>7 DEF IInv, FrameInv
<1>11. StackInv'
  <2> SUFFICES ASSUME NEW n \in 1 .. L + 1 PROVE EntryInv(n)'
    BY <1>7 DEF StackInv
  <2>1. CASE n = L + 1
    BY <2>1, <1>0, <1>1, <1>2, <1>4, <1>7 DEF EntryInv, SysCalls, CLOCK_IRQ, KEYBOARD_IRQ
  <2>2. CASE n \in 1 .. L
    <3>1. EntryInv(n)
      BY <2>2, <1>6 DEF IInv, StackInv
    <3> QED
      BY <2>2, <3>1, <1>0, <1>5, <1>7 DEF EntryInv
  <2> QED
    BY <2>1, <2>2, <1>6
<1>12. TableInv'
  BY <1>0 DEF IInv, TableInv
<1>13. FlagInv'
  BY <1>0, <1>2, <1>4, <1>5 DEF FlagInv
<1> QED
  BY <1>4, <1>8, <1>9, <1>10, <1>11, <1>12, <1>13 DEF IInv

LEMMA SysCallKeepsIInv ==
  ASSUME IInv, NEW h \in SysCalls, NEW len \in 0 .. MaxLen, SysCall(h, len)
  PROVE  IInv'
<1>0. /\ InProcess
      /\ running \in NR_TASKS .. NR_TASKS + NR_PROCS - 1
      /\ Save(h, Boot, len)
      /\ eflags_if' = TRUE
      /\ UNCHANGED <<ticks, proc_ticks, p_proc_ready, scan, imr, irr, irq_table,
                     esp0, running, tty_pc>>
  BY DEF SysCall, kernel, pic
<1>1. tty_pc # "cli"
  BY <1>0, InterruptAssumption DEF IInv, FlagInv, TTY
<1>2. PICK e \in Entry :
           /\ e.handler = h /\ e.pc = "call" /\ e.irq = Boot
           /\ InProcess => e.esi = running /\ e.p_proc = running
           /\ stack' \in Seq(Entry) /\ Len(stack') = Len(stack) + 1
           /\ stack'[Len(stack) + 1] = e
           /\ ~InProcess' /\ Top' = e
           /\ NestingInv'
           /\ frame' \in [Proc -> STACK_FRAME]
           /\ \A p \in Proc : frame'[p].proc = p
  BY <1>0, SaveFacts
<1>3. Len(stack) = 0 /\ Len(stack') = 1 /\ stack'[1] = e
  BY <1>0, <1>2 DEF InProcess
<1>4. e.handler \notin {"kernel_main", "clock_handler", "keyboard_handler", "spurious_irq"}
  BY <1>2 DEF SysCalls
<1>5. TypeInv'
  BY <1>0, <1>2 DEF IInv, TypeInv
<1>6. MaskInv'
  <2>1. \A j \in Lines :
          j \in imr <=> \/ j = KEYBOARD_IRQ /\ tty_pc \notin {"loop", "cli"}
                        \/ j \notin {CLOCK_IRQ, KEYBOARD_IRQ}
    BY <1>3 DEF IInv, MaskInv
  <2>2. \A j \in Lines : e.irq # j
    BY <1>2, InterruptAssumption
  <2> QED
    BY <2>1, <2>2, <1>0, <1>2, <1>3, <1>4 DEF MaskInv
<1>7. FrameInv'
  BY <1>0, <1>2, <1>3 DEF IInv, FrameInv
<1>8. StackInv'
  BY <1>0, <1>2, <1>3, <1>4 DEF StackInv, EntryInv
<1>9. TableInv'
  BY <1>0 DEF IInv, TableInv
<1>10. FlagInv'
  BY <1>0, <1>1, <1>2, <1>4 DEF FlagInv
<1> QED
  BY <1>2, <1>5, <1>6, <1>7, <1>8, <1>9, <1>10 DEF IInv

(* The way out that save pushed: back to the entry below, or, from the     *)
(* outermost one, into the process chosen, on its own frame.               *)
LEMMA LeaveKeepsIInv ==
  ASSUME IInv, ~InProcess, Top.pc = "ret", NEW fr \in [Proc -> STACK_FRAME],
         \A p \in Proc : fr[p].proc = p,
         Leave(fr), imr' = imr \ {Top.irq},
         UNCHANGED <<kernel, irr, irq_table, tty_pc>>
  PROVE  IInv'
<1> DEFINE L == Len(stack)
<1>1. /\ stack \in Seq(Entry) /\ L \in Nat \ {0} /\ L = Len(stack)
      /\ Top = stack[L] /\ Top \in Entry
      /\ Front(stack) \in Seq(Entry) /\ Len(Front(stack)) = L - 1
      /\ \A n \in 1 .. L - 1 : Front(stack)[n] = stack[n]
  BY TopFacts DEF IInv, TypeInv
<1> HIDE DEF L
<1>2. /\ k_reenter = L - 1
      /\ \A n \in 1 .. L : stack[n].exit = "restart" <=> n = 1
  BY <1>1 DEF IInv, NestingInv
<1>3. UNCHANGED <<ticks, proc_ticks, p_proc_ready, scan>>
  BY DEF kernel
<1>4. /\ frame' = fr /\ eflags_if' = TRUE /\ k_reenter' = k_reenter - 1
      /\ IF L = 1 THEN Restart(fr) ELSE RestartReenter
  BY <1>1, <1>2 DEF Leave
<1>5. /\ stack' \in Seq(Entry) /\ Len(stack') = L - 1
      /\ \A n \in 1 .. L - 1 : stack'[n] = stack[n]
      /\ L = 1 => running' = p_proc_ready /\ esp0' = p_proc_ready
      /\ L # 1 => UNCHANGED <<running, esp0>>
  <2>1. CASE L = 1
    <3>1. stack' = <<>> /\ esp0' = p_proc_ready /\ running' = fr[p_proc_ready].proc
      BY <1>4, <2>1 DEF Restart
    <3>2. running' = p_proc_ready
      BY <3>1 DEF IInv, TypeInv
    <3> QED
      BY <3>1, <3>2, <2>1
  <2>2. CASE L # 1
    <3>1. stack' = Front(stack) /\ UNCHANGED <<running, esp0>>
      BY <1>4, <2>2 DEF RestartReenter
    <3> QED
      BY <3>1, <2>2, <1>1
  <2> QED
    BY <2>1, <2>2
<1>6. InProcess' <=> L = 1
  BY <1>1, <1>5 DEF InProcess
<1>7. \A n \in 1 .. L - 1 : n \in 1 .. L /\ n # L
  BY <1>1
<1>8. \A n \in 1 .. L : EntryInv(n)
  BY <1>1 DEF IInv, StackInv
<1>9. \A n \in 1 .. L - 1 : /\ stack[n].pc # "crtc"
                            /\ stack[n].handler # "kernel_main"
  BY <1>1, <1>7, <1>8 DEF EntryInv
<1>10. tty_pc # "cli"
  BY DEF IInv, FlagInv
<1>11. TypeInv'
  BY <1>1, <1>3, <1>4, <1>5 DEF IInv, TypeInv
<1>12. NestingInv'
  BY <1>1, <1>2, <1>4, <1>5, <1>7 DEF NestingInv
<1>13. MaskInv'
  <2>1. \A m, n \in 1 .. L : stack[m].irq = stack[n].irq => m = n \/ stack[m].irq = Boot
    BY <1>1 DEF IInv, MaskInv
  <2>2. \A m, n \in 1 .. L - 1 :
          stack'[m].irq = stack'[n].irq => m = n \/ stack'[m].irq = Boot
    BY <2>1, <1>5, <1>7
  <2>3. \A j \in Lines :
          j \in imr <=> \/ \E n \in 1 .. L : stack[n].irq = j
                        \/ j = KEYBOARD_IRQ /\ tty_pc \notin {"loop", "cli"}
                        \/ j \notin {CLOCK_IRQ, KEYBOARD_IRQ}
    BY <1>1 DEF IInv, MaskInv
  <2>4. \/ Top.irq = Boot
        \/ Top.irq = CLOCK_IRQ
        \/ Top.irq = KEYBOARD_IRQ /\ tty_pc \in {"loop", "cli"}
    <3>1. EntryInv(L)
      BY <1>1, <1>8
    <3>2. Top.handler \in Handlers \union SysCalls \union {"kernel_main"}
      BY <1>1 DEF Entry
    <3> QED
      BY <3>1, <3>2, <1>1 DEF EntryInv, Handlers
  <2>5. Boot \notin Lines
    BY InterruptAssumption
  <2>6. ASSUME NEW j \in Lines
        PROVE  (\E n \in 1 .. L - 1 : stack'[n].irq = j)
               <=> j # Top.irq /\ \E n \in 1 .. L : stack[n].irq = j
    <3>1. CASE j = Top.irq
      <4>1. ASSUME NEW n \in 1 .. L - 1, stack[n].irq = j PROVE FALSE
        <5>1. n \in 1 .. L /\ L \in 1 .. L /\ n # L
          BY SMTT(30), <1>1, <1>7
        <5>2. stack[n].irq = stack[L].irq
          BY <4>1, <3>1, <1>1
        <5>3. stack[n].irq = Boot
          BY <5>1, <5>2, <2>1
        <5> QED
          BY <5>3, <4>1, <2>5
      <4> QED
        BY <4>1, <3>1, <1>5
    <3>2. CASE j # Top.irq
      <4>1. \A n \in 1 .. L : stack[n].irq = j => n \in 1 .. L - 1
        BY <3>2, <1>1
      <4> QED
        BY <4>1, <3>2, <1>5, <1>7
    <3> QED
      BY <3>1, <3>2
  <2>7. \A j \in Lines :
          j \in imr' <=> \/ \E n \in 1 .. L - 1 : stack'[n].irq = j
                         \/ j = KEYBOARD_IRQ /\ tty_pc \notin {"loop", "cli"}
                         \/ j \notin {CLOCK_IRQ, KEYBOARD_IRQ}
    BY <2>3, <2>4, <2>5, <2>6 DEF CLOCK_IRQ, KEYBOARD_IRQ
  <2>8. \A n \in 1 .. L - 1 : stack'[n].handler # "spurious_irq"
    BY <1>1, <1>5, <1>7 DEF IInv, MaskInv
  <2> QED
    BY <2>2, <2>7, <2>8, <1>5 DEF MaskInv
<1>14. FrameInv'
  <2>1. running # Boot => esp0 = running
    BY DEF IInv, FrameInv
  <2>2. (running # Boot => esp0 = running)' /\ (InProcess => running = p_proc_ready)'
    BY <2>1, <1>3, <1>5, <1>6
  <2>3. \A n \in 1 .. L :
          stack[n].handler \in SysCalls =>
            n = 1 /\ running = stack[n].esi /\ running = stack[n].p_proc
    BY <1>1 DEF IInv, FrameInv
  <2>4. \A n \in 1 .. L - 1 :
          stack'[n].handler \in SysCalls =>
            n = 1 /\ running' = stack'[n].esi /\ running' = stack'[n].p_proc
    <3> SUFFICES ASSUME NEW n \in 1 .. L - 1 PROVE L # 1 /\ n \in 1 .. L
      BY <2>3, <1>5
    <3> QED
      BY <1>1
  <2> QED
    BY <2>2, <2>4, <1>4, <1>5 DEF FrameInv
<1>15. StackInv'
  <2> SUFFICES ASSUME NEW n \in 1 .. L - 1 PROVE EntryInv(n)'
    BY <1>5 DEF StackInv
  <2>1. EntryInv(n) /\ stack'[n] = stack[n]
    BY <1>5, <1>7, <1>8
  <2> QED
    BY <2>1, <1>9 DEF EntryInv
<1>16. TableInv'
  BY DEF IInv, TableInv
<1>17. FlagInv'
  <2>1. CASE L = 1
    BY <2>1, <1>4, <1>6, <1>10 DEF FlagInv
  <2>2. CASE L # 1
    <3>1. L - 1 \in 1 .. L - 1 /\ Top' = stack'[L - 1]
      BY <2>2, <1>1, <1>5 DEF Top, Last
    <3>2. Top'.pc # "crtc" /\ Top'.handler # "kernel_main"
      BY <3>1, <1>5, <1>9
    <3> QED
      BY <3>2, <1>4, <1>10 DEF FlagInv
  <2> QED
    BY <2>1, <2>2
<1> QED
  BY <1>11, <1>12, <1>13, <1>14, <1>15, <1>16, <1>17 DEF IInv

(* What a step of the entry on top has to show for the whole of IInv.      *)
LEMMA GotoKeepsAll ==
  ASSUME IInv, ~InProcess, NEW e \in Entry,
         stack' = [stack EXCEPT ![Len(stack)] = e],
         e.handler = Top.handler, e.irq = Top.irq, e.exit = Top.exit,
         e.esi = Top.esi, e.p_proc = Top.p_proc,
         e.handler # "kernel_main",
         e.handler \in SysCalls => e.pc \in {"call", "crtc", "ret"},
         e.handler = "clock_handler" => e.pc # "crtc",
         e.handler = "keyboard_handler" => e.pc \in {"call", "ret"},
         e.pc = "crtc" => e.handler = "sys_write" /\ e.arg > 0,
         eflags_if' = (e.pc # "crtc"),
         ticks' \in 0 .. TickMod - 1, proc_ticks' \in [Proc -> Int],
         p_proc_ready' \in Proc,
         scan' \in [p : 0 .. NR_TASKS + NR_PROCS, greatest_ticks : Nat],
         UNCHANGED <<pic, k_reenter, esp0, frame, running, tty_pc>>
  PROVE  IInv'
<1>1. /\ stack' \in Seq(Entry)
      /\ NestingInv' /\ MaskInv' /\ FrameInv' /\ StackInv' /\ TableInv'
      /\ (tty_pc = "cli" => InProcess /\ running = TTY)'
      /\ ~InProcess' /\ Top' = e
  BY GotoKeepsIInv DEF pic
<1>2. tty_pc # "cli"
  BY DEF IInv, FlagInv
<1>3. FlagInv'
  BY <1>1, <1>2 DEF FlagInv
<1>4. TypeInv'
  BY <1>1 DEF IInv, TypeInv, pic
<1> QED
  BY <1>1, <1>3, <1>4 DEF IInv

(* The entry on top is of one handler, at a point of it.                   *)
LEMMA AtFacts ==
  ASSUME IInv, NEW h, NEW pc, At(h, pc)
  PROVE  /\ stack \in Seq(Entry) /\ ~InProcess
         /\ Top \in Entry /\ Top.handler = h /\ Top.pc = pc
         /\ tty_pc # "cli"
         /\ eflags_if = (pc # "crtc" /\ h # "kernel_main")
         /\ h \in SysCalls => pc \in {"call", "crtc", "ret"}
         /\ h = "keyboard_handler" => pc \in {"call", "ret"}
         /\ h = "clock_handler" => pc # "crtc"
         /\ h = "kernel_main" => Top.irq = Boot
         /\ h # "spurious_irq"
         /\ pc = "crtc" => Top.arg > 0
<1>1. stack \in Seq(Entry) /\ ~InProcess /\ Top.handler = h /\ Top.pc = pc
  BY DEF IInv, TypeInv, At
<1>2. /\ Len(stack) \in 1 .. Len(stack) /\ Top = stack[Len(stack)]
      /\ Top \in Entry
  BY <1>1, TopFacts
<1>3. EntryInv(Len(stack))
  BY <1>2 DEF IInv, StackInv
<1>4. /\ tty_pc # "cli" /\ eflags_if \in BOOLEAN
      /\ eflags_if <=> (pc # "crtc" /\ h # "kernel_main")
  BY <1>1 DEF IInv, TypeInv, FlagInv
<1> QED
  BY <1>1, <1>2, <1>3, <1>4 DEF EntryInv

(* A step that only moves on in its handler.                               *)
LEMMA MoveKeepsIInv ==
  ASSUME IInv, NEW h, NEW pc, At(h, pc), h # "kernel_main", pc # "crtc",
         NEW to \in {"call", "reenter", "left", "scan", "refill", "crtc", "ret"},
         Goto(to),
         to # "crtc",
         h \in SysCalls \union {"keyboard_handler"} => to \in {"call", "ret"},
         ticks' \in 0 .. TickMod - 1, proc_ticks' \in [Proc -> Int],
         p_proc_ready' \in Proc,
         scan' \in [p : 0 .. NR_TASKS + NR_PROCS, greatest_ticks : Nat],
         UNCHANGED <<pic, k_reenter, eflags_if, esp0, frame, running, tty_pc>>
  PROVE  IInv'
<1> DEFINE e == [Top EXCEPT !.pc = to]
<1>1. /\ stack \in Seq(Entry) /\ ~InProcess /\ Top \in Entry
      /\ Top.handler = h /\ Top.pc = pc
      /\ eflags_if = TRUE
  BY AtFacts
<1>2. stack' = [stack EXCEPT ![Len(stack)] = e]
  BY <1>1, GotoFacts
<1>3. /\ e \in Entry /\ e.pc = to
      /\ e.handler = h /\ e.irq = Top.irq /\ e.exit = Top.exit
      /\ e.esi = Top.esi /\ e.p_proc = Top.p_proc
  BY <1>1 DEF Entry
<1> HIDE DEF e
<1> QED
  BY <1>1, <1>2, <1>3, GotoKeepsAll

-----------------------------------------------------------------------------
(* clock_handler() and schedule(), step by step.                           *)
LEMMA ClockKeepsIInv ==
  ASSUME IInv, ClockHandler
  PROVE  IInv'
<1> DEFINE Pcs == {"call", "reenter", "left", "scan", "refill", "crtc", "ret"}
           Scan == [p : 0 .. NR_TASKS + NR_PROCS, greatest_ticks : Nat]
<1>1. UNCHANGED <<pic, k_reenter, eflags_if, esp0, frame, running, tty_pc>>
  BY DEF ClockHandler
<1>2. /\ ticks \in 0 .. TickMod - 1 /\ proc_ticks \in [Proc -> Int]
      /\ p_proc_ready \in Proc /\ scan \in Scan
  BY DEF IInv, TypeInv
<1>3. "clock_handler" \notin SysCalls \union {"keyboard_handler"}
  BY DEF SysCalls
<1>4. TickMod \in Nat \ {0} /\ NR_TASKS \in Nat /\ NR_PROCS \in Nat
  BY InterruptAssumption
<1>5. CASE ClockCharge
  <2>1. (ticks + 1) % TickMod \in 0 .. TickMod - 1
    BY <1>2, <1>4
  <2>2. /\ At("clock_handler", "call") /\ Goto("reenter")
        /\ ticks' = (ticks + 1) % TickMod
        /\ proc_ticks' = [proc_ticks EXCEPT ![p_proc_ready] = @ - 1]
        /\ UNCHANGED <<p_proc_ready, scan>>
    BY <1>5 DEF ClockCharge
  <2>3. proc_ticks' \in [Proc -> Int]
    BY <2>2, <1>2
  <2> QED
    BY <1>1, <1>2, <1>3, <2>1, <2>2, <2>3, MoveKeepsIInv
<1>6. CASE ClockReenter
  <2>1. PICK to \in {"ret", "left"} : Goto(to)
    BY <1>6 DEF ClockReenter
  <2>2. At("clock_handler", "reenter") /\ UNCHANGED <<ticks, proc_ticks, p_proc_ready, scan>>
    BY <1>6 DEF ClockReenter, kernel
  <2> QED
    BY <1>1, <1>2, <1>3, <2>1, <2>2, MoveKeepsIInv
<1>7. CASE ClockLeft
  <2>1. PICK to \in {"ret", "scan"} : Goto(to)
    BY <1>7 DEF ClockLeft
  <2>2. At("clock_handler", "left") /\ UNCHANGED <<ticks, proc_ticks, p_proc_ready, scan>>
    BY <1>7 DEF ClockLeft, kernel
  <2> QED
    BY <1>1, <1>2, <1>3, <2>1, <2>2, MoveKeepsIInv
<1>8. ASSUME At("clock_handler", "scan") \/ At("clock_handler", "refill"),
             UNCHANGED <<ticks, stack>>,
             proc_ticks' \in [Proc -> Int], p_proc_ready' \in Proc, scan' \in Scan
      PROVE  IInv'
  <2>1. ~InProcess
    BY <1>8, AtFacts
  <2>2. TypeInv'
    BY <1>1, <1>8 DEF IInv, TypeInv, pic
  <2>3. NestingInv' /\ MaskInv'
    BY <1>1, <1>8 DEF IInv, NestingInv, MaskInv, pic
  <2>4. FrameInv'
    BY <1>1, <1>8, <2>1 DEF IInv, FrameInv, InProcess
  <2>5. StackInv'
    BY <1>1, <1>8 DEF IInv, StackInv, EntryInv
  <2>6. TableInv' /\ FlagInv'
    BY <1>1, <1>8 DEF IInv, TableInv, FlagInv, InProcess, Top, pic
  <2> QED
    BY <2>2, <2>3, <2>4, <2>5, <2>6 DEF IInv
<1>9. CASE ScheduleScan
  <2>1. /\ At("clock_handler", "scan") /\ scan.p \in Proc
        /\ UNCHANGED <<ticks, proc_ticks, stack>>
    BY <1>9 DEF ScheduleScan
  <2>2. scan.p + 1 \in 0 .. NR_TASKS + NR_PROCS /\ scan.greatest_ticks \in Nat
    BY <2>1, <1>2, <1>4 DEF Proc
  <2>3. CASE proc_ticks[scan.p] > scan.greatest_ticks
    <3>1. /\ p_proc_ready' = scan.p
          /\ scan' = [p |-> scan.p + 1, greatest_ticks |-> proc_ticks[scan.p]]
      BY <1>9, <2>3 DEF ScheduleScan
    <3>2. proc_ticks[scan.p] \in Nat
      BY <2>1, <2>2, <2>3, <1>2
    <3> QED
      BY <3>1, <3>2, <2>1, <2>2, <1>2, <1>8
  <2>4. CASE ~(proc_ticks[scan.p] > scan.greatest_ticks)
    <3>1. UNCHANGED p_proc_ready /\ scan' = [scan EXCEPT !.p = @ + 1]
      BY <1>9, <2>4 DEF ScheduleScan
    <3>2. scan' \in Scan
      BY <3>1, <2>2, <1>2
    <3> QED
      BY <3>1, <3>2, <2>1, <1>2, <1>8
  <2> QED
    BY <2>3, <2>4
<1>10. CASE ScheduleScanned
  <2>1. PICK to \in {"ret", "refill"} : Goto(to)
    BY <1>10 DEF ScheduleScanned
  <2>2. /\ At("clock_handler", "scan") /\ UNCHANGED <<ticks, proc_ticks, p_proc_ready>>
        /\ scan' = [p |-> 0, greatest_ticks |-> 0]
    BY <1>10 DEF ScheduleScanned
  <2>3. scan' \in Scan
    BY <2>2, <1>4
  <2> QED
    BY <1>1, <1>2, <1>3, <2>1, <2>2, <2>3, MoveKeepsIInv
<1>11. CASE ScheduleRefill
  <2>1. At("clock_handler", "refill") /\ UNCHANGED <<ticks, p_proc_ready>>
    BY <1>11 DEF ScheduleRefill
  <2>2. CASE scan.p \in Proc
    <3>1. /\ proc_ticks' = [proc_ticks EXCEPT ![scan.p] = priority[scan.p]]
          /\ scan' = [scan EXCEPT !.p = @ + 1]
          /\ UNCHANGED stack
      BY <1>11, <2>2 DEF ScheduleRefill
    <3>2. proc_ticks' \in [Proc -> Int]
      BY <3>1, <2>2, <1>2, InterruptAssumption
    <3>3. scan' \in Scan
      BY SMTT(30), <3>1, <2>2, <1>2, <1>4 DEF Proc
    <3> QED
      BY <3>1, <3>2, <3>3, <2>1, <1>2, <1>8
  <2>3. CASE scan.p \notin Proc
    <3>1. scan' = [scan EXCEPT !.p = 0] /\ Goto("scan") /\ UNCHANGED proc_ticks
      BY <1>11, <2>3 DEF ScheduleRefill
    <3>2. scan' \in Scan
      BY <3>1, <1>2, <1>4
    <3> QED
      BY <3>1, <3>2, <2>1, <1>1, <1>2, <1>3, MoveKeepsIInv
  <2> QED
    BY <2>2, <2>3
<1> QED
  BY <1>5, <1>6, <1>7, <1>9, <1>10, <1>11 DEF ClockHandler

(* The other handlers and system calls.                                    *)
LEMMA HandlersKeepIInv ==
  ASSUME IInv,
         \/ OtherHandler
         \/ SysGetTicks \/ SysWriteCli \/ SysWriteSti \/ SysWriteDone
  PROVE  IInv'
<1>1. /\ ticks \in 0 .. TickMod - 1 /\ proc_ticks \in [Proc -> Int]
      /\ p_proc_ready \in Proc
      /\ scan \in [p : 0 .. NR_TASKS + NR_PROCS, greatest_ticks : Nat]
  BY DEF IInv, TypeInv
<1>2. CASE OtherHandler
  <2>1. /\ At("keyboard_handler", "call") \/ At("spurious_irq", "call")
        /\ Goto("ret")
        /\ UNCHANGED <<ticks, proc_ticks, p_proc_ready, scan, pic, k_reenter,
                       eflags_if, esp0, frame, running, tty_pc>>
    BY <1>2 DEF OtherHandler, kernel
  <2>2. At("keyboard_handler", "call")
    BY <2>1, AtFacts
  <2> QED
    BY <1>1, <2>1, <2>2, MoveKeepsIInv
<1>3. ASSUME NEW e \in Entry,
             At("sys_get_ticks", "call") \/ At("sys_write", "call")
               \/ At("sys_write", "crtc"),
             stack' = [stack EXCEPT ![Len(stack)] = e],
             e.handler = Top.handler, e.irq = Top.irq, e.exit = Top.exit,
             e.esi = Top.esi, e.p_proc = Top.p_proc,
             e.pc \in {"call", "crtc", "ret"},
             e.pc = "crtc" => e.handler = "sys_write" /\ e.arg > 0,
             eflags_if' = (e.pc # "crtc"),
             UNCHANGED <<kernel, pic, k_reenter, esp0, frame, running, tty_pc>>
      PROVE  IInv'
  <2>1. ~InProcess /\ Top.handler \in {"sys_get_ticks", "sys_write"}
    BY <1>3, AtFacts
  <2>2. UNCHANGED <<ticks, proc_ticks, p_proc_ready, scan>>
    BY <1>3 DEF kernel
  <2> QED
    BY <1>1, <1>3, <2>1, <2>2, GotoKeepsAll
<1>4. ASSUME NEW v \in 0 .. TickMod - 1, Answer(v), eflags_if = TRUE,
             At("sys_get_ticks", "call") \/ At("sys_write", "call"),
             UNCHANGED <<kernel, pic, k_reenter, eflags_if, esp0, frame, running,
                         tty_pc>>
      PROVE  IInv'
  <2> DEFINE e == [Top EXCEPT !.pc = "ret", !.eax = v]
  <2>1. stack \in Seq(Entry) /\ ~InProcess /\ Top \in Entry
    BY <1>4, AtFacts
  <2>2. stack' = [stack EXCEPT ![Len(stack)] = e]
    BY <1>4, <2>1, GotoFacts
  <2>3. /\ e \in Entry /\ e.pc = "ret"
        /\ e.handler = Top.handler /\ e.irq = Top.irq /\ e.exit = Top.exit
        /\ e.esi = Top.esi /\ e.p_proc = Top.p_proc
    BY <2>1 DEF Entry
  <2> HIDE DEF e
  <2> QED
    BY <1>3, <1>4, <2>2, <2>3
<1>5. CASE SysGetTicks
  <2>1. eflags_if = TRUE
    <3>1. At("sys_get_ticks", "call")
      BY <1>5 DEF SysGetTicks
    <3>2. eflags_if = ("call" # "crtc" /\ "sys_get_ticks" # "kernel_main")
      BY <3>1, AtFacts
    <3> QED
      BY <3>2
  <2> QED
    BY <1>1, <1>4, <1>5, <2>1 DEF SysGetTicks
<1>6. CASE SysWriteDone
  <2>1. eflags_if = TRUE
    <3>1. At("sys_write", "call")
      BY <1>6 DEF SysWriteDone
    <3>2. eflags_if = ("call" # "crtc" /\ "sys_write" # "kernel_main")
      BY <3>1, AtFacts
    <3> QED
      BY <3>2
  <2>2. PICK v \in 0 .. TickMod - 1 : Answer(v)
    BY <1>6 DEF SysWriteDone
  <2> QED
    BY <1>4, <1>6, <2>1, <2>2 DEF SysWriteDone
<1>7. CASE SysWriteCli
  <2> DEFINE e == [Top EXCEPT !.pc = "crtc"]
  <2>1. /\ stack \in Seq(Entry) /\ ~InProcess /\ Top \in Entry
        /\ Top.handler = "sys_write"
    BY <1>7, AtFacts DEF SysWriteCli
  <2>2. stack' = [stack EXCEPT ![Len(stack)] = e]
    BY <1>7, <2>1, GotoFacts DEF SysWriteCli
  <2>3. /\ e \in Entry /\ e.pc = "crtc" /\ e.arg = Top.arg
        /\ e.handler = Top.handler /\ e.irq = Top.irq /\ e.exit = Top.exit
        /\ e.esi = Top.esi /\ e.p_proc = Top.p_proc
    BY <2>1 DEF Entry
  <2> HIDE DEF e
  <2> QED
    BY <1>3, <1>7, <2>1, <2>2, <2>3 DEF SysWriteCli
<1>8. CASE SysWriteSti
  <2> DEFINE e == [Top EXCEPT !.pc = "call", !.arg = @ - 1]
  <2>1. /\ stack \in Seq(Entry) /\ ~InProcess /\ Top \in Entry
        /\ Top.arg > 0
    BY <1>8, AtFacts DEF SysWriteSti
  <2>2. stack' = [stack EXCEPT ![Len(stack)] = e]
    BY <1>8, <2>1, GotoFacts DEF SysWriteSti
  <2>3. Top.arg \in 0 .. MaxLen /\ MaxLen \in Nat
    BY <2>1, InterruptAssumption DEF Entry
  <2>4. Top.arg - 1 \in 0 .. MaxLen
    BY <2>1, <2>3
  <2>5. /\ e \in Entry /\ e.pc = "call"
        /\ e.handler = Top.handler /\ e.irq = Top.irq /\ e.exit = Top.exit
        /\ e.esi = Top.esi /\ e.p_proc = Top.p_proc
    BY <2>1, <2>4 DEF Entry
  <2> HIDE DEF e
  <2> QED
    BY <1>3, <1>8, <2>2, <2>5 DEF SysWriteSti
<1> QED
  BY <1>2, <1>5, <1>6, <1>7, <1>8

(* The three ways back: kernel_main()'s, an interrupt's, a system call's.  *)
LEMMA ReturnsKeepIInv ==
  ASSUME IInv, KernelMainRestart \/ HwIntRet \/ SysCallRet
  PROVE  IInv'
<1>1. /\ frame \in [Proc -> STACK_FRAME] /\ \A p \in Proc : frame[p].proc = p
      /\ imr \in SUBSET Lines /\ Boot \notin Lines
  BY InterruptAssumption DEF IInv, TypeInv, FrameInv
<1>2. CASE KernelMainRestart
  <2>1. ~InProcess /\ Top.pc = "ret" /\ Top.irq = Boot
    BY <1>2, AtFacts DEF KernelMainRestart
  <2>2. imr' = imr \ {Top.irq}
    BY <1>1, <1>2, <2>1 DEF KernelMainRestart, pic
  <2> QED
    BY <1>1, <1>2, <2>1, <2>2, LeaveKeepsIInv DEF KernelMainRestart, pic
<1>3. CASE HwIntRet
  <2>1. ~InProcess /\ Top.pc = "ret" /\ imr' = imr \ {Top.irq} /\ Leave(frame)
        /\ UNCHANGED <<kernel, irr, irq_table, tty_pc>>
    BY <1>3 DEF HwIntRet
  <2> QED
    BY <1>1, <2>1, LeaveKeepsIInv
<1>4. CASE SysCallRet
  <2> DEFINE fr == [frame EXCEPT ![Top.esi].eax = Top.eax]
             L == Len(stack)
  <2>1. /\ stack \in Seq(Entry) /\ ~InProcess /\ Top.pc = "ret"
        /\ Top.handler \in SysCalls /\ Top \in Entry
    BY <1>4, AtFacts DEF SysCallRet, SysCalls
  <2>2. Top = stack[L] /\ L \in 1 .. L
    BY <2>1, TopFacts
  <2>3. Top.irq = Boot
    BY <2>1, <2>2 DEF IInv, StackInv, EntryInv
  <2>4. fr \in [Proc -> STACK_FRAME] /\ \A p \in Proc : fr[p].proc = p
    <3>1. Top.eax \in 0 .. TickMod - 1
      BY <2>1 DEF Entry
    <3>2. CASE Top.esi \in Proc
      <4>1. [frame[Top.esi] EXCEPT !.eax = Top.eax] \in STACK_FRAME
        BY <3>1, <3>2, <1>1 DEF STACK_FRAME
      <4>2. [frame[Top.esi] EXCEPT !.eax = Top.eax].proc = Top.esi
        BY <3>2, <1>1 DEF STACK_FRAME
      <4>3. fr = [frame EXCEPT ![Top.esi] =
                    [frame[Top.esi] EXCEPT !.eax = Top.eax]]
        OBVIOUS
      <4> QED
        BY <4>1, <4>2, <4>3, <3>2, <1>1
    <3>3. CASE Top.esi \notin Proc
      <4>1. fr = frame
        BY <3>3, <1>1
      <4> QED
        BY <4>1, <1>1
    <3> QED
      BY <3>2, <3>3
  <2>5. Leave(fr) /\ UNCHANGED <<kernel, pic, tty_pc>>
    BY <1>4 DEF SysCallRet
  <2>6. imr' = imr \ {Top.irq}
    BY <1>1, <2>3, <2>5 DEF pic
  <2> HIDE DEF fr
  <2> QED
    BY <2>1, <2>4, <2>5, <2>6, LeaveKeepsIInv DEF pic
<1> QED
  BY <1>2, <1>3, <1>4

(* task_tty, which runs these steps as a process.                          *)
LEMMA TaskTtyKeepsIInv ==
  ASSUME IInv, TaskTty
  PROVE  IInv'
<1>1. InProcess /\ running = TTY /\ Len(stack) = 0 /\ stack = <<>>
  BY DEF TaskTty, DisableIrq, SetIrqHandler, EnableIrq, DisableInt, EnableInt,
         TtyAt, InProcess
<1>2. /\ UNCHANGED <<kernel, irr, k_reenter, esp0, frame, running, stack>>
      /\ tty_pc' \in {"disable_irq", "irq_table", "enable_irq", "loop", "cli"}
      /\ tty_pc' = "cli" => tty_pc = "loop"
  BY DEF TaskTty, DisableIrq, SetIrqHandler, EnableIrq, DisableInt, EnableInt,
         TtyAt, context, pic
<1>3. KEYBOARD_IRQ \in Lines /\ KEYBOARD_IRQ # CLOCK_IRQ
  BY InterruptAssumption DEF Lines, KEYBOARD_IRQ, CLOCK_IRQ
<1>4. eflags_if' \in BOOLEAN /\ (eflags_if' <=> tty_pc' # "cli")
  <2>1. eflags_if \in BOOLEAN /\ (eflags_if <=> tty_pc # "cli")
    BY <1>1 DEF IInv, TypeInv, FlagInv
  <2> QED
    BY <2>1 DEF TaskTty, DisableIrq, SetIrqHandler, EnableIrq, DisableInt,
         EnableInt, TtyAt, context
<1>5. imr' \in SUBSET Lines /\ \A i \in Lines :
        i \in imr' <=> \/ i = KEYBOARD_IRQ /\ tty_pc' \notin {"loop", "cli"}
                       \/ i \notin {CLOCK_IRQ, KEYBOARD_IRQ}
  <2>1. imr \in SUBSET Lines /\ \A i \in Lines :
          i \in imr <=> \/ i = KEYBOARD_IRQ /\ tty_pc \notin {"loop", "cli"}
                        \/ i \notin {CLOCK_IRQ, KEYBOARD_IRQ}
    BY <1>1 DEF IInv, TypeInv, MaskInv
  <2> QED
    BY <2>1, <1>3 DEF TaskTty, DisableIrq, SetIrqHandler, EnableIrq, DisableInt,
         EnableInt, TtyAt, pic
<1>6. TableInv'
  BY <1>3 DEF TaskTty, DisableIrq, SetIrqHandler, EnableIrq, DisableInt,
         EnableInt, TtyAt, pic, IInv, TableInv
<1>7. TypeInv'
  BY <1>2, <1>4, <1>5 DEF IInv, TypeInv, kernel
<1>8. NestingInv' /\ FrameInv' /\ StackInv'
  BY <1>1, <1>2 DEF IInv, NestingInv, FrameInv, StackInv, kernel, InProcess
<1>9. MaskInv'
  BY <1>1, <1>2, <1>5 DEF MaskInv
<1>10. FlagInv'
  BY <1>1, <1>2, <1>4 DEF FlagInv, InProcess
<1> QED
  BY <1>6, <1>7, <1>8, <1>9, <1>10 DEF IInv

LEMMA RaiseKeepsIInv ==
  ASSUME IInv, NEW i \in Lines, Raise(i)
  PROVE  IInv'
<1>1. /\ irr' \in SUBSET Lines
      /\ UNCHANGED <<ticks, proc_ticks, p_proc_ready, scan, imr, irq_table,
                     k_reenter, eflags_if, esp0, frame, running, stack, tty_pc>>
  BY DEF IInv, TypeInv, Raise, kernel, context
<1>2. TypeInv' /\ NestingInv' /\ MaskInv' /\ TableInv'
  BY <1>1 DEF IInv, TypeInv, NestingInv, MaskInv, TableInv
<1>3. FrameInv' /\ StackInv' /\ FlagInv'
  BY <1>1 DEF IInv, FrameInv, StackInv, EntryInv, FlagInv, InProcess, Top
<1> QED
  BY <1>2, <1>3 DEF IInv

-----------------------------------------------------------------------------
(* What kernel_main() leaves.                                              *)
LEMMA InitIInv == Init => IInv
<1> SUFFICES ASSUME Init PROVE IInv
  OBVIOUS
<1> DEFINE e == [handler |-> "kernel_main", pc |-> "ret", irq |-> Boot,
                 arg |-> 0, eax |-> 0, esi |-> Boot, p_proc |-> 0,
                 exit |-> "restart"]
<1>1. /\ NR_TASKS \in Nat \ {0} /\ NR_PROCS \in Nat /\ TickMod \in Nat \ {0}
      /\ MaxLen \in Nat /\ Boot \notin Lines
      /\ 0 \in Proc /\ KEYBOARD_IRQ \in Lines /\ CLOCK_IRQ \in Lines
      /\ KEYBOARD_IRQ # CLOCK_IRQ
  BY InterruptAssumption DEF Proc, Lines, KEYBOARD_IRQ, CLOCK_IRQ
<1>2. e \in Entry
  BY <1>1 DEF Entry
<1>3. /\ stack = <<e>> /\ Len(stack) = 1 /\ stack[1] = e /\ ~InProcess
      /\ Top = e /\ stack \in Seq(Entry)
  BY <1>2 DEF Init, InProcess, Top, Last
<1>4. /\ e.handler = "kernel_main" /\ e.pc = "ret" /\ e.irq = Boot
      /\ e.exit = "restart"
  OBVIOUS
<1> HIDE DEF e
<1>5. imr = Lines \ {CLOCK_IRQ}
  BY DEF Init, InitClock, Init8259A
<1>6. irq_table = [i \in Lines |->
        IF i = CLOCK_IRQ THEN "clock_handler" ELSE "spurious_irq"]
  BY <1>1 DEF Init, InitClock, Init8259A
<1>7. TypeInv
  <2>1. frame \in [Proc -> STACK_FRAME]
    BY <1>1 DEF Init, STACK_FRAME
  <2>2. /\ ticks \in 0 .. TickMod - 1 /\ proc_ticks \in [Proc -> Int]
        /\ scan \in [p : 0 .. NR_TASKS + NR_PROCS, greatest_ticks : Nat]
    BY <1>1, InterruptAssumption DEF Init
  <2> QED
    BY <2>1, <2>2, <1>1, <1>3, <1>5 DEF Init, TypeInv
<1>8. NestingInv
  BY <1>3, <1>4 DEF Init, NestingInv
<1>9. MaskInv
  BY <1>1, <1>3, <1>4, <1>5 DEF Init, MaskInv
<1>10. FrameInv
  BY <1>3, <1>4 DEF Init, FrameInv, SysCalls
<1>11. StackInv
  BY <1>3, <1>4 DEF Init, StackInv, EntryInv, SysCalls
<1>12. TableInv
  BY <1>6 DEF Init, TableInv
<1>13. FlagInv
  BY <1>3, <1>4 DEF Init, FlagInv
<1> QED
  BY <1>7, <1>8, <1>9, <1>10, <1>11, <1>12, <1>13 DEF IInv

(* A step that changes nothing.                                            *)
LEMMA StutterKeepsIInv ==
  ASSUME IInv, UNCHANGED vars
  PROVE  IInv'
<1>1. UNCHANGED <<ticks, proc_ticks, p_proc_ready, scan, imr, irr, irq_table,
                  k_reenter, eflags_if, esp0, frame, running, stack, tty_pc>>
  BY DEF vars, kernel, pic, context
<1>2. TypeInv' /\ NestingInv' /\ MaskInv' /\ TableInv'
  BY <1>1 DEF IInv, TypeInv, NestingInv, MaskInv, TableInv
<1>3. FrameInv' /\ StackInv' /\ FlagInv'
  BY <1>1 DEF IInv, FrameInv, StackInv, EntryInv, FlagInv, InProcess, Top
<1> QED
  BY <1>2, <1>3 DEF IInv

(* IInv is an invariant of the kernel's entries and exits.                 *)
THEOREM IInvInvariant == Spec => []IInv
<1>1. Init => IInv
  BY InitIInv
<1>2. IInv /\ [Next]_vars => IInv'
  <2> SUFFICES ASSUME IInv, [Next]_vars PROVE IInv'
    OBVIOUS
  <2>1. ASSUME NEW i \in Lines, Raise(i) PROVE IInv'
    BY <2>1, RaiseKeepsIInv
  <2>2. ASSUME NEW i \in Lines, HwInt(i) PROVE IInv'
    BY <2>2, HwIntKeepsIInv
  <2>3. CASE Kernel
    BY <2>3, ReturnsKeepIInv, HandlersKeepIInv, ClockKeepsIInv DEF Kernel
  <2>4. CASE SysCall("sys_get_ticks", 0)
    <3>1. "sys_get_ticks" \in SysCalls /\ 0 \in 0 .. MaxLen
      BY InterruptAssumption DEF SysCalls
    <3> QED
      BY <2>4, <3>1, SysCallKeepsIInv
  <2>5. ASSUME NEW len \in 0 .. MaxLen, SysCall("sys_write", len) PROVE IInv'
    <3>1. "sys_write" \in SysCalls
      BY DEF SysCalls
    <3> QED
      BY <2>5, <3>1, SysCallKeepsIInv
  <2>6. CASE TaskTty
    BY <2>6, TaskTtyKeepsIInv
  <2>7. CASE UNCHANGED vars
    BY <2>7, StutterKeepsIInv
  <2> QED
    BY <2>1, <2>2, <2>3, <2>4, <2>5, <2>6, <2>7 DEF Next
<1> QED
  BY <1>1, <1>2, PTL DEF Spec

(* Only the clock and the keyboard have handlers, and each masks its line, *)
(* so no more than one of each is on the stack over a system call.         *)
LEMMA StackIsShort ==
  ASSUME IInv
  PROVE  Len(stack) <= 3
<1>1. stack \in Seq(Entry) /\ Len(stack) \in Nat
  BY DEF IInv, TypeInv
<1>2. ASSUME NEW n \in 1 .. Len(stack), n # 1
      PROVE  stack[n].irq \in {CLOCK_IRQ, KEYBOARD_IRQ}
  <2>1. EntryInv(n)
    BY DEF IInv, StackInv
  <2>2. stack[n].handler \in Handlers \union SysCalls \union {"kernel_main"}
    <3>1. stack[n] \in Entry
      BY <1>1
    <3> QED
      BY <3>1 DEF Entry
  <2> QED
    BY <1>2, <2>1, <2>2 DEF EntryInv, Handlers
<1>3. CLOCK_IRQ # Boot /\ KEYBOARD_IRQ # Boot
  BY InterruptAssumption DEF Lines, CLOCK_IRQ, KEYBOARD_IRQ
<1>4. \A m, n \in 1 .. Len(stack) :
        stack[m].irq = stack[n].irq => m = n \/ stack[m].irq = Boot
  BY DEF IInv, MaskInv
<1> SUFFICES ASSUME Len(stack) > 3 PROVE FALSE
  BY <1>1
<1>5. 2 \in 1 .. Len(stack) /\ 3 \in 1 .. Len(stack) /\ 4 \in 1 .. Len(stack)
  BY <1>1
<1>6. /\ stack[2].irq \in {CLOCK_IRQ, KEYBOARD_IRQ}
      /\ stack[3].irq \in {CLOCK_IRQ, KEYBOARD_IRQ}
      /\ stack[4].irq \in {CLOCK_IRQ, KEYBOARD_IRQ}
  BY <1>2, <1>5
<1>7. /\ stack[2].irq # stack[3].irq
      /\ stack[2].irq # stack[4].irq
      /\ stack[3].irq # stack[4].irq
  BY <1>3, <1>4, <1>5, <1>6
<1> QED
  BY <1>6, <1>7

(* Every variable keeps its type; in particular the kernel is not          *)
(* re-entered more often than there are lines that can do so.              *)
THEOREM TypeCorrect == Spec => []TypeOK
<1>1. IInv => TypeOK
  <2> SUFFICES ASSUME IInv PROVE TypeOK
    OBVIOUS
  <2>1. k_reenter \in -1 .. NR_LINES
    <3>1. Len(stack) \in Nat /\ k_reenter = Len(stack) - 1
      BY DEF IInv, TypeInv, NestingInv
    <3> QED
      BY <3>1, StackIsShort, InterruptAssumption DEF KEYBOARD_IRQ
  <2>2. irq_table \in [Lines -> Handlers]
    BY DEF IInv, TableInv, Handlers
  <2> QED
    BY <2>1, <2>2 DEF IInv, TypeInv, TypeOK
<1> QED
  BY <1>1, IInvInvariant, PTL

(* save and restart agree on which entry is the outermost one.             *)
THEOREM NestingCorrect == Spec => []NestingInv
<1>1. IInv => NestingInv
  BY DEF IInv
<1> QED
  BY <1>1, IInvInvariant, PTL

(* No handler interrupts itself, and no line stays masked.                 *)
THEOREM MaskCorrect == Spec => []MaskInv
<1>1. IInv => MaskInv
  BY DEF IInv
<1> QED
  BY <1>1, IInvInvariant, PTL

(* Registers are saved to and restored from the frame of their process,    *)
(* and a system call answers the process that made it.                     *)
THEOREM FrameCorrect == Spec => []FrameInv
<1>1. IInv => FrameInv
  BY DEF IInv
<1> QED
  BY <1>1, IInvInvariant, PTL

-----------------------------------------------------------------------------
(* The refinement: schedule(), a table entry at a time and interrupted by  *)
(* devices, decides what Schedule.tla decides in one step, and the process *)
(* it decides for is the one that gets the CPU.                            *)

(* Where the outermost clock_handler() is, "none" if there is none.        *)
OuterPc ==
  IF ~InProcess /\ stack[1].handler = "clock_handler"
  THEN stack[1].pc ELSE "none"

NoScan == [p |-> 0, greatest_ticks |-> 0]

(* No quantum is longer than that of entry 0.                              *)
QuantumInv == \A q \in Proc : proc_ticks[q] <= priority[0]

(* A nested clock_handler() does no more than charge.                      *)
NestedInv ==
  \A n \in 2 .. Len(stack) :
    stack[n].handler = "clock_handler" =>
      /\ stack[n].pc \in {"call", "reenter", "ret"}
      /\ stack[n].pc = "call" => proc_ticks[p_proc_ready] > -MaxDebt

(* What the scan of schedule() has found among the entries before scan.p:  *)
(* p_proc_ready is the first of those with the most ticks.                 *)
Scanned ==
  /\ \A q \in Proc : q < scan.p => proc_ticks[q] <= scan.greatest_ticks
  /\ scan.greatest_ticks > 0 =>
       /\ p_proc_ready < scan.p
       /\ proc_ticks[p_proc_ready] = scan.greatest_ticks
       /\ \A q \in Proc :
            q < p_proc_ready => proc_ticks[q] < scan.greatest_ticks

(* What its refill has done.                                               *)
RefilledTo ==
  /\ scan.greatest_ticks = 0
  /\ \A q \in Proc : q < scan.p => proc_ticks[q] = priority[q]

ScanInv ==
  /\ OuterPc \notin {"scan", "refill"} => scan = NoScan
  /\ OuterPc = "scan" => Scanned
  /\ OuterPc = "refill" => RefilledTo

ClockInv == QuantumInv /\ NestedInv /\ ScanInv

-----------------------------------------------------------------------------
(* p is the first of those with the most ticks.                            *)
First(t, p) == \A q \in Proc : \/ t[q] < t[p]
                               \/ t[q] = t[p] /\ p <= q

(* There is one, as no quantum is above that of entry 0.                   *)
LEMMA FirstExists ==
  ASSUME NEW t \in [Proc -> Int], NEW b \in Int, \A q \in Proc : t[q] <= b
  PROVE  \E p \in Proc : First(t, p)
<1>1. 0 \in Proc /\ Proc \subseteq Nat
  BY InterruptAssumption DEF Proc
<1> DEFINE D == {b - t[q] : q \in Proc}
<1>2. D \in SUBSET Nat /\ b - t[0] \in D
  BY <1>1
<1>3. PICK d \in D : \A n \in D : d <= n
  BY <1>2, Minimum
<1>4. PICK r \in Proc : d = b - t[r]
  OBVIOUS
<1>5. \A q \in Proc : t[q] <= t[r]
  <2> SUFFICES ASSUME NEW q \in Proc PROVE t[q] <= t[r]
    OBVIOUS
  <2>1. b - t[r] <= b - t[q]
    BY <1>3, <1>4
  <2>2. t[q] \in Int /\ t[r] \in Int
    OBVIOUS
  <2> QED
    BY <2>1, <2>2
<1> DEFINE F == {q \in Proc : t[q] = t[r]}
<1>6. F \in SUBSET Nat /\ r \in F
  BY <1>1
<1>7. PICK p \in F : \A q \in F : p <= q
  BY <1>6, Minimum
<1>8. \A q \in Proc : t[q] < t[p] \/ (t[q] = t[p] /\ p <= q)
  BY <1>5, <1>7
<1> QED
  BY <1>8 DEF First

(* No two entries are first.                                               *)
LEMMA FirstUnique ==
  ASSUME NEW t \in [Proc -> Int], NEW p \in Proc, NEW q \in Proc,
         First(t, p), First(t, q)
  PROVE  p = q
<1>1. Proc \subseteq Nat
  BY InterruptAssumption DEF Proc
<1> QED
  BY <1>1 DEF First

(* So the CHOOSE of the mapping has one answer.                            *)
LEMMA ChosenFacts ==
  ASSUME ChosenTicks \in [Proc -> Int],
         \A q \in Proc : ChosenTicks[q] <= priority[0]
  PROVE  /\ Chosen \in Proc /\ First(ChosenTicks, Chosen)
         /\ \A p \in Proc : First(ChosenTicks, p) => Chosen = p
<1>1. priority[0] \in Int
  BY InterruptAssumption DEF Proc
<1>2. \E p \in Proc : First(ChosenTicks, p)
  BY <1>1, FirstExists
<1>3. Chosen = CHOOSE p \in Proc : First(ChosenTicks, p)
  BY DEF Chosen, First
<1> HIDE DEF Chosen
<1>4. Chosen \in Proc /\ First(ChosenTicks, Chosen)
  BY <1>2, <1>3
<1> QED
  BY <1>4, FirstUnique

-----------------------------------------------------------------------------
(* What Schedule.tla sees depends on the tick counts, the process chosen   *)
(* and the point of the outermost clock_handler() alone.                   *)
LEMMA ViewByPc ==
  /\ Choosing <=> /\ OuterPc \in {"reenter", "left", "scan", "refill"}
                  /\ OuterPc \in {"reenter", "left"}
                       => proc_ticks[p_proc_ready] <= 0
  /\ Choosing => ChosenTicks = IF \/ \A p \in Proc : proc_ticks[p] <= 0
                                  \/ OuterPc = "refill"
                               THEN priority ELSE proc_ticks
  /\ Choosing' <=> /\ OuterPc' \in {"reenter", "left", "scan", "refill"}
                   /\ OuterPc' \in {"reenter", "left"}
                        => proc_ticks'[p_proc_ready'] <= 0
  /\ Choosing' => ChosenTicks' = IF \/ \A p \in Proc : proc_ticks'[p] <= 0
                                    \/ OuterPc' = "refill"
                                 THEN priority ELSE proc_ticks'
<1>1. Choosing <=> /\ OuterPc \in {"reenter", "left", "scan", "refill"}
                   /\ OuterPc \in {"reenter", "left"}
                        => proc_ticks[p_proc_ready] <= 0
  BY DEF Choosing, OuterPc
<1>2. Choosing' <=> /\ OuterPc' \in {"reenter", "left", "scan", "refill"}
                    /\ OuterPc' \in {"reenter", "left"}
                         => proc_ticks'[p_proc_ready'] <= 0
  BY DEF Choosing, OuterPc
<1>3. Choosing => OuterPc = stack[1].pc
  BY DEF Choosing, OuterPc
<1>4. Choosing' => OuterPc' = stack'[1].pc
  BY DEF Choosing, OuterPc
<1> QED
  BY <1>1, <1>2, <1>3, <1>4 DEF ChosenTicks

(* Nothing else changes it.                                                *)
LEMMA SameView ==
  ASSUME UNCHANGED <<proc_ticks, p_proc_ready>>,
         \/ OuterPc' = OuterPc
         \/ /\ OuterPc \in {"none", "call", "ret"}
            /\ OuterPc' \in {"none", "call", "ret"}
  PROVE  UNCHANGED <<Ticks, Ready>>
<1>1. Choosing' <=> Choosing
  BY ViewByPc
<1>2. CASE ~Choosing
  BY <1>1, <1>2 DEF Ticks, Ready
<1>3. CASE Choosing
  <2>1. OuterPc' = OuterPc
    BY <1>1, <1>3, ViewByPc
  <2>2. ChosenTicks' = ChosenTicks
    BY <2>1, <1>1, <1>3, ViewByPc
  <2>3. Chosen' = Chosen
    BY <2>2 DEF Chosen
  <2> QED
    BY <1>1, <2>2, <2>3 DEF Ticks, Ready
<1> QED
  BY <1>2, <1>3

(* The entry on top is replaced by one of the same handler.                *)
LEMMA GotoOuter ==
  ASSUME stack \in Seq(Entry), ~InProcess, NEW e \in Entry,
         stack' = [stack EXCEPT ![Len(stack)] = e], e.handler = Top.handler
  PROVE  /\ Len(stack) # 1 => OuterPc' = OuterPc
         /\ Len(stack) = 1 =>
              OuterPc' = IF e.handler = "clock_handler" THEN e.pc ELSE "none"
<1> DEFINE L == Len(stack)
<1>1. L \in Nat \ {0}
  BY TopFacts
<1>2. /\ stack'[L] = e /\ ~InProcess'
      /\ \A n \in 1 .. L - 1 : stack'[n] = stack[n]
  BY TopReplaced
<1>3. L = Len(stack)
  OBVIOUS
<1> HIDE DEF L
<1>4. CASE L # 1
  <2>1. 1 \in 1 .. L - 1
    BY <1>1, <1>4
  <2>2. stack'[1] = stack[1]
    BY <1>2, <2>1
  <2> QED
    BY <1>2, <1>3, <1>4, <2>2 DEF OuterPc
<1>5. CASE L = 1
  BY <1>2, <1>3, <1>5 DEF OuterPc
<1> QED
  BY <1>3, <1>4, <1>5

(* Where a clock_handler() on top of the stack is.                         *)
LEMMA ClockPlace ==
  ASSUME IInv, NestedInv, NEW pc, At("clock_handler", pc)
  PROVE  /\ Len(stack) \in Nat \ {0}
         /\ Len(stack) = 1 => OuterPc = pc /\ k_reenter = 0
         /\ Len(stack) # 1 =>
              /\ OuterPc = "none" /\ k_reenter # 0
              /\ pc \in {"call", "reenter", "ret"}
              /\ pc = "call" => proc_ticks[p_proc_ready] > -MaxDebt
         /\ \A n \in 1 .. Len(stack) :
              n # Len(stack) => stack[n].handler # "clock_handler"
<1>1. /\ stack \in Seq(Entry) /\ ~InProcess
      /\ Top.handler = "clock_handler" /\ Top.pc = pc
  BY AtFacts
<1>2. /\ Len(stack) \in Nat \ {0} /\ Len(stack) \in 1 .. Len(stack)
      /\ Top = stack[Len(stack)]
  BY <1>1, TopFacts
<1>3. k_reenter = Len(stack) - 1
  BY DEF IInv, NestingInv
<1>4. ASSUME NEW n \in 1 .. Len(stack), n # Len(stack)
      PROVE  stack[n].handler # "clock_handler"
  <2> SUFFICES ASSUME stack[n].handler = "clock_handler" PROVE FALSE
    OBVIOUS
  <2>1. stack[n].irq = CLOCK_IRQ /\ stack[Len(stack)].irq = CLOCK_IRQ
    BY <1>1, <1>2 DEF IInv, StackInv, EntryInv
  <2>2. CLOCK_IRQ # Boot
    BY InterruptAssumption DEF CLOCK_IRQ, KEYBOARD_IRQ, Lines
  <2>3. \A m, k \in 1 .. Len(stack) :
          stack[m].irq = stack[k].irq => m = k \/ stack[m].irq = Boot
    BY DEF IInv, MaskInv
  <2>4. n = Len(stack) \/ stack[n].irq = Boot
    BY <2>1, <2>3, <1>2
  <2> QED
    BY <2>1, <2>2, <2>4, <1>4
<1>5. CASE Len(stack) = 1
  <2>1. stack[1] = Top
    BY <1>2, <1>5
  <2>2. OuterPc = pc
    BY <2>1, <1>1 DEF OuterPc
  <2> QED
    BY <2>2, <1>2, <1>3, <1>4, <1>5
<1>6. CASE Len(stack) # 1
  <2>1. 1 \in 1 .. Len(stack) /\ Len(stack) \in 2 .. Len(stack)
    <3>1. ASSUME NEW L \in Nat \ {0}, L # 1
          PROVE  1 \in 1 .. L /\ L \in 2 .. L
      BY <3>1
    <3> QED
      BY <3>1, <1>2, <1>6
  <2>2. OuterPc = "none"
    BY <1>4, <1>6, <2>1 DEF OuterPc
  <2>3. /\ pc \in {"call", "reenter", "ret"}
        /\ pc = "call" => proc_ticks[p_proc_ready] > -MaxDebt
    <3>1. /\ stack[Len(stack)].handler = "clock_handler"
          /\ stack[Len(stack)].pc = pc
      BY <1>1, <1>2
    <3> QED
      BY <3>1, <2>1 DEF NestedInv
  <2> QED
    BY <1>2, <1>3, <1>4, <1>6, <2>2, <2>3
<1> QED
  BY <1>5, <1>6

-----------------------------------------------------------------------------
(* A step that is none of clock_handler()'s: it leaves its variables alone *)
(* and, unless it leads out of the kernel, its outermost invocation.       *)
Quiet ==
  /\ UNCHANGED <<proc_ticks, p_proc_ready, scan>>
  /\ \/ OuterPc' = OuterPc
     \/ /\ OuterPc \in {"none", "call", "ret"}
        /\ OuterPc' \in {"none", "call", "ret"}
  /\ \/ InProcess'
     \/ UNCHANGED running /\ (OuterPc' = OuterPc \/ InProcess)
  /\ NestedInv'

(* A step that does not touch the kernel stack.                            *)
LEMMA StillIsQuiet ==
  ASSUME NestedInv, UNCHANGED <<kernel, stack, running>>
  PROVE  Quiet
  BY DEF Quiet, NestedInv, OuterPc, InProcess, kernel

(* An entry to the kernel.                                                 *)
LEMMA SaveIsQuiet ==
  ASSUME IInv, NestedInv, NEW h \in Handlers \union SysCalls,
         NEW i \in Lines \union {Boot}, NEW arg \in 0 .. MaxLen,
         Save(h, i, arg), UNCHANGED <<kernel, running>>,
         h = "clock_handler" /\ ~InProcess
           => proc_ticks[p_proc_ready] > -MaxDebt
  PROVE  Quiet
<1> DEFINE L == Len(stack)
<1>1. PICK e \in Entry :
           /\ e.handler = h /\ e.pc = "call"
           /\ stack' \in Seq(Entry) /\ Len(stack') = Len(stack) + 1
           /\ stack'[Len(stack) + 1] = e
           /\ \A n \in 1 .. Len(stack) : stack'[n] = stack[n]
           /\ ~InProcess'
  BY SaveFacts
<1>2. /\ stack \in Seq(Entry) /\ L \in Nat /\ L = Len(stack)
      /\ InProcess <=> L = 0
  BY DEF IInv, TypeInv, InProcess
<1> HIDE DEF L
<1>3. /\ Len(stack') = L + 1 /\ stack'[L + 1] = e
      /\ \A n \in 1 .. L : stack'[n] = stack[n]
  BY <1>1, <1>2
<1>4. UNCHANGED <<proc_ticks, p_proc_ready, scan, running>>
  BY DEF kernel
<1>5. NestedInv'
  <2> SUFFICES ASSUME NEW n \in 2 .. L + 1, stack'[n].handler = "clock_handler"
               PROVE  /\ stack'[n].pc \in {"call", "reenter", "ret"}
                      /\ stack'[n].pc = "call"
                           => proc_ticks[p_proc_ready] > -MaxDebt
    BY <1>3, <1>4 DEF NestedInv
  <2>1. CASE n = L + 1
    BY <2>1, <1>1, <1>2, <1>3
  <2>2. CASE n \in 2 .. L
    <3>1. stack'[n] = stack[n]
      BY <2>2, <1>2, <1>3
    <3> QED
      BY <2>2, <3>1, <1>2 DEF NestedInv
  <2> QED
    BY <2>1, <2>2, <1>2
<1>6. CASE L = 0
  <2>1. OuterPc = "none" /\ InProcess
    BY <1>2, <1>6 DEF OuterPc
  <2>2. stack'[1] = e
    BY <1>3, <1>6
  <2>3. OuterPc' \in {"none", "call"}
    BY <2>2, <1>1 DEF OuterPc
  <2> QED
    BY <2>1, <2>3, <1>4, <1>5 DEF Quiet
<1>7. CASE L # 0
  <2>1. 1 \in 1 .. L
    BY <1>2, <1>7
  <2>2. stack'[1] = stack[1] /\ ~InProcess
    BY <2>1, <1>2, <1>3, <1>7
  <2>3. OuterPc' = OuterPc
    BY <2>2, <1>1 DEF OuterPc
  <2> QED
    BY <2>3, <1>4, <1>5 DEF Quiet
<1> QED
  BY <1>6, <1>7

(* A step of another handler or of a system call.                          *)
LEMMA MoveIsQuiet ==
  ASSUME IInv, NestedInv, ~InProcess, NEW e \in Entry,
         stack' = [stack EXCEPT ![Len(stack)] = e],
         e.handler = Top.handler, Top.handler # "clock_handler",
         UNCHANGED <<kernel, running>>
  PROVE  Quiet
<1> DEFINE L == Len(stack)
<1>1. /\ stack \in Seq(Entry) /\ L \in Nat \ {0} /\ L = Len(stack)
      /\ Top = stack[L]
  BY TopFacts DEF IInv, TypeInv
<1>2. /\ Len(stack') = L /\ stack'[L] = e /\ ~InProcess'
      /\ \A n \in 1 .. L - 1 : stack'[n] = stack[n]
  BY <1>1, TopReplaced
<1>3. /\ L # 1 => OuterPc' = OuterPc
      /\ L = 1 => OuterPc' = "none"
  BY <1>1, GotoOuter
<1> HIDE DEF L
<1>4. L = 1 => OuterPc = "none"
  <2> SUFFICES ASSUME L = 1 PROVE OuterPc = "none"
    OBVIOUS
  <2>1. stack[1] = Top
    BY <1>1
  <2> QED
    BY <2>1 DEF OuterPc
<1>5. UNCHANGED <<proc_ticks, p_proc_ready, scan, running>>
  BY DEF kernel
<1>6. NestedInv'
  <2> SUFFICES ASSUME NEW n \in 2 .. L, stack'[n].handler = "clock_handler"
               PROVE  /\ stack'[n].pc \in {"call", "reenter", "ret"}
                      /\ stack'[n].pc = "call"
                           => proc_ticks[p_proc_ready] > -MaxDebt
    BY <1>2, <1>5 DEF NestedInv
  <2>1. n # L
    BY <1>2
  <2>2. n \in 1 .. L - 1
    BY <2>1, <1>1
  <2>3. stack'[n] = stack[n]
    BY <2>2, <1>2
  <2> QED
    BY <2>3, <1>1 DEF NestedInv
<1> QED
  BY <1>1, <1>3, <1>4, <1>5, <1>6 DEF Quiet

(* A way out of the kernel, or back into what was interrupted.             *)
LEMMA LeaveIsQuiet ==
  ASSUME IInv, NestedInv, ~InProcess, Top.pc = "ret", NEW fr,
         Leave(fr), UNCHANGED kernel
  PROVE  Quiet
<1> DEFINE L == Len(stack)
<1>1. /\ stack \in Seq(Entry) /\ L \in Nat \ {0} /\ L = Len(stack)
      /\ Top = stack[L]
      /\ Len(Front(stack)) = L - 1
      /\ \A n \in 1 .. L - 1 : Front(stack)[n] = stack[n]
  BY TopFacts DEF IInv, TypeInv
<1> HIDE DEF L
<1>2. UNCHANGED <<proc_ticks, p_proc_ready, scan>>
  BY DEF kernel
<1>3. CASE L = 1
  <2>1. stack' = <<>>
    <3>1. L \in 1 .. L
      BY <1>1
    <3>2. Top.exit = "restart"
      BY <3>1, <1>1, <1>3 DEF IInv, NestingInv
    <3> QED
      BY <3>2 DEF Leave, Restart
  <2>2. InProcess' /\ OuterPc' = "none" /\ Len(stack') = 0
    BY <2>1 DEF InProcess, OuterPc
  <2>3. OuterPc \in {"none", "ret"}
    BY <1>1, <1>3 DEF OuterPc
  <2>4. NestedInv'
    BY <2>2 DEF NestedInv
  <2> QED
    BY <2>2, <2>3, <2>4, <1>2 DEF Quiet
<1>4. CASE L # 1
  <2>1. stack' = Front(stack) /\ UNCHANGED running
    <3>1. L \in 1 .. L
      BY <1>1
    <3>2. Top.exit # "restart"
      BY <3>1, <1>1, <1>4 DEF IInv, NestingInv
    <3> QED
      BY <3>2 DEF Leave, RestartReenter
  <2>2. Len(stack') = L - 1 /\ \A n \in 1 .. L - 1 : stack'[n] = stack[n]
    BY <2>1, <1>1
  <2>3. stack'[1] = stack[1] /\ ~InProcess'
    <3>1. 1 \in 1 .. L - 1 /\ L - 1 # 0
      BY <1>1, <1>4
    <3> QED
      BY <2>2, <3>1 DEF InProcess
  <2>4. OuterPc' = OuterPc
    BY <2>3 DEF OuterPc
  <2>5. NestedInv'
    <3> SUFFICES ASSUME NEW n \in 2 .. L - 1,
                        stack'[n].handler = "clock_handler"
                 PROVE  /\ stack'[n].pc \in {"call", "reenter", "ret"}
                        /\ stack'[n].pc = "call"
                           => proc_ticks[p_proc_ready] > -MaxDebt
      BY <2>2, <1>2 DEF NestedInv
    <3>1. n \in 1 .. L - 1 /\ n \in 2 .. L
      BY <1>1
    <3> QED
      BY <3>1, <2>2, <1>1 DEF NestedInv
  <2> QED
    BY <2>1, <2>4, <2>5, <1>2 DEF Quiet
<1> QED
  BY <1>3, <1>4

(* All the actions but clock_handler()'s.                                  *)
OtherStep ==
  \/ \E i \in Lines : Raise(i) \/ HwInt(i)
  \/ KernelMainRestart \/ HwIntRet \/ OtherHandler
  \/ SysGetTicks \/ SysWriteCli \/ SysWriteSti \/ SysWriteDone \/ SysCallRet
  \/ SysCall("sys_get_ticks", 0)
  \/ \E len \in 0 .. MaxLen : SysCall("sys_write", len)
  \/ TaskTty
  \/ UNCHANGED vars

(* No other code interferes with a choice that is being made.              *)
LEMMA OtherStepIsQuiet ==
  ASSUME IInv, NestedInv, OtherStep
  PROVE  Quiet
<1>0. stack \in Seq(Entry)
  BY DEF IInv, TypeInv
<1>1. CASE (\E i \in Lines : Raise(i)) \/ TaskTty \/ UNCHANGED vars
  <2>1. UNCHANGED <<kernel, stack, running>>
    BY <1>1 DEF Raise, TaskTty, DisableIrq, SetIrqHandler, EnableIrq,
         DisableInt, EnableInt, vars, context
  <2> QED
    BY <2>1, StillIsQuiet
<1>2. ASSUME NEW i \in Lines, HwInt(i) PROVE Quiet
  <2>1. /\ i \in irr \ imr /\ Save(irq_table[i], i, 0)
        /\ UNCHANGED <<kernel, running>>
        /\ i = CLOCK_IRQ /\ ~InProcess => proc_ticks[p_proc_ready] > -MaxDebt
    BY <1>2 DEF HwInt
  <2>2. irq_table[i] \in Handlers
    BY DEF IInv, TableInv, Handlers
  <2>3. irq_table[i] = "clock_handler" => i = CLOCK_IRQ
    BY DEF IInv, TableInv
  <2>4. 0 \in 0 .. MaxLen
    BY InterruptAssumption
  <2> QED
    BY <2>1, <2>2, <2>3, <2>4, SaveIsQuiet
<1>3. CASE KernelMainRestart \/ HwIntRet \/ SysCallRet
  <2>1. ~InProcess /\ Top.pc = "ret" /\ UNCHANGED kernel
    BY <1>3 DEF KernelMainRestart, HwIntRet, SysCallRet, At
  <2>2. \E fr : Leave(fr)
    BY <1>3 DEF KernelMainRestart, HwIntRet, SysCallRet
  <2> QED
    BY <2>1, <2>2, LeaveIsQuiet
<1>4. CASE \/ OtherHandler
           \/ SysGetTicks \/ SysWriteCli \/ SysWriteSti \/ SysWriteDone
  <2>1. /\ ~InProcess /\ Top.handler # "clock_handler"
        /\ UNCHANGED <<kernel, running>>
    BY <1>4 DEF OtherHandler, SysGetTicks, SysWriteCli, SysWriteSti,
         SysWriteDone, At
  <2>2. Top \in Entry
    BY <1>0, <2>1, TopFacts
  <2>3. \E e \in Entry : /\ stack' = [stack EXCEPT ![Len(stack)] = e]
                         /\ e.handler = Top.handler
    <3>1. CASE OtherHandler
      <4>1. stack' = [stack EXCEPT ![Len(stack)] = [Top EXCEPT !.pc = "ret"]]
        BY <3>1, <1>0, <2>1, GotoFacts DEF OtherHandler
      <4>2. /\ [Top EXCEPT !.pc = "ret"] \in Entry
            /\ [Top EXCEPT !.pc = "ret"].handler = Top.handler
        BY <2>2 DEF Entry
      <4> QED
        BY <4>1, <4>2
    <3>2. CASE SysWriteCli
      <4>1. stack' = [stack EXCEPT ![Len(stack)] = [Top EXCEPT !.pc = "crtc"]]
        BY <3>2, <1>0, <2>1, GotoFacts DEF SysWriteCli
      <4>2. /\ [Top EXCEPT !.pc = "crtc"] \in Entry
            /\ [Top EXCEPT !.pc = "crtc"].handler = Top.handler
        BY <2>2 DEF Entry
      <4> QED
        BY <4>1, <4>2
    <3>3. CASE SysGetTicks \/ SysWriteDone
      <4>1. PICK v \in 0 .. TickMod - 1 : Answer(v)
        BY <3>3 DEF SysGetTicks, SysWriteDone, IInv, TypeInv
      <4>2. stack' = [stack EXCEPT ![Len(stack)] =
                        [Top EXCEPT !.pc = "ret", !.eax = v]]
        BY <4>1, <1>0, <2>1, GotoFacts
      <4>3. /\ [Top EXCEPT !.pc = "ret", !.eax = v] \in Entry
            /\ [Top EXCEPT !.pc = "ret", !.eax = v].handler = Top.handler
        BY <2>2 DEF Entry
      <4> QED
        BY <4>2, <4>3
    <3>4. CASE SysWriteSti
      <4>1. stack' = [stack EXCEPT ![Len(stack)] =
                        [Top EXCEPT !.pc = "call", !.arg = @ - 1]]
        BY <3>4, <1>0, <2>1, GotoFacts DEF SysWriteSti
      <4>2. At("sys_write", "crtc")
        BY <3>4 DEF SysWriteSti
      <4>3. Top.arg > 0 /\ Top.arg \in 0 .. MaxLen /\ MaxLen \in Nat
        BY <4>2, <2>2, AtFacts, InterruptAssumption DEF Entry
      <4>4. Top.arg - 1 \in 0 .. MaxLen
        BY <4>3
      <4>5. /\ [Top EXCEPT !.pc = "call", !.arg = @ - 1] \in Entry
            /\ [Top EXCEPT !.pc = "call", !.arg = @ - 1].handler = Top.handler
        BY <4>4, <2>2 DEF Entry
      <4> QED
        BY <4>1, <4>5
    <3> QED
      BY <1>4, <3>1, <3>2, <3>3, <3>4
  <2> QED
    BY <2>1, <2>3, MoveIsQuiet
<1>5. ASSUME NEW h \in SysCalls, NEW len \in 0 .. MaxLen, SysCall(h, len)
      PROVE  Quiet
  <2>1. Save(h, Boot, len) /\ UNCHANGED <<kernel, running>>
    BY <1>5 DEF SysCall
  <2>2. h # "clock_handler"
    BY DEF SysCalls
  <2> QED
    BY <2>1, <2>2, SaveIsQuiet
<1>6. /\ "sys_get_ticks" \in SysCalls /\ "sys_write" \in SysCalls
      /\ 0 \in 0 .. MaxLen
  BY InterruptAssumption DEF SysCalls
<1>7. CASE SysCall("sys_get_ticks", 0)
  BY <1>5, <1>6, <1>7
<1>8. CASE \E len \in 0 .. MaxLen : SysCall("sys_write", len)
  BY <1>5, <1>6, <1>8
<1> QED
  BY <1>1, <1>2, <1>3, <1>4, <1>7, <1>8 DEF OtherStep

-----------------------------------------------------------------------------
(* The decision stands as long as what it is made from does.               *)
LEMMA SameDecision ==
  ASSUME Choosing, Choosing', ChosenTicks' = ChosenTicks
  PROVE  UNCHANGED <<Ticks, Ready>>
  BY DEF Ticks, Ready, Chosen

(* A step of clock_handler() or schedule() behind the charge.              *)
Onward ==
  /\ ClockInv' /\ UNCHANGED <<Ticks, Ready>> /\ ~InProcess'
  /\ \/ OuterPc' = OuterPc
     \/ OuterPc \notin {"none", "call"} /\ OuterPc' \notin {"none", "call"}

(* A step of clock_handler() from one point to another.                    *)
LEMMA ClockGoto ==
  ASSUME IInv, NestedInv, NEW pc, At("clock_handler", pc),
         NEW to \in {"reenter", "left", "scan", "refill", "ret"}, Goto(to)
  PROVE  /\ Len(stack) = 1 => OuterPc = pc /\ OuterPc' = to
         /\ Len(stack) # 1 => OuterPc = "none" /\ OuterPc' = "none"
         /\ Len(stack) = 1 \/ to \in {"reenter", "ret"} => NestedInv'
         /\ ~InProcess'
<1> DEFINE L == Len(stack)
           e == [Top EXCEPT !.pc = to]
<1>1. /\ stack \in Seq(Entry) /\ ~InProcess
      /\ Top.handler = "clock_handler" /\ Top \in Entry
  BY AtFacts
<1>2. stack' = [stack EXCEPT ![Len(stack)] = e]
  BY <1>1, GotoFacts
<1>3. e \in Entry /\ e.handler = "clock_handler" /\ e.pc = to
  BY <1>1 DEF Entry
<1> HIDE DEF e
<1>4. /\ Len(stack') = L /\ stack'[L] = e /\ ~InProcess'
      /\ \A n \in 1 .. L - 1 : stack'[n] = stack[n]
  BY <1>1, <1>2, <1>3, TopReplaced
<1>5. /\ L # 1 => OuterPc' = OuterPc
      /\ L = 1 => OuterPc' = to
  BY <1>1, <1>2, <1>3, GotoOuter
<1>6. /\ L \in Nat \ {0} /\ L = Len(stack)
      /\ L = 1 => OuterPc = pc
      /\ L # 1 => OuterPc = "none"
      /\ \A n \in 1 .. L : n # L => stack[n].handler # "clock_handler"
  BY ClockPlace
<1> HIDE DEF L
<1>7. ASSUME L = 1 \/ to \in {"reenter", "ret"} PROVE NestedInv'
  <2> SUFFICES ASSUME NEW n \in 2 .. L, stack'[n].handler = "clock_handler"
               PROVE  stack'[n].pc \in {"reenter", "ret"}
    BY <1>4 DEF NestedInv
  <2>1. CASE n = L
    <3>1. L # 1
      BY <1>6, <2>1
    <3> QED
      BY <3>1, <2>1, <1>3, <1>4, <1>7
  <2>2. CASE n # L
    <3>1. n \in 1 .. L - 1 /\ n \in 1 .. L
      BY <2>2, <1>6
    <3> QED
      BY <3>1, <2>2, <1>4, <1>6
  <2> QED
    BY <2>1, <2>2
<1> QED
  BY <1>4, <1>5, <1>6, <1>7

(* `if (k_reenter != 0) return'.                                           *)
LEMMA ReenterIsOnward ==
  ASSUME IInv, ClockInv, ClockReenter
  PROVE  Onward
<1>1. /\ At("clock_handler", "reenter")
      /\ Goto(IF k_reenter # 0 THEN "ret" ELSE "left")
      /\ UNCHANGED <<proc_ticks, p_proc_ready, scan>>
  BY DEF ClockReenter, kernel
<1>2. NestedInv /\ QuantumInv /\ ScanInv
  BY DEF ClockInv
<1>3. /\ Len(stack) = 1 => k_reenter = 0
      /\ Len(stack) # 1 => k_reenter # 0
  BY <1>1, <1>2, ClockPlace
<1>4. CASE Len(stack) = 1
  <2>1. OuterPc = "reenter" /\ OuterPc' = "left" /\ NestedInv' /\ ~InProcess'
    BY <1>1, <1>2, <1>3, <1>4, ClockGoto
  <2>2. Choosing' <=> Choosing
    BY <1>1, <2>1, ViewByPc
  <2>3. UNCHANGED <<Ticks, Ready>>
    <3>1. CASE Choosing
      <4>1. ChosenTicks' = ChosenTicks
        BY <1>1, <2>1, <2>2, <3>1, ViewByPc
      <4> QED
        BY <4>1, <2>2, <3>1, SameDecision
    <3>2. CASE ~Choosing
      BY <1>1, <2>2, <3>2 DEF Ticks, Ready
    <3> QED
      BY <3>1, <3>2
  <2>4. QuantumInv' /\ ScanInv'
    BY <1>1, <1>2, <2>1 DEF QuantumInv, ScanInv
  <2> QED
    BY <2>1, <2>3, <2>4 DEF Onward, ClockInv
<1>5. CASE Len(stack) # 1
  <2>1. OuterPc = "none" /\ OuterPc' = "none" /\ NestedInv' /\ ~InProcess'
    BY <1>1, <1>2, <1>3, <1>5, ClockGoto
  <2>2. UNCHANGED <<Ticks, Ready>>
    BY <1>1, <2>1, SameView
  <2>3. QuantumInv' /\ ScanInv'
    BY <1>1, <1>2, <2>1 DEF QuantumInv, ScanInv
  <2> QED
    BY <2>1, <2>2, <2>3 DEF Onward, ClockInv
<1> QED
  BY <1>4, <1>5

(* Only the outermost clock_handler() gets beyond `if (k_reenter != 0)'.   *)
LEMMA BeyondReenter ==
  ASSUME IInv, ClockInv, NEW pc \in {"left", "scan", "refill"},
         At("clock_handler", pc)
  PROVE  /\ Len(stack) = 1 /\ OuterPc = pc
         /\ NestedInv /\ QuantumInv /\ ScanInv
         /\ UNCHANGED stack => OuterPc' = pc /\ NestedInv' /\ ~InProcess'
<1>1. NestedInv /\ QuantumInv /\ ScanInv
  BY DEF ClockInv
<1>2. Len(stack) = 1 /\ OuterPc = pc
  BY <1>1, ClockPlace
<1>3. ~InProcess
  BY DEF At
<1>4. ASSUME UNCHANGED stack PROVE OuterPc' = pc /\ NestedInv' /\ ~InProcess'
  <2>1. OuterPc' = pc /\ ~InProcess'
    BY <1>2, <1>3, <1>4 DEF OuterPc, InProcess
  <2>2. Len(stack') = 1
    BY <1>2, <1>4
  <2>3. NestedInv'
    BY <2>2 DEF NestedInv
  <2> QED
    BY <2>1, <2>3
<1> QED
  BY <1>1, <1>2, <1>4

(* `if (p_proc_ready->ticks > 0) return'.                                  *)
LEMMA LeftIsOnward ==
  ASSUME IInv, ClockInv, ClockLeft
  PROVE  Onward
<1>1. /\ At("clock_handler", "left")
      /\ Goto(IF proc_ticks[p_proc_ready] > 0 THEN "ret" ELSE "scan")
      /\ UNCHANGED <<proc_ticks, p_proc_ready, scan>>
  BY DEF ClockLeft, kernel
<1>2. /\ Len(stack) = 1 /\ OuterPc = "left"
      /\ NestedInv /\ QuantumInv /\ ScanInv
  BY <1>1, BeyondReenter
<1>3. proc_ticks[p_proc_ready] \in Int /\ scan = NoScan /\ Proc \subseteq Nat
  BY <1>2, InterruptAssumption DEF IInv, TypeInv, ScanInv, Proc
<1>4. QuantumInv'
  BY <1>1, <1>2 DEF QuantumInv
<1>5. CASE proc_ticks[p_proc_ready] > 0
  <2>1. OuterPc' = "ret" /\ NestedInv' /\ ~InProcess'
    BY <1>1, <1>2, <1>5, ClockGoto
  <2>2. ~Choosing /\ ~Choosing'
    BY <1>2, <1>3, <1>5, <2>1, ViewByPc
  <2>3. UNCHANGED <<Ticks, Ready>>
    BY <1>1, <2>2 DEF Ticks, Ready
  <2>4. ScanInv'
    BY <1>1, <1>3, <2>1 DEF ScanInv
  <2> QED
    BY <1>2, <1>4, <2>1, <2>3, <2>4 DEF Onward, ClockInv
<1>6. CASE ~(proc_ticks[p_proc_ready] > 0)
  <2>1. OuterPc' = "scan" /\ NestedInv' /\ ~InProcess'
    BY <1>1, <1>2, <1>6, ClockGoto
  <2>2. Choosing /\ Choosing'
    BY <1>2, <1>3, <1>6, <2>1, ViewByPc
  <2>3. ChosenTicks' = ChosenTicks
    BY <1>1, <1>2, <2>1, <2>2, ViewByPc
  <2>4. UNCHANGED <<Ticks, Ready>>
    BY <2>2, <2>3, SameDecision
  <2>5. Scanned'
    <3>1. scan' = NoScan
      BY <1>1, <1>3
    <3> QED
      BY <3>1, <1>3 DEF Scanned, NoScan
  <2>6. ScanInv'
    BY <2>1, <2>5 DEF ScanInv
  <2> QED
    BY <1>2, <1>4, <2>1, <2>4, <2>6 DEF Onward, ClockInv
<1> QED
  BY <1>5, <1>6

(* One entry of the scan: it decides nothing, it only finds out.           *)
LEMMA ScanIsOnward ==
  ASSUME IInv, ClockInv, ScheduleScan
  PROVE  Onward
<1>1. /\ At("clock_handler", "scan") /\ scan.p \in Proc
      /\ UNCHANGED <<proc_ticks, stack>>
  BY DEF ScheduleScan
<1>2. /\ OuterPc = "scan" /\ OuterPc' = "scan"
      /\ QuantumInv /\ ScanInv /\ NestedInv' /\ ~InProcess'
  BY <1>1, BeyondReenter
<1>3. /\ proc_ticks \in [Proc -> Int] /\ p_proc_ready \in Proc
      /\ Proc \subseteq Nat
      /\ scan \in [p : 0 .. NR_TASKS + NR_PROCS, greatest_ticks : Nat]
  BY InterruptAssumption DEF IInv, TypeInv, Proc
<1>4. Choosing /\ Choosing' /\ ChosenTicks' = ChosenTicks
  BY <1>1, <1>2, ViewByPc
<1>5. UNCHANGED <<Ticks, Ready>>
  BY <1>4, SameDecision
<1>6. QuantumInv'
  BY <1>1, <1>2 DEF QuantumInv
<1>7. Scanned
  BY <1>2 DEF ScanInv
<1>8. Scanned'
  <2>1. CASE proc_ticks[scan.p] > scan.greatest_ticks
    <3>1. /\ p_proc_ready' = scan.p
          /\ scan' = [p |-> scan.p + 1, greatest_ticks |-> proc_ticks[scan.p]]
      BY <2>1 DEF ScheduleScan
    <3>2. scan'.p = scan.p + 1 /\ scan'.greatest_ticks = proc_ticks[scan.p]
      BY <3>1
    <3>3. \A q \in Proc : q < scan.p => proc_ticks[q] < proc_ticks[scan.p]
      BY <1>1, <1>3, <1>7, <2>1 DEF Scanned
    <3>4. \A q \in Proc : q < scan.p + 1 => proc_ticks[q] <= proc_ticks[scan.p]
      <4> SUFFICES ASSUME NEW q \in Proc, q < scan.p + 1
                   PROVE  proc_ticks[q] <= proc_ticks[scan.p]
        OBVIOUS
      <4>1. q = scan.p \/ q < scan.p
        BY <1>1, <1>3
      <4> QED
        BY <4>1, <1>1, <1>3, <3>3
    <3>5. scan.p < scan.p + 1
      BY <1>1, <1>3
    <3> QED
      BY <1>1, <3>1, <3>2, <3>3, <3>4, <3>5 DEF Scanned
  <2>2. CASE ~(proc_ticks[scan.p] > scan.greatest_ticks)
    <3>1. UNCHANGED p_proc_ready /\ scan' = [scan EXCEPT !.p = @ + 1]
      BY <2>2 DEF ScheduleScan
    <3>2. scan'.p = scan.p + 1 /\ scan'.greatest_ticks = scan.greatest_ticks
      BY <3>1, <1>3
    <3>3. \A q \in Proc : q < scan.p + 1 => proc_ticks[q] <= scan.greatest_ticks
      <4> SUFFICES ASSUME NEW q \in Proc, q < scan.p + 1
                   PROVE  proc_ticks[q] <= scan.greatest_ticks
        OBVIOUS
      <4>1. q = scan.p \/ q < scan.p
        BY <1>1, <1>3
      <4> QED
        BY <4>1, <1>1, <1>3, <1>7, <2>2 DEF Scanned
    <3>4. p_proc_ready < scan.p => p_proc_ready < scan.p + 1
      BY <1>1, <1>3
    <3> QED
      BY <1>1, <1>7, <3>1, <3>2, <3>3, <3>4 DEF Scanned
  <2> QED
    BY <2>1, <2>2
<1>9. ScanInv'
  BY <1>2, <1>8 DEF ScanInv
<1> QED
  BY <1>2, <1>5, <1>6, <1>9 DEF Onward, ClockInv

-----------------------------------------------------------------------------
(* The end of the scan: what it found is what the mapping chose.           *)
LEMMA ScannedIsOnward ==
  ASSUME IInv, ClockInv, ScheduleScanned
  PROVE  Onward
<1>1. /\ At("clock_handler", "scan") /\ scan.p \notin Proc
      /\ scan' = NoScan
      /\ Goto(IF scan.greatest_ticks # 0 THEN "ret" ELSE "refill")
      /\ UNCHANGED <<proc_ticks, p_proc_ready>>
  BY DEF ScheduleScanned, NoScan
<1>2. /\ Len(stack) = 1 /\ OuterPc = "scan"
      /\ NestedInv /\ QuantumInv /\ ScanInv
  BY <1>1, BeyondReenter
<1>3. /\ proc_ticks \in [Proc -> Int] /\ p_proc_ready \in Proc
      /\ Proc \subseteq Nat /\ scan.greatest_ticks \in Nat
  BY InterruptAssumption DEF IInv, TypeInv, Proc
<1>4. \A q \in Proc : q < scan.p
  BY <1>1, InterruptAssumption DEF IInv, TypeInv, Proc
<1>5. /\ \A q \in Proc : proc_ticks[q] <= scan.greatest_ticks
      /\ scan.greatest_ticks > 0 =>
           /\ proc_ticks[p_proc_ready] = scan.greatest_ticks
           /\ \A q \in Proc :
                q < p_proc_ready => proc_ticks[q] < scan.greatest_ticks
  BY <1>2, <1>4 DEF ScanInv, Scanned
<1>6. QuantumInv'
  BY <1>1, <1>2 DEF QuantumInv
<1>7. Choosing
  BY <1>2, ViewByPc
<1>8. CASE scan.greatest_ticks # 0
  <2>1. OuterPc' = "ret" /\ NestedInv' /\ ~InProcess'
    BY <1>1, <1>2, <1>8, ClockGoto
  <2>2. scan.greatest_ticks > 0
    BY <1>3, <1>8
  <2>3. ~(\A q \in Proc : proc_ticks[q] <= 0)
    BY <1>3, <1>5, <2>2
  <2>4. ChosenTicks = proc_ticks
    BY <1>2, <1>7, <2>3, ViewByPc
  <2>5. First(proc_ticks, p_proc_ready)
    <3> SUFFICES ASSUME NEW q \in Proc
                 PROVE  \/ proc_ticks[q] < proc_ticks[p_proc_ready]
                        \/ proc_ticks[q] = proc_ticks[p_proc_ready] /\ p_proc_ready <= q
      BY DEF First
    <3>1. q < p_proc_ready \/ p_proc_ready <= q
      BY <1>3
    <3> QED
      BY <3>1, <1>3, <1>5, <2>2
  <2>6. Chosen = p_proc_ready
    BY <1>2, <1>3, <2>4, <2>5, ChosenFacts DEF QuantumInv
  <2>7. ~Choosing'
    BY <2>1, ViewByPc
  <2>8. UNCHANGED <<Ticks, Ready>>
    BY <1>1, <1>7, <2>4, <2>6, <2>7 DEF Ticks, Ready
  <2>9. ScanInv'
    BY <1>1, <2>1 DEF ScanInv, NoScan
  <2> QED
    BY <1>2, <1>6, <2>1, <2>8, <2>9 DEF Onward, ClockInv
<1>9. CASE scan.greatest_ticks = 0
  <2>1. OuterPc' = "refill" /\ NestedInv' /\ ~InProcess'
    BY <1>1, <1>2, <1>9, ClockGoto
  <2>2. \A q \in Proc : proc_ticks[q] <= 0
    BY <1>5, <1>9
  <2>3. Choosing' /\ ChosenTicks' = ChosenTicks
    BY <1>2, <1>7, <2>1, <2>2, ViewByPc
  <2>4. UNCHANGED <<Ticks, Ready>>
    BY <1>7, <2>3, SameDecision
  <2>5. RefilledTo'
    BY <1>1, <1>3 DEF RefilledTo, NoScan
  <2>6. ScanInv'
    BY <2>1, <2>5 DEF ScanInv
  <2> QED
    BY <1>2, <1>6, <2>1, <2>4, <2>6 DEF Onward, ClockInv
<1> QED
  BY <1>8, <1>9

(* The refill: the mapping has had it from the charge on.                  *)
LEMMA RefillIsOnward ==
  ASSUME IInv, ClockInv, ScheduleRefill
  PROVE  Onward
<1>1. At("clock_handler", "refill") /\ UNCHANGED p_proc_ready
  BY DEF ScheduleRefill
<1>2. /\ Len(stack) = 1 /\ OuterPc = "refill"
      /\ NestedInv /\ QuantumInv /\ ScanInv
      /\ UNCHANGED stack => OuterPc' = "refill" /\ NestedInv' /\ ~InProcess'
  BY <1>1, BeyondReenter
<1>3. /\ proc_ticks \in [Proc -> Int] /\ Proc \subseteq Nat /\ 0 \in Proc
      /\ priority \in [Proc -> Nat \ {0}]
      /\ \A q \in Proc : priority[q] <= priority[0]
      /\ scan \in [p : 0 .. NR_TASKS + NR_PROCS, greatest_ticks : Nat]
  BY InterruptAssumption DEF IInv, TypeInv, Proc
<1>4. /\ scan.greatest_ticks = 0
      /\ \A q \in Proc : q < scan.p => proc_ticks[q] = priority[q]
  BY <1>2 DEF ScanInv, RefilledTo
<1>5. Choosing /\ ChosenTicks = priority
  BY <1>2, ViewByPc
<1>6. CASE scan.p \in Proc
  <2>1. /\ proc_ticks' = [proc_ticks EXCEPT ![scan.p] = priority[scan.p]]
        /\ scan' = [scan EXCEPT !.p = @ + 1]
        /\ UNCHANGED stack
    BY <1>6 DEF ScheduleRefill
  <2>2. OuterPc' = "refill" /\ NestedInv' /\ ~InProcess'
    BY <1>2, <2>1
  <2>3. Choosing' /\ ChosenTicks' = ChosenTicks
    BY <1>5, <2>2, ViewByPc
  <2>4. UNCHANGED <<Ticks, Ready>>
    BY <1>5, <2>3, SameDecision
  <2>5. /\ scan'.p = scan.p + 1 /\ scan'.greatest_ticks = 0
        /\ proc_ticks'[scan.p] = priority[scan.p]
        /\ \A q \in Proc : q # scan.p => proc_ticks'[q] = proc_ticks[q]
    BY <1>3, <1>4, <1>6, <2>1
  <2>6. RefilledTo'
    <3> SUFFICES ASSUME NEW q \in Proc, q < scan.p + 1
                 PROVE  proc_ticks'[q] = priority[q]
      BY <2>5 DEF RefilledTo
    <3>1. q = scan.p \/ (q # scan.p /\ q < scan.p)
      BY <1>3, <1>6
    <3> QED
      BY <3>1, <1>4, <2>5
  <2>7. ScanInv'
    BY <2>2, <2>6 DEF ScanInv
  <2>8. QuantumInv'
    BY <1>2, <1>3, <2>5 DEF QuantumInv
  <2> QED
    BY <1>2, <2>2, <2>4, <2>7, <2>8 DEF Onward, ClockInv
<1>7. CASE scan.p \notin Proc
  <2>1. /\ scan' = [scan EXCEPT !.p = 0] /\ Goto("scan")
        /\ UNCHANGED proc_ticks
    BY <1>7 DEF ScheduleRefill
  <2>2. OuterPc' = "scan" /\ NestedInv' /\ ~InProcess'
    BY <1>1, <1>2, <2>1, ClockGoto
  <2>3. \A q \in Proc : q < scan.p
    BY <1>3, <1>7, InterruptAssumption DEF Proc
  <2>4. proc_ticks = priority
    <3>1. \A q \in Proc : proc_ticks[q] = priority[q]
      BY <1>4, <2>3
    <3>2. /\ proc_ticks = [q \in Proc |-> proc_ticks[q]]
          /\ priority = [q \in Proc |-> priority[q]]
      BY <1>3
    <3>3. [q \in Proc |-> proc_ticks[q]] = [q \in Proc |-> priority[q]]
      BY <3>1
    <3> QED
      BY <3>2, <3>3
  <2>5. ~(\A q \in Proc : proc_ticks[q] <= 0)
    BY <1>3, <2>4
  <2>6. Choosing' /\ ChosenTicks' = ChosenTicks
    BY <1>5, <2>1, <2>2, <2>4, <2>5, ViewByPc
  <2>7. UNCHANGED <<Ticks, Ready>>
    BY <1>5, <2>6, SameDecision
  <2>8. Scanned'
    <3>1. scan'.p = 0 /\ scan'.greatest_ticks = 0
      BY <1>3, <1>4, <2>1
    <3> QED
      BY <3>1, <1>3 DEF Scanned
  <2>9. ScanInv' /\ QuantumInv'
    BY <1>2, <2>1, <2>2, <2>8 DEF ScanInv, QuantumInv
  <2> QED
    BY <1>2, <2>2, <2>7, <2>9 DEF Onward, ClockInv
<1> QED
  BY <1>6, <1>7

-----------------------------------------------------------------------------
(* The charge: in a process it is the whole of Schedule.tla's step, in the *)
(* kernel it is its ClockHandlerNested.                                    *)
LEMMA ChargeIsStep ==
  ASSUME IInv, ClockInv, ClockCharge
  PROVE  /\ ClockInv' /\ Sch!Next /\ ~InProcess'
         /\ \/ OuterPc' = OuterPc /\ UNCHANGED Ready
            \/ OuterPc = "call" /\ OuterPc' = "reenter"
<1> DEFINE t == [proc_ticks EXCEPT ![p_proc_ready] = @ - 1]
<1>1. /\ At("clock_handler", "call") /\ Goto("reenter")
      /\ proc_ticks' = t /\ UNCHANGED <<p_proc_ready, scan>>
  BY DEF ClockCharge
<1>2. NestedInv /\ QuantumInv /\ ScanInv
  BY DEF ClockInv
<1>3. /\ proc_ticks \in [Proc -> Int] /\ p_proc_ready \in Proc
      /\ Proc \subseteq Nat /\ 0 \in Proc
      /\ priority \in [Proc -> Nat \ {0}]
      /\ \A q \in Proc : priority[q] <= priority[0]
  BY InterruptAssumption DEF IInv, TypeInv, Proc
<1>4. t \in [Proc -> Int] /\ \A q \in Proc : t[q] <= priority[0]
  <2>1. \A q \in Proc : t[q] = proc_ticks[q] \/ t[q] = proc_ticks[q] - 1
    BY <1>3
  <2> QED
    BY <2>1, <1>2, <1>3 DEF QuantumInv
<1>5. /\ Len(stack) = 1 => OuterPc = "call" /\ OuterPc' = "reenter"
      /\ Len(stack) # 1 => OuterPc = "none" /\ OuterPc' = "none"
      /\ Len(stack) # 1 => proc_ticks[p_proc_ready] > -MaxDebt
      /\ NestedInv' /\ ~InProcess'
  BY <1>1, <1>2, ClockGoto, ClockPlace
<1>6. ClockInv'
  <2>1. QuantumInv'
    BY <1>1, <1>4 DEF QuantumInv
  <2>2. scan = NoScan
    BY <1>2, <1>5 DEF ScanInv
  <2>3. ScanInv'
    BY <1>1, <1>5, <2>2 DEF ScanInv
  <2> QED
    BY <1>5, <2>1, <2>3 DEF ClockInv
<1>7. ~Choosing /\ Ticks = proc_ticks /\ Ready = p_proc_ready
  <2>1. ~Choosing
    BY <1>5, ViewByPc
  <2> QED
    BY <2>1 DEF Ticks, Ready
<1>8. Sch!Charged = t
  BY <1>7 DEF Sch!Charged
<1>9. CASE Len(stack) # 1
  <2>1. ~Choosing'
    BY <1>5, <1>9, ViewByPc
  <2>2. Ticks' = t /\ Ready' = p_proc_ready
    BY <1>1, <2>1 DEF Ticks, Ready
  <2>3. Sch!ClockHandlerNested
    BY <1>5, <1>7, <1>8, <1>9, <2>2 DEF Sch!ClockHandlerNested
  <2> QED
    BY <1>5, <1>6, <1>7, <1>9, <2>2, <2>3 DEF Sch!Next
<1>10. CASE Len(stack) = 1
  <2>1. OuterPc = "call" /\ OuterPc' = "reenter"
    BY <1>5, <1>10
  <2>2. Sch!ClockHandler
    <3>1. CASE t[p_proc_ready] > 0
      <4>1. ~Choosing'
        BY <1>1, <1>3, <1>4, <2>1, <3>1, ViewByPc
      <4>2. Ticks' = t /\ Ready' = p_proc_ready
        BY <1>1, <4>1 DEF Ticks, Ready
      <4> QED
        BY <1>7, <1>8, <3>1, <4>2 DEF Sch!ClockHandler
    <3>2. CASE ~(t[p_proc_ready] > 0)
      <4> DEFINE u == IF \A p \in Proc : t[p] <= 0 THEN priority ELSE t
      <4>1. Choosing'
        BY <1>1, <1>3, <1>4, <2>1, <3>2, ViewByPc
      <4>2. ChosenTicks' = u
        BY <1>1, <2>1, <4>1, ViewByPc
      <4>3. Ticks' = u /\ Ready' = Chosen'
        BY <4>1, <4>2 DEF Ticks, Ready
      <4>4. Sch!Refilled(t) = u
        BY DEF Sch!Refilled, Sch!NothingLeft, Sch!Proc, Proc
      <4>5. u \in [Proc -> Int] /\ \A q \in Proc : u[q] <= priority[0]
        BY <1>3, <1>4
      <4>6. \E q \in Proc : u[q] > 0
        BY <1>3, <1>4
      <4> HIDE DEF u
      <4>7. \E p \in Proc : First(u, p)
        BY <1>3, <4>5, FirstExists
      <4>8. Chosen' = CHOOSE p \in Proc : First(u, p)
        BY <4>2 DEF Chosen, First
      <4>9. Chosen' \in Proc /\ First(u, Chosen')
        BY <4>7, <4>8
      <4>10. PICK p \in Proc : p = Chosen' /\ First(u, p)
        BY <4>9
      <4>11. u[p] > 0
        <5>1. PICK q \in Proc : u[q] > 0
          BY <4>6
        <5>2. u[q] < u[p] \/ u[q] = u[p]
          BY <4>10 DEF First
        <5> QED
          BY <5>1, <5>2, <4>5
      <4>12. Sch!Greatest(u, p)
        BY <4>10, <4>11 DEF First, Sch!Greatest, Sch!Proc, Proc
      <4> QED
        BY <1>7, <1>8, <3>2, <4>3, <4>4, <4>10, <4>12
        DEF Sch!ClockHandler, Sch!Proc, Proc
    <3> QED
      BY <3>1, <3>2
  <2> QED
    BY <1>5, <1>6, <2>1, <2>2 DEF Sch!Next
<1> QED
  BY <1>9, <1>10

-----------------------------------------------------------------------------
(* What kernel_main() leaves, as Schedule.tla sees it.                     *)
LEMMA InitClockInv == Init => ClockInv /\ Sch!Init /\ OuterPc = "none"
<1> SUFFICES ASSUME Init PROVE ClockInv /\ Sch!Init /\ OuterPc = "none"
  OBVIOUS
<1>1. Len(stack) = 1 /\ stack[1].handler = "kernel_main"
  BY DEF Init
<1>2. OuterPc = "none"
  BY <1>1 DEF OuterPc
<1>3. proc_ticks = priority /\ p_proc_ready = 0 /\ scan = NoScan
  BY DEF Init, NoScan
<1>4. NestedInv
  BY <1>1 DEF NestedInv
<1>5. QuantumInv /\ ScanInv
  BY <1>2, <1>3, InterruptAssumption DEF QuantumInv, ScanInv
<1>6. ~Choosing
  BY <1>2, ViewByPc
<1>7. Sch!Init
  BY <1>3, <1>6 DEF Sch!Init, Ticks, Ready
<1> QED
  BY <1>2, <1>4, <1>5, <1>7 DEF ClockInv

(* The steps of clock_handler() and schedule() behind the charge.          *)
ClockOnward ==
  \/ ClockReenter \/ ClockLeft
  \/ ScheduleScan \/ ScheduleScanned \/ ScheduleRefill

(* Every step is a charge, one behind it, or another one.                  *)
LEMMA NextSplits ==
  ASSUME [Next]_vars
  PROVE  \/ OtherStep
         \/ ClockCharge /\ UNCHANGED running
         \/ ClockOnward /\ UNCHANGED running
<1>1. CASE ClockHandler
  BY <1>1 DEF ClockHandler, ClockOnward
<1>2. CASE ~ClockHandler
  BY <1>2 DEF Next, Kernel, OtherStep
<1> QED
  BY <1>1, <1>2

(* No step behind the charge is seen by Schedule.tla.                      *)
LEMMA ClockOnwardIsOnward ==
  ASSUME IInv, ClockInv, ClockOnward
  PROVE  Onward
  BY ReenterIsOnward, LeftIsOnward, ScanIsOnward, ScannedIsOnward,
     RefillIsOnward DEF ClockOnward

(* Nor is any step of other code.                                          *)
LEMMA QuietKeepsView ==
  ASSUME ClockInv, Quiet
  PROVE  ClockInv' /\ UNCHANGED <<Ticks, Ready>>
<1>1. /\ UNCHANGED <<proc_ticks, p_proc_ready, scan>>
      /\ \/ OuterPc' = OuterPc
         \/ /\ OuterPc \in {"none", "call", "ret"}
            /\ OuterPc' \in {"none", "call", "ret"}
      /\ NestedInv'
  BY DEF Quiet
<1>2. UNCHANGED <<Ticks, Ready>>
  BY <1>1, SameView
<1>3. QuantumInv' /\ ScanInv'
  BY <1>1 DEF ClockInv, QuantumInv, ScanInv, Scanned, RefilledTo
<1> QED
  BY <1>1, <1>2, <1>3 DEF ClockInv

(* So the charge is all it sees, and it sees it as one of its own.         *)
LEMMA StepIsScheduleStep ==
  ASSUME IInv, ClockInv, [Next]_vars
  PROVE  ClockInv' /\ [Sch!Next]_(Sch!vars)
<1>1. CASE OtherStep
  <2>1. Quiet
    BY <1>1, OtherStepIsQuiet DEF ClockInv
  <2> QED
    BY <2>1, QuietKeepsView DEF Sch!vars
<1>2. CASE ClockCharge
  BY <1>2, ChargeIsStep
<1>3. CASE ClockOnward
  BY <1>3, ClockOnwardIsOnward DEF Onward, Sch!vars
<1> QED
  BY <1>1, <1>2, <1>3, NextSplits

(* ClockInv is invariant: at every entry of the table, the scan of         *)
(* schedule() has found the first with the most ticks so far.              *)
THEOREM ClockInvInvariant == Spec => []ClockInv
<1>1. Init => ClockInv
  BY InitClockInv
<1>2. IInv /\ ClockInv /\ [Next]_vars => ClockInv'
  BY StepIsScheduleStep
<1> QED
  BY <1>1, <1>2, IInvInvariant, PTL DEF Spec

(* Seen from the outside, a clock interrupt is one step of Schedule.tla,   *)
(* however the table scan is interrupted and wherever the clock hits, and  *)
(* nothing else the kernel does is a step of it.                           *)
THEOREM ScheduleImplemented == Spec => ImplementsSchedule
<1>1. Init => Sch!Init
  BY InitClockInv
<1>2. IInv /\ ClockInv /\ [Next]_vars => [Sch!Next]_(Sch!vars)
  BY StepIsScheduleStep
<1> QED
  BY <1>1, <1>2, IInvInvariant, ClockInvInvariant, PTL
  DEF Spec, ImplementsSchedule, Sch!Spec

-----------------------------------------------------------------------------
(* From the decision of schedule() to the process that has the CPU.        *)
SP == INSTANCE ScheduleProofs WITH proc_ticks <- Ticks, p_proc_ready <- Ready

(* The process whose registers are loaded is the one schedule() decided    *)
(* for or, while clock_handler() has not returned, the one before it.      *)
HandInv ==
  /\ OuterPc # "none" => running # Boot
  /\ running # Boot =>
       \/ Ready = running
       \/ RR!IsNext(running, Ready) /\ OuterPc \notin {"none", "call"}

(* ScheduleProofs.tla speaks of the same state and the same steps.         *)
LEMMA SameSchedule ==
  /\ SP!TableAssumption
  /\ Sch!TypeOK /\ Sch!RoundInv <=> SP!TypeOK /\ SP!RoundInv
  /\ Sch!Init => SP!Init
  /\ [Sch!Next]_(Sch!vars) => [SP!Next]_(SP!vars)
<1>1. SP!TableAssumption
  BY InterruptAssumption DEF SP!TableAssumption, SP!Proc, Proc
<1>2. Sch!TypeOK /\ Sch!RoundInv <=> SP!TypeOK /\ SP!RoundInv
  BY DEF SP!TypeOK, SP!RoundInv, SP!Proc, SP!RR!Before,
         Sch!TypeOK, Sch!RoundInv, Sch!Proc, Sch!RR!Before
<1>3. Sch!Init => SP!Init
  BY DEF Sch!Init, SP!Init
<1>4. [Sch!Next]_(Sch!vars) => [SP!Next]_(SP!vars)
  BY DEF SP!Next, SP!vars, SP!ClockHandler, SP!ClockHandlerNested, SP!Charged,
         SP!Refilled, SP!NothingLeft, SP!Greatest, SP!Proc,
         Sch!Next, Sch!vars, Sch!ClockHandler, Sch!ClockHandlerNested,
         Sch!Charged, Sch!Refilled, Sch!NothingLeft, Sch!Greatest, Sch!Proc
<1> QED
  BY <1>1, <1>2, <1>3, <1>4

(* What a step of Schedule.tla does to a round, by ScheduleProofs.tla.     *)
LEMMA ScheduleStepMoves ==
  ASSUME Sch!TypeOK, Sch!RoundInv, [Sch!Next]_(Sch!vars)
  PROVE  Ready' # Ready => RR!IsNext(Ready, Ready') /\ Ready' \in Proc
<1>1. Ready' # Ready => SP!RR!IsNext(Ready, Ready') /\ Ready' \in SP!Proc
  BY SameSchedule, SP!StepKeepsRound
<1> QED
  BY <1>1 DEF SP!Proc, Proc, SP!RR!IsNext, SP!RR!Before, SP!RR!IsFirst,
              SP!RR!IsLast, SP!RR!Proc, RR!IsNext, RR!Before, RR!IsFirst,
              RR!IsLast, RR!Proc

(* Before the first restart and after every other one, nothing is decided  *)
(* that is not done.                                                       *)
LEMMA NothingDecided ==
  ASSUME OuterPc = "none"
  PROVE  Ready = p_proc_ready
<1>1. ~Choosing
  BY ViewByPc
<1> QED
  BY <1>1 DEF Ready

(* The same of the next state.                                             *)
LEMMA NothingDecidedNext ==
  ASSUME OuterPc' = "none"
  PROVE  Ready' = p_proc_ready'
<1>1. ~Choosing'
  BY ViewByPc
<1> QED
  BY <1>1 DEF Ready

(* A step hands the CPU to the process it is due to, or to nobody.         *)
LEMMA StepIsRotation ==
  ASSUME IInv, IInv', ClockInv, HandInv, Sch!TypeOK, Sch!RoundInv, [Next]_vars
  PROVE  HandInv' /\ [RR!Rotate]_OnCpu
<1>1. /\ Boot \notin Proc /\ p_proc_ready \in Proc /\ p_proc_ready' \in Proc
      /\ InProcess => running = p_proc_ready
      /\ InProcess' => running' = p_proc_ready'
  BY InterruptAssumption DEF IInv, TypeInv, FrameInv
<1>2. /\ OuterPc # "none" => running # Boot
      /\ running # Boot =>
           \/ Ready = running
           \/ RR!IsNext(running, Ready) /\ OuterPc \notin {"none", "call"}
      /\ OuterPc = "none" => Ready = p_proc_ready
      /\ OuterPc' = "none" => Ready' = p_proc_ready'
  BY NothingDecided, NothingDecidedNext DEF HandInv
<1>3. InProcess => OuterPc = "none"
  BY DEF OuterPc
<1>4. InProcess' => OuterPc' = "none"
  BY DEF OuterPc
<1>5. /\ OnCpu = IF running = Boot THEN p_proc_ready ELSE running
      /\ OnCpu' = IF running' = Boot THEN p_proc_ready' ELSE running'
  BY DEF OnCpu
<1>6. CASE InProcess'
  <2>1. OtherStep
    <3>1. ClockCharge => ~InProcess'
      BY ChargeIsStep
    <3>2. ClockOnward => ~InProcess'
      BY ClockOnwardIsOnward DEF Onward
    <3> QED
      BY <1>6, <3>1, <3>2, NextSplits
  <2>2. Ready' = Ready
    BY <2>1, OtherStepIsQuiet, QuietKeepsView DEF ClockInv
  <2>3. Ready' = running' /\ running' = p_proc_ready' /\ running' # Boot
    BY <1>1, <1>2, <1>4, <1>6
  <2>4. HandInv'
    BY <1>4, <1>6, <2>3 DEF HandInv
  <2>5. OnCpu' = Ready /\ Ready \in RR!Proc
    <3>1. RR!Proc = Proc
      BY InterruptAssumption DEF RR!Proc, Proc
    <3>2. OnCpu' = Ready /\ Ready = p_proc_ready'
      BY <1>5, <2>2, <2>3
    <3> QED
      BY <1>1, <3>1, <3>2
  <2>6. OnCpu = Ready \/ RR!IsNext(OnCpu, Ready)
    BY <1>2, <1>5
  <2> QED
    BY <2>4, <2>5, <2>6 DEF RR!Rotate
<1>7. CASE ~InProcess'
  <2>1. CASE OtherStep
    <3>1. Quiet /\ Ready' = Ready
      BY <2>1, OtherStepIsQuiet, QuietKeepsView DEF ClockInv
    <3>2. /\ UNCHANGED <<p_proc_ready, running>>
          /\ OuterPc' = OuterPc \/ InProcess
      BY <3>1, <1>7 DEF Quiet
    <3>3. OnCpu' = OnCpu
      BY <3>2, <1>5
    <3>4. OuterPc' # "none" => running' # Boot
      BY <3>2, <1>1, <1>2
    <3>5. running' # Boot =>
            \/ Ready' = running'
            \/ RR!IsNext(running', Ready') /\ OuterPc' \notin {"none", "call"}
      BY <3>1, <3>2, <1>2, <1>3
    <3> QED
      BY <3>3, <3>4, <3>5 DEF HandInv
  <2>2. CASE ClockCharge /\ UNCHANGED running
    <3>1. /\ Sch!Next
          /\ \/ OuterPc' = OuterPc /\ UNCHANGED Ready
             \/ OuterPc = "call" /\ OuterPc' = "reenter"
      BY <2>2, ChargeIsStep
    <3>2. Ready' # Ready => RR!IsNext(Ready, Ready')
      BY <3>1, ScheduleStepMoves
    <3>3. OnCpu' = OnCpu
      BY <2>2, <1>5 DEF ClockCharge
    <3>4. OuterPc' # "none" => running' # Boot
      BY <3>1, <2>2, <1>2
    <3>5. running' # Boot =>
            \/ Ready' = running'
            \/ RR!IsNext(running', Ready') /\ OuterPc' \notin {"none", "call"}
      BY <3>1, <3>2, <2>2, <1>2
    <3> QED
      BY <3>3, <3>4, <3>5 DEF HandInv
  <2>3. CASE ClockOnward /\ UNCHANGED running
    <3>1. /\ Ready' = Ready
          /\ \/ OuterPc' = OuterPc
             \/ OuterPc \notin {"none", "call"} /\ OuterPc' \notin {"none", "call"}
      BY <2>3, ClockOnwardIsOnward DEF Onward
    <3>2. OnCpu' = OnCpu
      BY <3>1, <2>3, <1>2, <1>5
    <3>3. OuterPc' # "none" => running' # Boot
      BY <3>1, <2>3, <1>2
    <3>4. running' # Boot =>
            \/ Ready' = running'
            \/ RR!IsNext(running', Ready') /\ OuterPc' \notin {"none", "call"}
      BY <3>1, <2>3, <1>2
    <3> QED
      BY <3>2, <3>3, <3>4 DEF HandInv
  <2> QED
    BY <2>1, <2>2, <2>3, NextSplits
<1> QED
  BY <1>6, <1>7

(* kernel_main() hands the CPU to entry 0, which nobody outranks.          *)
LEMMA InitStartsRotation == Init => HandInv /\ RR!Init
<1> SUFFICES ASSUME Init PROVE HandInv /\ RR!Init
  OBVIOUS
<1>1. HandInv
  BY InitClockInv DEF HandInv, Init
<1>2. OnCpu = 0 /\ 0 \in Proc
  BY InterruptAssumption DEF OnCpu, Init, Proc
<1>3. RR!Init
  BY <1>2, InterruptAssumption
  DEF RR!Init, RR!IsFirst, RR!Before, RR!Proc, Proc
<1> QED
  BY <1>1, <1>3

(* The types and the state of a round, of what Schedule.tla sees.          *)
LEMMA RoundSeen == Spec => [](Sch!TypeOK /\ Sch!RoundInv)
<1>1. Init => SP!Init
  BY InitClockInv, SameSchedule
<1>2. IInv /\ ClockInv /\ [Next]_vars => [SP!Next]_(SP!vars)
  BY StepIsScheduleStep, SameSchedule
<1>3. Spec => SP!Spec
  BY <1>1, <1>2, IInvInvariant, ClockInvInvariant, PTL DEF Spec, SP!Spec
<1>4. SP!TableAssumption
  BY SameSchedule
<1>5. SP!Spec => []SP!TypeOK
  BY <1>4, SP!TypeCorrect
<1>6. SP!Spec => []SP!RoundInv
  BY <1>4, SP!RoundCorrect
<1>7. SP!TypeOK /\ SP!RoundInv => Sch!TypeOK /\ Sch!RoundInv
  BY SameSchedule
<1> QED
  BY <1>3, <1>5, <1>6, <1>7, PTL

(* The processes that really get the CPU get it strictly in turn.          *)
THEOREM RoundRobinImplemented == Spec => ImplementsRoundRobin
<1>1. Init => HandInv /\ RR!Init
  BY InitStartsRotation
<1>2. /\ IInv /\ IInv' /\ ClockInv /\ HandInv /\ Sch!TypeOK /\ Sch!RoundInv
      /\ [Next]_vars
      => HandInv' /\ [RR!Rotate]_OnCpu
  BY StepIsRotation
<1> QED
  BY <1>1, <1>2, IInvInvariant, ClockInvInvariant, RoundSeen, PTL
  DEF Spec, ImplementsRoundRobin, RR!SafeSpec
=============================================================================
