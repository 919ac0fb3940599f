------------------------------ MODULE Interrupt ------------------------------
(***************************************************************************)
(* Entering and leaving the kernel: save, restart, hwint_master and        *)
(* sys_call of kernel/kernel.asm, with the handlers they call and the      *)
(* 8259A they program, interleaved at every point where interrupts are on. *)
(*                                                                         *)
(* All gates of the IDT are interrupt gates: IF is off from the entry to   *)
(* `sti', and from the last `cli' to `iretd'.  What runs with IF off is    *)
(* one step here, what runs with IF on is many.                            *)
(***************************************************************************)
EXTENDS Integers, Sequences, SequencesExt

CONSTANTS
  NR_TASKS, NR_PROCS, priority,   \* as in Schedule.tla
  NR_LINES,   \* lines of the master 8259A that may be raised
  TickMod,    \* ticks is a machine integer: it wraps at TickMod
  MaxLen,     \* bound: characters of one write()
  MaxDebt,    \* bound: how far below 0 ticks in the kernel bring a process
  Boot        \* "running" before the first restart

Proc == 0 .. NR_TASKS + NR_PROCS - 1
TTY == 0                  \* task_tty, the entry of task_table
CLOCK_IRQ == 0
KEYBOARD_IRQ == 1
Lines == 0 .. NR_LINES - 1

(* The table of Schedule.tla; task_tty is a task; both devices have a line.*)
ASSUME InterruptAssumption ==
  /\ NR_TASKS \in Nat \ {0} /\ NR_PROCS \in Nat
  /\ priority \in [Proc -> Nat \ {0}]
  /\ \A p \in Proc : priority[p] <= priority[0]
  /\ NR_LINES \in Nat /\ NR_LINES > KEYBOARD_IRQ
  /\ TickMod \in Nat \ {0}
  /\ MaxLen \in Nat /\ MaxDebt \in Nat
  /\ Boot \notin Proc \union Lines

VARIABLES
  ticks,         \* the kernel's count of clock interrupts
  proc_ticks,    \* proc_table[i].ticks
  p_proc_ready,
  k_reenter,
  eflags_if,     \* the interrupt flag of the CPU
  imr,           \* lines masked in the 8259A
  irr,           \* lines raised and not yet acknowledged
  irq_table,
  esp0,          \* tss.esp0: the process whose regs an entry is pushed to
  frame,         \* proc_table[i].regs: whose registers, and the saved eax
  running,       \* whose registers the CPU has, or had when it was entered
  stack,         \* the kernel stack: one record for each entry not yet left
  scan,          \* the locals of schedule(): p and greatest_ticks
  tty_pc         \* how far task_tty is

kernel == <<ticks, proc_ticks, p_proc_ready, scan>>
pic == <<imr, irr, irq_table>>
context == <<k_reenter, eflags_if, esp0, frame, running, stack>>
vars == <<kernel, pic, context, tty_pc>>

-----------------------------------------------------------------------------
InProcess == stack = <<>>

Top == Last(stack)

(* The code on top of the kernel stack is at pc of handler h.              *)
At(h, pc) == ~InProcess /\ Top.handler = h /\ Top.pc = pc

(* Goes on to pc; Answer goes there with the value that is returned.       *)
Goto(pc) == stack' = [stack EXCEPT ![Len(stack)].pc = pc]

Answer(v) == stack' = [stack EXCEPT ![Len(stack)].pc = "ret",
                                    ![Len(stack)].eax = v]

(* save: `inc k_reenter', then `cmp k_reenter, 0'.  The deviation compares *)
(* before it increments.                                                   *)
OutermostBefore == k_reenter = 0

Outermost == k_reenter + 1 = 0

(* save: the CPU has pushed to the frame of tss.esp0 if it came from a     *)
(* process, else to the stack it was on.  On the outermost entry, as       *)
(* k_reenter tells it, esp is reset to StackTop and the way out is         *)
(* restart; on any other it stays where it is and that is restart_reenter. *)
Save(handler, irq, arg) ==
  LET entry == [handler |-> handler, pc |-> "call", irq |-> irq, arg |-> arg,
                eax |-> 0, esi |-> IF InProcess THEN esp0 ELSE Boot,
                p_proc |-> p_proc_ready,
                exit |-> IF Outermost THEN "restart" ELSE "restart_reenter"]
  IN /\ k_reenter' = k_reenter + 1
     /\ stack' = IF Outermost THEN <<entry>> ELSE Append(stack, entry)
     /\ frame' = IF InProcess
                 THEN [frame EXCEPT ![esp0] = [proc |-> running, eax |-> 0]]
                 ELSE frame

(* Deviation: tss.esp0 is not set.                                         *)
RestartOldEsp0(fr) ==
  /\ running' = fr[p_proc_ready].proc
  /\ esp0' = IF esp0 = Boot THEN p_proc_ready ELSE esp0
  /\ stack' = <<>>

(* restart: run the process p_proc_ready, on frames fr.                    *)
Restart(fr) ==
  /\ esp0' = p_proc_ready
  /\ running' = fr[p_proc_ready].proc
  /\ stack' = <<>>

(* restart_reenter alone: back to what was interrupted.                    *)
RestartReenter ==
  /\ stack' = Front(stack)
  /\ UNCHANGED <<esp0, running>>

(* Deviation: restart decrements k_reenter before restart_reenter does.    *)
LeaveTwice(fr) ==
  /\ IF Top.exit = "restart" THEN Restart(fr) ELSE RestartReenter
  /\ k_reenter' = k_reenter - (IF Top.exit = "restart" THEN 2 ELSE 1)
  /\ eflags_if' = TRUE
  /\ frame' = fr

(* `ret' to the way out that save has pushed, and on to `iretd', which     *)
(* restores the flags of code that was running with IF on.                 *)
Leave(fr) ==
  /\ IF Top.exit = "restart" THEN Restart(fr) ELSE RestartReenter
  /\ k_reenter' = k_reenter - 1
  /\ eflags_if' = TRUE
  /\ frame' = fr

-----------------------------------------------------------------------------
(* init_8259A(): every line is masked and has no handler.                  *)
Init8259A == [imr |-> Lines, irq_table |-> [i \in Lines |-> "spurious_irq"]]

(* init_clock(): the clock, on a PIC in state p, while IF is off.          *)
InitClock(p) ==
  [imr |-> p.imr \ {CLOCK_IRQ},
   irq_table |-> [p.irq_table EXCEPT ![CLOCK_IRQ] = "clock_handler"]]

(* What kernel_main() leaves: the process table, init_clock() done, IF off *)
(* since `popfd' of 0, and a call of restart ahead.                        *)
Init ==
  /\ ticks = 0
  /\ proc_ticks = priority
  /\ p_proc_ready = 0
  /\ k_reenter = 0
  /\ eflags_if = FALSE
  /\ imr = InitClock(Init8259A).imr
  /\ irr \in SUBSET Lines
  /\ irq_table = InitClock(Init8259A).irq_table
  /\ esp0 = Boot
  /\ frame = [p \in Proc |-> [proc |-> p, eax |-> 0]]
  /\ running = Boot
  /\ stack = <<[handler |-> "kernel_main", pc |-> "ret", irq |-> Boot,
                arg |-> 0, eax |-> 0, esi |-> Boot, p_proc |-> 0,
                exit |-> "restart"]>>
  /\ scan = [p |-> 0, greatest_ticks |-> 0]
  /\ tty_pc = "disable_irq"

KernelMainRestart ==
  /\ At("kernel_main", "ret")
  /\ Leave(frame)
  /\ UNCHANGED <<kernel, pic, tty_pc>>

-----------------------------------------------------------------------------
(* The 8259A latches an edge of line i until it is acknowledged.           *)
Raise(i) ==
  /\ i \notin irr
  /\ irr' = irr \union {i}
  /\ UNCHANGED <<kernel, imr, irq_table, context, tty_pc>>

(* hwint_master up to the call of irq_table[i]: save, mask the line, EOI,  *)
(* sti.  The EOI makes the 8259A deliver any other line from here on.      *)
HwInt(i) ==
  /\ eflags_if
  /\ i \in irr \ imr
  /\ \A j \in irr \ imr : i <= j
  /\ i = CLOCK_IRQ /\ ~InProcess => proc_ticks[p_proc_ready] > -MaxDebt
  /\ irr' = irr \ {i}
  /\ imr' = imr \union {i}
  /\ Save(irq_table[i], i, 0)
  /\ UNCHANGED <<kernel, irq_table, eflags_if, esp0, running, tty_pc>>

(* Deviation: the line stays masked.                                       *)
HwIntRetMasked ==
  /\ ~InProcess /\ Top.irq \in Lines /\ Top.pc = "ret"
  /\ Leave(frame)
  /\ UNCHANGED <<kernel, pic, tty_pc>>

(* hwint_master behind the call: cli, unmask the line, ret.                *)
HwIntRet ==
  /\ ~InProcess /\ Top.irq \in Lines /\ Top.pc = "ret"
  /\ imr' = imr \ {Top.irq}
  /\ Leave(frame)
  /\ UNCHANGED <<kernel, irr, irq_table, tty_pc>>

(* The handlers that leave the state of this module alone: the keyboard's  *)
(* (KbRing.tla) and the one that reports a stray interrupt.                *)
OtherHandler ==
  /\ At("keyboard_handler", "call") \/ At("spurious_irq", "call")
  /\ Goto("ret")
  /\ UNCHANGED <<kernel, pic, k_reenter, eflags_if, esp0, frame, running,
                 tty_pc>>

-----------------------------------------------------------------------------
(* clock_handler() and schedule().                                         *)
ClockCharge ==
  /\ At("clock_handler", "call")
  /\ ticks' = (ticks + 1) % TickMod
  /\ proc_ticks' = [proc_ticks EXCEPT ![p_proc_ready] = @ - 1]
  /\ Goto("reenter")
  /\ UNCHANGED <<p_proc_ready, scan>>

ClockReenter ==
  /\ At("clock_handler", "reenter")
  /\ Goto(IF k_reenter # 0 THEN "ret" ELSE "left")
  /\ UNCHANGED kernel

(* Deviation: a quantum ends below 0.                                      *)
ClockLeftLate ==
  /\ At("clock_handler", "left")
  /\ Goto(IF proc_ticks[p_proc_ready] >= 0 THEN "ret" ELSE "scan")
  /\ UNCHANGED kernel

ClockLeft ==
  /\ At("clock_handler", "left")
  /\ Goto(IF proc_ticks[p_proc_ready] > 0 THEN "ret" ELSE "scan")
  /\ UNCHANGED kernel

(* Deviation: `>=', the scan prefers the last one.                         *)
ScheduleScanLast ==
  /\ At("clock_handler", "scan")
  /\ scan.p \in Proc
  /\ IF proc_ticks[scan.p] > 0 /\ proc_ticks[scan.p] >= scan.greatest_ticks
     THEN /\ p_proc_ready' = scan.p
          /\ scan' = [p |-> scan.p + 1,
                      greatest_ticks |-> proc_ticks[scan.p]]
     ELSE /\ UNCHANGED p_proc_ready
          /\ scan' = [scan EXCEPT !.p = @ + 1]
  /\ UNCHANGED <<ticks, proc_ticks, stack>>

(* One entry of the scan for the most ticks.                               *)
ScheduleScan ==
  /\ At("clock_handler", "scan")
  /\ scan.p \in Proc
  /\ IF proc_ticks[scan.p] > scan.greatest_ticks
     THEN /\ p_proc_ready' = scan.p
          /\ scan' = [p |-> scan.p + 1,
                      greatest_ticks |-> proc_ticks[scan.p]]
     ELSE /\ UNCHANGED p_proc_ready
          /\ scan' = [scan EXCEPT !.p = @ + 1]
  /\ UNCHANGED <<ticks, proc_ticks, stack>>

(* The end of the scan: found somebody, or everything is to be refilled.   *)
ScheduleScanned ==
  /\ At("clock_handler", "scan")
  /\ scan.p \notin Proc
  /\ scan' = [p |-> 0, greatest_ticks |-> 0]
  /\ Goto(IF scan.greatest_ticks # 0 THEN "ret" ELSE "refill")
  /\ UNCHANGED <<ticks, proc_ticks, p_proc_ready>>

(* One entry of the refill; behind the last one the scan starts again.     *)
ScheduleRefill ==
  /\ At("clock_handler", "refill")
  /\ IF scan.p \in Proc
     THEN /\ proc_ticks' = [proc_ticks EXCEPT ![scan.p] = priority[scan.p]]
          /\ scan' = [scan EXCEPT !.p = @ + 1]
          /\ UNCHANGED stack
     ELSE /\ scan' = [scan EXCEPT !.p = 0]
          /\ Goto("scan")
          /\ UNCHANGED proc_ticks
  /\ UNCHANGED <<ticks, p_proc_ready>>

ClockHandler ==
  /\ \/ ClockCharge \/ ClockReenter \/ ClockLeft
     \/ ScheduleScan \/ ScheduleScanned \/ ScheduleRefill
  /\ UNCHANGED <<pic, k_reenter, eflags_if, esp0, frame, running, tty_pc>>

-----------------------------------------------------------------------------
(* int 0x90 from a process: save, push p_proc_ready, sti, call.            *)
SysCall(handler, len) ==
  /\ InProcess
  /\ running \in NR_TASKS .. NR_TASKS + NR_PROCS - 1
  /\ Save(handler, Boot, len)
  /\ eflags_if' = TRUE
  /\ UNCHANGED <<kernel, pic, esp0, running, tty_pc>>

SysGetTicks ==
  /\ At("sys_get_ticks", "call")
  /\ Answer(ticks)
  /\ UNCHANGED <<kernel, pic, k_reenter, eflags_if, esp0, frame, running,
                 tty_pc>>

(* sys_write() as far as it touches IF: for each character, out_char()     *)
(* turns interrupts off around its accesses to the CRTC, and on again.     *)
SysWriteCli ==
  /\ At("sys_write", "call")
  /\ Top.arg > 0
  /\ eflags_if' = FALSE
  /\ Goto("crtc")
  /\ UNCHANGED <<kernel, pic, k_reenter, esp0, frame, running, tty_pc>>

SysWriteSti ==
  /\ At("sys_write", "crtc")
  /\ eflags_if' = TRUE
  /\ stack' = [stack EXCEPT ![Len(stack)].pc = "call",
                            ![Len(stack)].arg = @ - 1]
  /\ UNCHANGED <<kernel, pic, k_reenter, esp0, frame, running, tty_pc>>

(* sys_write() has no return statement: eax is anything.                   *)
SysWriteDone ==
  /\ At("sys_write", "call")
  /\ Top.arg = 0
  /\ \E v \in 0 .. TickMod - 1 : Answer(v)
  /\ UNCHANGED <<kernel, pic, k_reenter, eflags_if, esp0, frame, running,
                 tty_pc>>

(* sys_call behind the call: eax into the frame save found, cli, ret.      *)
SysCallRet ==
  /\ At("sys_get_ticks", "ret") \/ At("sys_write", "ret")
  /\ Leave([frame EXCEPT ![Top.esi].eax = Top.eax])
  /\ UNCHANGED <<kernel, pic, tty_pc>>

-----------------------------------------------------------------------------
(* task_tty at the points where it touches the interrupt system: first     *)
(* init_keyboard(), that is put_irq_handler() in two steps and then        *)
(* enable_irq(), each read-modify-write of the mask guarded by pushf, cli  *)
(* and popf; from then on the disable_int() and enable_int() of            *)
(* get_byte_from_kbuf(), set_cursor() and set_video_start_addr().          *)
TtyAt(pc) == InProcess /\ running = TTY /\ tty_pc = pc

(* Deviation: the line is not opened.                                      *)
NoEnableIrq ==
  /\ TtyAt("enable_irq")
  /\ tty_pc' = "loop"
  /\ UNCHANGED <<kernel, pic, context>>

DisableIrq ==
  /\ TtyAt("disable_irq")
  /\ imr' = imr \union {KEYBOARD_IRQ}
  /\ tty_pc' = "irq_table"
  /\ UNCHANGED <<kernel, irr, irq_table, context>>

SetIrqHandler ==
  /\ TtyAt("irq_table")
  /\ irq_table' = [irq_table EXCEPT ![KEYBOARD_IRQ] = "keyboard_handler"]
  /\ tty_pc' = "enable_irq"
  /\ UNCHANGED <<kernel, imr, irr, context>>

EnableIrq ==
  /\ TtyAt("enable_irq")
  /\ imr' = imr \ {KEYBOARD_IRQ}
  /\ tty_pc' = "loop"
  /\ UNCHANGED <<kernel, irr, irq_table, context>>

DisableInt ==
  /\ TtyAt("loop")
  /\ eflags_if' = FALSE
  /\ tty_pc' = "cli"
  /\ UNCHANGED <<kernel, pic, k_reenter, esp0, frame, running, stack>>

EnableInt ==
  /\ TtyAt("cli")
  /\ eflags_if' = TRUE
  /\ tty_pc' = "loop"
  /\ UNCHANGED <<kernel, pic, k_reenter, esp0, frame, running, stack>>

TaskTty == DisableIrq \/ SetIrqHandler \/ EnableIrq \/ DisableInt \/ EnableInt

-----------------------------------------------------------------------------
Kernel ==
  \/ KernelMainRestart
  \/ HwIntRet \/ OtherHandler \/ ClockHandler
  \/ SysGetTicks \/ SysWriteCli \/ SysWriteSti \/ SysWriteDone \/ SysCallRet

Next ==
  \/ \E i \in Lines : Raise(i) \/ HwInt(i)
  \/ Kernel
  \/ SysCall("sys_get_ticks", 0)
  \/ \E len \in 0 .. MaxLen : SysCall("sys_write", len)
  \/ TaskTty

Spec == Init /\ [][Next]_vars

(* The PIT never stops; the CPU takes a pending interrupt at the next      *)
(* instruction that lets it; devices do not saturate the CPU, so that code *)
(* at each depth of the kernel stack gets on between interrupts, and so    *)
(* does the task; and the ticks of the clock are not all in step with      *)
(* system calls, as in Schedule.tla.                                       *)
FairSpec ==
  /\ Spec
  /\ WF_vars(Raise(CLOCK_IRQ))
  /\ \A i \in Lines : SF_vars(HwInt(i))
  /\ SF_vars(InProcess /\ HwInt(CLOCK_IRQ))
  /\ \A n \in 1 .. NR_LINES + 1 : SF_vars(Len(stack) = n /\ Kernel)
  /\ SF_vars(DisableIrq) /\ SF_vars(SetIrqHandler) /\ SF_vars(EnableIrq)
  /\ WF_vars(EnableInt)

-----------------------------------------------------------------------------
Handlers == {"clock_handler", "keyboard_handler", "spurious_irq"}

(* The saved registers: whose they are, and the answer of a system call.   *)
STACK_FRAME == [proc : Proc, eax : 0 .. TickMod - 1]

SysCalls == {"sys_get_ticks", "sys_write"}

Entry == [handler : Handlers \union SysCalls \union {"kernel_main"},
          pc : {"call", "reenter", "left", "scan", "refill", "crtc", "ret"},
          irq : Lines \union {Boot}, arg : 0 .. MaxLen,
          eax : 0 .. TickMod - 1, esi : Proc \union {Boot}, p_proc : Proc,
          exit : {"restart", "restart_reenter"}]

(* Types of all the variables.                                             *)
TypeOK ==
  /\ ticks \in 0 .. TickMod - 1
  /\ proc_ticks \in [Proc -> Int]
  /\ p_proc_ready \in Proc
  /\ k_reenter \in -1 .. NR_LINES
  /\ eflags_if \in BOOLEAN
  /\ imr \in SUBSET Lines
  /\ irr \in SUBSET Lines
  /\ irq_table \in [Lines -> Handlers]
  /\ esp0 \in Proc \union {Boot}
  /\ frame \in [Proc -> STACK_FRAME]
  /\ running \in Proc \union {Boot}
  /\ stack \in Seq(Entry)
  /\ scan \in [p : 0 .. NR_TASKS + NR_PROCS, greatest_ticks : Nat]
  /\ tty_pc \in {"disable_irq", "irq_table", "enable_irq", "loop", "cli"}

(* k_reenter, on which save and clock_handler() rely, counts the entries   *)
(* on the kernel stack, and exactly the outermost of them leaves through   *)
(* restart: no entry resets esp under another one, none is skipped.        *)
NestingInv ==
  /\ k_reenter = Len(stack) - 1
  /\ \A n \in 1 .. Len(stack) : stack[n].exit = "restart" <=> n = 1

(* A line is masked while its handler is on the kernel stack, so no        *)
(* handler interrupts itself and the kernel stack stays bounded; and it is *)
(* not masked any longer than that, so no device is lost.  task_tty only   *)
(* delays the keyboard's line until its handler is installed, so that no   *)
(* key is swallowed by spurious_irq().                                     *)
MaskInv ==
  /\ \A m, n \in 1 .. Len(stack) :
       stack[m].irq = stack[n].irq => m = n \/ stack[m].irq = Boot
  /\ \A i \in Lines :
       i \in imr <=> \/ \E n \in 1 .. Len(stack) : stack[n].irq = i
                     \/ i = KEYBOARD_IRQ /\ tty_pc \notin {"loop", "cli"}
                     \/ i \notin {CLOCK_IRQ, KEYBOARD_IRQ}
  /\ \A n \in 1 .. Len(stack) : stack[n].handler # "spurious_irq"

(* Each entry of proc_table holds the registers of its own process, and    *)
(* while a process runs, the next entry to the kernel will save there.  A  *)
(* system call works for its caller: the p_proc it was given and the frame *)
(* its result goes to are those of the process that made it, however many  *)
(* interrupts have come in between.                                        *)
FrameInv ==
  /\ \A p \in Proc : frame[p].proc = p
  /\ running # Boot => esp0 = running
  /\ InProcess => running = p_proc_ready
  /\ \A n \in 1 .. Len(stack) :
       stack[n].handler \in SysCalls =>
         n = 1 /\ running = stack[n].esi /\ running = stack[n].p_proc

-----------------------------------------------------------------------------
(* From the charge on, the outermost clock_handler() is bound to choose,   *)
(* but until the scan is over p_proc_ready and proc_ticks are in between.  *)
(* What it is bound to is what Schedule.tla does in one step.              *)
Choosing ==
  /\ ~InProcess
  /\ stack[1].handler = "clock_handler"
  /\ stack[1].pc \in {"reenter", "left", "scan", "refill"}
  /\ stack[1].pc \in {"reenter", "left"} => proc_ticks[p_proc_ready] <= 0

ChosenTicks ==
  IF \/ \A p \in Proc : proc_ticks[p] <= 0
     \/ stack[1].pc = "refill"
  THEN priority ELSE proc_ticks

Chosen ==
  CHOOSE p \in Proc :
    \A q \in Proc : \/ ChosenTicks[q] < ChosenTicks[p]
                    \/ ChosenTicks[q] = ChosenTicks[p] /\ p <= q

Ticks == IF Choosing THEN ChosenTicks ELSE proc_ticks

Ready == IF Choosing THEN Chosen ELSE p_proc_ready

Sch == INSTANCE Schedule WITH proc_ticks <- Ticks, p_proc_ready <- Ready

(* Seen from the outside, a clock interrupt is one step of Schedule.tla,   *)
(* and nothing else the kernel does is a step of it.                       *)
ImplementsSchedule == Sch!Spec

(* Who has the CPU; kernel_main() is about to give it to entry 0.          *)
OnCpu == IF running = Boot THEN p_proc_ready ELSE running

RR == INSTANCE RoundRobin WITH N <- NR_TASKS + NR_PROCS, cur <- OnCpu

(* The processes that really get the CPU, in terms of whose registers it   *)
(* has, get it in the order of RoundRobin.tla.                             *)
ImplementsRoundRobin == RR!SafeSpec

-----------------------------------------------------------------------------
(* Every process runs outside the kernel again and again.                  *)
NobodyStarves == \A p \in Proc : []<>(InProcess /\ running = p)

(* Every keystroke and every tick the 8259A has latched is served.         *)
IrqServed ==
  \A i \in {CLOCK_IRQ, KEYBOARD_IRQ} : i \in irr ~> i \notin irr
=============================================================================
