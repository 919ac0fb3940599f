------------------------------ MODULE Protect -------------------------------
(***************************************************************************)
(* What the 80386 reads of the kernel's tables: GDT, LDTs, IDT and TSS,    *)
(* filled by cstart(), init_prot() and kernel_main(), the selectors in the *)
(* process table, and the exception stubs.  The kernel starts, processes   *)
(* run and enter it, and something goes wrong in one of them or in it.     *)
(*                                                                         *)
(* The checks of the CPU are written down from its side, on the bits it    *)
(* decodes.  How entries nest and who is scheduled is in Interrupt.tla.    *)
(***************************************************************************)
EXTENDS Integers, Sequences, FiniteSets

CONSTANTS
  NR_TASKS, NR_PROCS,
  LoaderGdt, Gdt, Idt, Tss, ProcTable, Text,   \* linear addresses
  ErrorCodes   \* that the CPU may give with an exception

Proc == 0 .. NR_TASKS + NR_PROCS - 1

(* sizeof(DESCRIPTOR), sizeof(TSS), sizeof(PROCESS); ldts in a PROCESS.    *)
DescSize == 8
TssSize == 104
ProcSize == 124
LdtsOffset == 74
LDT_SIZE == 2

INDEX_TSS == 4
INDEX_LDT_FIRST == 5
GDT_SIZE == 128
IDT_SIZE == 256

SELECTOR_KERNEL_CS == 8
SELECTOR_KERNEL_DS == 16
SELECTOR_KERNEL_GS == 24 + 3
SELECTOR_TSS == 32
SELECTOR_LDT_FIRST == 40

INT_VECTOR_NMI == 2
INT_VECTOR_BREAKPOINT == 3
INT_VECTOR_OVERFLOW == 4
INT_VECTOR_PROTECTION == 13
INT_VECTOR_IRQ0 == 32
INT_VECTOR_SYS_CALL == 144

ExceptionVectors == (0 .. 14) \union {16}
IrqVectors == INT_VECTOR_IRQ0 .. INT_VECTOR_IRQ0 + 15
GateVectors == ExceptionVectors \union IrqVectors \union {INT_VECTOR_SYS_CALL}

(* With these the CPU pushes an error code.                                *)
WithErrorCode == {8} \union 10 .. 14

NoError == -1     \* 0xFFFFFFFF
Junk == -2        \* what else lies on a stack

LastAddress == \hFFFFF     \* of 1 MB

(* Where the tables are, and how many bytes each takes.                    *)
Area ==
  << <<Gdt, GDT_SIZE * DescSize>>, <<Idt, IDT_SIZE * DescSize>>, <<Tss, TssSize>>,
     <<ProcTable, ProcSize * (NR_TASKS + NR_PROCS)>>, <<LoaderGdt, 4 * DescSize>> >>

(* No two tables overlap, wherever they are linked to, and all is below    *)
(* 1 MB.                                                                   *)
LayoutAssumption ==
  /\ NR_TASKS \in Nat \ {0} /\ NR_PROCS \in Nat
  /\ {LoaderGdt, Gdt, Idt, Tss, ProcTable, Text} \subseteq Nat
  /\ ErrorCodes \subseteq Nat
  /\ INDEX_LDT_FIRST + NR_TASKS + NR_PROCS <= GDT_SIZE
  /\ \A i \in DOMAIN Area : Area[i][1] + Area[i][2] <= LastAddress
  /\ \A i, j \in DOMAIN Area : i # j =>
       \/ Area[i][1] + Area[i][2] <= Area[j][1]
       \/ Area[j][1] + Area[j][2] <= Area[i][1]
  /\ Text + 16 * IDT_SIZE <= LastAddress

VARIABLES
  gdt, idt, tss, proc_table,
  gdtr, idtr, tr, ldtr,   \* base and limit
  cpu,                    \* flags, eip and segment registers
  pc, p_proc_ready,
  stack,                  \* of the kernel at an exception, top first
  raised,                 \* the exception the CPU raised
  screen                  \* what exception_handler() showed of it

tables == <<gdt, idt, tss>>
system == <<gdtr, idtr, tr>>
error == <<stack, raised, screen>>
vars == <<tables, proc_table, system, ldtr, cpu, pc, p_proc_ready, error>>

-----------------------------------------------------------------------------
(* init_descriptor(), and the macro Descriptor of the loader: >> and & are *)
(* div and mod, | of fields that do not overlap is their sum.              *)
init_descriptor(base, limit, attribute) ==
  [limit_low |-> limit % \h10000, base_low |-> base % \h10000,
   base_mid |-> (base \div \h10000) % \h100, attr1 |-> attribute % \h100,
   limit_high_attr2 |-> ((limit \div \h10000) % 16) + 16 * ((attribute \div \h1000) % 16),
   base_high |-> (base \div \h1000000) % \h100]

NoDescriptor == init_descriptor(0, 0, 0)

DA_32 == \h4000
DA_LIMIT_4K == \h8000
DA_DRW == \h92
DA_C == \h98
DA_CR == \h9A
DA_LDT == \h82
DA_386TSS == \h89
DA_386IGate == \h8E

PRIVILEGE_KRNL == 0
PRIVILEGE_TASK == 1
PRIVILEGE_USER == 3

VideoBase == \hB8000

(* LABEL_GDT of the loader.                                                *)
LOADER_GDT ==
  <<init_descriptor(0, 0, 0),
    init_descriptor(0, \hFFFFF, DA_CR + DA_32 + DA_LIMIT_4K),
    init_descriptor(0, \hFFFFF, DA_DRW + DA_32 + DA_LIMIT_4K),
    init_descriptor(VideoBase, \hFFFF, DA_DRW + 32 * PRIVILEGE_USER)>>

(* The routines whose addresses the gates hold.                            *)
Handler(vector) == Text + 16 * vector

init_idt_desc(vector, desc_type, handler, privilege) ==
  [offset_low |-> handler % \h10000, selector |-> SELECTOR_KERNEL_CS,
   attr |-> desc_type + 32 * privilege, offset_high |-> (handler \div \h10000) % \h10000]

-----------------------------------------------------------------------------
(* The CPU: decoding a descriptor.                                         *)
Base(d) == d.base_low + \h10000 * d.base_mid + \h1000000 * d.base_high
Limit(d) == d.limit_low + \h10000 * (d.limit_high_attr2 % 16)
Granular(d) == d.limit_high_attr2 \div 128 = 1
Present(d) == d.attr1 \div 128 = 1
Dpl(d) == (d.attr1 \div 32) % 4
Type(d) == d.attr1 % 32        \* with the S bit
IsCode(d) == Present(d) /\ Type(d) >= 24
IsConformingCode(d) == IsCode(d) /\ (Type(d) \div 4) % 2 = 1
IsWritable(d) == Present(d) /\ Type(d) \in 16 .. 23 /\ ((Type(d) \div 2) % 2 = 1)
IsReadable(d) == Present(d) /\ (Type(d) \in 16 .. 23 \/ (Type(d) >= 24 /\ (Type(d) % 4) >= 2))

(* All 4 GB from 0 on, in 32 bits.                                         *)
IsFlat(d) ==
  Base(d) = 0 /\ Limit(d) = \hFFFFF /\ Granular(d) /\ (d.limit_high_attr2 \div 64) % 2 = 1

Rpl(sel) == sel % 4
Local(sel) == (sel \div 4) % 2 = 1
IsNull(sel) == sel < 4

(* The descriptor that lies at a linear address.                           *)
DescriptorAt(a) ==
  LET In(base, n) == a >= base /\ (a - base) % DescSize = 0 /\ (a - base) \div DescSize < n
      Ldts(i) == ProcTable + i * ProcSize + LdtsOffset
  IN IF In(LoaderGdt, 4) THEN LOADER_GDT[((a - LoaderGdt) \div DescSize) + 1]
     ELSE IF In(Gdt, INDEX_LDT_FIRST + NR_TASKS + NR_PROCS)
          THEN gdt[(a - Gdt) \div DescSize]
     ELSE IF \E i \in Proc : In(Ldts(i), LDT_SIZE)
          THEN LET i == CHOOSE i \in Proc : In(Ldts(i), LDT_SIZE)
               IN proc_table[i].ldts[(a - Ldts(i)) \div DescSize]
     ELSE NoDescriptor

(* The descriptor a selector stands for, with a table in the LDTR.         *)
Fetch(sel, local) ==
  LET table == IF Local(sel) THEN local ELSE gdtr
      offset == (sel \div 8) * DescSize
  IN IF offset + DescSize - 1 <= table.limit THEN DescriptorAt(table.base + offset)
     ELSE NoDescriptor

LargerOf(a, b) == IF a > b THEN a ELSE b

(* Loads of a data segment register, of ss, and of cs by a far jump.       *)
DataLoads(sel, cpl, local) ==
  LET d == Fetch(sel, local)
  IN IsNull(sel) \/ (IsReadable(d) /\ (Dpl(d) >= LargerOf(cpl, Rpl(sel)) \/ IsConformingCode(d)))

StackLoads(sel, cpl, local) ==
  LET d == Fetch(sel, local)
  IN ~IsNull(sel) /\ IsWritable(d) /\ Dpl(d) = cpl /\ Rpl(sel) = cpl

CodeLoads(sel, cpl, local) ==
  LET d == Fetch(sel, local)
  IN ~IsNull(sel) /\ IsCode(d) /\ ~IsConformingCode(d) /\ Dpl(d) = cpl

(* On the way to an outer level data segments of an inner one are dropped. *)
Dropped(sel, cpl, local) ==
  LET d == Fetch(sel, local)
  IN IF ~IsNull(sel) /\ Dpl(d) < cpl /\ ~IsConformingCode(d) THEN 0 ELSE sel

CPL == Rpl(cpu.cs)
IF_(eflags) == (eflags \div 512) % 2 = 1
IOPL(eflags) == (eflags \div 4096) % 4

(* The gate of a vector; an int instruction needs its privilege, too.      *)
GateOf(vector) ==
  IF (vector + 1) * DescSize - 1 <= idtr.limit /\ idtr.base = Idt THEN idt[vector]
  ELSE init_idt_desc(0, 0, 0, 0)

GateOpens(vector) ==
  LET g == GateOf(vector)
      d == Fetch(g.selector, ldtr)
  IN /\ g.attr \div 128 = 1 /\ g.attr % 32 \in {14, 15}
     /\ IsCode(d) /\ Dpl(d) = 0 /\ IsFlat(d)
     /\ CPL > 0 => tr.base = Tss /\ StackLoads(tss.ss0, 0, ldtr)

GateAllowed(vector) == (GateOf(vector).attr \div 32) % 4 >= CPL

(* The routine behind a gate, as the vector it was written for.            *)
Routine(vector) ==
  (GateOf(vector).offset_low + \h10000 * GateOf(vector).offset_high - Text) \div 16

(* in, out: the I/O permission bitmap of the TSS is asked only without     *)
(* IOPL, and a bit in it only if it lies inside of the segment.  The TSS   *)
(* is 0 but for a few fields, and 0 permits.                               *)
PortAllowed(port) ==
  CPL <= IOPL(cpu.eflags) \/ tss.iobase + (port \div 8) + 1 <= tr.limit

-----------------------------------------------------------------------------
(* What the loader leaves.                                                 *)
Init ==
  /\ gdt = [i \in 0 .. INDEX_LDT_FIRST + NR_TASKS + NR_PROCS - 1 |-> NoDescriptor]
  /\ idt = [v \in GateVectors |-> init_idt_desc(0, 0, 0, 0)]
  /\ tss = [ss0 |-> 0, iobase |-> 0]
  /\ proc_table = [i \in Proc |->
       [regs |-> <<>>, ldt_sel |-> 0,
        ldts |-> [k \in 0 .. LDT_SIZE - 1 |-> NoDescriptor]]]
  /\ gdtr = [base |-> LoaderGdt, limit |-> Len(LOADER_GDT) * DescSize - 1]
  /\ idtr = [base |-> 0, limit |-> 0]
  /\ tr = [base |-> 0, limit |-> 0]
  /\ ldtr = [base |-> 0, limit |-> 0]
  /\ cpu = [eflags |-> 2, cs |-> SELECTOR_KERNEL_CS,
            ds |-> SELECTOR_KERNEL_DS, es |-> SELECTOR_KERNEL_DS,
            fs |-> SELECTOR_KERNEL_DS, gs |-> SELECTOR_KERNEL_GS,
            ss |-> SELECTOR_KERNEL_DS, eip |-> Text]
  /\ pc = "_start" /\ p_proc_ready = 0
  /\ stack = <<>> /\ raised = <<>> /\ screen = <<>>

-----------------------------------------------------------------------------
(* vir2phys(seg2phys(SELECTOR_KERNEL_DS), a)                               *)
vir2phys(g, a) == Base(g[SELECTOR_KERNEL_DS \div 8]) + a

(* Deviation: every LDT descriptor describes the first LDT.                *)
LdtAddressFirst(i) == ProcTable + LdtsOffset

LdtAddress(i) == ProcTable + i * ProcSize + LdtsOffset

(* Deviation: the bitmap is left at offset 0.                              *)
IoBaseZero == 0

IoBase == TssSize

(* Deviation: a process may raise a protection fault on its own.           *)
UserGatesAll == ExceptionVectors \union {INT_VECTOR_SYS_CALL}

(* The gates that an int instruction of a process may use.                 *)
UserGates == {INT_VECTOR_BREAKPOINT, INT_VECTOR_OVERFLOW, INT_VECTOR_SYS_CALL}

(* Deviation: trap gates, which leave interrupts on.                       *)
GateTypeTrap == \h8F

GateType == DA_386IGate

(* _start to the return of cstart(): the loader's GDT is copied, the       *)
(* registers for lgdt and lidt are prepared, and init_prot() fills the     *)
(* tables.                                                                 *)
CStart ==
  /\ pc = "_start"
  /\ LET copied == [i \in DOMAIN gdt |-> IF i < Len(LOADER_GDT) THEN LOADER_GDT[i + 1] ELSE gdt[i]]
     IN gdt' = [i \in DOMAIN gdt |->
          IF i - INDEX_LDT_FIRST \in Proc
          THEN init_descriptor(vir2phys(copied, LdtAddress(i - INDEX_LDT_FIRST)),
                               LDT_SIZE * DescSize - 1, DA_LDT)
          ELSE IF i = INDEX_TSS
          THEN init_descriptor(vir2phys(copied, Tss), TssSize - 1, DA_386TSS)
          ELSE copied[i]]
  /\ idt' = [v \in GateVectors |->
       init_idt_desc(v, GateType, Handler(v),
                     IF v \in UserGates THEN PRIVILEGE_USER ELSE PRIVILEGE_KRNL)]
  /\ tss' = [ss0 |-> SELECTOR_KERNEL_DS, iobase |-> IoBase]
  /\ pc' = "lgdt"
  /\ UNCHANGED <<proc_table, system, ldtr, cpu, p_proc_ready, error>>

LoadTables ==
  /\ pc = "lgdt"
  /\ gdtr' = [base |-> Gdt, limit |-> GDT_SIZE * DescSize - 1]
  /\ idtr' = [base |-> Idt, limit |-> IDT_SIZE * DescSize - 1]
  /\ pc' = "csinit"
  /\ UNCHANGED <<tables, proc_table, tr, ldtr, cpu, p_proc_ready, error>>

(* The far jump, popfd and ltr: the first that need the new tables.        *)
CsInit ==
  /\ pc = "csinit"
  /\ LET d == Fetch(SELECTOR_TSS, ldtr)
     IN IF CodeLoads(SELECTOR_KERNEL_CS, 0, ldtr) /\ Present(d) /\ Type(d) = 9
        THEN /\ tr' = [base |-> Base(d), limit |-> Limit(d)]
             /\ cpu' = [cpu EXCEPT !.eflags = 2]
             /\ pc' = "kernel_main"
        ELSE pc' = "dead" /\ UNCHANGED <<tr, cpu>>
  /\ UNCHANGED <<tables, proc_table, gdtr, idtr, ldtr, p_proc_ready, error>>

-----------------------------------------------------------------------------
SA_TIL == 4

(* (sel & SA_RPL_MASK) | rpl, and (sel & SA_TI_MASK) | SA_TIL.             *)
WithRpl(sel, rpl) == 4 * (sel \div 4) + rpl
InLdt(sel) == 8 * (sel \div 8) + SA_TIL + (sel % 4)

(* IF, and IOPL 1 for a task.                                              *)
Eflags(i) == IF i < NR_TASKS THEN \h1202 ELSE \h202

Privilege(i) == IF i < NR_TASKS THEN PRIVILEGE_TASK ELSE PRIVILEGE_USER

(* One turn of the loop of kernel_main() over the process table.           *)
ProcessEntry(i) ==
  LET rpl == Privilege(i)
      In(index) == WithRpl(InLdt(index), rpl)
  IN [ldt_sel |-> SELECTOR_LDT_FIRST + i * 8,
      ldts |-> [k \in 0 .. LDT_SIZE - 1 |->
        [gdt[(IF k = 0 THEN SELECTOR_KERNEL_CS ELSE SELECTOR_KERNEL_DS) \div 8]
           EXCEPT !.attr1 = (IF k = 0 THEN DA_C ELSE DA_DRW) + 32 * Privilege(i)]],
      regs |-> [cs |-> In(0), ds |-> In(8), es |-> In(8), fs |-> In(8), ss |-> In(8),
                gs |-> WithRpl(SELECTOR_KERNEL_GS, rpl),
                eip |-> Text + \h1000 * (i + 1), eflags |-> Eflags(i)]]

KernelMain ==
  /\ pc = "kernel_main"
  /\ proc_table' = [i \in Proc |-> ProcessEntry(i)]
  /\ p_proc_ready' = 0
  /\ pc' = "restart"
  /\ UNCHANGED <<tables, system, ldtr, cpu, error>>

(* restart: lldt, the segment registers off the frame, iretd.              *)
Restart ==
  /\ pc = "restart"
  /\ LET p == proc_table[p_proc_ready]
         r == p.regs
         d == Fetch(p.ldt_sel, ldtr)
         l == [base |-> Base(d), limit |-> Limit(d)]
         cpl == Rpl(r.cs)
     IN IF /\ ~Local(p.ldt_sel) /\ Present(d) /\ Type(d) = 2
           /\ \A s \in {r.ds, r.es, r.fs, r.gs} : DataLoads(s, CPL, l)
           /\ CodeLoads(r.cs, cpl, l) /\ StackLoads(r.ss, cpl, l)
        THEN /\ ldtr' = l
             /\ cpu' = [r EXCEPT !.ds = Dropped(r.ds, cpl, l), !.es = Dropped(r.es, cpl, l),
                                 !.fs = Dropped(r.fs, cpl, l), !.gs = Dropped(r.gs, cpl, l)]
             /\ pc' = "process"
        ELSE pc' = "dead" /\ UNCHANGED <<ldtr, cpu>>
  /\ UNCHANGED <<tables, proc_table, system, p_proc_ready, error>>

-----------------------------------------------------------------------------
(* Entering the kernel through a gate: the frame of the process is saved,  *)
(* and save() loads ds and es.                                             *)
EnterKernel(vector) ==
  /\ pc' = IF GateOpens(vector) THEN "kernel" ELSE "dead"
  /\ proc_table' = [proc_table EXCEPT ![p_proc_ready].regs = IF pc = "process" THEN cpu ELSE @]
  /\ cpu' = [cpu EXCEPT !.eflags = 2, !.cs = GateOf(vector).selector, !.ss = tss.ss0,
                        !.ds = tss.ss0, !.es = tss.ss0, !.eip = Handler(vector)]
  /\ UNCHANGED <<tables, system, ldtr, p_proc_ready, error>>

SysCall == pc = "process" /\ GateAllowed(INT_VECTOR_SYS_CALL) /\ EnterKernel(INT_VECTOR_SYS_CALL)

(* The lines of the master: the slave's are masked.  An interrupt would    *)
(* end a hlt, and what follows that one is the code of hwint00.            *)
Irq ==
  /\ pc \in {"process", "exception", "halted"} /\ IF_(cpu.eflags)
  /\ \E line \in 0 .. 7 : EnterKernel(INT_VECTOR_IRQ0 + line)

Sti ==
  /\ pc = "kernel" /\ ~IF_(cpu.eflags)
  /\ cpu' = [cpu EXCEPT !.eflags = \h202]
  /\ UNCHANGED <<tables, proc_table, system, ldtr, pc, p_proc_ready, error>>

(* The way out, whoever the clock handler has chosen.                      *)
Leave ==
  /\ pc = "kernel"
  /\ pc' = "restart" /\ p_proc_ready' \in Proc
  /\ cpu' = [cpu EXCEPT !.eflags = 2]
  /\ UNCHANGED <<tables, proc_table, system, ldtr, error>>

-----------------------------------------------------------------------------
(* The CPU raises an exception; an interrupt gate turns IF off.            *)
Raise(vector, code) ==
  LET frame == <<cpu.eip, cpu.cs, cpu.eflags>> \o <<Junk, Junk, Junk>>
  IN /\ raised' = [vec |-> vector, err |-> code, eip |-> cpu.eip, cs |-> cpu.cs,
                   eflags |-> cpu.eflags]
     /\ stack' = IF code = NoError THEN frame ELSE <<code>> \o frame
     /\ IF GateOpens(vector)
        THEN /\ pc' = "exception"
             /\ cpu' = [cpu EXCEPT !.cs = GateOf(vector).selector, !.eip = Handler(Routine(vector)),
                                   !.ss = IF CPL > 0 THEN tss.ss0 ELSE cpu.ss,
                                   !.eflags = IF GateOf(vector).attr % 2 = 0 THEN 2 ELSE cpu.eflags]
        ELSE pc' = "dead" /\ UNCHANGED cpu
     /\ UNCHANGED <<tables, proc_table, system, ldtr, p_proc_ready, screen>>

(* A fault of whoever runs, or an NMI, even in exception_handler() and in  *)
(* its hlt; no NMI is taken inside of another one.                         *)
Fault ==
  /\ pc \in {"process", "kernel"}
  /\ \E v \in ExceptionVectors :
       \E e \in (IF v \in WithErrorCode THEN ErrorCodes ELSE {NoError}) : Raise(v, e)

Nmi ==
  /\ pc \in {"exception", "halted"} /\ raised.vec # INT_VECTOR_NMI
  /\ Raise(INT_VECTOR_NMI, NoError)

(* int n in a process: no error code, or a protection fault that names the *)
(* gate.                                                                   *)
SoftInt(n) ==
  /\ pc = "process"
  /\ IF GateAllowed(n) THEN Raise(n, NoError)
     ELSE Raise(INT_VECTOR_PROTECTION, n * DescSize + 2)

SoftInts == \E n \in GateVectors \ {INT_VECTOR_SYS_CALL} : SoftInt(n)

(* What divide_error .. copr_error push, top first.                        *)
Stub(vector) == IF vector \in WithErrorCode THEN <<vector>> ELSE <<vector, NoError>>

(* What exception_handler() makes of its arguments.                        *)
Shown(args) ==
  [vec |-> args[1], eflags |-> args[5], cs |-> args[4], eip |-> args[3], err |-> args[2]]

ExceptionHandler ==
  /\ pc = "exception"
  /\ LET args == Stub(Routine(raised.vec)) \o stack
     IN screen' = Shown(args) /\ stack' = SubSeq(args, 3, Len(args))
  /\ pc' = "halted"
  /\ UNCHANGED <<tables, proc_table, system, ldtr, cpu, p_proc_ready, raised>>

Halted == pc = "halted" /\ raised.vec = INT_VECTOR_NMI /\ UNCHANGED vars

Start == CStart \/ LoadTables \/ CsInit \/ KernelMain

Next ==
  \/ Start
  \/ Restart \/ SysCall \/ Irq \/ Sti \/ Leave
  \/ Fault \/ Nmi \/ SoftInts \/ ExceptionHandler
  \/ Halted

Spec == Init /\ [][Next]_vars

-----------------------------------------------------------------------------
Failed == pc \in {"exception", "halted"}

Ports == {\h21, \h40, \h43, \h60, \h64, \h3D4, \h3D5}

(* The types of what changes after the start.                              *)
TypeOK ==
  /\ pc \in {"_start", "lgdt", "csinit", "kernel_main", "restart", "process", "kernel",
             "exception", "halted", "dead"}
  /\ p_proc_ready \in Proc
  /\ Failed => stack # <<>> /\ raised.vec \in ExceptionVectors

(* Whoever runs, the CPU never finds a table, a selector or a gate it      *)
(* refuses: code, data and stack are all of memory, gs is the video memory,*)
(* every gate leads to the routine of its vector, and the system call is   *)
(* open to everybody.                                                      *)
NoFault ==
  /\ pc # "dead"
  /\ pc \in {"process", "kernel"} =>
       /\ \A s \in {cpu.cs, cpu.ds, cpu.es, cpu.ss} : ~IsNull(s) /\ IsFlat(Fetch(s, ldtr))
       /\ \A s \in {cpu.ds, cpu.es, cpu.ss} : IsWritable(Fetch(s, ldtr))
       /\ ~IsNull(cpu.gs) /\ IsWritable(Fetch(cpu.gs, ldtr)) /\ Base(Fetch(cpu.gs, ldtr)) = VideoBase
       /\ \A v \in GateVectors : GateOpens(v) /\ Routine(v) = v
       /\ GateAllowed(INT_VECTOR_SYS_CALL)
  /\ pc = "process" => ldtr.base = LdtAddress(p_proc_ready)

(* exception_handler() shows what happened: the exception, the error code  *)
(* if and only if the CPU gave one, and where it was, also if a process    *)
(* raised it with an int instruction.                                      *)
ExceptionShown == pc = "halted" => screen = raised

(* After an exception nobody runs any more: the handler is not interrupted *)
(* and the hlt behind it lasts.                                            *)
ExceptionIsFinal ==
  [][Failed => Failed']_vars

(* A task may use the ports and turn interrupts off, a user process may    *)
(* not (main.c:30-37), and the kernel never runs at the level of either.   *)
TasksAlone ==
  /\ pc = "process" =>
       LET task == p_proc_ready < NR_TASKS
       IN /\ \A port \in Ports : PortAllowed(port) <=> task
          /\ (CPL <= IOPL(cpu.eflags)) <=> task
          /\ CPL = IF task THEN PRIVILEGE_TASK ELSE PRIVILEGE_USER
  /\ pc = "kernel" => CPL = PRIVILEGE_KRNL
=============================================================================
