-------------------------------- MODULE Boot --------------------------------
(***************************************************************************)
(* From the boot sector to the processes: boot/boot.asm finds and loads    *)
(* loader.bin, boot/loader.asm finds and loads kernel.bin from the same    *)
(* disk, sets up memory and jumps to _start, and the kernel fills its      *)
(* tables and runs.  The parts are in Fat12, Loader and Protect.           *)
(*                                                                         *)
(* What no later program looks at (the disk, once the motor is off; the    *)
(* variables of the loader, once the kernel runs) goes back to one value.  *)
(***************************************************************************)
EXTENDS Naturals, Sequences, FiniteSets

CONSTANTS
  BytsPerSec, SecPerTrk, FATSz, RootDirSectors, EntriesPerSector, EntrySize,
  Clusters, SegSectors,
  LoaderFileName, KernelFileName, OtherNames,
  BiosMaps, Ends, AddressSpace, PerTable, PageDirBase, LowMemory,
  Linked(_),    \* the program headers ld gives a kernel.bin of n sectors
  NR_TASKS, NR_PROCS, LoaderGdt, Gdt, Idt, Tss, ProcTable, Text, ErrorCodes

VARIABLES
  program,      \* which one runs
  files, dir, pc, wRootDirSizeForLoop, wSectorNo, dx, di, buffer, ax, cluster, bx, mem,
  kernel, bios, lpc, ebx, MemChkBuf, dwMCRNumber, dwMemSize, ecx, mapped, ram,
  gdt, idt, tss, proc_table, gdtr, idtr, tr, ldtr, cpu, kpc, p_proc_ready,
  stack, raised, screen

FileNames == {LoaderFileName, KernelFileName}

F(name) == INSTANCE Fat12 WITH Name <- name    \* loading the file of a name
L == INSTANCE Loader WITH file <- mem
P == INSTANCE Protect WITH pc <- kpc

ASSUME BootAssumption ==
  /\ F(LoaderFileName)!DiskAssumption /\ F(KernelFileName)!DiskAssumption
  /\ L!LoaderAssumption /\ P!LayoutAssumption
  /\ \A n \in F(KernelFileName)!FileSizes \ {0} : L!Loadable(Linked(n), n)

disk == <<files, dir>>
search == <<pc, wRootDirSizeForLoop, wSectorNo, dx, di, buffer, ax, cluster, bx>>
memory == <<bios, lpc, ebx, MemChkBuf, dwMCRNumber, dwMemSize, ecx, mapped, ram>>
tables == <<gdt, idt, tss, proc_table, gdtr, idtr, tr, ldtr, cpu, kpc, p_proc_ready,
            stack, raised, screen>>
vars == <<program, disk, search, mem, kernel, memory, tables>>

Built(chain) ==
  [sectors |-> [i \in DOMAIN chain |-> F(KernelFileName)!FirstData + chain[i] - 2],
   phdrs |-> Linked(Len(chain))]

Init ==
  /\ program = "boot"
  /\ F(LoaderFileName)!DiskInit /\ F(LoaderFileName)!SearchInit
  /\ L!LoaderInit /\ P!Init
  /\ kernel = Built(files[KernelFileName])

BootSector ==
  /\ program = "boot" /\ F(LoaderFileName)!Next
  /\ UNCHANGED <<program, kernel, memory, tables>>

(* jmp BaseOfLoader:OffsetOfLoader                                         *)
JumpToLoader ==
  /\ program = "boot" /\ pc = "file_loaded"
  /\ program' = "loader" /\ pc' = "label_start"
  /\ dx' = 0 /\ di' = 0 /\ buffer' = <<>>
  /\ ax' = 0 /\ cluster' = F(LoaderFileName)!Free /\ bx' = 0
  /\ UNCHANGED <<disk, wRootDirSizeForLoop, wSectorNo, mem, kernel, memory, tables>>

LoadKernel ==
  /\ program = "loader" /\ F(KernelFileName)!Next
  /\ UNCHANGED <<program, kernel, memory, tables>>

KillMotor ==
  /\ program = "loader" /\ pc = "file_loaded"
  /\ program' = "memory"
  /\ files' = [n \in FileNames |-> <<>>] /\ dir' = <<>>
  /\ wRootDirSizeForLoop' = 0 /\ wSectorNo' = F(LoaderFileName)!SectorNoOfRootDirectory
  /\ dx' = 0 /\ di' = 0 /\ buffer' = <<>>
  /\ ax' = 0 /\ cluster' = F(LoaderFileName)!Free /\ bx' = 0
  /\ UNCHANGED <<pc, mem, kernel, memory, tables>>

Memory ==
  program = "memory" /\ L!LoaderNext /\ UNCHANGED <<program, disk, search, tables>>

(* jmp SelectorFlatC:KernelEntryPointPhyAddr                               *)
JumpToKernel ==
  /\ program = "memory" /\ lpc = "kernel"
  /\ program' = "kernel"
  /\ kernel' = Built(<<>>) /\ mem' = [s \in DOMAIN mem |-> 0]
  /\ bios' = [map |-> <<>>, end |-> "ebx"]
  /\ MemChkBuf' = <<>> /\ dwMCRNumber' = 0 /\ dwMemSize' = 0
  /\ ebx' = 0 /\ mapped' = 0 /\ ram' = [a \in DOMAIN ram |-> 0]
  /\ UNCHANGED <<disk, search, lpc, ecx, tables>>

Kernel ==
  /\ program = "kernel" /\ P!Next
  /\ UNCHANGED <<program, disk, search, mem, kernel, memory>>

Next ==
  BootSector \/ JumpToLoader \/ LoadKernel \/ KillMotor \/ Memory \/ JumpToKernel \/ Kernel

Booting == BootSector \/ JumpToLoader \/ LoadKernel \/ KillMotor \/ Memory \/ JumpToKernel

(* A step of the start of the kernel: each takes kpc further.              *)
GetsOn ==
  /\ program = "kernel" /\ kpc \in {"_start", "lgdt", "csinit", "kernel_main"}
  /\ kpc' \in {"lgdt", "csinit", "kernel_main", "restart", "dead"}

(* The CPU goes on, at least until the first process is restarted.         *)
Spec == Init /\ [][Next]_vars /\ WF_vars(Booting) /\ WF_kpc(GetsOn)

-----------------------------------------------------------------------------
TypeOK ==
  /\ program \in {"boot", "loader", "memory", "kernel"}
  /\ F(LoaderFileName)!TypeOK /\ L!LoaderTypeOK /\ P!TypeOK

(* Both files are loaded whole and in order, and missed only if they are   *)
(* not there (Fat12.tla).                                                  *)
FileLoaded ==
  /\ program = "boot" => F(LoaderFileName)!FileLoaded
  /\ program = "loader" => F(KernelFileName)!FileLoaded

(* The kernel is entered with its segments in place and its memory mapped  *)
(* (Loader.tla).                                                           *)
KernelReady == program = "memory" => L!KernelReady

(* The CPU finds nothing in the kernel's tables it refuses (Protect.tla).  *)
NoFault == P!NoFault

(* An exception is shown as it happened (Protect.tla).                     *)
ExceptionShown == P!ExceptionShown

(* Nobody runs after an exception (Protect.tla).                           *)
ExceptionIsFinal == P!ExceptionIsFinal

(* Only tasks reach the ports (Protect.tla).                               *)
TasksAlone == P!TasksAlone

(* The first process is restarted in the end, unless a file is not there   *)
(* or the BIOS gave no memory map (KernelReady).                           *)
BootEnds == <>(kpc = "restart" \/ pc = "no_file" \/ lpc = "lost")
=============================================================================
