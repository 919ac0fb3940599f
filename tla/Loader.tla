------------------------------- MODULE Loader -------------------------------
(***************************************************************************)
(* boot/loader.asm from LABEL_FILE_LOADED to the jump into the kernel: the *)
(* memory map of the BIOS, its size, paging, and the segments of the ELF   *)
(* file that kernel.bin is.                                                *)
(*                                                                         *)
(* Memory is counted in sectors, here the size of a page, too.             *)
(***************************************************************************)
EXTENDS Naturals, Sequences

CONSTANTS
  BiosMaps,      \* what the machine has: sequences of ranges
  Ends,          \* how the BIOS ends the list: "ebx", "cf" or both
  AddressSpace,  \* 4 GB
  PerTable,      \* what a page table maps, 4 MB
  PageDirBase,   \* 1 MB; the page tables follow
  LowMemory      \* kernels are linked to addresses below

AddressRangeMemory == 1
PT_NULL == 0

VARIABLES
  kernel,        \* kernel.bin: its sectors on the disk, its program headers
  file,          \* memory from BaseOfKernelPhyAddr on
  bios,          \* the machine: map, end
  lpc,
  ebx,           \* continuation: entries the BIOS has given
  MemChkBuf, dwMCRNumber, dwMemSize,
  ecx,           \* entries or program headers to come
  mapped,        \* addresses below are mapped to themselves
  ram            \* memory below LowMemory, where the kernel goes

bootvars == <<MemChkBuf, dwMCRNumber, dwMemSize>>
lvars == <<bios, lpc, ebx, bootvars, ecx, mapped, ram>>

(* A machine says of a range of addresses what it is for.                  *)
AddressRange == [base : Nat, length : Nat, type : Nat]

Usable(map, a) ==
  \E i \in DOMAIN map :
    LET r == map[i] IN r.type = AddressRangeMemory /\ a \in r.base .. r.base + r.length - 1

(* The sum of the low words.                                               *)
End(r) == (r.base + r.length) % AddressSpace

(* Deviation: a last page table that is not full is left out.              *)
PageTablesDown(size) == size \div PerTable

PageTables(size) ==
  (size \div PerTable) + (IF size % PerTable = 0 THEN 0 ELSE 1)

Sizes(map) == {0} \union {End(map[i]) : i \in {j \in DOMAIN map : map[j].type = AddressRangeMemory}}

RangesInBuffer == 256 \div 20      \* of MemChkBuf

(* Memory ends below 4 GB, where the ROM is, or begins above; where the    *)
(* page tables go there is memory, as many as the loader may fill.         *)
LoaderAssumption ==
  /\ {AddressSpace, PerTable, PageDirBase, LowMemory} \subseteq Nat \ {0}
  /\ AddressSpace % PerTable = 0
  /\ PageDirBase + (AddressSpace \div PerTable) < AddressSpace
  /\ Ends \subseteq {"ebx", "cf"}
  /\ \A map \in BiosMaps :
       /\ map \in Seq(AddressRange) /\ Len(map) <= RangesInBuffer
       /\ \A i \in DOMAIN map : map[i].type = AddressRangeMemory =>
            map[i].base + map[i].length < AddressSpace \/ map[i].base >= AddressSpace
       /\ map # <<>> => \A size \in Sizes(map) :
            \A a \in PageDirBase .. PageDirBase + PageTables(size) : Usable(map, a)

Addresses(p) == p.vaddr .. p.vaddr + p.filesz - 1

Header == [type : Nat, offset : Nat, vaddr : Nat, filesz : Nat]

(* The program headers of a file of n sectors: its segments are parts of   *)
(* it, linked to addresses of low memory of which no two share one.        *)
Loadable(phdrs, n) ==
  LET loaded == {i \in DOMAIN phdrs : phdrs[i].type # PT_NULL}
  IN /\ phdrs \in Seq(Header) /\ phdrs # <<>>
     /\ \A i \in loaded : /\ phdrs[i].offset + phdrs[i].filesz <= n
                          /\ phdrs[i].vaddr + phdrs[i].filesz <= LowMemory
     /\ \A i, j \in loaded :
          i # j => Addresses(phdrs[i]) \intersect Addresses(phdrs[j]) = {}

LoaderInit ==
  /\ bios = [map |-> <<>>, end |-> "ebx"]
  /\ lpc = "file_loaded" /\ ebx = 0
  /\ MemChkBuf = <<>> /\ dwMCRNumber = 0 /\ dwMemSize = 0
  /\ ecx = 0 /\ mapped = 0
  /\ ram = [a \in 0 .. LowMemory - 1 |-> 0]

(* What the machine has is looked at for the first time.                   *)
LabelFileLoaded ==
  /\ lpc = "file_loaded" /\ lpc' = "mem_chk"
  /\ ebx' = 0
  /\ bios' \in [map : BiosMaps, end : Ends]
  /\ UNCHANGED <<bootvars, ecx, mapped, ram>>

(* int 15h, E820h: a range of the map, and what to go on with, or CF.      *)
Carry == ebx = Len(bios.map)
IsLast == bios.end = "ebx" /\ ebx + 1 = Len(bios.map)

(* The list is complete with ebx = 0; CF, wherever it comes, voids it.     *)
MemChk ==
  /\ lpc = "mem_chk"
  /\ IF Carry
     THEN /\ dwMCRNumber' = 0
          /\ lpc' = "disp_mem_size" /\ ecx' = 0
          /\ UNCHANGED <<ebx, MemChkBuf>>
     ELSE /\ MemChkBuf' = Append(MemChkBuf, bios.map[ebx + 1])
          /\ dwMCRNumber' = dwMCRNumber + 1
          /\ ebx' = IF IsLast THEN 0 ELSE ebx + 1
          /\ IF IsLast THEN lpc' = "disp_mem_size" /\ ecx' = dwMCRNumber'
             ELSE UNCHANGED <<lpc, ecx>>
  /\ UNCHANGED <<bios, dwMemSize, mapped, ram>>

(* One turn of the loop; loop counts before it tests, and with 0 it does   *)
(* not come back.  The high words are stored, but not looked at.           *)
DispMemSize ==
  /\ lpc = "disp_mem_size"
  /\ IF ecx = 0
     THEN lpc' = "lost" /\ UNCHANGED <<ecx, dwMemSize>>
     ELSE LET r == MemChkBuf[dwMCRNumber - ecx + 1]
          IN /\ dwMemSize' = IF r.type = AddressRangeMemory /\ End(r) >= dwMemSize
                             THEN End(r) ELSE dwMemSize
             /\ ecx' = ecx - 1
             /\ lpc' = IF ecx' = 0 THEN "setup_paging" ELSE lpc
  /\ UNCHANGED <<bios, ebx, MemChkBuf, dwMCRNumber, mapped, ram>>

(* The directory and the tables are filled by loop, too.                   *)
SetupPaging ==
  /\ lpc = "setup_paging"
  /\ mapped' = PageTables(dwMemSize) * PerTable
  /\ lpc' = IF mapped' = 0 THEN "lost" ELSE "init_kernel"
  /\ ecx' = Len(kernel.phdrs)
  /\ UNCHANGED <<bios, ebx, bootvars, ram>>

(* The program headers, if the ELF header is where it belongs.             *)
ProgramHeader(i) == kernel.phdrs[i]
IsElf == kernel.sectors # <<>> /\ file[0] = kernel.sectors[1]

(* One turn of the loop: MemCpy of a segment.                              *)
InitKernel ==
  /\ lpc = "init_kernel"
  /\ IF ~IsElf \/ ecx = 0
     THEN lpc' = "lost" /\ UNCHANGED <<ecx, ram>>
     ELSE LET p == ProgramHeader(Len(kernel.phdrs) - ecx + 1)
          IN /\ ram' = IF p.type = PT_NULL THEN ram
                       ELSE [a \in DOMAIN ram |->
                               IF a \in Addresses(p)
                               THEN file[p.offset + a - p.vaddr] ELSE ram[a]]
             /\ ecx' = ecx - 1
             /\ lpc' = IF ecx' = 0 THEN "kernel" ELSE lpc
  /\ UNCHANGED <<bios, ebx, bootvars, mapped>>

LoaderNext ==
  /\ LabelFileLoaded \/ MemChk \/ DispMemSize \/ SetupPaging \/ InitKernel
  /\ UNCHANGED <<kernel, file>>

-----------------------------------------------------------------------------
LoaderTypeOK ==
  /\ lpc \in {"file_loaded", "mem_chk", "disp_mem_size", "setup_paging", "init_kernel",
              "kernel", "lost"}
  /\ dwMCRNumber \in 0 .. Len(MemChkBuf)
  /\ dwMemSize \in 0 .. AddressSpace - 1
  /\ mapped \in 0 .. AddressSpace

(* When the kernel is jumped to, each of its segments is where it was      *)
(* linked to; all memory below 4 GB is mapped, and the page tables lie in  *)
(* it.  The loader gets lost only with a BIOS that gives no list, or ends  *)
(* it with CF.                                                             *)
KernelReady ==
  /\ lpc = "kernel" =>
       /\ \A i \in DOMAIN kernel.phdrs :
            LET p == kernel.phdrs[i]
            IN p.type # PT_NULL =>
                 \A k \in 0 .. p.filesz - 1 : ram[p.vaddr + k] = kernel.sectors[p.offset + k + 1]
       /\ \A a \in 0 .. AddressSpace - 1 : Usable(bios.map, a) => a < mapped
       /\ \A a \in PageDirBase .. PageDirBase + (mapped \div PerTable) : Usable(bios.map, a) /\ a < mapped
  /\ lpc = "lost" => bios.map = <<>> \/ bios.end = "cf"
=============================================================================
