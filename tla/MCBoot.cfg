SPECIFICATION Spec
CHECK_DEADLOCK FALSE
CONSTANTS
  BytsPerSec = 4
  SecPerTrk = 5
  FATSz = 3
  RootDirSectors = 2
  EntriesPerSector = 2
  EntrySize = 4
  Clusters = 5
  SegSectors = 4
  LoaderFileName <- MCLoader
  KernelFileName <- MCKernel
  OtherNames <- MCOthers
  BiosMaps <- MCMaps
  Ends = {"ebx", "cf"}
  AddressSpace = 32
  PerTable = 4
  PageDirBase = 9
  LowMemory = 4
  Linked <- MCLinked
  NR_TASKS = 1
  NR_PROCS = 3
  LoaderGdt = 590099
  Gdt = 211808
  Idt = 213000
  Tss = 215300
  ProcTable = 215500
  Text = 197632
  ErrorCodes <- MCErrorCodes
INVARIANTS
  TypeOK
  FileLoaded
  KernelReady
  NoFault
  ExceptionShown
  TasksAlone
PROPERTIES
  ExceptionIsFinal
  BootEnds
