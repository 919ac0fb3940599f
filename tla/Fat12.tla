------------------------------- MODULE Fat12 --------------------------------
(***************************************************************************)
(* boot/boot.asm looks for loader.bin in the root directory of a FAT12     *)
(* disk, follows its chain of clusters and loads it; boot/loader.asm does  *)
(* the same with kernel.bin, in the same code up to the names and the      *)
(* place in memory.  Boot.tla has an instance for each.                    *)
(*                                                                         *)
(* A cluster is a sector.  A read that fails is repeated until it does not *)
(* (jc .GoOnReading), which is a stuttering step.                          *)
(***************************************************************************)
EXTENDS Naturals, Sequences

CONSTANTS
  BytsPerSec, SecPerTrk, FATSz, RootDirSectors,
  EntriesPerSector,  \* 512 / 32
  EntrySize,         \* 32
  Name,              \* LoaderFileName or KernelFileName
  FileNames,         \* of the files that may be on the disk
  OtherNames,        \* of entries without a cluster, such as a volume label
  Clusters,          \* number of data sectors
  SegSectors         \* sectors that fit between where bx starts and 64 KB:
                     \* 128 from 0 on, 127 from 0100h on

SectorNoOfFAT1 == 1
SectorNoOfRootDirectory == SectorNoOfFAT1 + 2 * FATSz

DeltaSectorNo == SectorNoOfRootDirectory - 2

FirstData == SectorNoOfRootDirectory + RootDirSectors

Cluster == 2 .. Clusters + 1
EOF == \hFFF
Free == 0

(* The first FAT and the sector behind it, which is read with its last one, *)
(* are in the first track; the FAT has an entry for every cluster, and no  *)
(* cluster is numbered like the end of a chain; names are of one length,   *)
(* 11 characters, which an entry begins with.                              *)
DiskAssumption ==
  /\ {BytsPerSec, SecPerTrk, FATSz, RootDirSectors, EntriesPerSector, EntrySize,
      Clusters, SegSectors}
       \subseteq Nat \ {0}
  /\ SectorNoOfFAT1 + FATSz < SecPerTrk
  /\ 3 * (Clusters + 2) <= 2 * FATSz * BytsPerSec
  /\ Clusters + 1 < EOF
  /\ Name \in FileNames /\ FileNames \intersect OtherNames = {}
  /\ \A n \in FileNames \union OtherNames : n \in Seq(STRING) /\ Len(n) = Len(Name)
  /\ Len(Name) < EntrySize

VARIABLES
  files, dir,           \* the disk: clusters of each file, root directory
  pc,
  wRootDirSizeForLoop, wSectorNo,
  dx, di,               \* entries of the sector not looked at; into buffer
  buffer,               \* the directory sector read last
  ax, cluster, bx,      \* sector to read; its cluster, pushed; where to
  mem                   \* from OffsetOfLoader on, in sectors

disk == <<files, dir>>
search == <<wRootDirSizeForLoop, wSectorNo, dx, di, buffer>>
load == <<ax, cluster, bx, mem>>
vars == <<disk, pc, search, load>>

-----------------------------------------------------------------------------
(* What FAT12 puts on the disk: three bytes for two entries.               *)
Entry(c) ==
  IF \E n \in FileNames : \E i \in DOMAIN files[n] : files[n][i] = c
  THEN LET n == CHOOSE n \in FileNames : \E i \in DOMAIN files[n] : files[n][i] = c
           i == CHOOSE i \in DOMAIN files[n] : files[n][i] = c
       IN IF i = Len(files[n]) THEN EOF ELSE files[n][i + 1]
  ELSE Free

FATByte(b) ==
  LET c == 2 * (b \div 3)
  IN CASE b % 3 = 0 -> Entry(c) % 256
       [] b % 3 = 1 -> (Entry(c) \div 256) + 16 * (Entry(c + 1) % 16)
       [] b % 3 = 2 -> Entry(c + 1) \div 16

(* Sector s: bytes of one of the two FATs, entries, or a sector of data.   *)
Sector(s) ==
  IF s < SectorNoOfRootDirectory
  THEN LET f == (s - SectorNoOfFAT1) % FATSz
       IN [b \in 0 .. BytsPerSec - 1 |-> FATByte(f * BytsPerSec + b)]
  ELSE IF s < FirstData
  THEN [e \in 0 .. EntriesPerSector - 1 |->
          dir[(s - SectorNoOfRootDirectory) * EntriesPerSector + e]]
  ELSE s

(* The drive: cylinder, head and sector, of which the last counts from 1.  *)
Int13(ch, dh, cl) == Sector((2 * ch + dh) * SecPerTrk + cl - 1)

(* ReadSector.                                                             *)
ReadSector(s) ==
  LET track == s \div SecPerTrk
  IN Int13(track \div 2, track % 2, (s % SecPerTrk) + 1)

(* From a byte on: the low 12 bits; from the middle of one: the high ones.  *)
FATEntryOf(bOdd, word) == IF bOdd THEN word \div 16 ELSE word % \h1000

(* GetFATEntry: two sectors, since an entry may lie in both.               *)
GetFATEntry(c) ==
  LET offset == (c * 3) \div 2
      bOdd == (c * 3) % 2 = 1
      sector == (offset \div BytsPerSec) + SectorNoOfFAT1
      Byte(b) == IF b < BytsPerSec THEN ReadSector(sector)[b]
                 ELSE ReadSector(sector + 1)[b - BytsPerSec]
      word == Byte(offset % BytsPerSec) + 256 * Byte((offset % BytsPerSec) + 1)
  IN FATEntryOf(bOdd, word)

-----------------------------------------------------------------------------
DirEntries == 0 .. RootDirSectors * EntriesPerSector - 1

(* Lengths of a file: the disk may be larger than a segment, a file not.   *)
FileSizes == {n \in 0 .. Clusters : n <= SegSectors}

Chains == {f \in UNION {[1 .. n -> Cluster] : n \in FileSizes} :
             \A i, j \in DOMAIN f : f[i] = f[j] => i = j}

(* Any disk: the files in any clusters in any order, at any place in the   *)
(* directory or not at all, other names anywhere else.                     *)
DiskInit ==
  /\ files \in {f \in [FileNames -> Chains] :
       \A m, n \in FileNames : m # n =>
         \A i \in DOMAIN f[m], j \in DOMAIN f[n] : f[m][i] # f[n][j]}
  /\ dir \in [DirEntries ->
       [name : OtherNames, FstClus : {Free}]
         \union {[name |-> n, FstClus |-> files[n][1]] : n \in {m \in FileNames : files[m] # <<>>}}]
  /\ \A n \in FileNames : files[n] # <<>> =>
       \E d \in DirEntries : \A e \in DirEntries : dir[e].name = n <=> e = d

SearchInit ==
  /\ pc = "label_start"
  /\ wRootDirSizeForLoop = 0 /\ wSectorNo = SectorNoOfRootDirectory
  /\ dx = 0 /\ di = 0 /\ buffer = <<>>
  /\ ax = 0 /\ cluster = Free /\ bx = 0
  /\ mem = [s \in 0 .. SegSectors - 1 |-> 0]

(* Each of the two programs has these variables, and a segment to load to, *)
(* of its own.                                                             *)
LabelStart ==
  /\ pc = "label_start"
  /\ pc' = "search_in_root_dir"
  /\ wRootDirSizeForLoop' = RootDirSectors
  /\ wSectorNo' = SectorNoOfRootDirectory
  /\ mem' = [s \in DOMAIN mem |-> 0]
  /\ UNCHANGED <<disk, dx, di, buffer, ax, cluster, bx>>

(* Deviation: the count goes down before it is tested.                     *)
SearchInRootDirLate ==
  /\ pc = "search_in_root_dir"
  /\ wRootDirSizeForLoop' = wRootDirSizeForLoop - 1
  /\ buffer' = ReadSector(wSectorNo)
  /\ di' = 0
  /\ dx' = EntriesPerSector
  /\ pc' = IF wRootDirSizeForLoop = 0 THEN "no_file"
           ELSE "search_for_loaderbin"
  /\ UNCHANGED <<disk, wSectorNo, load>>

SearchInRootDir ==
  /\ pc = "search_in_root_dir"
  /\ IF wRootDirSizeForLoop = 0
     THEN pc' = "no_file" /\ UNCHANGED search
     ELSE /\ wRootDirSizeForLoop' = wRootDirSizeForLoop - 1
          /\ buffer' = ReadSector(wSectorNo)
          /\ di' = 0
          /\ dx' = EntriesPerSector
          /\ pc' = "search_for_loaderbin"
          /\ UNCHANGED wSectorNo
  /\ UNCHANGED <<disk, load>>

(* Deviation: the last entry of a sector is not looked at.                 *)
SectorDoneEarly(n) == n <= 1

SectorDone(n) == n = 0

ChainEnds(c) == c = EOF

(* How many characters of an entry's name are compared as equal.           *)
Matching(name) ==
  CHOOSE n \in 0 .. Len(Name) :
    /\ \A i \in 1 .. n : name[i] = Name[i]
    /\ n < Len(Name) => name[n + 1] # Name[n + 1]

(* di &= 0FFE0h.                                                           *)
EntryStart(d) == d - (d % EntrySize)

SearchForLoaderbin ==
  /\ pc = "search_for_loaderbin"
  /\ IF SectorDone(dx)
     THEN /\ wSectorNo' = wSectorNo + 1
          /\ pc' = "search_in_root_dir"
          /\ UNCHANGED <<wRootDirSizeForLoop, dx, di, buffer, load>>
     ELSE LET d == di + Matching(buffer[di \div EntrySize].name) IN
          /\ dx' = dx - 1
          /\ IF d - di = Len(Name)
             THEN /\ di' = d
                  /\ pc' = "goon_loading_file"
                  /\ cluster' = buffer[EntryStart(d) \div EntrySize].FstClus
                  /\ ax' = cluster' + RootDirSectors + DeltaSectorNo
                  /\ bx' = 0
                  /\ UNCHANGED mem
             ELSE /\ di' = EntryStart(d) + EntrySize
                  /\ UNCHANGED <<pc, load>>
          /\ UNCHANGED <<wRootDirSizeForLoop, wSectorNo, buffer>>
  /\ UNCHANGED disk

(* Deviation: the cluster pushed is the one just read, not the next.       *)
GoonLoadingFileStale ==
  /\ pc = "goon_loading_file"
  /\ mem' = [mem EXCEPT ![bx] = ReadSector(ax)]
  /\ LET next == GetFATEntry(cluster) IN
     IF ChainEnds(next)
     THEN pc' = "file_loaded" /\ UNCHANGED <<ax, cluster, bx>>
     ELSE /\ ax' = next + RootDirSectors + DeltaSectorNo
          /\ bx' = (bx + 1) % SegSectors
          /\ UNCHANGED <<pc, cluster>>
  /\ UNCHANGED <<disk, search>>

(* A sector is read and the next one looked up; bx has 16 bits.            *)
GoonLoadingFile ==
  /\ pc = "goon_loading_file"
  /\ mem' = [mem EXCEPT ![bx] = ReadSector(ax)]
  /\ cluster' = GetFATEntry(cluster)
  /\ IF ChainEnds(cluster')
     THEN pc' = "file_loaded" /\ UNCHANGED <<ax, bx>>
     ELSE /\ ax' = cluster' + RootDirSectors + DeltaSectorNo
          /\ bx' = (bx + 1) % SegSectors
          /\ UNCHANGED pc
  /\ UNCHANGED <<disk, search>>

Next == LabelStart \/ SearchInRootDir \/ SearchForLoaderbin \/ GoonLoadingFile

-----------------------------------------------------------------------------
TypeOK ==
  /\ pc \in {"label_start", "search_in_root_dir", "search_for_loaderbin",
             "goon_loading_file", "file_loaded", "no_file"}
  /\ wRootDirSizeForLoop \in 0 .. RootDirSectors
  /\ wSectorNo \in SectorNoOfRootDirectory .. FirstData
  /\ dx \in 0 .. EntriesPerSector
  /\ di \in 0 .. EntriesPerSector * EntrySize
  /\ pc = "search_for_loaderbin" => DOMAIN buffer = 0 .. EntriesPerSector - 1
  /\ ax \in {0} \union (FirstData .. FirstData + Clusters - 1)
  /\ cluster \in Cluster \union {Free, EOF}
  /\ bx \in 0 .. SegSectors - 1
  /\ mem \in [0 .. SegSectors - 1 -> 0 .. FirstData + Clusters - 1]

(* What is loaded is the file, whole and in order, however its clusters    *)
(* lie on the disk and their entries in the bytes and sectors of the FAT;  *)
(* the search gives up only if the file is not in the directory.           *)
FileLoaded ==
  /\ pc = "file_loaded" =>
       \A i \in DOMAIN files[Name] : mem[i - 1] = FirstData + files[Name][i] - 2
  /\ pc = "no_file" => \A d \in DirEntries : dir[d].name # Name
=============================================================================
