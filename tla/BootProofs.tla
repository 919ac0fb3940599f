----------------------------- MODULE BootProofs -----------------------------
(***************************************************************************)
(* Proofs about Boot.tla, for any disk, any memory map, and any number of  *)
(* tasks and user processes, under BootAssumption.                         *)
(*                                                                         *)
(* The invariant BootInv goes along with the program that runs:            *)
(*   FileInv    what was looked at of the directory is not the file, and   *)
(*              what was loaded are the first sectors of its chain         *)
(*   MemoryInv  what was read of the memory map is in MemChkBuf and was    *)
(*              measured, and the segments of the first program headers    *)
(*              are where they were linked to                              *)
(*   KernelInv  each step of the start leaves its tables filled, and       *)
(*              registers and stack are those of the process, of the       *)
(*              kernel, or of the exception                                *)
(* BootInvariant puts them together; the theorems at the end follow.       *)
(***************************************************************************)
EXTENDS Boot, Induction, SequenceTheorems, TLAPS

(* Quotient and remainder.                                                 *)
LEMMA Division ==
  ASSUME NEW a \in Nat, NEW b \in Nat \ {0}
  PROVE  /\ a = b * (a \div b) + (a % b)
         /\ a \div b \in Nat /\ a % b \in Nat /\ a % b < b
BY SMT

(* The quotient and the remainder of a number written with both.           *)
LEMMA Quotient ==
  ASSUME NEW q \in Nat, NEW b \in Nat \ {0}, NEW r \in Nat, r < b
  PROVE  (q * b + r) \div b = q /\ (q * b + r) % b = r
BY SMT

(* Either program reads a disk as BootAssumption describes it.             *)
LEMMA Disk ==
  ASSUME NEW n \in FileNames
  PROVE  F(n)!DiskAssumption
<1>1. F(LoaderFileName)!DiskAssumption /\ F(KernelFileName)!DiskAssumption
  BY BootAssumption
<1> QED
  BY <1>1 DEF FileNames

(* The sizes and places of that disk, as numbers.                          *)
LEMMA Sizes ==
  ASSUME NEW n \in FileNames
  PROVE  /\ BytsPerSec \in Nat \ {0} /\ SecPerTrk \in Nat \ {0} /\ FATSz \in Nat \ {0}
         /\ RootDirSectors \in Nat \ {0} /\ EntriesPerSector \in Nat \ {0}
         /\ Clusters \in Nat \ {0} /\ SegSectors \in Nat \ {0}
         /\ Clusters + 1 < 4095
         /\ F(n)!SectorNoOfRootDirectory = 1 + 2 * FATSz
         /\ F(n)!FirstData = 1 + 2 * FATSz + RootDirSectors
         /\ F(n)!EOF = 4095 /\ F(n)!Free = 0
         /\ EntrySize \in Nat \ {0} /\ Len(n) < EntrySize /\ Len(n) \in Nat
<1>1. F(n)!DiskAssumption
  BY Disk
<1>2. n \in Seq(STRING)
  BY <1>1 DEF F!DiskAssumption
<1>3. Len(n) \in Nat
  BY <1>2, LenProperties
<1> QED
  BY SMT, <1>1, <1>3 DEF F!DiskAssumption, F!SectorNoOfRootDirectory, F!SectorNoOfFAT1,
     F!FirstData,
     F!EOF, F!Free

(* The cylinder, head and sector of a sector are its own.                  *)
LEMMA SectorIsRead ==
  ASSUME NEW n \in FileNames, NEW s \in Nat
  PROVE  F(n)!ReadSector(s) = F(n)!Sector(s)
<1> DEFINE t == s \div SecPerTrk
<1>1. SecPerTrk \in Nat \ {0}
  BY Sizes
<1>2. s = SecPerTrk * t + (s % SecPerTrk) /\ t \in Nat /\ s % SecPerTrk \in Nat
  BY <1>1, Division
<1> HIDE DEF t
<1>3. 2 * (t \div 2) + (t % 2) = t
  BY SMT, <1>2
<1>4. (2 * (t \div 2) + (t % 2)) * SecPerTrk + ((s % SecPerTrk) + 1) - 1 = s
  BY SMT, <1>1, <1>2, <1>3
<1> QED
  BY <1>4 DEF F!ReadSector, F!Int13, t

-----------------------------------------------------------------------------
(* The clusters of a file are clusters, each in one place of one file.     *)
LEMMA ChainProperties ==
  ASSUME NEW n \in FileNames, F(n)!DiskInit, NEW m \in FileNames
  PROVE  /\ Len(files[m]) \in 0 .. Clusters /\ Len(files[m]) <= SegSectors
         /\ DOMAIN files[m] = 1 .. Len(files[m])
         /\ \A i \in DOMAIN files[m] : files[m][i] \in 2 .. Clusters + 1
         /\ \A i, j \in DOMAIN files[m] : files[m][i] = files[m][j] => i = j
         /\ \A k \in FileNames \ {m} : \A i \in DOMAIN files[m], j \in DOMAIN files[k] :
              files[m][i] # files[k][j]
         /\ files[m] # <<>> <=> Len(files[m]) > 0
<1>1. files[m] \in F(n)!Chains
  BY DEF F!DiskInit
<1>2. PICK k \in F(n)!FileSizes : files[m] \in [1 .. k -> F(n)!Cluster]
  BY <1>1 DEF F!Chains
<1>3. k \in Nat /\ k \in 0 .. Clusters /\ k <= SegSectors
  BY <1>2, Sizes DEF F!FileSizes
<1>4. Len(files[m]) = k /\ DOMAIN files[m] = 1 .. k
  BY <1>2, <1>3
<1>5. \A i, j \in DOMAIN files[m] : files[m][i] = files[m][j] => i = j
  BY <1>1 DEF F!Chains
<1>6. \A k2 \in FileNames \ {m} : \A i \in DOMAIN files[m], j \in DOMAIN files[k2] :
              files[m][i] # files[k2][j]
  BY DEF F!DiskInit
<1>7. \A i \in DOMAIN files[m] : files[m][i] \in 2 .. Clusters + 1
  BY <1>2 DEF F!Cluster
<1>8. files[m] # <<>> <=> k > 0
  BY <1>2, <1>3, <1>4
<1> QED
  BY <1>3, <1>4, <1>5, <1>6, <1>7, <1>8

(* What the FAT says of a cluster of a file: the next, or that it is the   *)
(* last.                                                                   *)
LEMMA EntryInChain ==
  ASSUME NEW n \in FileNames, F(n)!DiskInit, NEW m \in FileNames, NEW i \in DOMAIN files[m]
  PROVE  F(n)!Entry(files[m][i]) = IF i = Len(files[m]) THEN F(n)!EOF ELSE files[m][i + 1]
<1> DEFINE c == files[m][i]
           M == CHOOSE k \in FileNames : \E j \in DOMAIN files[k] : files[k][j] = c
           I == CHOOSE j \in DOMAIN files[M] : files[M][j] = c
<1>1. \E k \in FileNames : \E j \in DOMAIN files[k] : files[k][j] = c
  OBVIOUS
<1>2. \E j \in DOMAIN files[M] : files[M][j] = c /\ M \in FileNames
  BY <1>1
<1>3. M = m
  BY <1>2, ChainProperties
<1>4. I \in DOMAIN files[m] /\ files[m][I] = c
  BY <1>2, <1>3
<1>5. I = i
  BY <1>4, ChainProperties
<1>6. F(n)!Entry(c) = IF I = Len(files[M]) THEN F(n)!EOF ELSE files[M][I + 1]
  BY <1>1 DEF F!Entry
<1> QED
  BY <1>3, <1>5, <1>6

(* An entry of the FAT has 12 bits.                                        *)
LEMMA EntryType ==
  ASSUME NEW n \in FileNames, F(n)!DiskInit, NEW c
  PROVE  F(n)!Entry(c) \in Nat /\ F(n)!Entry(c) < 4096
<1>1. CASE \E m \in FileNames : \E i \in DOMAIN files[m] : files[m][i] = c
  <2>4. PICK m \in FileNames : \E i \in DOMAIN files[m] : files[m][i] = c
    BY <1>1
  <2>1. PICK i \in DOMAIN files[m] : files[m][i] = c
    BY <2>4
  <2>2. F(n)!Entry(c) = IF i = Len(files[m]) THEN F(n)!EOF ELSE files[m][i + 1]
    BY <2>1, EntryInChain
  <2>3. i # Len(files[m]) => i + 1 \in DOMAIN files[m]
    BY ChainProperties
  <2>5. /\ F(n)!EOF = 4095 /\ Clusters + 1 < 4095 /\ Clusters \in Nat
        /\ \A j \in DOMAIN files[m] : files[m][j] \in 2 .. Clusters + 1
    BY Sizes, ChainProperties
  <2> QED
    BY <2>2, <2>3, <2>5
<1>2. CASE ~(\E m \in FileNames : \E i \in DOMAIN files[m] : files[m][i] = c)
  BY <1>2 DEF F!Entry, F!Free
<1> QED
  BY <1>1, <1>2

(* Two entries in three bytes: the low 12 bits of the first two bytes, the *)
(* high 12 of the last two.                                                *)
LEMMA FATBits ==
  ASSUME NEW e \in Nat, NEW o \in Nat, e < 4096, o < 4096
  PROVE  /\ ((e % 256) + 256 * ((e \div 256) + 16 * (o % 16))) % 4096 = e
         /\ (((e \div 256) + 16 * (o % 16)) + 256 * (o \div 16)) \div 16 = o
BY SMT

(* The entry of a cluster begins with its pair's first byte, or in the     *)
(* middle of the second.                                                   *)
LEMMA FATOffsets ==
  ASSUME NEW c \in Nat
  PROVE  LET b == (c * 3) \div 2
         IN /\ b \in Nat /\ 2 * b <= 3 * c
            /\ (c * 3) % 2 # 1 => b % 3 = 0 /\ (b + 1) % 3 = 1
                                  /\ 2 * (b \div 3) = c /\ 2 * ((b + 1) \div 3) = c
            /\ (c * 3) % 2 = 1 => b % 3 = 1 /\ (b + 1) % 3 = 2
                                  /\ 2 * (b \div 3) + 1 = c /\ 2 * ((b + 1) \div 3) + 1 = c
BY SMT

(* Byte b of the FAT is where it is looked for.                            *)
LEMMA FATByteIsRead ==
  ASSUME NEW n \in FileNames, NEW b \in Nat, b < FATSz * BytsPerSec
  PROVE  F(n)!ReadSector((b \div BytsPerSec) + 1)[b % BytsPerSec] = F(n)!FATByte(b)
<1> DEFINE f == b \div BytsPerSec
           r == b % BytsPerSec
<1>1. /\ BytsPerSec \in Nat \ {0} /\ FATSz \in Nat \ {0}
      /\ F(n)!SectorNoOfRootDirectory = 1 + 2 * FATSz
  BY Sizes
<1>2. b = BytsPerSec * f + r /\ f \in Nat /\ r \in Nat /\ r < BytsPerSec
  BY <1>1, Division
<1> HIDE DEF f, r
<1>3. f < FATSz
  <2> SUFFICES ASSUME f >= FATSz PROVE FALSE
    BY <1>1, <1>2
  <2>1. BytsPerSec * f >= BytsPerSec * FATSz
    BY SMT, <1>1, <1>2
  <2> QED
    BY SMT, <1>1, <1>2, <2>1
<1>4. f % FATSz = f /\ f + 1 \in Nat /\ f + 1 < F(n)!SectorNoOfRootDirectory /\ (f + 1) - 1 = f
  BY SMT, <1>1, <1>2, <1>3
<1>5. F(n)!ReadSector(f + 1) = F(n)!Sector(f + 1)
  BY <1>4, SectorIsRead
<1>6. F(n)!Sector(f + 1) = [k \in 0 .. BytsPerSec - 1 |-> F(n)!FATByte(f * BytsPerSec + k)]
  BY <1>4 DEF F!Sector, F!SectorNoOfFAT1
<1>7. r \in 0 .. BytsPerSec - 1 /\ f * BytsPerSec + r = b
  BY SMT, <1>1, <1>2
<1> QED
  BY <1>5, <1>6, <1>7 DEF f, r

(* GetFATEntry finds what the FAT says.                                    *)
LEMMA FATEntryIsGot ==
  ASSUME NEW n \in FileNames, F(n)!DiskInit, NEW c \in 2 .. Clusters + 1
  PROVE  F(n)!GetFATEntry(c) = F(n)!Entry(c)
<1> DEFINE b == (c * 3) \div 2
           B(k) == IF k < BytsPerSec THEN F(n)!ReadSector((b \div BytsPerSec) + 1)[k]
                   ELSE F(n)!ReadSector((b \div BytsPerSec) + 1 + 1)[k - BytsPerSec]
<1>1. BytsPerSec \in Nat \ {0} /\ FATSz \in Nat \ {0} /\ c \in Nat /\ Clusters \in Nat
  BY Sizes
<1>2. 3 * (Clusters + 2) <= 2 * FATSz * BytsPerSec
  BY Disk DEF F!DiskAssumption
<1>3. F(n)!GetFATEntry(c) =
        F(n)!FATEntryOf((c * 3) % 2 = 1, B(b % BytsPerSec) + 256 * B((b % BytsPerSec) + 1))
  BY SMT DEF F!GetFATEntry, F!SectorNoOfFAT1
<1>4. /\ b \in Nat /\ 2 * b <= 3 * c
      /\ (c * 3) % 2 # 1 => b % 3 = 0 /\ (b + 1) % 3 = 1
                            /\ 2 * (b \div 3) = c /\ 2 * ((b + 1) \div 3) = c
      /\ (c * 3) % 2 = 1 => b % 3 = 1 /\ (b + 1) % 3 = 2
                            /\ 2 * (b \div 3) + 1 = c /\ 2 * ((b + 1) \div 3) + 1 = c
  BY <1>1, FATOffsets
<1> HIDE DEF b
<1>5. b < FATSz * BytsPerSec /\ b + 1 < FATSz * BytsPerSec
  <2> DEFINE P2 == FATSz * BytsPerSec
  <2>1. P2 \in Nat /\ 2 * P2 = 2 * FATSz * BytsPerSec
    BY SMT, <1>1
  <2> HIDE DEF P2
  <2>2. b < P2 /\ b + 1 < P2
    BY SMT, <1>1, <1>2, <1>4, <2>1
  <2> QED
    BY <2>2 DEF P2
<1>6. B(b % BytsPerSec) = F(n)!FATByte(b)
  BY <1>1, <1>4, <1>5, Division, FATByteIsRead
<1>7. B((b % BytsPerSec) + 1) = F(n)!FATByte(b + 1)
  <2> DEFINE q == b \div BytsPerSec
             r == b % BytsPerSec
  <2>1. b = BytsPerSec * q + r /\ q \in Nat /\ r \in Nat /\ r < BytsPerSec
    BY <1>1, <1>4, Division
  <2>2. F(n)!ReadSector(((b + 1) \div BytsPerSec) + 1)[(b + 1) % BytsPerSec] = F(n)!FATByte(b + 1)
    BY <1>4, <1>5, FATByteIsRead
  <2>3. CASE r + 1 < BytsPerSec
    <3> HIDE DEF q, r
    <3>1. b + 1 = q * BytsPerSec + (r + 1)
      BY SMT, <1>1, <2>1
    <3>2. (b + 1) \div BytsPerSec = q /\ (b + 1) % BytsPerSec = r + 1
      BY <1>1, <2>1, <2>3, <3>1, Quotient
    <3> QED
      BY <2>2, <2>3, <3>2 DEF q, r
  <2>4. CASE r + 1 = BytsPerSec
    <3> HIDE DEF q, r
    <3>1. b + 1 = (q + 1) * BytsPerSec + 0
      BY SMT, <1>1, <2>1, <2>4
    <3>2. (b + 1) \div BytsPerSec = q + 1 /\ (b + 1) % BytsPerSec = 0
      BY <1>1, <2>1, <3>1, Quotient
    <3>3. (r + 1) - BytsPerSec = 0 /\ ~(r + 1 < BytsPerSec)
      BY <1>1, <2>1, <2>4
    <3> QED
      BY <2>2, <3>2, <3>3 DEF q, r
  <2> QED
    BY <1>1, <2>1, <2>3, <2>4
<1> DEFINE word == F(n)!FATByte(b) + 256 * F(n)!FATByte(b + 1)
<1>8. F(n)!GetFATEntry(c) = F(n)!FATEntryOf((c * 3) % 2 = 1, word)
  BY <1>3, <1>6, <1>7
<1>9. CASE (c * 3) % 2 = 1
  <2> DEFINE e == F(n)!Entry(2 * (b \div 3))
             o == F(n)!Entry(c)
  <2>1. e \in Nat /\ e < 4096 /\ o \in Nat /\ o < 4096
    BY EntryType
  <2>2. F(n)!FATByte(b) = (e \div 256) + 16 * (o % 16)
    BY <1>4, <1>9 DEF F!FATByte
  <2>3. F(n)!FATByte(b + 1) = o \div 16
    BY <1>4, <1>9 DEF F!FATByte
  <2>4. F(n)!GetFATEntry(c) = word \div 16
    BY <1>8, <1>9 DEF F!FATEntryOf
  <2> HIDE DEF e, o
  <2>5. word \div 16 = o
    BY <2>1, <2>2, <2>3, FATBits
  <2> QED
    BY <2>4, <2>5 DEF o
<1>10. CASE (c * 3) % 2 # 1
  <2> DEFINE e == F(n)!Entry(c)
             o == F(n)!Entry(c + 1)
  <2>1. e \in Nat /\ e < 4096 /\ o \in Nat /\ o < 4096
    BY EntryType
  <2>2. F(n)!FATByte(b) = e % 256
    BY <1>4, <1>10 DEF F!FATByte
  <2>3. F(n)!FATByte(b + 1) = (e \div 256) + 16 * (o % 16)
    BY <1>4, <1>10 DEF F!FATByte
  <2>4. F(n)!GetFATEntry(c) = word % 4096
    BY <1>8, <1>10 DEF F!FATEntryOf
  <2> HIDE DEF e, o
  <2>5. word % 4096 = e
    BY <2>1, <2>2, <2>3, FATBits
  <2> QED
    BY <2>4, <2>5 DEF e
<1> QED
  BY <1>9, <1>10

-----------------------------------------------------------------------------
(* A name is told from others of its length by the first that differs.     *)
LEMMA NameMatches ==
  ASSUME NEW n \in FileNames, NEW name \in FileNames \union OtherNames
  PROVE  /\ F(n)!Matching(name) \in 0 .. Len(n)
         /\ F(n)!Matching(name) = Len(n) <=> name = n
<1> DEFINE Q(k) == /\ \A i \in 1 .. k : name[i] = n[i]
                   /\ k < Len(n) => name[k + 1] # n[k + 1]
           T == {k \in Nat : k < Len(n) /\ name[k + 1] # n[k + 1]}
<1>1. n \in Seq(STRING) /\ name \in Seq(STRING) /\ Len(name) = Len(n) /\ Len(n) \in Nat
  <2>1. /\ \A m \in FileNames \union OtherNames : m \in Seq(STRING) /\ Len(m) = Len(n)
        /\ n \in FileNames
    BY Disk DEF F!DiskAssumption
  <2> QED
    BY <2>1, Sizes
<1>2. \E k \in 0 .. Len(n) : Q(k)
  <2>1. CASE T = {}
    <3>1. \A i \in 1 .. Len(n) : i - 1 \notin T /\ (i - 1) + 1 = i
      BY <2>1
    <3>2. Q(Len(n)) /\ Len(n) \in 0 .. Len(n)
      BY <1>1, <3>1
    <3> QED
      BY <3>2
  <2>2. CASE T # {}
    <3>1. T \in SUBSET Nat /\ \E k \in T : TRUE
      BY <2>2
    <3>3. PICK k \in T : \A j \in T : k <= j
      <4> HIDE DEF T
      <4> QED
        BY <3>1, Minimum
    <3>4. k \in Nat /\ k < Len(n) /\ name[k + 1] # n[k + 1]
      BY <3>3
    <3>5. ASSUME NEW i \in 1 .. k
          PROVE  name[i] = n[i]
      <4>1. i - 1 \in Nat /\ i - 1 < k /\ (i - 1) + 1 = i /\ i - 1 < Len(n)
        BY <1>1, <3>4
      <4>2. i - 1 \notin T
        BY <3>3, <3>4, <4>1
      <4> QED
        BY <4>1, <4>2
    <3>6. k \in 0 .. Len(n)
      BY <1>1, <3>4
    <3>7. Q(k)
      BY <3>4, <3>5
    <3> QED
      BY <3>6, <3>7
  <2> QED
    BY <2>1, <2>2
<1> DEFINE M == CHOOSE k \in 0 .. Len(n) : Q(k)
<1>3. M \in 0 .. Len(n) /\ Q(M)
  BY <1>2
<1>4. F(n)!Matching(name) = M
  BY DEF F!Matching
<1> HIDE DEF M
<1>5. ASSUME M = Len(n)
      PROVE  name = n
  <2>1. \A i \in 1 .. Len(n) : name[i] = n[i]
    BY <1>3, <1>5
  <2> QED
    BY <1>1, <2>1, SeqEqual
<1>6. ASSUME name = n
      PROVE  M = Len(n)
  BY <1>1, <1>3, <1>6
<1> QED
  BY <1>3, <1>4, <1>5, <1>6

-----------------------------------------------------------------------------
(* What the directory holds of a file.                                     *)
LEMMA Directory ==
  ASSUME NEW n \in FileNames, F(n)!DiskInit, NEW d \in F(n)!DirEntries
  PROVE  /\ dir[d].name \in FileNames \union OtherNames
         /\ dir[d].name = n => files[n] # <<>> /\ dir[d].FstClus = files[n][1]
<1>1. dir[d] \in [name : OtherNames, FstClus : {F(n)!Free}]
         \union {[name |-> m, FstClus |-> files[m][1]] : m \in {k \in FileNames : files[k] # <<>>}}
  BY DEF F!DiskInit
<1>2. FileNames \intersect OtherNames = {}
  BY Disk DEF F!DiskAssumption
<1>3. CASE dir[d] \in [name : OtherNames, FstClus : {F(n)!Free}]
  BY <1>2, <1>3
<1>4. CASE dir[d] \in {[name |-> m, FstClus |-> files[m][1]] :
                          m \in {k \in FileNames : files[k] # <<>>}}
  <2>1. PICK m \in {k \in FileNames : files[k] # <<>>} :
          dir[d] = [name |-> m, FstClus |-> files[m][1]]
    BY <1>4
  <2> QED
    BY <2>1
<1> QED
  BY <1>1, <1>3, <1>4

(* A sector of the directory, as it is read.                               *)
LEMMA DirectorySector ==
  ASSUME NEW n \in FileNames, NEW k \in Nat, k < RootDirSectors
  PROVE  LET s == F(n)!SectorNoOfRootDirectory + k
         IN /\ F(n)!ReadSector(s) =
                 [e \in 0 .. EntriesPerSector - 1 |-> dir[k * EntriesPerSector + e]]
            /\ \A e \in 0 .. EntriesPerSector - 1 : k * EntriesPerSector + e \in F(n)!DirEntries
            /\ (k + 1) * EntriesPerSector = k * EntriesPerSector + EntriesPerSector
            /\ k * EntriesPerSector \in Nat
<1> DEFINE s == F(n)!SectorNoOfRootDirectory + k
<1>1. /\ F(n)!SectorNoOfRootDirectory = 1 + 2 * FATSz /\ FATSz \in Nat
      /\ F(n)!FirstData = 1 + 2 * FATSz + RootDirSectors
      /\ RootDirSectors \in Nat /\ EntriesPerSector \in Nat \ {0}
  BY Sizes
<1>2. /\ s \in Nat /\ ~(s < F(n)!SectorNoOfRootDirectory) /\ s < F(n)!FirstData
      /\ s - F(n)!SectorNoOfRootDirectory = k
  BY <1>1
<1> HIDE DEF s
<1>3. F(n)!ReadSector(s) = F(n)!Sector(s)
  BY <1>2, SectorIsRead
<1>4. F(n)!Sector(s) = [e \in 0 .. EntriesPerSector - 1 |-> dir[k * EntriesPerSector + e]]
  BY <1>2 DEF F!Sector
<1>5. /\ k * EntriesPerSector \in Nat
      /\ (k + 1) * EntriesPerSector = k * EntriesPerSector + EntriesPerSector
      /\ (k + 1) * EntriesPerSector <= RootDirSectors * EntriesPerSector
      /\ RootDirSectors * EntriesPerSector \in Nat
  BY SMT, <1>1
<1>6. \A e \in 0 .. EntriesPerSector - 1 : k * EntriesPerSector + e \in F(n)!DirEntries
  <2> DEFINE K == k * EntriesPerSector
             R == RootDirSectors * EntriesPerSector
  <2> SUFFICES ASSUME NEW e \in 0 .. EntriesPerSector - 1
               PROVE  K + e \in 0 .. R - 1
    BY DEF F!DirEntries
  <2>1. K \in Nat /\ R \in Nat /\ K + EntriesPerSector <= R
    BY <1>5
  <2> HIDE DEF K, R
  <2> QED
    BY <1>1, <2>1
<1> QED
  BY <1>3, <1>4, <1>5, <1>6 DEF s

-----------------------------------------------------------------------------
(* The file of name n is not among the first k entries of the directory.   *)
NotAmong(n, k) == \A d \in F(n)!DirEntries : d < k => dir[d].name # n

(* Entries in the directory before the sector looked at.                   *)
Before(w) == (RootDirSectors - w) * EntriesPerSector

(* Where the search is, no entry before is the file.                       *)
Searching(n) ==
  /\ pc = "search_in_root_dir" =>
       /\ wSectorNo = F(n)!SectorNoOfRootDirectory + (RootDirSectors - wRootDirSizeForLoop)
       /\ NotAmong(n, Before(wRootDirSizeForLoop))
  /\ pc = "search_for_loaderbin" =>
       LET k == RootDirSectors - (wRootDirSizeForLoop + 1)
       IN /\ k \in Nat
          /\ wSectorNo = F(n)!SectorNoOfRootDirectory + k
          /\ buffer = [e \in 0 .. EntriesPerSector - 1 |-> dir[k * EntriesPerSector + e]]
          /\ di = (EntriesPerSector - dx) * EntrySize
          /\ NotAmong(n, k * EntriesPerSector + (EntriesPerSector - dx))

(* The clusters before the current one are loaded, in order.               *)
Loading(n) ==
  pc = "goon_loading_file" =>
    /\ bx < Len(files[n]) /\ cluster = files[n][bx + 1]
    /\ ax = F(n)!FirstData + cluster - 2
    /\ \A i \in 1 .. bx : mem[i - 1] = F(n)!FirstData + files[n][i] - 2

(* The invariant of boot/boot.asm, and of boot/loader.asm up to KillMotor. *)
FileInv(n) ==
  F(n)!DiskInit /\ F(n)!TypeOK /\ Searching(n) /\ Loading(n) /\ F(n)!FileLoaded

(* LABEL_START: nothing was looked at.                                     *)
LEMMA SearchStarts ==
  ASSUME NEW n \in FileNames, FileInv(n), F(n)!LabelStart
  PROVE  FileInv(n)'
<1>1. /\ pc = "label_start" /\ pc' = "search_in_root_dir"
      /\ wRootDirSizeForLoop' = RootDirSectors /\ wSectorNo' = F(n)!SectorNoOfRootDirectory
      /\ mem' = [s \in DOMAIN mem |-> 0]
      /\ UNCHANGED <<files, dir, dx, di, buffer, ax, cluster, bx>>
  BY DEF F!LabelStart, F!disk
<1>2. F(n)!DiskInit' /\ F(n)!TypeOK
  BY <1>1 DEF FileInv, F!DiskInit
<1>3. /\ F(n)!SectorNoOfRootDirectory \in Nat /\ RootDirSectors \in Nat /\ Clusters \in Nat \ {0}
      /\ F(n)!FirstData = F(n)!SectorNoOfRootDirectory + RootDirSectors /\ SegSectors \in Nat
      /\ EntriesPerSector \in Nat
  BY Sizes
<1>4. mem' \in [0 .. SegSectors - 1 -> 0 .. F(n)!FirstData + Clusters - 1]
  BY <1>1, <1>2, <1>3 DEF F!TypeOK
<1>5. F(n)!TypeOK'
  BY <1>1, <1>2, <1>3, <1>4 DEF F!TypeOK
<1>6. Before(RootDirSectors) = 0
  BY SMT, <1>3 DEF Before
<1>7. Searching(n)'
  BY <1>1, <1>3, <1>6 DEF Searching, NotAmong, F!DirEntries
<1> QED
  BY <1>1, <1>2, <1>5, <1>7 DEF FileInv, Loading, F!FileLoaded

(* The next sector of the directory, or its end.                           *)
LEMMA SectorSearched ==
  ASSUME NEW n \in FileNames, FileInv(n), F(n)!SearchInRootDir
  PROVE  FileInv(n)'
<1> DEFINE w == wRootDirSizeForLoop
           k == RootDirSectors - w
<1>1. /\ pc = "search_in_root_dir" /\ UNCHANGED <<files, dir, ax, cluster, bx, mem, wSectorNo>>
      /\ F(n)!TypeOK
  BY DEF F!SearchInRootDir, F!disk, F!load, F!search, FileInv
<1>2. F(n)!DiskInit'
  BY <1>1 DEF FileInv, F!DiskInit
<1>3. /\ RootDirSectors \in Nat /\ EntriesPerSector \in Nat \ {0}
      /\ EntrySize \in Nat
  BY Sizes
<1>4. w \in 0 .. RootDirSectors /\ k \in Nat
  BY <1>1, <1>3 DEF F!TypeOK
<1>5. wSectorNo = F(n)!SectorNoOfRootDirectory + k /\ NotAmong(n, Before(w))
  BY <1>1 DEF FileInv, Searching
<1>6. CASE w = 0
  <2>1. pc' = "no_file" /\ UNCHANGED <<wRootDirSizeForLoop, dx, di, buffer>>
    BY <1>6 DEF F!SearchInRootDir, F!search
  <2>2. \A d \in F(n)!DirEntries : dir[d].name # n
    BY <1>3, <1>5, <1>6 DEF Before, NotAmong, F!DirEntries
  <2>3. F(n)!TypeOK'
    BY <1>1, <2>1 DEF F!TypeOK
  <2> QED
    BY <1>1, <1>2, <2>1, <2>2, <2>3 DEF FileInv, Searching, Loading, F!FileLoaded
<1>7. CASE w # 0
  <2>1. /\ pc' = "search_for_loaderbin" /\ wRootDirSizeForLoop' = w - 1
        /\ buffer' = F(n)!ReadSector(wSectorNo) /\ di' = 0 /\ dx' = EntriesPerSector
    BY <1>7 DEF F!SearchInRootDir
  <2>2. k < RootDirSectors /\ RootDirSectors - ((w - 1) + 1) = k
    BY <1>3, <1>4, <1>7
  <2>3. /\ buffer' = [e \in 0 .. EntriesPerSector - 1 |-> dir[k * EntriesPerSector + e]]
        /\ k * EntriesPerSector \in Nat
    BY <1>4, <1>5, <2>1, <2>2, DirectorySector
  <2>4. /\ EntriesPerSector - dx' = 0
        /\ k * EntriesPerSector + (EntriesPerSector - dx') = k * EntriesPerSector
        /\ 0 = (EntriesPerSector - dx') * EntrySize
    <3>1. EntriesPerSector - dx' = 0
      BY <1>3, <2>1
    <3> QED
      BY SMT, <1>3, <2>3, <3>1
  <2>5. NotAmong(n, k * EntriesPerSector)
    BY <1>5 DEF Before
  <2> HIDE DEF k
  <2>6. Searching(n)'
    BY <1>1, <1>4, <1>5, <2>1, <2>2, <2>3, <2>4, <2>5 DEF Searching, NotAmong
  <2>7. /\ DOMAIN buffer' = 0 .. EntriesPerSector - 1
        /\ w - 1 \in 0 .. RootDirSectors /\ dx' \in 0 .. EntriesPerSector
        /\ di' \in 0 .. EntriesPerSector * EntrySize
    <3>1. EntriesPerSector * EntrySize \in Nat
      BY SMT, <1>3
    <3> QED
      BY <1>3, <1>4, <1>7, <2>1, <2>3, <3>1
  <2>8. F(n)!TypeOK'
    BY <1>1, <2>1, <2>7 DEF F!TypeOK
  <2> QED
    BY <1>1, <1>2, <2>1, <2>6, <2>8 DEF FileInv, Loading, F!FileLoaded
<1> QED
  BY <1>6, <1>7

(* The next entry of a sector: another name, or the file.                  *)
LEMMA EntrySearched ==
  ASSUME NEW n \in FileNames, FileInv(n), F(n)!SearchForLoaderbin
  PROVE  FileInv(n)'
<1> DEFINE k == RootDirSectors - (wRootDirSizeForLoop + 1)
           K == k * EntriesPerSector
           S == EntrySize
           e == EntriesPerSector - dx
<1>1. /\ pc = "search_for_loaderbin" /\ UNCHANGED <<files, dir, wRootDirSizeForLoop, buffer>>
      /\ F(n)!TypeOK /\ F(n)!DiskInit
  BY DEF F!SearchForLoaderbin, F!disk, FileInv
<1>2. F(n)!DiskInit'
  BY <1>1 DEF F!DiskInit
<1>3. /\ RootDirSectors \in Nat /\ EntriesPerSector \in Nat \ {0}
      /\ S \in Nat \ {0} /\ Len(n) \in Nat /\ Len(n) < S
      /\ F(n)!SectorNoOfRootDirectory = 1 + 2 * FATSz /\ FATSz \in Nat \ {0}
      /\ F(n)!FirstData = F(n)!SectorNoOfRootDirectory + RootDirSectors
      /\ SegSectors \in Nat \ {0} /\ Clusters \in Nat
  BY Sizes
<1>4. /\ k \in Nat /\ wSectorNo = F(n)!SectorNoOfRootDirectory + k
      /\ buffer = [i \in 0 .. EntriesPerSector - 1 |-> dir[K + i]]
      /\ di = e * S /\ NotAmong(n, K + e)
  BY <1>1 DEF FileInv, Searching
<1>5. dx \in 0 .. EntriesPerSector /\ e \in 0 .. EntriesPerSector
      /\ wRootDirSizeForLoop \in 0 .. RootDirSectors /\ k < RootDirSectors
  BY <1>1, <1>3 DEF F!TypeOK
<1>6. /\ \A i \in 0 .. EntriesPerSector - 1 : K + i \in F(n)!DirEntries
      /\ (k + 1) * EntriesPerSector = K + EntriesPerSector /\ K \in Nat
  BY <1>4, <1>5, DirectorySector
<1>7. CASE dx = 0
  <2>1. /\ pc' = "search_in_root_dir" /\ wSectorNo' = wSectorNo + 1
        /\ UNCHANGED <<dx, di, ax, cluster, bx, mem>>
    BY <1>7 DEF F!SearchForLoaderbin, F!SectorDone, F!load
  <2>2. RootDirSectors - wRootDirSizeForLoop = k + 1 /\ e = EntriesPerSector
    BY <1>3, <1>5, <1>7
  <2>3. NotAmong(n, Before(wRootDirSizeForLoop))
    BY <1>4, <1>6, <2>2 DEF Before
  <2>4. wSectorNo' = F(n)!SectorNoOfRootDirectory + (k + 1)
    BY <1>3, <1>4, <2>1
  <2> HIDE DEF k
  <2>5. Searching(n)'
    BY <1>1, <2>1, <2>2, <2>3, <2>4 DEF Searching, NotAmong
  <2>6. wSectorNo' \in F(n)!SectorNoOfRootDirectory .. F(n)!FirstData
    BY <1>3, <1>4, <1>5, <2>4
  <2>7. F(n)!TypeOK'
    BY <1>1, <2>1, <2>6 DEF F!TypeOK
  <2> QED
    BY <1>2, <2>1, <2>5, <2>7 DEF FileInv, Loading, F!FileLoaded
<1>8. CASE dx # 0
  <2> DEFINE name == buffer[di \div S].name
             M == F(n)!Matching(name)
             d == di + M
  <2>1. e \in 0 .. EntriesPerSector - 1
    BY <1>3, <1>5, <1>8
  <2>2. di \div S = e /\ di \in Nat
    <3>1. di = e * S + 0 /\ di \in Nat
      BY SMT, <1>3, <1>4, <2>1
    <3>2. e \in Nat /\ S \in Nat \ {0} /\ 0 \in Nat /\ 0 < S
      BY <1>3, <2>1
    <3> HIDE DEF e, S
    <3>3. (e * S + 0) \div S = e
      BY ONLY <3>2, Quotient
    <3> QED
      BY <3>1, <3>3
  <2>3. buffer[e] = dir[K + e] /\ K + e \in F(n)!DirEntries
    BY <1>4, <1>6, <2>1
  <2>4. name = dir[K + e].name /\ name \in FileNames \union OtherNames
    BY <1>1, <2>2, <2>3, Directory
  <2>5. M \in 0 .. Len(n) /\ (M = Len(n) <=> name = n)
    BY <2>4, NameMatches
  <2> HIDE DEF name, M
  <2>6. d % S = M /\ F(n)!EntryStart(d) = e * S
    <3>1. d = e * S + M /\ e \in Nat
      BY <1>4, <2>1
    <3>4. e \in Nat /\ S \in Nat \ {0} /\ M \in Nat /\ M < S
      BY <1>3, <2>1, <2>5
    <3>5. (e * S + M) % S = M
      <4> HIDE DEF e, S
      <4> QED
        BY ONLY <3>4, Quotient
    <3>2. d % S = M
      BY <3>1, <3>5
    <3>3. d - M = e * S
      BY <1>4, <2>2, <2>5
    <3> QED
      BY <3>2, <3>3 DEF F!EntryStart
  <2>7. /\ dx' = dx - 1 /\ UNCHANGED wSectorNo
        /\ IF d - di = Len(n)
           THEN /\ di' = d
                /\ pc' = "goon_loading_file"
                /\ cluster' = buffer[F(n)!EntryStart(d) \div S].FstClus
                /\ ax' = cluster' + RootDirSectors + F(n)!DeltaSectorNo
                /\ bx' = 0
                /\ UNCHANGED mem
           ELSE /\ di' = F(n)!EntryStart(d) + S
                /\ UNCHANGED <<pc, ax, cluster, bx, mem>>
    BY <1>8 DEF F!SearchForLoaderbin, F!SectorDone, F!load, name, M
  <2>8. d - di = M
    BY <2>2, <2>5
  <2>9. (e + 1) * S = e * S + S /\ (e + 1) * S <= EntriesPerSector * S /\ e * S \in Nat
    <3>1. e \in Nat /\ S \in Nat /\ EntriesPerSector \in Nat /\ e + 1 <= EntriesPerSector
      BY <1>3, <2>1
    <3> HIDE DEF e, S
    <3> QED
      BY ONLY SMT, <3>1
  <2>10. CASE M = Len(n)
    <3>1. di' = d /\ pc' = "goon_loading_file" /\ bx' = 0 /\ mem' = mem
      BY <2>7, <2>8, <2>10
    <3>2. (e * S) \div S = e
      BY <1>4, <2>2
    <3>3. cluster' = dir[K + e].FstClus
      BY <2>3, <2>6, <2>7, <2>8, <2>10, <3>2
    <3>4. files[n] # <<>> /\ cluster' = files[n][1]
      BY <1>1, <2>3, <2>4, <2>5, <2>10, <3>3, Directory
    <3>5. 0 < Len(files[n]) /\ cluster' \in 2 .. Clusters + 1
      BY <1>1, <3>4, ChainProperties
    <3>6. ax' = F(n)!FirstData + cluster' - 2
      BY <1>3, <2>7, <2>8, <2>10, <3>5 DEF F!DeltaSectorNo
    <3>7. Loading(n)'
      BY <1>1, <3>1, <3>4, <3>5, <3>6 DEF Loading
    <3>8. /\ di' \in 0 .. EntriesPerSector * S /\ dx' \in 0 .. EntriesPerSector
          /\ ax' \in F(n)!FirstData .. F(n)!FirstData + Clusters - 1
          /\ cluster' \in F(n)!Cluster /\ bx' \in 0 .. SegSectors - 1
      <4>1. di' = e * S + M
        BY <1>4, <3>1
      <4>2. di' \in 0 .. EntriesPerSector * S
        <5> DEFINE A == e * S
                   C == EntriesPerSector * S
        <5>1. A \in Nat /\ C \in Nat /\ A + S <= C /\ di' = A + M
          BY SMT, <1>3, <2>9, <4>1
        <5> HIDE DEF A, C
        <5>2. di' \in 0 .. C
          BY <1>3, <2>5, <5>1
        <5> QED
          BY <5>2 DEF C
      <4>3. dx' \in 0 .. EntriesPerSector
        BY <1>3, <1>5, <1>8, <2>7
      <4>4. ax' \in F(n)!FirstData .. F(n)!FirstData + Clusters - 1
        <5> DEFINE A == F(n)!FirstData
                   c == cluster'
        <5>1. A \in Nat /\ c \in Nat /\ 2 <= c /\ c <= Clusters + 1 /\ ax' = A + c - 2
          BY <1>3, <3>5, <3>6
        <5> HIDE DEF A, c
        <5>2. ax' \in A .. A + Clusters - 1
          BY <1>3, <5>1
        <5> QED
          BY <5>2 DEF A
      <4> QED
        BY <1>3, <3>1, <3>5, <4>2, <4>3, <4>4 DEF F!Cluster
    <3>9. F(n)!TypeOK'
      BY <1>1, <2>7, <3>1, <3>8 DEF F!TypeOK
    <3> QED
      BY <1>2, <3>1, <3>7, <3>9 DEF FileInv, Searching, F!FileLoaded
  <2>11. CASE M # Len(n)
    <3>1. di' = e * S + S /\ UNCHANGED <<pc, ax, cluster, bx, mem>>
      BY <2>6, <2>7, <2>8, <2>11
    <3>2. EntriesPerSector - dx' = e + 1 /\ dx' \in 0 .. EntriesPerSector
      BY <1>3, <1>5, <1>8, <2>7
    <3>3. NotAmong(n, K + (e + 1))
      <4> SUFFICES ASSUME NEW j \in F(n)!DirEntries, j < K + (e + 1)
                   PROVE  dir[j].name # n
        BY DEF NotAmong
      <4>1. j \in Nat
        BY DEF F!DirEntries
      <4>2. CASE j < K + e
        BY <1>4, <4>2 DEF NotAmong
      <4>3. CASE j = K + e
        BY <2>4, <2>5, <2>11, <4>3
      <4> QED
        BY <1>6, <2>1, <4>1, <4>2, <4>3
    <3>4. di' = (e + 1) * S
      BY <2>9, <3>1
    <3> HIDE DEF k, e, S
    <3>5. Searching(n)'
      BY <1>1, <1>4, <2>7, <3>1, <3>2, <3>3, <3>4 DEF Searching, NotAmong, k, S
    <3>6. di' \in 0 .. EntriesPerSector * S
      <4> DEFINE A == (e + 1) * S
                 C == EntriesPerSector * S
      <4>1. A \in Nat /\ C \in Nat /\ A <= C
        BY SMT, <1>3, <1>5, <2>9
      <4>2. di' = A
        BY <3>4
      <4> HIDE DEF A, C
      <4>3. di' \in 0 .. C
        BY <4>1, <4>2
      <4> QED
        BY <4>3 DEF C
    <3>7. F(n)!TypeOK'
      BY <1>1, <2>7, <3>1, <3>2, <3>6 DEF F!TypeOK, S
    <3> QED
      BY <1>1, <1>2, <3>1, <3>5, <3>7 DEF FileInv, Loading, F!FileLoaded
  <2> QED
    BY <2>10, <2>11
<1> QED
  BY <1>7, <1>8

(* A sector more, and the cluster that GetFATEntry() finds behind it.      *)
LEMMA SectorLoaded ==
  ASSUME NEW n \in FileNames, FileInv(n), F(n)!GoonLoadingFile
  PROVE  FileInv(n)'
<1> DEFINE D == F(n)!FirstData
           next == F(n)!GetFATEntry(cluster)
           len == Len(files[n])
<1>1. /\ pc = "goon_loading_file"
      /\ UNCHANGED <<files, dir, wRootDirSizeForLoop, wSectorNo, dx, di, buffer>>
      /\ F(n)!TypeOK /\ F(n)!DiskInit
  BY DEF F!GoonLoadingFile, F!disk, F!search, FileInv
<1>2. F(n)!DiskInit'
  BY <1>1 DEF F!DiskInit
<1>3. /\ F(n)!SectorNoOfRootDirectory = 1 + 2 * FATSz /\ FATSz \in Nat \ {0}
      /\ RootDirSectors \in Nat /\ D = F(n)!SectorNoOfRootDirectory + RootDirSectors
      /\ SegSectors \in Nat \ {0} /\ Clusters \in Nat
      /\ Clusters + 1 < 4095 /\ F(n)!EOF = 4095 /\ D \in Nat
  BY Sizes
<1>4. /\ bx < len /\ cluster = files[n][bx + 1] /\ ax = D + cluster - 2
      /\ \A i \in 1 .. bx : mem[i - 1] = D + files[n][i] - 2
  BY <1>1 DEF FileInv, Loading
<1>5. bx \in 0 .. SegSectors - 1
  BY <1>1 DEF F!TypeOK
<1>6. /\ len \in 0 .. Clusters /\ len <= SegSectors /\ DOMAIN files[n] = 1 .. len
      /\ \A i \in 1 .. len : files[n][i] \in 2 .. Clusters + 1
  BY <1>1, ChainProperties
<1>7. bx + 1 \in 1 .. len /\ cluster \in 2 .. Clusters + 1
  BY <1>3, <1>4, <1>5, <1>6
<1>8. F(n)!ReadSector(ax) = ax
  <2>1. ax \in Nat /\ ~(ax < D) /\ ~(ax < F(n)!SectorNoOfRootDirectory)
    BY SMTT(30), <1>3, <1>4, <1>7
  <2> QED
    BY <2>1, SectorIsRead DEF F!Sector
<1>9. mem' = [mem EXCEPT ![bx] = D + cluster - 2] /\ cluster' = next
  BY <1>4, <1>8 DEF F!GoonLoadingFile
<1>10. next = IF bx + 1 = len THEN 4095 ELSE files[n][bx + 1 + 1]
  <2>1. next = F(n)!Entry(cluster)
    BY <1>1, <1>7, FATEntryIsGot
  <2>2. bx + 1 \in DOMAIN files[n]
    BY <1>6, <1>7
  <2>3. F(n)!Entry(files[n][bx + 1]) =
          IF bx + 1 = Len(files[n]) THEN F(n)!EOF ELSE files[n][bx + 1 + 1]
    BY <1>1, <2>2, EntryInChain
  <2> QED
    BY <1>3, <1>4, <2>1, <2>3
<1>11. mem \in [0 .. SegSectors - 1 -> 0 .. D + Clusters - 1]
  BY <1>1 DEF F!TypeOK
<1>12. mem' \in [0 .. SegSectors - 1 -> 0 .. D + Clusters - 1]
  <2>1. D + cluster - 2 \in 0 .. D + Clusters - 1
    BY <1>3, <1>7
  <2> QED
    BY <1>9, <1>11, <2>1
<1>13. \A i \in 1 .. bx + 1 : mem'[i - 1] = D + files[n][i] - 2
  <2> SUFFICES ASSUME NEW i \in 1 .. bx + 1
               PROVE  mem'[i - 1] = D + files[n][i] - 2
    OBVIOUS
  <2>1. CASE i = bx + 1
    <3>1. i - 1 = bx
      BY <1>5, <2>1
    <3> QED
      BY <1>4, <1>5, <1>9, <1>11, <2>1, <3>1
  <2>2. CASE i # bx + 1
    <3>1. i \in 1 .. bx /\ i - 1 # bx /\ i - 1 \in 0 .. SegSectors - 1
      BY <1>3, <1>5, <2>2
    <3> QED
      BY <1>4, <1>9, <1>11, <3>1
  <2> QED
    BY <2>1, <2>2
<1> HIDE DEF D, next, len
<1>14. CASE bx + 1 = len
  <2>1. next = 4095
    BY <1>10, <1>14
  <2>2. pc' = "file_loaded" /\ UNCHANGED <<ax, bx>>
    BY <1>3, <1>9, <2>1 DEF F!GoonLoadingFile, F!ChainEnds
  <2>3. \A i \in DOMAIN files'[n] : mem'[i - 1] = D + files'[n][i] - 2
    BY <1>1, <1>6, <1>13, <1>14
  <2>4. F(n)!TypeOK'
    BY <1>1, <1>3, <1>9, <1>12, <2>1, <2>2 DEF F!TypeOK, D
  <2> QED
    BY <1>1, <1>2, <2>2, <2>3, <2>4 DEF FileInv, Searching, Loading, F!FileLoaded, D
<1>15. CASE bx + 1 # len
  <2>1. bx + 1 + 1 \in 1 .. len /\ next = files[n][bx + 1 + 1] /\ next \in 2 .. Clusters + 1
    BY <1>5, <1>6, <1>7, <1>10, <1>15
  <2>2. next # 4095
    BY <1>3, <2>1
  <2>3. /\ ax' = next + RootDirSectors + F(n)!DeltaSectorNo
        /\ bx' = (bx + 1) % SegSectors /\ pc' = pc
    BY <1>3, <1>9, <2>2 DEF F!GoonLoadingFile, F!ChainEnds
  <2>4. ax' = D + next - 2
    BY <1>3, <2>1, <2>3 DEF F!DeltaSectorNo
  <2>5. bx + 1 \in 0 .. SegSectors - 1
    BY <1>3, <1>5, <1>6, <1>7, <1>15
  <2>6. bx' = bx + 1
    BY <1>3, <2>3, <2>5
  <2>7. Loading(n)'
    <3>1. bx' < len' /\ next = files'[n][bx' + 1]
      BY <1>1, <1>5, <1>6, <2>1, <2>6 DEF len
    <3>2. \A i \in 1 .. bx' : mem'[i - 1] = D + files'[n][i] - 2
      BY <1>1, <1>13, <2>6
    <3> QED
      BY <1>9, <2>4, <3>1, <3>2 DEF Loading, D, len
  <2>8. ax' \in D .. D + Clusters - 1
    BY <1>3, <2>1, <2>4
  <2>10. /\ cluster' \in F(n)!Cluster /\ bx' \in 0 .. SegSectors - 1 /\ pc' = pc
         /\ ax' \in F(n)!FirstData .. F(n)!FirstData + Clusters - 1
         /\ mem' \in [0 .. SegSectors - 1 -> 0 .. F(n)!FirstData + Clusters - 1]
    BY <1>9, <1>12, <2>1, <2>3, <2>5, <2>6, <2>8 DEF F!Cluster, D
  <2>9. F(n)!TypeOK'
    BY <1>1, <2>10 DEF F!TypeOK
  <2> QED
    BY <1>1, <1>2, <2>3, <2>7, <2>9 DEF FileInv, Searching, F!FileLoaded
<1> QED
  BY <1>14, <1>15

(* Every step of the search and of the loading.                            *)
LEMMA FileGoesOn ==
  ASSUME NEW n \in FileNames, FileInv(n), F(n)!Next
  PROVE  FileInv(n)'
BY SearchStarts, SectorSearched, EntrySearched, SectorLoaded DEF F!Next

(* Nothing of it changes.                                                  *)
LEMMA FileIdle ==
  ASSUME NEW n \in FileNames, FileInv(n), UNCHANGED <<files, dir, search, mem>>
  PROVE  FileInv(n)'
BY DEF FileInv, F!DiskInit, F!TypeOK, F!FileLoaded, Searching, NotAmong, Loading, search

(* The state a program begins in.                                          *)
LEMMA SearchInits ==
  ASSUME NEW n \in FileNames, F(n)!DiskInit, F(n)!SearchInit
  PROVE  FileInv(n)
<1>1. /\ F(n)!SectorNoOfRootDirectory \in Nat /\ RootDirSectors \in Nat /\ Clusters \in Nat \ {0}
      /\ F(n)!FirstData = F(n)!SectorNoOfRootDirectory + RootDirSectors
      /\ SegSectors \in Nat \ {0} /\ EntriesPerSector \in Nat /\ EntrySize \in Nat
  BY Sizes
<1>2. EntriesPerSector * EntrySize \in Nat
  BY SMT, <1>1
<1>3. mem \in [0 .. SegSectors - 1 -> 0 .. F(n)!FirstData + Clusters - 1]
  BY <1>1 DEF F!SearchInit
<1>4. F(n)!TypeOK
  BY <1>1, <1>2, <1>3 DEF F!SearchInit, F!TypeOK
<1> QED
  BY <1>4 DEF FileInv, F!SearchInit, Searching, Loading, F!FileLoaded

-----------------------------------------------------------------------------
(* What was looked at of the map: the first k ranges.                      *)
Measured(k) ==
  /\ \A i \in 1 .. k : bios.map[i].type = L!AddressRangeMemory => L!End(bios.map[i]) <= dwMemSize
  /\ dwMemSize \in L!Sizes(bios.map)

(* What was copied of the kernel: the segments of the first k headers.     *)
Placed(k) ==
  \A i \in 1 .. k :
    LET p == kernel.phdrs[i]
    IN p.type # L!PT_NULL =>
         \A j \in 0 .. p.filesz - 1 : ram[p.vaddr + j] = kernel.sectors[p.offset + j + 1]

(* kernel.bin is in memory, sector by sector.                              *)
KernelInMemory ==
  /\ Len(kernel.sectors) \in F(KernelFileName)!FileSizes \ {0}
  /\ kernel.phdrs = Linked(Len(kernel.sectors))
  /\ kernel.sectors # <<>>
  /\ \A i \in 1 .. Len(kernel.sectors) : mem[i - 1] = kernel.sectors[i]

(* The list of the BIOS as far as it was read.                             *)
Listed(k) ==
  /\ MemChkBuf \in Seq(L!AddressRange) /\ Len(MemChkBuf) = k /\ dwMCRNumber = k
  /\ \A i \in 1 .. k : MemChkBuf[i] = bios.map[i]

(* The list of the BIOS: asked for, read, measured.                        *)
MapInv ==
  /\ lpc = "file_loaded" => MemChkBuf = <<>> /\ dwMCRNumber = 0 /\ dwMemSize = 0
  /\ lpc # "file_loaded" => bios.map \in BiosMaps /\ bios.end \in Ends
  /\ lpc = "mem_chk" =>
       /\ dwMemSize = 0 /\ ebx \in 0 .. Len(bios.map) /\ Listed(ebx)
       /\ bios.end = "ebx" => ebx < Len(bios.map) \/ bios.map = <<>>
  /\ lpc = "disp_mem_size" =>
       IF ecx = 0 THEN bios.map = <<>> \/ bios.end = "cf"
       ELSE /\ ecx \in 1 .. Len(bios.map) /\ Listed(Len(bios.map))
            /\ Measured(Len(bios.map) - ecx)

(* The invariant of boot/loader.asm from KillMotor on.                     *)
MemoryInv ==
  /\ KernelInMemory /\ MapInv
  /\ L!LoaderTypeOK
  /\ DOMAIN ram = 0 .. LowMemory - 1
  /\ lpc \in {"setup_paging", "init_kernel", "kernel"} =>
       bios.map # <<>> /\ Measured(Len(bios.map))
  /\ lpc \in {"init_kernel", "kernel"} => mapped = L!PageTables(dwMemSize) * PerTable
  /\ lpc = "init_kernel" =>
       ecx \in 1 .. Len(kernel.phdrs) /\ Placed(Len(kernel.phdrs) - ecx)
  /\ lpc = "kernel" => Placed(Len(kernel.phdrs))
  /\ lpc = "lost" => bios.map = <<>> \/ bios.end = "cf"

(* The numbers of a machine.                                               *)
LEMMA Machine ==
  /\ AddressSpace \in Nat \ {0} /\ PerTable \in Nat \ {0} /\ PageDirBase \in Nat \ {0}
  /\ LowMemory \in Nat \ {0} /\ AddressSpace % PerTable = 0
  /\ PageDirBase + (AddressSpace \div PerTable) < AddressSpace
  /\ Ends \subseteq {"ebx", "cf"}
BY BootAssumption DEF L!LoaderAssumption

(* What machines promise of their maps.                                    *)
LEMMA Maps ==
  ASSUME NEW map \in BiosMaps
  PROVE  /\ map \in Seq(L!AddressRange)
         /\ \A i \in DOMAIN map : map[i].type = L!AddressRangeMemory =>
              map[i].base + map[i].length < AddressSpace \/ map[i].base >= AddressSpace
         /\ map # <<>> => \A size \in L!Sizes(map) :
              \A a \in PageDirBase .. PageDirBase + L!PageTables(size) : L!Usable(map, a)
BY BootAssumption DEF L!LoaderAssumption

(* A range of a map.                                                       *)
LEMMA RangeType ==
  ASSUME NEW map \in BiosMaps, NEW i \in DOMAIN map
  PROVE  map[i].base \in Nat /\ map[i].length \in Nat /\ L!End(map[i]) \in Nat
<1>1. map[i] \in L!AddressRange
  <2>1. map \in Seq(L!AddressRange)
    BY Maps
  <2> QED
    BY <2>1
<1>2. map[i].base \in Nat /\ map[i].length \in Nat
  BY <1>1 DEF L!AddressRange
<1>3. map[i].base + map[i].length \in Nat
  BY <1>2
<1>4. L!End(map[i]) \in Nat
  BY <1>3, Machine, Division DEF L!End
<1> QED
  BY <1>2, <1>4

(* Full page tables.                                                       *)
LEMMA ExactQuotient ==
  ASSUME NEW q \in Nat, NEW b \in Nat \ {0}
  PROVE  (q * b) \div b = q
BY SMT

(* A table for the rest is one of those that the address space needs.      *)
LEMMA FewerTables ==
  ASSUME NEW q \in Nat, NEW n \in Nat, NEW b \in Nat \ {0}, NEW r \in Nat,
         b * q + r < b * n, 
         r < b
  PROVE  /\ (IF r = 0 THEN q ELSE q + 1) <= n
         /\ (IF r = 0 THEN q ELSE q + 1) * b >= b * q + r
         /\ (IF r = 0 THEN q ELSE q + 1) * b <= b * n
<1>1. q < n
  <2>1. SUFFICES ASSUME q >= n PROVE FALSE
    OBVIOUS
  <2>2. PICK k \in Nat : q = n + k
    <3>1. q - n \in Nat /\ q = n + (q - n)
      BY <2>1
    <3> QED
      BY <3>1
  <2>3. b * q = b * n + b * k /\ b * k >= 0
    BY SMT, <2>2
  <2> QED
    BY SMT, <2>3
<1>2. PICK k \in Nat : n = q + 1 + k
  <2>1. n - (q + 1) \in Nat /\ n = q + 1 + (n - (q + 1))
    BY <1>1
  <2> QED
    BY <2>1
<1>3. b * n = b * q + b + b * k /\ b * k >= 0
  BY SMT, <1>2
<1>4. q * b = b * q /\ (q + 1) * b = b * q + b
  BY SMT
<1> QED
  BY SMT, <1>1, <1>3, <1>4

(* The page tables hold all of a size, and no more than the address space. *)
LEMMA TablesHold ==
  ASSUME NEW size \in Nat, size < AddressSpace
  PROVE  /\ L!PageTables(size) \in Nat
         /\ L!PageTables(size) <= AddressSpace \div PerTable
         /\ size <= L!PageTables(size) * PerTable
         /\ L!PageTables(size) * PerTable <= AddressSpace
         /\ (L!PageTables(size) * PerTable) \div PerTable = L!PageTables(size)
         /\ size > 0 => L!PageTables(size) * PerTable > 0
<1> DEFINE q == size \div PerTable
           r == size % PerTable
           n == AddressSpace \div PerTable
<1>1. /\ q \in Nat /\ r \in Nat /\ n \in Nat /\ r < PerTable
      /\ size = PerTable * q + r /\ AddressSpace = PerTable * n
  <2>1. AddressSpace = PerTable * n + (AddressSpace % PerTable) /\ n \in Nat
    BY Machine, Division
  <2>2. PerTable * n \in Nat
    BY SMT, <2>1, Machine
  <2>3. AddressSpace = PerTable * n
    BY <2>1, <2>2, Machine
  <2> QED
    BY <2>1, <2>3, Machine, Division
<1>2. L!PageTables(size) = IF r = 0 THEN q ELSE q + 1
  BY SMT, <1>1, Machine DEF L!PageTables
<1> HIDE DEF q, r, n
<1>3. L!PageTables(size) \in Nat
  BY <1>1, <1>2
<1>4. /\ L!PageTables(size) <= n
      /\ L!PageTables(size) * PerTable >= PerTable * q + r
      /\ L!PageTables(size) * PerTable <= PerTable * n
  BY <1>1, <1>2, Machine, FewerTables
<1>5. (L!PageTables(size) * PerTable) \div PerTable = L!PageTables(size)
  BY <1>3, Machine, ExactQuotient
<1>6. L!PageTables(size) * PerTable \in Nat
  BY SMT, <1>3, Machine
<1> QED
  BY <1>1, <1>3, <1>4, <1>5, <1>6 DEF n

(* A size in 32 bits.                                                      *)
LEMMA SizeType ==
  ASSUME NEW map \in BiosMaps, NEW size \in L!Sizes(map)
  PROVE  size \in Nat /\ size < AddressSpace
<1>1. CASE size = 0
  BY <1>1, Machine
<1>2. ASSUME NEW i \in DOMAIN map, size = L!End(map[i])
      PROVE  size \in Nat /\ size < AddressSpace
  <2>1. map[i].base \in Nat /\ map[i].length \in Nat
    BY RangeType
  <2>2. map[i].base + map[i].length \in Nat
    BY <2>1
  <2> QED
    BY <1>2, <2>2, Machine, Division DEF L!End
<1> QED
  BY <1>1, <1>2 DEF L!Sizes

(* What is used of the address space ends where it was counted to.         *)
LEMMA UsableCounted ==
  ASSUME NEW map \in BiosMaps, NEW a \in Nat, a < AddressSpace, L!Usable(map, a)
  PROVE  \E i \in DOMAIN map : map[i].type = L!AddressRangeMemory /\ a < L!End(map[i])
<1>1. PICK i \in DOMAIN map : /\ map[i].type = L!AddressRangeMemory
                              /\ a \in map[i].base .. map[i].base + map[i].length - 1
  BY DEF L!Usable
<1>2. map[i].base \in Nat /\ map[i].length \in Nat
  BY RangeType
<1>3. map[i].base + map[i].length < AddressSpace
  BY <1>1, <1>2, Maps, Machine
<1>4. L!End(map[i]) = map[i].base + map[i].length
  BY <1>2, <1>3, Machine DEF L!End
<1> QED
  BY <1>1, <1>2, <1>4

(* Where memory was measured, the kernel finds it mapped, and the tables   *)
(* in it.                                                                  *)
LEMMA MemoryMapped ==
  ASSUME bios.map \in BiosMaps, bios.map # <<>>, Measured(Len(bios.map))
  PROVE  LET m == L!PageTables(dwMemSize) * PerTable
         IN /\ dwMemSize \in Nat /\ dwMemSize < AddressSpace
            /\ m \in Nat /\ m # 0 /\ m <= AddressSpace
            /\ \A a \in 0 .. AddressSpace - 1 : L!Usable(bios.map, a) => a < m
            /\ \A a \in PageDirBase .. PageDirBase + (m \div PerTable) :
                 L!Usable(bios.map, a) /\ a < m
<1> DEFINE m == L!PageTables(dwMemSize) * PerTable
<1>1. dwMemSize \in L!Sizes(bios.map) /\ dwMemSize \in Nat /\ dwMemSize < AddressSpace
  BY SizeType DEF Measured
<1>2. /\ L!PageTables(dwMemSize) \in Nat /\ dwMemSize <= m /\ m <= AddressSpace
      /\ m \div PerTable = L!PageTables(dwMemSize)
      /\ L!PageTables(dwMemSize) <= AddressSpace \div PerTable
  BY <1>1, TablesHold
<1>3. m \in Nat
  BY SMT, <1>2, Machine
<1> HIDE DEF m
<1>4. ASSUME NEW a \in Nat, a < AddressSpace, L!Usable(bios.map, a)
      PROVE  a < m
  <2>1. PICK i \in DOMAIN bios.map :
          bios.map[i].type = L!AddressRangeMemory /\ a < L!End(bios.map[i])
    BY <1>4, UsableCounted
  <2>2. i \in 1 .. Len(bios.map) /\ bios.map[i] \in L!AddressRange
    BY <2>1, Maps
  <2>3. L!End(bios.map[i]) <= dwMemSize
    BY <2>1, <2>2 DEF Measured
  <2>4. L!End(bios.map[i]) \in Nat
    BY <2>1, RangeType
  <2> QED
    BY <2>1, <2>3, <2>4, <1>1, <1>2, <1>3
<1>5. \A a \in PageDirBase .. PageDirBase + (m \div PerTable) :
        L!Usable(bios.map, a) /\ a < AddressSpace /\ a \in Nat
  <2>1. AddressSpace \div PerTable \in Nat
    BY Machine, Division
  <2>2. \A a \in PageDirBase .. PageDirBase + L!PageTables(dwMemSize) : L!Usable(bios.map, a)
    BY <1>1, Maps
  <2>3. \A a \in PageDirBase .. PageDirBase + L!PageTables(dwMemSize) :
          a < AddressSpace /\ a \in Nat
    BY <2>1, <1>2, Machine
  <2> QED
    BY <1>2, <2>2, <2>3
<1>6. m # 0
  <2>1. PageDirBase \in PageDirBase .. PageDirBase + (m \div PerTable)
    BY <1>2, Machine
  <2>2. PageDirBase < m
    BY <2>1, <1>4, <1>5
  <2> QED
    BY <2>2, Machine
<1> QED
  BY <1>1, <1>2, <1>3, <1>4, <1>5, <1>6, Machine DEF m
(* The first call to the BIOS.                                             *)
LEMMA MapAsked ==
  ASSUME MemoryInv, L!LabelFileLoaded, UNCHANGED <<kernel, mem>>
  PROVE  MemoryInv'
<1>1. /\ lpc = "file_loaded" /\ lpc' = "mem_chk" /\ ebx' = 0
      /\ bios'.map \in BiosMaps /\ bios'.end \in Ends
      /\ UNCHANGED <<MemChkBuf, dwMCRNumber, dwMemSize, mapped, ram, kernel, mem>>
  BY DEF L!LabelFileLoaded, L!bootvars
<1>2. MemChkBuf = <<>> /\ dwMCRNumber = 0 /\ dwMemSize = 0
  BY <1>1 DEF MemoryInv, MapInv
<1>3. Len(bios'.map) \in Nat /\ (bios'.map # <<>> => Len(bios'.map) > 0)
  <2>1. bios'.map \in Seq(L!AddressRange)
    BY <1>1, Maps
  <2> QED
    BY <2>1, EmptySeq, LenProperties
<1>4. MapInv'
  <2>1. Listed(0)'
    BY <1>1, <1>2 DEF Listed
  <2> QED
    BY <1>1, <1>2, <1>3, <2>1 DEF MapInv
<1>5. L!LoaderTypeOK'
  BY <1>1, <1>2, Machine DEF MemoryInv, L!LoaderTypeOK
<1> QED
  BY <1>1, <1>4, <1>5 DEF MemoryInv, KernelInMemory

(* The next range of the list, or its end.                                 *)
LEMMA RangeListed ==
  ASSUME MemoryInv, L!MemChk, UNCHANGED <<kernel, mem>>
  PROVE  MemoryInv'
<1>1. /\ lpc = "mem_chk" /\ bios.map \in BiosMaps /\ bios.end \in Ends
      /\ dwMemSize = 0 /\ ebx \in 0 .. Len(bios.map) /\ Listed(ebx)
      /\ bios.end = "ebx" => ebx < Len(bios.map) \/ bios.map = <<>>
      /\ UNCHANGED <<bios, dwMemSize, mapped, ram, kernel, mem>>
  BY DEF L!MemChk, MemoryInv, MapInv
<1>2. bios.map \in Seq(L!AddressRange) /\ Len(bios.map) \in Nat
  BY <1>1, Maps, LenProperties
<1>3. CASE L!Carry
  <2>1. /\ lpc' = "disp_mem_size" /\ dwMCRNumber' = 0 /\ ecx' = 0 /\ MemChkBuf' = MemChkBuf
    BY <1>1, <1>3 DEF L!MemChk
  <2>2. bios.map = <<>> \/ bios.end = "cf"
    <3>1. ebx = Len(bios.map) /\ (bios.end = "ebx" \/ bios.end = "cf")
      BY <1>1, <1>3, Machine DEF L!Carry
    <3>2. ~(ebx < Len(bios.map))
      BY <1>2, <3>1
    <3> QED
      BY <1>1, <3>1, <3>2
  <2>3. MapInv'
    BY <1>1, <2>1, <2>2 DEF MapInv
  <2>4. L!LoaderTypeOK'
    BY <1>1, <1>2, <2>1, Machine DEF MemoryInv, L!LoaderTypeOK, Listed
  <2> QED
    BY <1>1, <2>1, <2>3, <2>4 DEF MemoryInv, KernelInMemory
<1>4. CASE ~L!Carry
  <2>0. PICK k : k = ebx + 1
    OBVIOUS
  <2>1. /\ MemChkBuf' = Append(MemChkBuf, bios.map[k]) /\ dwMCRNumber' = dwMCRNumber + 1
        /\ ebx' = IF L!IsLast THEN 0 ELSE k
        /\ IF L!IsLast THEN lpc' = "disp_mem_size" /\ ecx' = dwMCRNumber'
           ELSE lpc' = lpc
    BY <1>1, <1>4, <2>0 DEF L!MemChk
  <2>2. ebx \in Nat /\ k \in 1 .. Len(bios.map) /\ bios.map[k] \in L!AddressRange
    <3>1. ebx \in Nat /\ k \in 1 .. Len(bios.map)
      BY <1>1, <1>2, <1>4, <2>0 DEF L!Carry
    <3> QED
      BY <3>1, <1>2
  <2>3. Listed(k)'
    <3>1. /\ MemChkBuf \in Seq(L!AddressRange) /\ Len(MemChkBuf) = ebx /\ dwMCRNumber = ebx
          /\ \A i \in 1 .. ebx : MemChkBuf[i] = bios.map[i]
      BY <1>1 DEF Listed
    <3>2. /\ MemChkBuf' \in Seq(L!AddressRange) /\ Len(MemChkBuf') = k
          /\ \A i \in 1 .. ebx : MemChkBuf'[i] = MemChkBuf[i]
          /\ MemChkBuf'[k] = bios.map[k]
      BY <2>0, <2>1, <2>2, <3>1, AppendProperties
    <3>3. \A i \in 1 .. k : MemChkBuf'[i] = bios'.map[i]
      <4>1. TAKE i \in 1 .. k
      <4>2. i = k \/ i \in 1 .. ebx
        BY <2>0, <2>2
      <4> QED
        BY <4>2, <1>1, <3>1, <3>2
    <3>4. dwMCRNumber' = k
      BY <2>0, <2>1, <3>1
    <3> QED
      BY <3>2, <3>3, <3>4 DEF Listed
  <2>4. MapInv'
    <3>1. CASE L!IsLast
      <4>1. k = Len(bios.map) /\ Listed(Len(bios.map))' /\ ecx' = k /\ lpc' = "disp_mem_size"
        BY <1>1, <2>0, <2>1, <2>3, <3>1 DEF L!IsLast, Listed
      <4>2. Measured(0)'
        BY <1>1 DEF Measured, L!Sizes
      <4>3. Len(bios.map) - ecx' = 0 /\ ecx' \in 1 .. Len(bios.map) /\ ecx' # 0
        BY <1>2, <2>2, <4>1
      <4>4. Measured(Len(bios.map) - ecx)'
        BY <1>1, <4>2, <4>3
      <4> QED
        BY <1>1, <4>1, <4>3, <4>4 DEF MapInv
    <3>2. CASE ~L!IsLast
      <4>1. ebx' = k /\ lpc' = "mem_chk" /\ Listed(ebx)' /\ ebx' \in 0 .. Len(bios.map)
        BY <1>1, <1>2, <2>1, <2>2, <2>3, <3>2
      <4>2. bios.end = "ebx" => k < Len(bios.map)
        BY <1>2, <2>0, <2>2, <3>2 DEF L!IsLast
      <4> QED
        BY <1>1, <4>1, <4>2 DEF MapInv
    <3> QED
      BY <3>1, <3>2
  <2>5. L!LoaderTypeOK'
    BY <1>1, <2>1, <2>2, <2>3, Machine DEF MemoryInv, L!LoaderTypeOK, Listed
  <2>6. lpc' \in {"mem_chk", "disp_mem_size"}
    BY <1>1, <2>1
  <2> QED
    BY <1>1, <2>4, <2>5, <2>6 DEF MemoryInv, KernelInMemory
<1> QED
  BY <1>3, <1>4

(* The size of memory, a range further.                                    *)
LEMMA RangeMeasured ==
  ASSUME MemoryInv, L!DispMemSize, UNCHANGED <<kernel, mem>>
  PROVE  MemoryInv'
<1>1. /\ lpc = "disp_mem_size" /\ bios.map \in BiosMaps /\ bios.end \in Ends
      /\ UNCHANGED <<bios, ebx, MemChkBuf, dwMCRNumber, mapped, ram, kernel, mem>>
  BY DEF L!DispMemSize, MemoryInv, MapInv
<1>2. bios.map \in Seq(L!AddressRange) /\ Len(bios.map) \in Nat
  BY <1>1, Maps, LenProperties
<1>3. CASE ecx = 0
  <2>1. lpc' = "lost" /\ ecx' = ecx /\ dwMemSize' = dwMemSize
    BY <1>3 DEF L!DispMemSize
  <2>2. bios.map = <<>> \/ bios.end = "cf"
    BY <1>1, <1>3 DEF MemoryInv, MapInv
  <2> QED
    BY <1>1, <2>1, <2>2 DEF MemoryInv, MapInv, KernelInMemory, L!LoaderTypeOK
<1>4. CASE ecx # 0
  <2>0. PICK k : k = Len(bios.map) - ecx + 1
    OBVIOUS
  <2> DEFINE r == bios.map[k]
  <2>1. /\ ecx \in 1 .. Len(bios.map) /\ Listed(Len(bios.map)) /\ Measured(Len(bios.map) - ecx)
    BY <1>1, <1>4 DEF MemoryInv, MapInv
  <2>2. /\ k \in 1 .. Len(bios.map) /\ k - 1 = Len(bios.map) - ecx
        /\ k = Len(bios.map) - (ecx - 1) /\ ecx - 1 \in 0 .. Len(bios.map) /\ ecx \in Nat
    BY <1>2, <2>0, <2>1
  <2>3. /\ dwMemSize' = IF r.type = L!AddressRangeMemory /\ L!End(r) >= dwMemSize
                        THEN L!End(r) ELSE dwMemSize
        /\ ecx' = ecx - 1 /\ lpc' = IF ecx' = 0 THEN "setup_paging" ELSE lpc
    <3>1. MemChkBuf[dwMCRNumber - ecx + 1] = r
      BY <2>0, <2>1, <2>2 DEF Listed
    <3> QED
      BY <1>4, <3>1 DEF L!DispMemSize
  <2>4. k \in DOMAIN bios.map /\ L!End(r) \in Nat /\ bios.map # <<>>
    BY <1>1, <1>2, <2>2, RangeType
  <2>5. dwMemSize \in L!Sizes(bios.map) /\ dwMemSize \in Nat
    BY <1>1, <2>1, SizeType DEF Measured
  <2> HIDE DEF r
  <2>6. Measured(k)'
    <3>1. dwMemSize' \in L!Sizes(bios.map)
      BY <2>3, <2>4, <2>5 DEF L!Sizes, r
    <3>2. /\ dwMemSize' >= dwMemSize /\ dwMemSize' \in Nat
          /\ r.type = L!AddressRangeMemory => L!End(r) <= dwMemSize'
      BY <2>3, <2>4, <2>5
    <3>3. ASSUME NEW i \in 1 .. k, bios.map[i].type = L!AddressRangeMemory
          PROVE  L!End(bios.map[i]) <= dwMemSize'
      <4>1. CASE i = k
        BY <3>2, <3>3, <4>1 DEF r
      <4>2. CASE i # k
        <5>1. i \in 1 .. Len(bios.map) - ecx /\ i \in DOMAIN bios.map
          BY <1>2, <2>2, <4>2
        <5>2. L!End(bios.map[i]) <= dwMemSize /\ L!End(bios.map[i]) \in Nat
          BY <1>1, <2>1, <3>3, <5>1, RangeType DEF Measured
        <5> QED
          BY <2>5, <3>2, <5>2
      <4> QED
        BY <4>1, <4>2
    <3> QED
      BY <1>1, <3>1, <3>3 DEF Measured
  <2>7. Measured(Len(bios.map) - ecx)'
    BY <1>1, <2>2, <2>3, <2>6
  <2>8. dwMemSize' \in 0 .. AddressSpace - 1
    <3>1. dwMemSize' \in L!Sizes(bios.map)
      BY <1>1, <2>6 DEF Measured
    <3>2. dwMemSize' \in Nat /\ dwMemSize' < AddressSpace
      BY <1>1, <3>1, SizeType
    <3> QED
      BY <3>2, Machine
  <2>9. L!LoaderTypeOK'
    BY <1>1, <2>3, <2>8 DEF MemoryInv, L!LoaderTypeOK
  <2>10. CASE ecx' = 0
    <3>1. lpc' = "setup_paging" /\ (Len(bios.map) - ecx)' = Len(bios.map)'
      <4>1. lpc' = "setup_paging"
        BY <2>3, <2>10
      <4>2. bios' = bios /\ Len(bios.map) - 0 = Len(bios.map)
        BY <1>1, <1>2
      <4> QED
        BY <2>10, <4>1, <4>2
    <3>2. Measured(Len(bios.map))'
      BY <2>7, <3>1
    <3> QED
      BY <1>1, <2>4, <2>9, <3>1, <3>2 DEF MemoryInv, MapInv, KernelInMemory
  <2>11. CASE ecx' # 0
    <3>1. lpc' = "disp_mem_size" /\ ecx' \in 1 .. Len(bios.map) /\ Listed(Len(bios.map))'
      BY <1>1, <1>2, <2>1, <2>2, <2>3, <2>11 DEF Listed
    <3> QED
      BY <1>1, <2>7, <2>9, <2>11, <3>1 DEF MemoryInv, MapInv, KernelInMemory
  <2> QED
    BY <2>10, <2>11
<1> QED
  BY <1>3, <1>4

(* SetupPaging maps all that was measured.                                 *)
LEMMA MemoryMaps ==
  ASSUME MemoryInv, L!SetupPaging, UNCHANGED <<kernel, mem>>
  PROVE  MemoryInv'
<1>1. /\ lpc = "setup_paging" /\ bios.map \in BiosMaps /\ bios.end \in Ends
      /\ bios.map # <<>> /\ Measured(Len(bios.map))
      /\ mapped' = L!PageTables(dwMemSize) * PerTable
      /\ lpc' = (IF mapped' = 0 THEN "lost" ELSE "init_kernel")
      /\ ecx' = Len(kernel.phdrs)
      /\ UNCHANGED <<bios, MemChkBuf, dwMCRNumber, dwMemSize, ram, kernel, mem>>
  BY DEF L!SetupPaging, L!bootvars, MemoryInv, MapInv
<1>2. mapped' \in Nat /\ mapped' # 0 /\ mapped' <= AddressSpace
  BY <1>1, MemoryMapped
<1>3. lpc' = "init_kernel"
  BY <1>1, <1>2
<1>4. ecx' \in 1 .. Len(kernel.phdrs) /\ Len(kernel.phdrs) - ecx' = 0
  <2>1. kernel.phdrs \in Seq(L!Header)
        /\ kernel.phdrs # <<>>
    BY BootAssumption DEF MemoryInv, KernelInMemory, L!Loadable
  <2>2. Len(kernel.phdrs) \in Nat /\ Len(kernel.phdrs) # 0
    BY <2>1, LenProperties, EmptySeq
  <2> QED
    BY <1>1, <2>2
<1>5. Placed(Len(kernel.phdrs) - ecx)'
  BY <1>1, <1>4 DEF Placed
<1>6. Measured(Len(bios.map))'
  BY <1>1 DEF Measured
<1>7. MapInv'
  BY <1>1, <1>3 DEF MapInv
<1>8. L!LoaderTypeOK'
  BY <1>1, <1>2, <1>3, Machine DEF MemoryInv, L!LoaderTypeOK
<1> QED
  BY <1>1, <1>3, <1>4, <1>5, <1>6, <1>7, <1>8 DEF MemoryInv, KernelInMemory

(* A segment more.                                                         *)
LEMMA SegmentPlaced ==
  ASSUME MemoryInv, L!InitKernel, UNCHANGED <<kernel, mem>>
  PROVE  MemoryInv'
<1> DEFINE n == Len(kernel.sectors)
           h == kernel.phdrs
<1>0. PICK k : k = Len(h) - ecx + 1
  OBVIOUS
<1> DEFINE p == h[k]
<1>1. /\ lpc = "init_kernel" /\ bios.map \in BiosMaps /\ bios.end \in Ends
      /\ bios.map # <<>> /\ Measured(Len(bios.map))
      /\ mapped = L!PageTables(dwMemSize) * PerTable
      /\ ecx \in 1 .. Len(h) /\ Placed(Len(h) - ecx)
      /\ n \in F(KernelFileName)!FileSizes \ {0} /\ h = Linked(n) /\ kernel.sectors # <<>>
      /\ \A i \in 1 .. n : mem[i - 1] = kernel.sectors[i]
      /\ DOMAIN ram = 0 .. LowMemory - 1
      /\ UNCHANGED <<bios, ebx, MemChkBuf, dwMCRNumber, dwMemSize, mapped, kernel, mem>>
  BY DEF L!InitKernel, L!bootvars, MemoryInv, MapInv, KernelInMemory
<1> HIDE DEF h
<1>2. L!Loadable(h, n)
  BY <1>1, BootAssumption
<1>3. h \in Seq(L!Header) /\ Len(h) \in Nat
  BY <1>2, LenProperties DEF L!Loadable
<1>4. /\ k \in 1 .. Len(h) /\ k - 1 = Len(h) - ecx /\ k = Len(h) - (ecx - 1)
      /\ ecx - 1 \in 0 .. Len(h) /\ ecx # 0 /\ ecx \in Nat
  <2>1. ecx \in 1 .. Len(h) /\ Len(h) \in Nat
    BY <1>1, <1>3
  <2> QED
    BY <1>0, <2>1
<1>5. \A i \in 1 .. Len(h) :
        /\ i \in DOMAIN h
        /\ h[i].type \in Nat /\ h[i].offset \in Nat /\ h[i].vaddr \in Nat /\ h[i].filesz \in Nat
  <2>1. TAKE i \in 1 .. Len(h)
  <2>2. i \in DOMAIN h /\ h[i] \in L!Header
    BY <1>3
  <2> QED
    BY <2>2 DEF L!Header
<1>6. L!IsElf
  <2>1. 1 \in 1 .. n
    BY <1>1
  <2>2. mem[1 - 1] = kernel.sectors[1]
    BY <1>1, <2>1
  <2> QED
    BY <1>1, <2>2 DEF L!IsElf
<1>7. /\ ram' = IF p.type = L!PT_NULL THEN ram
                ELSE [a \in DOMAIN ram |->
                        IF a \in L!Addresses(p) THEN mem[p.offset + a - p.vaddr] ELSE ram[a]]
      /\ ecx' = ecx - 1 /\ lpc' = IF ecx' = 0 THEN "kernel" ELSE lpc
  BY <1>0, <1>4, <1>6 DEF L!InitKernel, L!ProgramHeader, h
<1>8. DOMAIN ram' = 0 .. LowMemory - 1
  BY <1>1, <1>7
<1> HIDE DEF n, p
<1>9. Placed(k)'
  <2>1. ASSUME NEW i \in 1 .. k, h[i].type # L!PT_NULL, NEW j \in 0 .. h[i].filesz - 1
        PROVE  ram'[h[i].vaddr + j] = kernel.sectors[h[i].offset + j + 1]
    <3>1. /\ i \in 1 .. Len(h) /\ i \in DOMAIN h /\ k \in DOMAIN h /\ j \in Nat
          /\ h[i].offset \in Nat /\ h[i].vaddr \in Nat /\ h[i].filesz \in Nat
          /\ p.offset \in Nat /\ p.vaddr \in Nat /\ p.filesz \in Nat
      <4>1. i \in 1 .. Len(h)
        BY <1>3, <1>4
      <4> QED
        BY <1>4, <1>5, <4>1 DEF p
    <3>2. h[i].offset + h[i].filesz <= n /\ h[i].vaddr + h[i].filesz <= LowMemory
      BY <1>2, <2>1, <3>1 DEF L!Loadable
    <3>3. /\ h[i].vaddr + j \in DOMAIN ram /\ h[i].vaddr + j \in L!Addresses(h[i])
      <4>1. DOMAIN ram = 0 .. LowMemory - 1 /\ LowMemory \in Nat /\ j <= h[i].filesz - 1
        BY <1>1, <2>1, <3>1, Machine
      <4> QED
        BY SMTT(30), <3>1, <3>2, <4>1 DEF L!Addresses
    <3>4. CASE i = k
      <4>1. ram'[h[i].vaddr + j] = mem[h[i].offset + (h[i].vaddr + j) - h[i].vaddr]
        BY <1>7, <2>1, <3>3, <3>4 DEF p
      <4>2. h[i].offset + (h[i].vaddr + j) - h[i].vaddr = (h[i].offset + j + 1) - 1
        BY <3>1
      <4>3. h[i].offset + j + 1 \in 1 .. n
        <5>1. n \in Nat /\ j <= h[i].filesz - 1
          BY <1>1, <2>1, <3>1 DEF n
        <5> QED
          BY SMTT(30), <3>1, <3>2, <5>1
      <4> QED
        BY <1>1, <4>1, <4>2, <4>3
    <3>5. CASE i # k
      <4>1. i \in 1 .. Len(h) - ecx
        BY <1>3, <1>4, <3>5
      <4>2. ram[h[i].vaddr + j] = kernel.sectors[h[i].offset + j + 1]
        BY <1>1, <2>1, <4>1 DEF Placed, h
      <4>3. CASE p.type = L!PT_NULL
        BY <1>7, <4>2, <4>3
      <4>4. CASE p.type # L!PT_NULL
        <5>1. L!Addresses(h[i]) \intersect L!Addresses(p) = {}
          BY <1>2, <2>1, <3>1, <3>5, <4>4 DEF L!Loadable, p
        <5>2. h[i].vaddr + j \notin L!Addresses(p)
          BY <3>3, <5>1
        <5> QED
          BY <1>7, <3>3, <4>2, <4>4, <5>2
      <4> QED
        BY <4>3, <4>4
    <3> QED
      BY <3>4, <3>5
  <2> QED
    BY <1>1, <2>1 DEF Placed, h
<1>10. Placed(Len(kernel.phdrs) - ecx)'
  <2>1. (Len(kernel.phdrs) - ecx)' = k
    BY <1>1, <1>4, <1>7 DEF h
  <2> QED
    BY <1>9, <2>1
<1>11. Measured(Len(bios.map))'
  BY <1>1 DEF Measured
<1>12. lpc' \in {"init_kernel", "kernel"}
  BY <1>1, <1>7
<1>13. MapInv'
  BY <1>1, <1>12 DEF MapInv
<1>14. L!LoaderTypeOK'
  BY <1>1, <1>12 DEF MemoryInv, L!LoaderTypeOK
<1>15. KernelInMemory'
  BY <1>1 DEF KernelInMemory, MemoryInv
<1>16. (mapped = L!PageTables(dwMemSize) * PerTable)'
  BY <1>1
<1>17. CASE ecx' = 0
  <2>1. lpc' = "kernel" /\ Placed(Len(kernel.phdrs))'
    <3>1. (Len(kernel.phdrs) - ecx)' = Len(kernel.phdrs)'
      BY <1>1, <1>3, <1>17 DEF h
    <3> QED
      BY <1>7, <1>10, <1>17, <3>1
  <2> QED
    BY <1>1, <1>8, <1>11, <1>13, <1>14, <1>15, <1>16, <2>1 DEF MemoryInv
<1>18. CASE ecx' # 0
  <2>1. lpc' = "init_kernel" /\ ecx' \in 1 .. Len(kernel.phdrs')
    BY <1>1, <1>3, <1>4, <1>7, <1>18 DEF h
  <2> QED
    BY <1>1, <1>8, <1>10, <1>11, <1>13, <1>14, <1>15, <1>16, <2>1 DEF MemoryInv
<1> QED
  BY <1>17, <1>18

(* Every step of it.                                                       *)
LEMMA MemoryGoesOn ==
  ASSUME MemoryInv, L!LoaderNext
  PROVE  MemoryInv'
BY MapAsked, RangeListed, RangeMeasured, MemoryMaps, SegmentPlaced DEF L!LoaderNext

(* What the kernel finds when it is jumped to.                             *)
LEMMA KernelIsReady ==
  ASSUME MemoryInv
  PROVE  L!KernelReady
<1>1. ASSUME lpc = "kernel"
      PROVE  /\ \A i \in DOMAIN kernel.phdrs :
                  LET p == kernel.phdrs[i]
                  IN p.type # L!PT_NULL =>
                       \A k \in 0 .. p.filesz - 1 :
                         ram[p.vaddr + k] = kernel.sectors[p.offset + k + 1]
             /\ \A a \in 0 .. AddressSpace - 1 : L!Usable(bios.map, a) => a < mapped
             /\ \A a \in PageDirBase .. PageDirBase + (mapped \div PerTable) :
                  L!Usable(bios.map, a) /\ a < mapped
  <2>1. /\ Placed(Len(kernel.phdrs)) /\ bios.map \in BiosMaps /\ bios.map # <<>>
        /\ Measured(Len(bios.map)) /\ mapped = L!PageTables(dwMemSize) * PerTable
    BY <1>1 DEF MemoryInv, MapInv
  <2>2. DOMAIN kernel.phdrs = 1 .. Len(kernel.phdrs)
    BY BootAssumption DEF MemoryInv, KernelInMemory, L!Loadable
  <2> QED
    BY <2>1, <2>2, MemoryMapped DEF Placed
<1> QED
  BY <1>1 DEF MemoryInv, L!KernelReady

-----------------------------------------------------------------------------
(* The GDT, as cstart() and init_prot() leave it.                          *)
Filled ==
  [i \in 0 .. P!INDEX_LDT_FIRST + NR_TASKS + NR_PROCS - 1 |->
     IF i >= P!INDEX_LDT_FIRST
     THEN P!init_descriptor(P!LdtAddress(i - P!INDEX_LDT_FIRST),
                            P!LDT_SIZE * P!DescSize - 1, P!DA_LDT)
     ELSE IF i = P!INDEX_TSS
     THEN P!init_descriptor(Tss, P!TssSize - 1, P!DA_386TSS)
     ELSE P!LOADER_GDT[i + 1]]

(* The IDT, as init_prot() leaves it.                                      *)
Gates ==
  [v \in P!GateVectors |->
     P!init_idt_desc(v, P!GateType, P!Handler(v),
       IF v \in P!UserGates THEN P!PRIVILEGE_USER ELSE P!PRIVILEGE_KRNL)]

Word == \hFFFF

(* The CPU decodes what init_descriptor() put into a descriptor.           *)
LEMMA Decoding ==
  ASSUME NEW b \in Nat, NEW l \in Nat, NEW a \in Nat,
         b <= P!LastAddress, l <= P!LastAddress, a <= Word
  PROVE  LET d == P!init_descriptor(b, l, a)
         IN /\ P!Base(d) = b
            /\ P!Limit(d) = l
            /\ d.attr1 = a % 256
            /\ d.limit_high_attr2 \div 64 = a \div P!DA_32
            /\ d.limit_high_attr2 \div 128 = a \div P!DA_LIMIT_4K
<1>1. P!Base(P!init_descriptor(b, l, a)) = b
  BY SMT DEF P!Base, P!init_descriptor, P!LastAddress
<1>2. P!Limit(P!init_descriptor(b, l, a)) = l
  BY SMT DEF P!Limit, P!init_descriptor, P!LastAddress
<1>3. /\ P!init_descriptor(b, l, a).attr1 = a % 256
      /\ P!init_descriptor(b, l, a).limit_high_attr2 \div 64 = a \div P!DA_32
      /\ P!init_descriptor(b, l, a).limit_high_attr2 \div 128 = a \div P!DA_LIMIT_4K
  BY SMT DEF P!init_descriptor, P!LastAddress, Word, P!DA_32, P!DA_LIMIT_4K
<1> QED
  BY <1>1, <1>2, <1>3

(* The tables that hold descriptors lie apart, in numbers.                 *)
LEMMA Layout ==
  /\ LoaderGdt \in Nat /\ Gdt \in Nat /\ Tss \in Nat /\ ProcTable \in Nat
  /\ NR_TASKS \in Nat \ {0} /\ NR_PROCS \in Nat /\ 5 + NR_TASKS + NR_PROCS <= 128
  /\ Tss + 104 <= P!LastAddress
  /\ ProcTable + 124 * (NR_TASKS + NR_PROCS) <= P!LastAddress
  /\ Gdt + 1024 <= LoaderGdt \/ LoaderGdt + 32 <= Gdt
  /\ Gdt + 1024 <= ProcTable \/ ProcTable + 124 * (NR_TASKS + NR_PROCS) <= Gdt
  /\ LoaderGdt + 32 <= ProcTable \/ ProcTable + 124 * (NR_TASKS + NR_PROCS) <= LoaderGdt
<1> DEFINE A == P!Area
<1>1. /\ \A i \in DOMAIN A : A[i][1] + A[i][2] <= P!LastAddress
      /\ \A i, j \in DOMAIN A : i # j =>
           A[i][1] + A[i][2] <= A[j][1] \/ A[j][1] + A[j][2] <= A[i][1]
      /\ {LoaderGdt, Gdt, Tss, ProcTable} \subseteq Nat
      /\ NR_TASKS \in Nat \ {0} /\ NR_PROCS \in Nat /\ 5 + NR_TASKS + NR_PROCS <= 128
  BY BootAssumption DEF P!LayoutAssumption, P!INDEX_LDT_FIRST, P!GDT_SIZE
<1>2. /\ DOMAIN A = 1 .. 5
      /\ A[1][1] = Gdt /\ A[1][2] = P!GDT_SIZE * P!DescSize
      /\ A[3][1] = Tss /\ A[3][2] = P!TssSize
      /\ A[4][1] = ProcTable /\ A[4][2] = P!ProcSize * (NR_TASKS + NR_PROCS)
      /\ A[5][1] = LoaderGdt /\ A[5][2] = 4 * P!DescSize
  BY SMT DEF P!Area
<1> HIDE DEF A
<1>3. /\ A[1][2] = 1024 /\ A[3][2] = 104 /\ A[5][2] = 32
      /\ A[4][2] = 124 * (NR_TASKS + NR_PROCS)
  BY SMT, <1>2 DEF P!GDT_SIZE, P!DescSize, P!TssSize, P!ProcSize
<1>4. /\ A[3][1] + A[3][2] <= P!LastAddress /\ A[4][1] + A[4][2] <= P!LastAddress
      /\ A[1][1] + A[1][2] <= A[5][1] \/ A[5][1] + A[5][2] <= A[1][1]
      /\ A[1][1] + A[1][2] <= A[4][1] \/ A[4][1] + A[4][2] <= A[1][1]
      /\ A[5][1] + A[5][2] <= A[4][1] \/ A[4][1] + A[4][2] <= A[5][1]
  BY SMT, <1>1, <1>2
<1> QED
  BY <1>1, <1>2, <1>3, <1>4

(* Where the LDT of a process lies, and the descriptor of it.              *)
LEMMA LdtAddresses ==
  ASSUME NEW i \in P!Proc
  PROVE  /\ P!LdtAddress(i) \in Nat /\ P!LdtAddress(i) <= P!LastAddress
         /\ i \in Nat /\ P!INDEX_LDT_FIRST + i \in DOMAIN Filled
         /\ Filled[P!INDEX_LDT_FIRST + i] =
              P!init_descriptor(P!LdtAddress(i), P!LDT_SIZE * P!DescSize - 1, P!DA_LDT)
BY SMTT(30), Layout, BootAssumption DEF P!LayoutAssumption, P!Proc, P!LdtAddress, Filled, P!LastAddress,
   P!ProcSize,
   P!LdtsOffset, P!INDEX_LDT_FIRST

(* The descriptors of the kernel are what the CPU asks of them.            *)
LEMMA KernelDescriptors ==
  /\ {0, 1, 2, 3, 4} \subseteq DOMAIN Filled
  /\ P!IsCode(Filled[1]) /\ ~P!IsConformingCode(Filled[1]) /\ P!Dpl(Filled[1]) = 0
  /\ P!IsFlat(Filled[1])
  /\ P!IsWritable(Filled[2]) /\ P!IsReadable(Filled[2]) /\ P!Dpl(Filled[2]) = 0
  /\ P!IsFlat(Filled[2])
  /\ P!IsWritable(Filled[3]) /\ P!IsReadable(Filled[3]) /\ P!Dpl(Filled[3]) = 3
  /\ P!Base(Filled[3]) = P!VideoBase
  /\ P!Present(Filled[4]) /\ P!Type(Filled[4]) = 9
  /\ P!Base(Filled[4]) = Tss /\ P!Limit(Filled[4]) = P!TssSize - 1
<1>1. /\ {0, 1, 2, 3, 4} \subseteq DOMAIN Filled
      /\ \A i \in {1, 2, 3} : Filled[i] = P!LOADER_GDT[i + 1]
      /\ Filled[4] = P!init_descriptor(Tss, P!TssSize - 1, P!DA_386TSS)
  BY BootAssumption DEF P!LayoutAssumption, Filled, P!INDEX_LDT_FIRST, P!INDEX_TSS
<1>2. /\ P!LOADER_GDT[2] = P!init_descriptor(0, \hFFFFF, \hC09A)
      /\ P!LOADER_GDT[3] = P!init_descriptor(0, \hFFFFF, \hC092)
      /\ P!LOADER_GDT[4] = P!init_descriptor(P!VideoBase, \hFFFF, \hF2)
  BY SMT DEF P!LOADER_GDT, P!DA_CR, P!DA_DRW, P!DA_32, P!DA_LIMIT_4K, P!PRIVILEGE_USER
<1>3. /\ P!IsCode(Filled[1]) /\ ~P!IsConformingCode(Filled[1]) /\ P!Dpl(Filled[1]) = 0
      /\ P!IsFlat(Filled[1])
  <2>1. Filled[1] = P!init_descriptor(0, \hFFFFF, \hC09A)
    BY SMT, <1>1, <1>2
  <2> QED
    BY SMT, <2>1, Decoding DEF P!LastAddress, P!VideoBase, Word, P!DA_32, P!DA_LIMIT_4K,
       P!IsCode, P!IsConformingCode, P!Dpl, P!IsFlat, P!Present, P!Type, P!Granular
<1>4. /\ P!IsWritable(Filled[2]) /\ P!IsReadable(Filled[2]) /\ P!Dpl(Filled[2]) = 0
      /\ P!IsFlat(Filled[2])
  <2>1. Filled[2] = P!init_descriptor(0, \hFFFFF, \hC092)
    BY SMT, <1>1, <1>2
  <2> QED
    <3>2. /\ 0 \in Nat /\ \hFFFFF \in Nat /\ \hC092 \in Nat
          /\ 0 <= P!LastAddress /\ \hFFFFF <= P!LastAddress /\ \hC092 <= Word
          /\ \hC092 % 256 = \h92 /\ \hC092 \div P!DA_32 = 3 /\ \hC092 \div P!DA_LIMIT_4K = 1
      BY SMT DEF P!LastAddress, Word, P!DA_32, P!DA_LIMIT_4K
    <3>1. /\ P!Base(Filled[2]) = 0 /\ P!Limit(Filled[2]) = \hFFFFF /\ Filled[2].attr1 = \h92
          /\ Filled[2].limit_high_attr2 \div 64 = 3 /\ Filled[2].limit_high_attr2 \div 128 = 1
      BY SMT, <2>1, <3>2, Decoding
    <3> QED
      BY SMT, <3>1 DEF P!IsWritable, P!IsReadable, P!Dpl, P!IsFlat, P!Present, P!Type, P!Granular
<1>5. /\ P!IsWritable(Filled[3]) /\ P!IsReadable(Filled[3]) /\ P!Dpl(Filled[3]) = 3
      /\ P!Base(Filled[3]) = P!VideoBase
  <2>1. Filled[3] = P!init_descriptor(P!VideoBase, \hFFFF, \hF2)
    BY SMT, <1>1, <1>2
  <2>2. /\ P!VideoBase \in Nat /\ P!VideoBase <= P!LastAddress /\ \hFFFF <= P!LastAddress
        /\ \hF2 <= Word
    BY SMT DEF P!VideoBase, P!LastAddress, Word
  <2>3. P!Base(Filled[3]) = P!VideoBase /\ Filled[3].attr1 = \hF2
    BY SMT, <2>1, <2>2, Decoding
  <2> QED
    BY SMT, <2>3 DEF P!IsWritable, P!IsReadable, P!Dpl, P!Present, P!Type
<1>6. /\ P!Present(Filled[4]) /\ P!Type(Filled[4]) = 9
      /\ P!Base(Filled[4]) = Tss /\ P!Limit(Filled[4]) = P!TssSize - 1
  <2>1. /\ Tss \in Nat /\ Tss <= P!LastAddress
        /\ P!TssSize - 1 \in Nat /\ P!TssSize - 1 <= P!LastAddress
        /\ P!DA_386TSS \in Nat /\ P!DA_386TSS <= Word
    BY SMT, Layout DEF P!TssSize, P!DA_386TSS, P!LastAddress, Word
  <2>2. P!Base(Filled[4]) = Tss /\ P!Limit(Filled[4]) = P!TssSize - 1 /\ Filled[4].attr1 = \h89
    <3>1. P!DA_386TSS % 256 = \h89
      BY SMT DEF P!DA_386TSS
    <3> QED
      BY SMT, <1>1, <2>1, <3>1, Decoding
  <2> QED
    BY SMT, <2>2 DEF P!Present, P!Type
<1> QED
  BY <1>1, <1>3, <1>4, <1>5, <1>6

(* The descriptors of a process are those of the kernel at its own level.  *)
LEMMA ProcessDescriptors ==
  ASSUME NEW i \in P!Proc, gdt = Filled
  PROVE  LET code == P!ProcessEntry(i).ldts[0]
             data == P!ProcessEntry(i).ldts[1]
         IN /\ P!IsCode(code) /\ ~P!IsConformingCode(code) /\ P!Dpl(code) = P!Privilege(i)
            /\ P!IsFlat(code)
            /\ P!IsWritable(data) /\ P!IsReadable(data) /\ P!Dpl(data) = P!Privilege(i)
            /\ P!IsFlat(data)
<1> DEFINE code == P!ProcessEntry(i).ldts[0]
           data == P!ProcessEntry(i).ldts[1]
<1>1. P!Privilege(i) \in {1, 3}
  BY DEF P!Privilege, P!PRIVILEGE_TASK, P!PRIVILEGE_USER
<1>2. /\ code = [Filled[1] EXCEPT !.attr1 = P!DA_C + 32 * P!Privilege(i)]
      /\ data = [Filled[2] EXCEPT !.attr1 = P!DA_DRW + 32 * P!Privilege(i)]
  BY SMT DEF P!ProcessEntry, P!LDT_SIZE, P!SELECTOR_KERNEL_CS, P!SELECTOR_KERNEL_DS
<1>3. Filled[1] = P!LOADER_GDT[2] /\ Filled[2] = P!LOADER_GDT[3]
  BY BootAssumption DEF P!LayoutAssumption, Filled, P!INDEX_LDT_FIRST, P!INDEX_TSS
<1>4. /\ P!LOADER_GDT[2] = P!init_descriptor(0, \hFFFFF, \hC09A)
      /\ P!LOADER_GDT[3] = P!init_descriptor(0, \hFFFFF, \hC092)
  BY SMT DEF P!LOADER_GDT, P!DA_CR, P!DA_DRW, P!DA_32, P!DA_LIMIT_4K
<1>5. /\ code.attr1 = \h98 + 32 * P!Privilege(i)
      /\ P!Base(code) = P!Base(Filled[1]) /\ P!Limit(code) = P!Limit(Filled[1])
      /\ code.limit_high_attr2 = Filled[1].limit_high_attr2
  BY SMT, <1>2, <1>3, <1>4 DEF P!init_descriptor, P!Base, P!Limit, P!DA_C
<1>6. /\ data.attr1 = \h92 + 32 * P!Privilege(i)
      /\ P!Base(data) = P!Base(Filled[2]) /\ P!Limit(data) = P!Limit(Filled[2])
      /\ data.limit_high_attr2 = Filled[2].limit_high_attr2
  BY SMT, <1>2, <1>3, <1>4 DEF P!init_descriptor, P!Base, P!Limit, P!DA_DRW
<1> HIDE DEF code, data
<1>7. P!IsFlat(code) /\ P!IsFlat(data)
  BY SMT, <1>5, <1>6, KernelDescriptors DEF P!IsFlat, P!Granular
<1>8. P!IsCode(code) /\ ~P!IsConformingCode(code) /\ P!Dpl(code) = P!Privilege(i)
  BY SMT, <1>1, <1>5 DEF P!IsCode, P!IsConformingCode, P!Dpl, P!Present, P!Type
<1>9. P!IsWritable(data) /\ P!IsReadable(data) /\ P!Dpl(data) = P!Privilege(i)
  BY SMT, <1>1, <1>6 DEF P!IsWritable, P!IsReadable, P!Dpl, P!Present, P!Type
<1> QED
  BY <1>7, <1>8, <1>9 DEF code, data

(* The registers for the tables of the kernel, and for an LDT.             *)
KernelGdtr == [base |-> Gdt, limit |-> P!GDT_SIZE * P!DescSize - 1]
KernelIdtr == [base |-> Idt, limit |-> P!IDT_SIZE * P!DescSize - 1]
LdtOf(i) == [base |-> P!LdtAddress(i), limit |-> P!LDT_SIZE * P!DescSize - 1]

(* The parts of a selector.                                                *)
LEMMA SelectorBits ==
  ASSUME NEW i \in Nat, NEW r \in 0 .. 3
  PROVE  /\ (8 * i + r) \div 8 = i /\ (8 * i + r) \div 4 = 2 * i
         /\ (2 * i) % 2 = 0 /\ (8 * i + r) % 4 = r
BY SMT

(* The index of a descriptor, from its address.                            *)
LEMMA EightfoldOffset ==
  ASSUME NEW i \in Nat, NEW b \in Nat
  PROVE  (b + 8 * i - b) % 8 = 0 /\ (b + 8 * i - b) \div 8 = i
BY SMT

(* A selector of the GDT, whatever its level.                              *)
LEMMA FetchGlobal ==
  ASSUME NEW i \in DOMAIN Filled, NEW r \in 0 .. 3, NEW local,
         gdt = Filled, gdtr = KernelGdtr
  PROVE  P!Fetch(8 * i + r, local) = Filled[i]
<1>1. i \in Nat /\ i < P!INDEX_LDT_FIRST + NR_TASKS + NR_PROCS
  BY Layout DEF Filled, P!INDEX_LDT_FIRST
<1>2. ~P!Local(8 * i + r) /\ (8 * i + r) \div 8 = i
  BY SMT, <1>1, SelectorBits DEF P!Local
<1>3. P!Fetch(8 * i + r, local) = P!DescriptorAt(Gdt + 8 * i)
  <2>1. 8 * i + 8 - 1 <= 128 * 8 - 1
    BY SMT, <1>1, Layout DEF P!INDEX_LDT_FIRST
  <2>2. P!Fetch(8 * i + r, local) = P!DescriptorAt(gdtr.base + i * 8)
    BY SMT, <1>1, <1>2, <2>1 DEF P!Fetch, KernelGdtr, P!DescSize, P!GDT_SIZE
  <2> QED
    BY SMT, <1>1, <2>2 DEF KernelGdtr
<1>4. P!DescriptorAt(Gdt + 8 * i) = Filled[i]
  <2> DEFINE a == Gdt + 8 * i
  <2>1. /\ a \in Nat /\ a >= Gdt /\ Gdt \in Nat /\ LoaderGdt \in Nat
        /\ a < LoaderGdt \/ (a - LoaderGdt) \div 8 >= 4
    <3>1. /\ i \in Nat /\ a \in Nat /\ Gdt \in Nat /\ LoaderGdt \in Nat
          /\ i < 128 /\ a = Gdt + 8 * i
      BY SMT, <1>1, Layout DEF P!INDEX_LDT_FIRST
    <3>2. a < LoaderGdt \/ a >= LoaderGdt + 32
      BY SMT, <3>1, Layout
    <3> HIDE DEF a
    <3>3. a >= Gdt /\ (a < LoaderGdt \/ (a - LoaderGdt) \div 8 >= 4)
      BY SMT, <3>1, <3>2
    <3> QED
      BY <3>1, <3>3
  <2>2. (a - Gdt) % 8 = 0 /\ (a - Gdt) \div 8 = i
    BY <1>1, <2>1, EightfoldOffset
  <2> HIDE DEF a
  <2>3. P!DescriptorAt(a) = gdt[i]
    BY SMT, <1>1, <2>1, <2>2 DEF P!DescriptorAt, P!DescSize
  <2> QED
    BY <2>3 DEF a
<1> QED
  BY <1>3, <1>4

(* A selector of the LDT of process i.                                     *)
LEMMA FetchLocal ==
  ASSUME NEW i \in P!Proc, NEW k \in {0, 1}, NEW r \in 0 .. 3
  PROVE  P!Fetch(8 * k + 4 + r, LdtOf(i)) = proc_table[i].ldts[k]
<1>1. i \in Nat /\ i < NR_TASKS + NR_PROCS
  BY Layout DEF P!Proc
<1>2. P!Local(8 * k + 4 + r) /\ (8 * k + 4 + r) \div 8 = k
  BY SMT DEF P!Local
<1> DEFINE a == P!LdtAddress(i) + 8 * k
<1>3. P!Fetch(8 * k + 4 + r, LdtOf(i)) = P!DescriptorAt(a)
  BY SMT, <1>2 DEF P!Fetch, LdtOf, P!DescSize, P!LDT_SIZE
<1>4. a = ProcTable + 124 * i + 74 + 8 * k /\ a \in Nat
  BY SMT, <1>1, Layout DEF P!LdtAddress, P!ProcSize, P!LdtsOffset
<1>5. /\ a < LoaderGdt \/ a >= LoaderGdt + 32
      /\ a < Gdt \/ a >= Gdt + 1024
  <2>1. /\ ProcTable \in Nat /\ a >= ProcTable
        /\ a + 8 <= ProcTable + 124 * (NR_TASKS + NR_PROCS)
    BY SMT, <1>1, <1>4, Layout
  <2> HIDE DEF a
  <2> QED
    BY SMT, <1>4, <2>1, Layout
<1> HIDE DEF a
<1> DEFINE In(base, n) == a >= base /\ (a - base) % 8 = 0 /\ (a - base) \div 8 < n
           Ldts(j) == ProcTable + j * 124 + 74
<1>6. ~In(LoaderGdt, 4)
  BY SMT, <1>5, <1>4, Layout
<1>7. ~In(Gdt, P!INDEX_LDT_FIRST + NR_TASKS + NR_PROCS)
  BY SMT, <1>5, <1>4, Layout DEF P!INDEX_LDT_FIRST
<1>8. In(Ldts(i), 2)
  BY SMT, <1>4, <1>1, Layout
<1>9. ASSUME NEW j \in P!Proc, In(Ldts(j), 2)
      PROVE  j = i
  <2>1. j \in Nat
    BY Layout DEF P!Proc
  <2> QED
    BY SMT, <1>9, <2>1, <1>4, <1>1, Layout
<1>10. (a - Ldts(i)) \div 8 = k
  BY SMT, <1>4, <1>1, Layout
<1>11. P!DescriptorAt(a) =
         LET j == CHOOSE j \in P!Proc : In(Ldts(j), 2)
         IN proc_table[j].ldts[(a - Ldts(j)) \div 8]
  BY SMT, <1>6, <1>7, <1>8 DEF P!DescriptorAt, P!DescSize, P!ProcSize, P!LdtsOffset, P!LDT_SIZE
<1>12. (CHOOSE j \in P!Proc : In(Ldts(j), 2)) = i
  <2> HIDE DEF In, Ldts
  <2> QED
    BY <1>8, <1>9
<1> QED
  BY <1>3, <1>10, <1>11, <1>12

-----------------------------------------------------------------------------
(* The registers are numbers.                                              *)
Cpu == [eflags : Nat, cs : Nat, ds : Nat, es : Nat, fs : Nat, gs : Nat, ss : Nat, eip : Nat]

(* The tables as init_prot() leaves them; with lgdt and lidt; with ltr.    *)
FilledTss == [ss0 |-> P!SELECTOR_KERNEL_DS, iobase |-> P!IoBase]

TablesFilled == gdt = Filled /\ idt = Gates /\ tss = FilledTss

TablesLoaded ==
  TablesFilled /\ gdtr = KernelGdtr /\ idtr = KernelIdtr

TaskLoaded ==
  TablesLoaded /\ tr = [base |-> Tss, limit |-> P!TssSize - 1]

(* The selectors and flags that kernel_main() gives a process.             *)
LEMMA ProcessRegisters ==
  ASSUME NEW i \in P!Proc
  PROVE  LET r == P!ProcessEntry(i).regs
             l == P!Privilege(i)
         IN /\ l \in {1, 3}
            /\ r.cs = 4 + l /\ r.gs = 24 + l
            /\ r.ds = 12 + l /\ r.es = 12 + l /\ r.fs = 12 + l /\ r.ss = 12 + l
            /\ r.eflags = P!Eflags(i)
            /\ r \in Cpu
            /\ P!Rpl(4 + l) = l /\ P!Rpl(12 + l) = l /\ P!Rpl(24 + l) = l
<1>1. P!Privilege(i) \in {1, 3}
  BY DEF P!Privilege, P!PRIVILEGE_TASK, P!PRIVILEGE_USER
<1>2. /\ P!WithRpl(P!InLdt(0), P!Privilege(i)) = 4 + P!Privilege(i)
      /\ P!WithRpl(P!InLdt(8), P!Privilege(i)) = 12 + P!Privilege(i)
      /\ P!WithRpl(P!SELECTOR_KERNEL_GS, P!Privilege(i)) = 24 + P!Privilege(i)
  BY SMT, <1>1 DEF P!WithRpl, P!InLdt, P!SA_TIL, P!SELECTOR_KERNEL_GS
<1>3. Text + \h1000 * (i + 1) \in Nat /\ P!Eflags(i) \in Nat
  BY SMT, BootAssumption DEF P!LayoutAssumption, P!Proc, P!Eflags
<1> DEFINE l == P!Privilege(i)
           Regs == [cs |-> 4 + l, ds |-> 12 + l, es |-> 12 + l, fs |-> 12 + l,
                    ss |-> 12 + l, gs |-> 24 + l,
                    eip |-> Text + \h1000 * (i + 1), eflags |-> P!Eflags(i)]
<1>4. P!ProcessEntry(i).regs = Regs
  BY SMT, <1>2 DEF P!ProcessEntry
<1>5. Regs \in Cpu
  BY SMT, <1>1, <1>3 DEF Cpu
<1>6. P!Rpl(4 + l) = l /\ P!Rpl(12 + l) = l /\ P!Rpl(24 + l) = l
  BY SMT, <1>1 DEF P!Rpl
<1> QED
  BY SMT, <1>1, <1>4, <1>5, <1>6

(* A gate leads to the routine of its vector; three are open to everybody. *)
LEMMA GatesLead ==
  ASSUME NEW v \in P!GateVectors, TaskLoaded, cpu \in Cpu
  PROVE  /\ P!GateOpens(v) /\ P!Routine(v) = v
         /\ P!GateOf(v).selector = P!SELECTOR_KERNEL_CS
         /\ P!GateOf(v).attr % 2 = 0
         /\ P!GateAllowed(v) <=> (v \in P!UserGates \/ P!CPL = 0)
         /\ P!Handler(v) \in Nat
<1>1. v \in Nat /\ v <= 144
  BY SMT DEF P!GateVectors, P!ExceptionVectors, P!IrqVectors, P!INT_VECTOR_IRQ0,
     P!INT_VECTOR_SYS_CALL
<1>2. P!GateOf(v) = Gates[v]
  <2>1. (v + 1) * 8 - 1 <= 256 * 8 - 1
    BY SMT, <1>1
  <2> QED
    BY SMT, <2>1 DEF P!GateOf, TaskLoaded, TablesLoaded, TablesFilled, KernelIdtr, P!IDT_SIZE,
       P!DescSize
<1> DEFINE privilege == IF v \in P!UserGates THEN 3 ELSE 0
<1>3. Gates[v] = P!init_idt_desc(v, P!GateType, P!Handler(v), privilege)
  BY DEF Gates, P!PRIVILEGE_USER, P!PRIVILEGE_KRNL
<1>4. P!Handler(v) = Text + 16 * v /\ P!Handler(v) \in Nat /\ P!Handler(v) <= P!LastAddress
  BY SMT, <1>1, BootAssumption DEF P!LayoutAssumption, P!Handler, P!IDT_SIZE, P!LastAddress
<1>5. /\ P!GateOf(v).selector = P!SELECTOR_KERNEL_CS
      /\ P!GateOf(v).attr = P!GateType + 32 * privilege
      /\ P!GateOf(v).offset_low = P!Handler(v) % \h10000
      /\ P!GateOf(v).offset_high = (P!Handler(v) \div \h10000) % \h10000
  BY SMT, <1>2, <1>3 DEF P!init_idt_desc
<1>6. P!Routine(v) = v
  <2>1. P!GateOf(v).offset_low + \h10000 * P!GateOf(v).offset_high = P!Handler(v)
    BY SMT, <1>4, <1>5 DEF P!LastAddress
  <2>2. Text \in Nat
    BY BootAssumption DEF P!LayoutAssumption
  <2>3. (P!Handler(v) - Text) \div 16 = v
    BY SMT, <1>1, <1>4, <2>2
  <2>4. P!GateOf(v).offset_low \in Nat /\ P!GateOf(v).offset_high \in Nat
    BY SMT, <1>4, <1>5
  <2> QED
    BY SMT, <1>4, <2>1, <2>2, <2>3, <2>4 DEF P!Routine
<1>7. privilege \in {0, 3} /\ (privilege = 3 <=> v \in P!UserGates)
  OBVIOUS
<1> HIDE DEF privilege
<1>8. /\ P!GateOf(v).attr \div 128 = 1 /\ P!GateOf(v).attr % 32 = 14
      /\ (P!GateOf(v).attr \div 32) % 4 = privilege /\ P!GateOf(v).attr % 2 = 0
  BY SMT, <1>5, <1>7 DEF P!GateType, P!DA_386IGate
<1>9. \A local : P!Fetch(P!SELECTOR_KERNEL_CS, local) = Filled[1]
  <2> SUFFICES ASSUME NEW local PROVE P!Fetch(8 * 1 + 0, local) = Filled[1]
    BY DEF P!SELECTOR_KERNEL_CS
  <2> QED
    BY FetchGlobal, KernelDescriptors DEF TaskLoaded, TablesLoaded, TablesFilled
<1>10. \A local : P!Fetch(P!SELECTOR_KERNEL_DS, local) = Filled[2]
  <2> SUFFICES ASSUME NEW local PROVE P!Fetch(8 * 2 + 0, local) = Filled[2]
    BY DEF P!SELECTOR_KERNEL_DS
  <2> QED
    BY FetchGlobal, KernelDescriptors DEF TaskLoaded, TablesLoaded, TablesFilled
<1>11. tr.base = Tss /\ P!StackLoads(tss.ss0, 0, ldtr)
  <2>1. tss.ss0 = P!SELECTOR_KERNEL_DS /\ tr.base = Tss
    BY DEF TaskLoaded, TablesLoaded, TablesFilled, FilledTss
  <2>2. ~P!IsNull(P!SELECTOR_KERNEL_DS) /\ P!Rpl(P!SELECTOR_KERNEL_DS) = 0
    BY SMT DEF P!IsNull, P!Rpl, P!SELECTOR_KERNEL_DS
  <2> QED
    BY <2>1, <2>2, <1>10, KernelDescriptors DEF P!StackLoads
<1>12. P!GateOpens(v)
  BY <1>5, <1>8, <1>9, <1>11, KernelDescriptors DEF P!GateOpens
<1>13. P!CPL \in 0 .. 3
  BY SMT DEF P!CPL, P!Rpl, Cpu
<1>14. P!GateAllowed(v) <=> (v \in P!UserGates \/ P!CPL = 0)
  BY SMT, <1>7, <1>8, <1>13 DEF P!GateAllowed
<1> QED
  BY <1>4, <1>5, <1>6, <1>8, <1>12, <1>14

-----------------------------------------------------------------------------
(* The process table, as kernel_main() leaves it.                          *)
Entries == [i \in P!Proc |-> P!ProcessEntry(i)]

(* What the CPU gave with the exception, and what lies on the stack.       *)
Raised ==
  /\ raised.vec \in P!ExceptionVectors
  /\ raised.vec \notin P!WithErrorCode => raised.err = P!NoError
  /\ raised = [vec |-> raised.vec, err |-> raised.err, eip |-> raised.eip, cs |-> raised.cs,
               eflags |-> raised.eflags]

(* The frame of an exception, and the error code if there is one.          *)
Frame == <<raised.eip, raised.cs, raised.eflags, P!Junk, P!Junk, P!Junk>>

Pushed == IF raised.vec \in P!WithErrorCode THEN <<raised.err>> \o Frame ELSE Frame

(* What holds of the kernel and the CPU, by how far the start has come.    *)
KernelInv ==
  /\ kpc \in {"_start", "lgdt", "csinit", "kernel_main", "restart", "process", "kernel",
              "exception", "halted"}
  /\ p_proc_ready \in P!Proc
  /\ cpu \in Cpu
  /\ kpc = "_start" => gdt = [i \in DOMAIN Filled |-> P!NoDescriptor]
  /\ kpc # "_start" => TablesFilled
  /\ kpc \notin {"_start", "lgdt"} => TablesLoaded
  /\ kpc \notin {"_start", "lgdt", "csinit"} => TaskLoaded
  /\ kpc \notin {"_start", "lgdt", "csinit", "kernel_main"} => proc_table = Entries
  /\ kpc # "process" => cpu.cs = P!SELECTOR_KERNEL_CS
  /\ kpc = "kernel" =>
       /\ cpu.ds = P!SELECTOR_KERNEL_DS /\ cpu.es = P!SELECTOR_KERNEL_DS
       /\ cpu.ss = P!SELECTOR_KERNEL_DS /\ \E r \in 0 .. 3 : cpu.gs = 8 * 3 + r
  /\ kpc = "process" =>
       cpu = P!ProcessEntry(p_proc_ready).regs /\ ldtr = LdtOf(p_proc_ready)
  /\ kpc \in {"exception", "halted"} => cpu.eflags = 2 /\ Raised /\ stack # <<>>
  /\ kpc = "exception" => stack = Pushed
  /\ kpc = "halted" => screen = raised

(* What the loader leaves.                                                 *)
LEMMA KernelInvInit ==
  ASSUME P!Init
  PROVE  KernelInv
<1> USE DEF P!Init
<1>1. gdt = [i \in DOMAIN Filled |-> P!NoDescriptor]
  BY DEF Filled
<1>2. cpu \in Cpu /\ cpu.cs = P!SELECTOR_KERNEL_CS
  BY SMT, BootAssumption DEF P!LayoutAssumption, Cpu, P!SELECTOR_KERNEL_CS, P!SELECTOR_KERNEL_DS,
     P!SELECTOR_KERNEL_GS
<1>3. p_proc_ready \in P!Proc
  BY BootAssumption DEF P!LayoutAssumption, P!Proc
<1> QED
  BY <1>1, <1>2, <1>3 DEF KernelInv

(* cstart() fills the tables.                                              *)
LEMMA KernelStarts ==
  ASSUME KernelInv, P!CStart
  PROVE  KernelInv'
<1>1. gdt' = Filled
  <2> DEFINE copied == [i \in DOMAIN gdt |->
               IF i < Len(P!LOADER_GDT) THEN P!LOADER_GDT[i + 1] ELSE gdt[i]]
  <2>1. gdt = [i \in DOMAIN Filled |-> P!NoDescriptor] /\ DOMAIN gdt = DOMAIN Filled
    BY DEF KernelInv, P!CStart
  <2>2. Len(P!LOADER_GDT) = 4
    BY SMT DEF P!LOADER_GDT
  <2>3. \A i \in DOMAIN Filled : i \in {0, 1, 2, 3} => copied[i] = P!LOADER_GDT[i + 1]
    BY <2>1, <2>2
  <2>4. \A a : P!vir2phys(copied, a) = 0 + a
    <3>1. P!SELECTOR_KERNEL_DS \div 8 = 2
      BY SMT DEF P!SELECTOR_KERNEL_DS
    <3>2. 2 \in DOMAIN Filled
      BY KernelDescriptors
    <3>3. Filled[2] = P!LOADER_GDT[2 + 1] /\ P!Base(Filled[2]) = 0
      BY SMT, <3>2, KernelDescriptors DEF Filled, P!INDEX_LDT_FIRST, P!INDEX_TSS, P!IsFlat
    <3>4. P!Base(copied[2]) = 0
      BY <3>2, <3>3, <2>3
    <3> HIDE DEF copied
    <3> QED
      BY <3>1, <3>4 DEF P!vir2phys
  <2> HIDE DEF copied
  <2>5. gdt' = [i \in DOMAIN gdt |->
          IF i - P!INDEX_LDT_FIRST \in P!Proc
          THEN P!init_descriptor(P!vir2phys(copied, P!LdtAddress(i - P!INDEX_LDT_FIRST)),
                               P!LDT_SIZE * P!DescSize - 1, P!DA_LDT)
          ELSE IF i = P!INDEX_TSS
          THEN P!init_descriptor(P!vir2phys(copied, Tss), P!TssSize - 1, P!DA_386TSS)
          ELSE copied[i]]
    BY DEF P!CStart, copied
  <2>6. /\ \A i \in P!Proc : 0 + P!LdtAddress(i) = P!LdtAddress(i)
        /\ 0 + Tss = Tss
    BY LdtAddresses, BootAssumption DEF P!LayoutAssumption
  <2>7. ASSUME NEW i \in DOMAIN Filled
        PROVE  gdt'[i] = Filled[i]
    <3>1. /\ i \in Nat
          /\ i - P!INDEX_LDT_FIRST \in P!Proc <=> i >= P!INDEX_LDT_FIRST
          /\ i < P!INDEX_LDT_FIRST /\ i # P!INDEX_TSS => i \in {0, 1, 2, 3}
      BY BootAssumption DEF P!LayoutAssumption, Filled, P!INDEX_LDT_FIRST, P!INDEX_TSS, P!Proc
    <3>2. gdt'[i] = IF i >= P!INDEX_LDT_FIRST
              THEN P!init_descriptor(0 + P!LdtAddress(i - P!INDEX_LDT_FIRST),
                                     P!LDT_SIZE * P!DescSize - 1, P!DA_LDT)
              ELSE IF i = P!INDEX_TSS
              THEN P!init_descriptor(0 + Tss, P!TssSize - 1, P!DA_386TSS)
              ELSE copied[i]
      BY <2>1, <2>4, <2>5, <3>1
    <3>3. Filled[i] = IF i >= P!INDEX_LDT_FIRST
              THEN P!init_descriptor(P!LdtAddress(i - P!INDEX_LDT_FIRST),
                                     P!LDT_SIZE * P!DescSize - 1, P!DA_LDT)
              ELSE IF i = P!INDEX_TSS
              THEN P!init_descriptor(Tss, P!TssSize - 1, P!DA_386TSS)
              ELSE P!LOADER_GDT[i + 1]
      BY DEF Filled
    <3>4. i >= P!INDEX_LDT_FIRST \/ (i < P!INDEX_LDT_FIRST /\ i = P!INDEX_TSS)
             \/ (~(i >= P!INDEX_LDT_FIRST) /\ i # P!INDEX_TSS /\ i \in {0, 1, 2, 3})
      BY <3>1 DEF P!INDEX_LDT_FIRST, P!INDEX_TSS
    <3> QED
      BY <3>1, <3>2, <3>3, <3>4, <2>3, <2>6
  <2> QED
    BY <2>1, <2>5, <2>7 DEF Filled
<1>2. idt' = Gates /\ tss' = FilledTss
  BY DEF P!CStart, Gates, FilledTss
<1>3. kpc = "_start" /\ kpc' = "lgdt" /\ UNCHANGED <<p_proc_ready, cpu>>
  BY DEF P!CStart, P!error
<1> QED
  BY <1>1, <1>2, <1>3 DEF KernelInv, TablesFilled

(* lgdt, lidt, the far jump and ltr.                                       *)
LEMMA KernelLoads ==
  ASSUME KernelInv, P!LoadTables \/ P!CsInit
  PROVE  KernelInv'
<1>1. CASE P!LoadTables
  <2>1. /\ kpc = "lgdt" /\ kpc' = "csinit" /\ gdtr' = KernelGdtr /\ idtr' = KernelIdtr
        /\ UNCHANGED <<gdt, idt, tss, p_proc_ready, cpu>>
    BY <1>1 DEF P!LoadTables, P!tables, P!error, KernelGdtr, KernelIdtr
  <2> QED
    BY <2>1 DEF KernelInv, TablesLoaded, TablesFilled
<1>2. CASE P!CsInit
  <2>1. kpc = "csinit" /\ TablesLoaded /\ cpu \in Cpu
    BY <1>2 DEF P!CsInit, KernelInv
  <2>2. P!Fetch(8 * 1 + 0, ldtr) = Filled[1] /\ P!Fetch(8 * 4 + 0, ldtr) = Filled[4]
    BY <2>1, FetchGlobal, KernelDescriptors DEF TablesLoaded, TablesFilled
  <2>3. 8 * 1 + 0 = P!SELECTOR_KERNEL_CS /\ 8 * 4 + 0 = P!SELECTOR_TSS
    BY DEF P!SELECTOR_KERNEL_CS, P!SELECTOR_TSS
  <2>4. ~P!IsNull(P!SELECTOR_KERNEL_CS)
    BY DEF P!IsNull, P!SELECTOR_KERNEL_CS
  <2>5. P!CodeLoads(P!SELECTOR_KERNEL_CS, 0, ldtr)
    BY <2>2, <2>3, <2>4, KernelDescriptors DEF P!CodeLoads
  <2>6. /\ tr' = [base |-> Tss, limit |-> P!TssSize - 1]
        /\ cpu' = [cpu EXCEPT !.eflags = 2] /\ kpc' = "kernel_main"
        /\ UNCHANGED <<gdt, idt, tss, gdtr, idtr, p_proc_ready>>
    BY <1>2, <2>2, <2>3, <2>5, KernelDescriptors DEF P!CsInit, P!tables
  <2>7. cpu' \in Cpu /\ cpu'.cs = cpu.cs
    BY <2>1, <2>6 DEF Cpu
  <2> QED
    BY <2>1, <2>6, <2>7 DEF KernelInv, TaskLoaded, TablesLoaded, TablesFilled
<1> QED
  BY <1>1, <1>2

(* kernel_main() fills the process table.                                  *)
LEMMA KernelMains ==
  ASSUME KernelInv, P!KernelMain
  PROVE  KernelInv'
<1>1. /\ kpc = "kernel_main" /\ kpc' = "restart" /\ p_proc_ready' = 0
      /\ UNCHANGED <<gdt, idt, tss, gdtr, idtr, tr, ldtr, cpu, stack, raised, screen>>
      /\ proc_table' = [i \in P!Proc |-> P!ProcessEntry(i)]
  BY DEF P!KernelMain, P!tables, P!system, P!error
<1>2. proc_table' = Entries'
  BY <1>1 DEF Entries, P!ProcessEntry
<1>3. p_proc_ready' \in P!Proc
  BY <1>1, BootAssumption DEF P!LayoutAssumption, P!Proc
<1> QED
  BY <1>1, <1>2, <1>3 DEF KernelInv, TaskLoaded, TablesLoaded, TablesFilled

(* What a process is restarted with: nothing of it is refused or dropped.  *)
LEMMA ProcessLoads ==
  ASSUME NEW i \in P!Proc, TaskLoaded, proc_table = Entries
  PROVE  LET r == P!ProcessEntry(i).regs
             l == P!Privilege(i)
             ldt == LdtOf(i)
         IN /\ P!Fetch(r.cs, ldt) = P!ProcessEntry(i).ldts[0]
            /\ P!Fetch(r.ds, ldt) = P!ProcessEntry(i).ldts[1]
            /\ P!Fetch(r.gs, ldt) = Filled[3]
            /\ \A s \in {r.ds, r.es, r.fs, r.gs} :
                 P!DataLoads(s, 0, ldt) /\ P!Dropped(s, l, ldt) = s
            /\ P!CodeLoads(r.cs, l, ldt) /\ P!StackLoads(r.ss, l, ldt)
            /\ P!Rpl(r.cs) = l
<1> DEFINE r == P!ProcessEntry(i).regs
           l == P!Privilege(i)
           ldt == LdtOf(i)
<1>1. /\ l \in {1, 3} /\ r.cs = 4 + l /\ r.gs = 24 + l
      /\ r.ds = 12 + l /\ r.es = 12 + l /\ r.fs = 12 + l /\ r.ss = 12 + l
      /\ P!Rpl(4 + l) = l /\ P!Rpl(12 + l) = l /\ P!Rpl(24 + l) = l
  BY ProcessRegisters
<1>2. gdt = Filled /\ gdtr = KernelGdtr
  BY DEF TaskLoaded, TablesLoaded, TablesFilled
<1>3. proc_table[i].ldts = P!ProcessEntry(i).ldts
  BY DEF Entries
<1>4. l \in 0 .. 3 /\ 3 \in DOMAIN Filled
  BY <1>1, KernelDescriptors
<1>5. /\ P!Fetch(8 * 0 + 4 + l, ldt) = P!ProcessEntry(i).ldts[0]
      /\ P!Fetch(8 * 1 + 4 + l, ldt) = P!ProcessEntry(i).ldts[1]
      /\ P!Fetch(8 * 3 + l, ldt) = Filled[3]
  <2> HIDE DEF l
  <2> QED
    BY <1>2, <1>3, <1>4, FetchLocal, FetchGlobal
<1>6. 8 * 0 + 4 + l = 4 + l /\ 8 * 1 + 4 + l = 12 + l /\ 8 * 3 + l = 24 + l
  BY <1>1
<1> DEFINE code == P!ProcessEntry(i).ldts[0]
           data == P!ProcessEntry(i).ldts[1]
<1>7. /\ P!IsCode(code) /\ ~P!IsConformingCode(code) /\ P!Dpl(code) = l
      /\ P!IsWritable(data) /\ P!IsReadable(data) /\ P!Dpl(data) = l
  BY <1>2, ProcessDescriptors
<1>8. /\ P!Fetch(4 + l, ldt) = code /\ P!Fetch(12 + l, ldt) = data
      /\ P!Fetch(24 + l, ldt) = Filled[3]
  BY <1>5, <1>6
<1>9. P!IsReadable(Filled[3]) /\ P!Dpl(Filled[3]) = 3
  BY KernelDescriptors
<1>10. /\ ~P!IsNull(4 + l) /\ ~P!IsNull(12 + l) /\ ~P!IsNull(24 + l)
       /\ P!LargerOf(0, l) = l /\ ~(l < l) /\ ~(3 < l) /\ l >= l /\ 3 >= l
  BY <1>1 DEF P!IsNull, P!LargerOf
<1> HIDE DEF r, l, ldt, code, data
<1>11. /\ P!DataLoads(12 + l, 0, ldt) /\ P!Dropped(12 + l, l, ldt) = 12 + l
       /\ P!DataLoads(24 + l, 0, ldt) /\ P!Dropped(24 + l, l, ldt) = 24 + l
  BY <1>1, <1>7, <1>8, <1>9, <1>10 DEF P!DataLoads, P!Dropped
<1>12. P!CodeLoads(4 + l, l, ldt) /\ P!StackLoads(12 + l, l, ldt)
  BY <1>1, <1>7, <1>8, <1>10 DEF P!CodeLoads, P!StackLoads
<1>13. /\ P!Fetch(r.cs, ldt) = code /\ P!Fetch(r.ds, ldt) = data
       /\ P!Fetch(r.gs, ldt) = Filled[3]
       /\ P!CodeLoads(r.cs, l, ldt) /\ P!StackLoads(r.ss, l, ldt)
       /\ P!Rpl(r.cs) = l
  BY <1>1, <1>8, <1>12
<1>14. \A s \in {r.ds, r.es, r.fs, r.gs} : P!DataLoads(s, 0, ldt) /\ P!Dropped(s, l, ldt) = s
  BY <1>1, <1>11
<1> QED
  BY <1>13, <1>14 DEF r, l, ldt, code, data

(* restart: the process gets its registers, and nothing is refused.        *)
LEMMA KernelRestarts ==
  ASSUME KernelInv, P!Restart
  PROVE  KernelInv'
<1> DEFINE i == p_proc_ready
           r == P!ProcessEntry(i).regs
           l == P!Privilege(i)
           d == P!Fetch(P!ProcessEntry(i).ldt_sel, ldtr)
<1>1. /\ kpc = "restart" /\ i \in P!Proc /\ TaskLoaded /\ proc_table = Entries
      /\ cpu.cs = P!SELECTOR_KERNEL_CS
      /\ UNCHANGED <<gdt, idt, tss, gdtr, idtr, tr, proc_table, p_proc_ready>>
  BY DEF P!Restart, KernelInv, P!tables, P!system
<1>2. proc_table[i] = P!ProcessEntry(i)
  BY <1>1 DEF Entries
<1>3. P!ProcessEntry(i).ldt_sel = 8 * (P!INDEX_LDT_FIRST + i) + 0
  BY <1>1, LdtAddresses DEF P!ProcessEntry, P!SELECTOR_LDT_FIRST, P!INDEX_LDT_FIRST
<1>4. ~P!Local(8 * (P!INDEX_LDT_FIRST + i) + 0)
  <2>1. P!INDEX_LDT_FIRST + i \in Nat /\ 0 \in 0 .. 3
    BY <1>1, LdtAddresses DEF P!INDEX_LDT_FIRST
  <2>2. ((8 * (P!INDEX_LDT_FIRST + i) + 0) \div 4) % 2 = 0
    BY <2>1, SelectorBits
  <2> QED
    BY <2>2 DEF P!Local
<1>5. d = P!init_descriptor(P!LdtAddress(i), 15, P!DA_LDT)
  <2>1. P!INDEX_LDT_FIRST + i \in DOMAIN Filled
    BY <1>1, LdtAddresses
  <2>4. 0 \in 0 .. 3 /\ gdt = Filled /\ gdtr = KernelGdtr
    BY <1>1 DEF TaskLoaded, TablesLoaded, TablesFilled
  <2>5. \A local : P!Fetch(8 * (P!INDEX_LDT_FIRST + i) + 0, local) = Filled[P!INDEX_LDT_FIRST + i]
    BY ONLY <2>1, <2>4, FetchGlobal
  <2>2. d = Filled[P!INDEX_LDT_FIRST + i]
    BY <1>3, <2>5
  <2>3. P!LDT_SIZE * P!DescSize - 1 = 15
    BY DEF P!LDT_SIZE, P!DescSize
  <2> QED
    BY <1>1, <2>2, <2>3, LdtAddresses
<1>6. P!Base(d) = P!LdtAddress(i) /\ P!Limit(d) = 15 /\ d.attr1 = \h82
  <2>1. P!DA_LDT \in Nat /\ P!DA_LDT <= Word /\ P!DA_LDT % 256 = \h82 /\ 15 <= P!LastAddress
    BY SMT DEF P!DA_LDT, Word, P!LastAddress
  <2> QED
    BY <1>1, <1>5, <2>1, LdtAddresses, Decoding
<1>7. P!Present(d) /\ P!Type(d) = 2
  BY SMT, <1>6 DEF P!Present, P!Type
<1>8. [base |-> P!Base(d), limit |-> P!Limit(d)] = LdtOf(i)
  BY <1>6 DEF LdtOf, P!LDT_SIZE, P!DescSize
<1>9. P!CPL = 0
  BY <1>1 DEF P!CPL, P!Rpl, P!SELECTOR_KERNEL_CS
<1>10. /\ \A s \in {r.ds, r.es, r.fs, r.gs} :
            P!DataLoads(s, 0, LdtOf(i)) /\ P!Dropped(s, l, LdtOf(i)) = s
       /\ P!CodeLoads(r.cs, l, LdtOf(i)) /\ P!StackLoads(r.ss, l, LdtOf(i))
       /\ P!Rpl(r.cs) = l
  BY <1>1, ProcessLoads
<1> HIDE DEF i, r, l, d
<1>11. /\ ldtr' = LdtOf(i) /\ kpc' = "process"
       /\ cpu' = [r EXCEPT !.ds = P!Dropped(r.ds, l, LdtOf(i)), !.es = P!Dropped(r.es, l, LdtOf(i)),
                           !.fs = P!Dropped(r.fs, l, LdtOf(i)), !.gs = P!Dropped(r.gs, l, LdtOf(i))]
  BY <1>2, <1>3, <1>4, <1>7, <1>8, <1>9, <1>10 DEF P!Restart, i, r, d
<1>12. r \in Cpu
  BY <1>1, ProcessRegisters DEF r
<1>13. cpu' = r
  BY <1>10, <1>11, <1>12 DEF Cpu
<1>14. Entries' = Entries /\ r = P!ProcessEntry(p_proc_ready)'.regs
  BY <1>1 DEF Entries, P!ProcessEntry, r, i
<1>15. ldtr' = LdtOf(p_proc_ready')
  BY <1>1, <1>11 DEF i, LdtOf
<1> QED
  BY <1>1, <1>11, <1>12, <1>13, <1>14, <1>15
     DEF KernelInv, TaskLoaded, TablesLoaded, TablesFilled, i

(* A step of the process or the kernel behind a gate.                      *)
LEMMA KernelEntered ==
  ASSUME KernelInv, kpc = "process", NEW v \in P!GateVectors, P!EnterKernel(v)
  PROVE  KernelInv'
<1>1. /\ p_proc_ready \in P!Proc /\ cpu \in Cpu /\ TaskLoaded /\ proc_table = Entries
      /\ cpu = P!ProcessEntry(p_proc_ready).regs
      /\ UNCHANGED <<gdt, idt, tss, gdtr, idtr, tr, ldtr, p_proc_ready, stack, raised, screen>>
  BY DEF KernelInv, P!EnterKernel, P!tables, P!system, P!error
<1>2. /\ P!GateOpens(v) /\ P!GateOf(v).selector = P!SELECTOR_KERNEL_CS /\ P!Handler(v) \in Nat
      /\ tss.ss0 = P!SELECTOR_KERNEL_DS
  BY <1>1, GatesLead DEF TaskLoaded, TablesLoaded, TablesFilled, FilledTss
<1>3. /\ kpc' = "kernel"
      /\ proc_table' = [proc_table EXCEPT ![p_proc_ready].regs = cpu]
      /\ cpu' = [cpu EXCEPT !.eflags = 2, !.cs = P!SELECTOR_KERNEL_CS, !.ss = P!SELECTOR_KERNEL_DS,
                            !.ds = P!SELECTOR_KERNEL_DS, !.es = P!SELECTOR_KERNEL_DS,
                            !.eip = P!Handler(v)]
  BY <1>2 DEF P!EnterKernel
<1>4. proc_table' = proc_table
  <2>1. [P!ProcessEntry(p_proc_ready) EXCEPT !.regs = cpu] = P!ProcessEntry(p_proc_ready)
    BY <1>1 DEF P!ProcessEntry
  <2>2. Entries[p_proc_ready] = P!ProcessEntry(p_proc_ready)
    BY <1>1 DEF Entries
  <2>3. proc_table' = [Entries EXCEPT ![p_proc_ready] = [Entries[p_proc_ready] EXCEPT !.regs = cpu]]
    BY <1>1, <1>3
  <2>4. [Entries EXCEPT ![p_proc_ready] = Entries[p_proc_ready]] = Entries
    BY <1>1 DEF Entries
  <2> QED
    BY <1>1, <2>1, <2>2, <2>3, <2>4
<1>5. Entries' = Entries
  BY <1>1 DEF Entries, P!ProcessEntry
<1>6. /\ cpu' \in Cpu /\ cpu'.cs = P!SELECTOR_KERNEL_CS /\ cpu'.ds = P!SELECTOR_KERNEL_DS
      /\ cpu'.es = P!SELECTOR_KERNEL_DS /\ cpu'.ss = P!SELECTOR_KERNEL_DS /\ cpu'.gs = cpu.gs
  BY <1>1, <1>2, <1>3 DEF Cpu, P!SELECTOR_KERNEL_CS, P!SELECTOR_KERNEL_DS
<1>7. \E r \in 0 .. 3 : cpu.gs = 8 * 3 + r
  BY <1>1, ProcessRegisters
<1> QED
  BY <1>1, <1>3, <1>4, <1>5, <1>6, <1>7
     DEF KernelInv, TaskLoaded, TablesLoaded, TablesFilled

(* The vectors of interrupts, exceptions and int instructions.             *)
LEMMA Vectors ==
  /\ P!INT_VECTOR_SYS_CALL \in P!GateVectors
  /\ \A line \in 0 .. 7 : P!INT_VECTOR_IRQ0 + line \in P!GateVectors
  /\ P!ExceptionVectors \subseteq P!GateVectors
  /\ P!UserGates \ {P!INT_VECTOR_SYS_CALL} \subseteq P!ExceptionVectors \ P!WithErrorCode
  /\ P!INT_VECTOR_PROTECTION \in P!ExceptionVectors \intersect P!WithErrorCode
  /\ P!INT_VECTOR_NMI \in P!ExceptionVectors \ P!WithErrorCode
BY DEF P!GateVectors, P!IrqVectors, P!ExceptionVectors, P!UserGates, P!WithErrorCode,
   P!INT_VECTOR_SYS_CALL, P!INT_VECTOR_IRQ0, P!INT_VECTOR_BREAKPOINT, P!INT_VECTOR_OVERFLOW,
   P!INT_VECTOR_PROTECTION, P!INT_VECTOR_NMI

(* A gate turns IF off.                                                    *)
LEMMA InterruptsOff == ~P!IF_(2)
BY SMT DEF P!IF_

(* A system call or an interrupt of a process.                             *)
LEMMA KernelEnters ==
  ASSUME KernelInv, P!SysCall \/ P!Irq
  PROVE  KernelInv'
<1>1. CASE P!SysCall
  BY <1>1, KernelEntered, Vectors DEF P!SysCall
<1>2. CASE P!Irq
  <2>1. kpc = "process"
    BY <1>2, InterruptsOff DEF P!Irq, KernelInv
  <2>2. PICK line \in 0 .. 7 : P!EnterKernel(P!INT_VECTOR_IRQ0 + line)
    BY <1>2 DEF P!Irq
  <2> QED
    BY <2>1, <2>2, KernelEntered, Vectors
<1> QED
  BY <1>1, <1>2

(* The kernel turns interrupts on, or leaves.                              *)
LEMMA KernelRuns ==
  ASSUME KernelInv, P!Sti \/ P!Leave
  PROVE  KernelInv'
<1>1. /\ kpc = "kernel" /\ kpc' \in {"kernel", "restart"} /\ p_proc_ready' \in P!Proc
      /\ UNCHANGED <<gdt, idt, tss, gdtr, idtr, tr, ldtr, proc_table, stack, raised, screen>>
      /\ cpu' = [cpu EXCEPT !.eflags = \h202] \/ cpu' = [cpu EXCEPT !.eflags = 2]
  BY DEF P!Sti, P!Leave, P!tables, P!system, P!error, KernelInv
<1>2. Entries' = Entries
  BY <1>1 DEF Entries, P!ProcessEntry
<1>3. cpu \in Cpu
  BY DEF KernelInv
<1>4. /\ cpu' \in Cpu /\ cpu'.cs = cpu.cs /\ cpu'.ds = cpu.ds /\ cpu'.es = cpu.es
      /\ cpu'.ss = cpu.ss /\ cpu'.gs = cpu.gs
  BY <1>1, <1>3 DEF Cpu
<1> QED
  BY <1>1, <1>2, <1>4 DEF KernelInv, TaskLoaded, TablesLoaded, TablesFilled

(* A sequence is the concatenation of two others if its elements are.      *)
LEMMA Concatenation ==
  ASSUME NEW S, NEW s \in Seq(S), NEW t \in Seq(S), NEW u \in Seq(S),
         Len(u) = Len(s) + Len(t),
         \A i \in 1 .. Len(s) : u[i] = s[i],
         \A i \in 1 .. Len(t) : u[Len(s) + i] = t[i]
  PROVE  s \o t = u
<1>1. /\ s \o t \in Seq(S) /\ Len(s \o t) = Len(u)
      /\ \A i \in 1 .. Len(u) : (s \o t)[i] = IF i <= Len(s) THEN s[i] ELSE t[i - Len(s)]
  BY ConcatProperties
<1>2. ASSUME NEW i \in 1 .. Len(u)
      PROVE  (s \o t)[i] = u[i]
  <2>1. CASE i <= Len(s)
    BY <1>1, <2>1
  <2>2. CASE i > Len(s)
    <3>1. i - Len(s) \in 1 .. Len(t) /\ Len(s) + (i - Len(s)) = i
      BY <2>2
    <3>2. u[Len(s) + (i - Len(s))] = t[i - Len(s)]
      BY <3>1
    <3> QED
      BY <1>1, <2>2, <3>1, <3>2
  <2> QED
    BY <2>1, <2>2
<1> QED
  BY <1>1, <1>2, SeqEqual

(* What the CPU pushes is the frame of six.                                *)
LEMMA FrameTuple ==
  ASSUME NEW a, NEW b, NEW c, NEW d, NEW e, NEW f
  PROVE  <<a, b, c>> \o <<d, e, f>> = <<a, b, c, d, e, f>>
<1> DEFINE S == {a, b, c, d, e, f}
           s == <<a, b, c>>
           t == <<d, e, f>>
           u == <<a, b, c, d, e, f>>
<1>1. /\ s \in Seq(S) /\ t \in Seq(S) /\ u \in Seq(S) /\ Len(u) = Len(s) + Len(t)
      /\ \A i \in 1 .. Len(s) : u[i] = s[i]
      /\ \A i \in 1 .. Len(t) : u[Len(s) + i] = t[i]
  OBVIOUS
<1> HIDE DEF s, t, u, S
<1>2. s \o t = u
  BY <1>1, Concatenation
<1> QED
  BY <1>2 DEF s, t, u

(* With an error code, if it gives one.                                    *)
LEMMA ErrorOnFrame ==
  ASSUME NEW a, NEW b, NEW c, NEW d, NEW e, NEW f, NEW g
  PROVE  <<a>> \o <<b, c, d, e, f, g>> = <<a, b, c, d, e, f, g>>
<1> DEFINE S == {a, b, c, d, e, f, g}
           s == <<a>>
           t == <<b, c, d, e, f, g>>
           u == <<a, b, c, d, e, f, g>>
<1>1. /\ s \in Seq(S) /\ t \in Seq(S) /\ u \in Seq(S) /\ Len(u) = Len(s) + Len(t)
      /\ \A i \in 1 .. Len(s) : u[i] = s[i]
      /\ \A i \in 1 .. Len(t) : u[Len(s) + i] = t[i]
  OBVIOUS
<1> HIDE DEF s, t, u, S
<1>2. s \o t = u
  BY <1>1, Concatenation
<1> QED
  BY <1>2 DEF s, t, u

(* The stub of an exception with an error code pushes the vector.          *)
LEMMA VectorOnError ==
  ASSUME NEW a, NEW b, NEW c, NEW d, NEW e, NEW f, NEW g, NEW h
  PROVE  <<a>> \o <<b, c, d, e, f, g, h>> = <<a, b, c, d, e, f, g, h>>
<1> DEFINE S == {a, b, c, d, e, f, g, h}
           s == <<a>>
           t == <<b, c, d, e, f, g, h>>
           u == <<a, b, c, d, e, f, g, h>>
<1>1. /\ s \in Seq(S) /\ t \in Seq(S) /\ u \in Seq(S) /\ Len(u) = Len(s) + Len(t)
      /\ \A i \in 1 .. Len(s) : u[i] = s[i]
      /\ \A i \in 1 .. Len(t) : u[Len(s) + i] = t[i]
  OBVIOUS
<1> HIDE DEF s, t, u, S
<1>2. s \o t = u
  BY <1>1, Concatenation
<1> QED
  BY <1>2 DEF s, t, u

(* The stub of any other pushes an error code, too.                        *)
LEMMA NoErrorOnFrame ==
  ASSUME NEW a, NEW b, NEW c, NEW d, NEW e, NEW f, NEW g, NEW h
  PROVE  <<a, b>> \o <<c, d, e, f, g, h>> = <<a, b, c, d, e, f, g, h>>
<1> DEFINE S == {a, b, c, d, e, f, g, h}
           s == <<a, b>>
           t == <<c, d, e, f, g, h>>
           u == <<a, b, c, d, e, f, g, h>>
<1>1. /\ s \in Seq(S) /\ t \in Seq(S) /\ u \in Seq(S) /\ Len(u) = Len(s) + Len(t)
      /\ \A i \in 1 .. Len(s) : u[i] = s[i]
      /\ \A i \in 1 .. Len(t) : u[Len(s) + i] = t[i]
  OBVIOUS
<1> HIDE DEF s, t, u, S
<1>2. s \o t = u
  BY <1>1, Concatenation
<1> QED
  BY <1>2 DEF s, t, u

(* An exception of any vector, with an error code if the CPU gives one.    *)
LEMMA ExceptionRaised ==
  ASSUME KernelInv, kpc \in {"process", "kernel", "exception", "halted"},
         NEW v \in P!ExceptionVectors, NEW e, P!Raise(v, e),
         IF v \in P!WithErrorCode THEN e \in Nat ELSE e = P!NoError
  PROVE  KernelInv' /\ kpc' = "exception"
<1>1. /\ p_proc_ready \in P!Proc /\ cpu \in Cpu /\ TaskLoaded /\ proc_table = Entries
      /\ UNCHANGED <<gdt, idt, tss, gdtr, idtr, tr, ldtr, proc_table, p_proc_ready, screen>>
  BY DEF KernelInv, P!Raise, P!tables, P!system
<1>2. /\ P!GateOpens(v) /\ P!GateOf(v).selector = P!SELECTOR_KERNEL_CS /\ P!Routine(v) = v
      /\ P!Handler(v) \in Nat /\ P!GateOf(v).attr % 2 = 0
      /\ tss.ss0 = P!SELECTOR_KERNEL_DS
  BY <1>1, GatesLead, Vectors DEF TaskLoaded, TablesLoaded, TablesFilled, FilledTss
<1>3. /\ kpc' = "exception"
      /\ cpu' = [cpu EXCEPT !.cs = P!SELECTOR_KERNEL_CS, !.eip = P!Handler(v),
                            !.ss = IF P!CPL > 0 THEN P!SELECTOR_KERNEL_DS ELSE cpu.ss,
                            !.eflags = 2]
  BY <1>2 DEF P!Raise
<1>4. cpu' \in Cpu /\ cpu'.cs = P!SELECTOR_KERNEL_CS /\ cpu'.eflags = 2
  BY <1>1, <1>2, <1>3 DEF Cpu, P!SELECTOR_KERNEL_CS, P!SELECTOR_KERNEL_DS
<1>5. raised' = [vec |-> v, err |-> e, eip |-> cpu.eip, cs |-> cpu.cs, eflags |-> cpu.eflags]
  BY DEF P!Raise
<1>6. /\ raised'.vec = v /\ raised'.err = e /\ raised'.eip = cpu.eip /\ raised'.cs = cpu.cs
      /\ raised'.eflags = cpu.eflags
  BY <1>5
<1>7. Raised'
  BY <1>5, <1>6 DEF Raised
<1> DEFINE frame == <<cpu.eip, cpu.cs, cpu.eflags>> \o <<P!Junk, P!Junk, P!Junk>>
<1>8. frame = <<cpu.eip, cpu.cs, cpu.eflags, P!Junk, P!Junk, P!Junk>>
  BY FrameTuple
<1>9. frame = Frame'
  BY <1>6, <1>8 DEF Frame
<1>10. stack' = IF v \in P!WithErrorCode THEN <<e>> \o frame ELSE frame
  BY DEF P!Raise, P!NoError
<1>11. stack' = Pushed'
  BY <1>6, <1>9, <1>10 DEF Pushed
<1>12. frame # <<>> /\ <<e>> \o frame # <<>>
  BY <1>8
<1>13. stack' # <<>>
  BY <1>10, <1>12
<1>14. Entries' = Entries
  BY <1>1 DEF Entries, P!ProcessEntry
<1> QED
  BY <1>1, <1>3, <1>4, <1>7, <1>11, <1>13, <1>14
     DEF KernelInv, TaskLoaded, TablesLoaded, TablesFilled

(* An exception, whoever runs: the frame is on the stack.                  *)
LEMMA KernelFails ==
  ASSUME KernelInv, P!Fault \/ P!Nmi \/ P!SoftInts
  PROVE  KernelInv' /\ kpc' = "exception"
<1>1. CASE P!Fault
  <2>1. PICK v \in P!ExceptionVectors :
          \E e \in (IF v \in P!WithErrorCode THEN ErrorCodes ELSE {P!NoError}) : P!Raise(v, e)
    BY <1>1 DEF P!Fault
  <2>2. PICK e \in (IF v \in P!WithErrorCode THEN ErrorCodes ELSE {P!NoError}) : P!Raise(v, e)
    BY <2>1
  <2>3. IF v \in P!WithErrorCode THEN e \in Nat ELSE e = P!NoError
    BY <2>2, BootAssumption DEF P!LayoutAssumption
  <2>4. kpc \in {"process", "kernel", "exception", "halted"}
    BY <1>1 DEF P!Fault
  <2> QED
    BY <2>2, <2>3, <2>4, ExceptionRaised
<1>2. CASE P!Nmi
  <2>1. kpc \in {"process", "kernel", "exception", "halted"} /\ P!Raise(P!INT_VECTOR_NMI, P!NoError)
    BY <1>2 DEF P!Nmi
  <2> QED
    BY <2>1, Vectors, ExceptionRaised
<1>3. CASE P!SoftInts
  <2>1. PICK n \in P!GateVectors \ {P!INT_VECTOR_SYS_CALL} : P!SoftInt(n)
    BY <1>3 DEF P!SoftInts
  <2>2. kpc = "process" /\ cpu \in Cpu /\ TaskLoaded /\ p_proc_ready \in P!Proc
    BY <2>1 DEF P!SoftInt, KernelInv
  <2>3. P!CPL # 0
    <3>1. cpu = P!ProcessEntry(p_proc_ready).regs
      BY <2>2 DEF KernelInv
    <3> QED
      BY <2>2, <3>1, ProcessRegisters DEF P!CPL
  <2>4. P!GateAllowed(n) <=> n \in P!UserGates
    BY <2>1, <2>2, <2>3, GatesLead
  <2>5. CASE P!GateAllowed(n)
    <3>1. n \in P!ExceptionVectors \ P!WithErrorCode
      BY <2>1, <2>4, <2>5, Vectors
    <3> QED
      BY <2>1, <2>2, <2>5, <3>1, ExceptionRaised DEF P!SoftInt
  <2>6. CASE ~P!GateAllowed(n)
    <3>1. n * P!DescSize + 2 \in Nat
      BY <2>1 DEF P!GateVectors, P!ExceptionVectors, P!IrqVectors, P!INT_VECTOR_IRQ0,
         P!INT_VECTOR_SYS_CALL, P!DescSize
    <3> QED
      BY <2>1, <2>2, <2>6, <3>1, Vectors, ExceptionRaised DEF P!SoftInt
  <2> QED
    BY <2>5, <2>6
<1> QED
  BY <1>1, <1>2, <1>3

(* exception_handler() finds its arguments where the stubs have left them. *)
LEMMA KernelShows ==
  ASSUME KernelInv, P!ExceptionHandler
  PROVE  KernelInv' /\ kpc' = "halted"
<1>1. /\ kpc = "exception" /\ kpc' = "halted" /\ Raised /\ stack = Pushed /\ cpu \in Cpu
      /\ p_proc_ready \in P!Proc /\ TaskLoaded /\ proc_table = Entries
      /\ UNCHANGED <<gdt, idt, tss, gdtr, idtr, tr, ldtr, proc_table, cpu, p_proc_ready, raised>>
  BY DEF KernelInv, P!ExceptionHandler, P!tables, P!system
<1>2. P!Routine(raised.vec) = raised.vec
  BY <1>1, GatesLead, Vectors DEF Raised
<1> DEFINE args == P!Stub(raised.vec) \o stack
<1>3. args = IF raised.vec \in P!WithErrorCode
             THEN <<raised.vec, raised.err, raised.eip, raised.cs, raised.eflags,
                    P!Junk, P!Junk, P!Junk>>
             ELSE <<raised.vec, P!NoError, raised.eip, raised.cs, raised.eflags,
                    P!Junk, P!Junk, P!Junk>>
  <2>1. CASE raised.vec \in P!WithErrorCode
    <3>1. stack = <<raised.err, raised.eip, raised.cs, raised.eflags, P!Junk, P!Junk, P!Junk>>
      BY <1>1, <2>1, ErrorOnFrame DEF Pushed, Frame
    <3> QED
      BY <2>1, <3>1, VectorOnError DEF P!Stub
  <2>2. CASE raised.vec \notin P!WithErrorCode
    <3>1. stack = <<raised.eip, raised.cs, raised.eflags, P!Junk, P!Junk, P!Junk>>
      BY <1>1, <2>2 DEF Pushed, Frame
    <3> QED
      BY <2>2, <3>1, NoErrorOnFrame DEF P!Stub
  <2> QED
    BY <2>1, <2>2
<1>4. args = <<raised.vec, raised.err, raised.eip, raised.cs, raised.eflags,
               P!Junk, P!Junk, P!Junk>>
  BY <1>1, <1>3 DEF Raised
<1> HIDE DEF args
<1>5. screen' = P!Shown(args) /\ stack' = SubSeq(args, 3, Len(args))
  BY <1>2 DEF P!ExceptionHandler, args
<1>6. screen' = [vec |-> raised.vec, eflags |-> raised.eflags, cs |-> raised.cs,
                 eip |-> raised.eip, err |-> raised.err]
  BY <1>4, <1>5 DEF P!Shown
<1>7. screen' = raised
  BY <1>1, <1>6 DEF Raised
<1>8. stack' # <<>>
  <2>1. Len(args) = 8
    BY <1>4
  <2>2. stack' = [k \in 1 .. 6 |-> args[k + 2]]
    BY <1>5, <2>1
  <2> QED
    BY <2>2
<1>9. Entries' = Entries
  BY <1>1 DEF Entries, P!ProcessEntry
<1> QED
  BY <1>1, <1>7, <1>8, <1>9
     DEF KernelInv, TaskLoaded, TablesLoaded, TablesFilled, Raised

(* Nothing of the kernel changes.                                          *)
LEMMA KernelIdle ==
  ASSUME KernelInv, UNCHANGED tables
  PROVE  KernelInv'
BY DEF KernelInv, TaskLoaded, TablesLoaded, TablesFilled, Entries, P!ProcessEntry, Raised,
   Pushed,
   Frame, LdtOf, tables

(* Every step of the kernel and of the processes.                          *)
LEMMA KernelGoesOn ==
  ASSUME KernelInv, P!Next
  PROVE  KernelInv'
<1>1. CASE P!Start
  BY <1>1, KernelStarts, KernelLoads, KernelMains DEF P!Start
<1>2. CASE P!Restart
  BY <1>2, KernelRestarts
<1>3. CASE P!SysCall \/ P!Irq
  BY <1>3, KernelEnters
<1>4. CASE P!Sti \/ P!Leave
  BY <1>4, KernelRuns
<1>5. CASE P!Fault \/ P!Nmi \/ P!SoftInts
  BY <1>5, KernelFails
<1>6. CASE P!ExceptionHandler
  BY <1>6, KernelShows
<1>7. CASE P!Halted
  <2>1. UNCHANGED tables
    BY <1>7 DEF P!Halted, P!vars, P!tables, P!system, P!error, tables
  <2> QED
    BY <2>1, KernelIdle
<1> QED
  BY <1>1, <1>2, <1>3, <1>4, <1>5, <1>6, <1>7 DEF P!Next

(* After an exception only the handler and an NMI take steps.              *)
LEMMA ExceptionLasts ==
  ASSUME KernelInv, P!Next, P!Failed
  PROVE  P!Failed'
<1>1. kpc \in {"exception", "halted"} /\ cpu.eflags = 2
  BY DEF P!Failed, KernelInv
<1>2. ~P!Irq
  BY <1>1, InterruptsOff DEF P!Irq
<1>3. ~P!Start /\ ~P!Restart /\ ~P!SysCall /\ ~P!Sti /\ ~P!Leave
  BY <1>1 DEF P!Start, P!CStart, P!LoadTables, P!CsInit, P!KernelMain, P!Restart, P!SysCall,
     P!Sti, P!Leave
<1>4. CASE P!Fault \/ P!Nmi \/ P!SoftInts
  BY <1>4, KernelFails DEF P!Failed
<1>5. CASE P!ExceptionHandler
  BY <1>5, KernelShows DEF P!Failed
<1>6. CASE P!Halted
  BY <1>6 DEF P!Halted, P!vars, P!Failed
<1> QED
  BY <1>2, <1>3, <1>4, <1>5, <1>6 DEF P!Next

(* The segments of the kernel, as the CPU fetches them.                    *)
LEMMA KernelSegments ==
  ASSUME KernelInv, kpc = "kernel"
  PROVE  /\ P!Fetch(P!SELECTOR_KERNEL_CS, ldtr) = Filled[1]
         /\ P!Fetch(P!SELECTOR_KERNEL_DS, ldtr) = Filled[2]
         /\ P!Fetch(cpu.gs, ldtr) = Filled[3] /\ ~P!IsNull(cpu.gs)
         /\ ~P!IsNull(P!SELECTOR_KERNEL_CS) /\ ~P!IsNull(P!SELECTOR_KERNEL_DS)
<1>1. gdt = Filled /\ gdtr = KernelGdtr /\ {1, 2, 3} \subseteq DOMAIN Filled
  BY KernelDescriptors DEF KernelInv, TaskLoaded, TablesLoaded, TablesFilled
<1>2. PICK r \in 0 .. 3 : cpu.gs = 8 * 3 + r
  BY DEF KernelInv
<1>3. /\ P!Fetch(8 * 1 + 0, ldtr) = Filled[1]
      /\ P!Fetch(8 * 2 + 0, ldtr) = Filled[2]
      /\ P!Fetch(8 * 3 + r, ldtr) = Filled[3]
  BY <1>1, FetchGlobal
<1>4. 8 * 1 + 0 = P!SELECTOR_KERNEL_CS /\ 8 * 2 + 0 = P!SELECTOR_KERNEL_DS
  BY DEF P!SELECTOR_KERNEL_CS, P!SELECTOR_KERNEL_DS
<1>5. ~P!IsNull(cpu.gs) /\ ~P!IsNull(P!SELECTOR_KERNEL_CS) /\ ~P!IsNull(P!SELECTOR_KERNEL_DS)
  BY <1>2 DEF P!IsNull, P!SELECTOR_KERNEL_CS, P!SELECTOR_KERNEL_DS
<1> QED
  BY <1>2, <1>3, <1>4, <1>5

(* The CPU finds nothing that it refuses.                                  *)
LEMMA NobodyFaults ==
  ASSUME KernelInv
  PROVE  NoFault
<1>1. kpc # "dead"
  BY DEF KernelInv
<1>2. ASSUME kpc \in {"process", "kernel"}
      PROVE  /\ \A v \in P!GateVectors : P!GateOpens(v) /\ P!Routine(v) = v
             /\ P!GateAllowed(P!INT_VECTOR_SYS_CALL)
  <2>1. TaskLoaded /\ cpu \in Cpu
    BY <1>2 DEF KernelInv
  <2>2. P!INT_VECTOR_SYS_CALL \in P!UserGates
    BY DEF P!UserGates
  <2> QED
    BY <2>1, <2>2, GatesLead, Vectors
<1> DEFINE Segments ==
      /\ \A s \in {cpu.cs, cpu.ds, cpu.es, cpu.ss} : ~P!IsNull(s) /\ P!IsFlat(P!Fetch(s, ldtr))
      /\ \A s \in {cpu.ds, cpu.es, cpu.ss} : P!IsWritable(P!Fetch(s, ldtr))
      /\ ~P!IsNull(cpu.gs) /\ P!IsWritable(P!Fetch(cpu.gs, ldtr))
      /\ P!Base(P!Fetch(cpu.gs, ldtr)) = P!VideoBase
<1>3. ASSUME kpc = "kernel"
      PROVE  Segments
  <2>1. /\ cpu.cs = P!SELECTOR_KERNEL_CS /\ cpu.ds = P!SELECTOR_KERNEL_DS
        /\ cpu.es = P!SELECTOR_KERNEL_DS /\ cpu.ss = P!SELECTOR_KERNEL_DS
    BY <1>3 DEF KernelInv
  <2> QED
    BY <1>3, <2>1, KernelSegments, KernelDescriptors
<1>4. ASSUME kpc = "process"
      PROVE  Segments /\ ldtr.base = P!LdtAddress(p_proc_ready)
  <2> DEFINE i == p_proc_ready
             r == P!ProcessEntry(i).regs
  <2>1. /\ i \in P!Proc /\ cpu = r /\ ldtr = LdtOf(i) /\ gdt = Filled
        /\ TaskLoaded /\ proc_table = Entries
    BY <1>4 DEF KernelInv, TaskLoaded, TablesLoaded, TablesFilled
  <2>2. /\ P!Fetch(r.cs, LdtOf(i)) = P!ProcessEntry(i).ldts[0]
        /\ P!Fetch(r.ds, LdtOf(i)) = P!ProcessEntry(i).ldts[1]
        /\ P!Fetch(r.gs, LdtOf(i)) = Filled[3]
    BY <2>1, ProcessLoads
  <2>3. r.es = r.ds /\ r.ss = r.ds /\ ~P!IsNull(r.cs) /\ ~P!IsNull(r.ds) /\ ~P!IsNull(r.gs)
    BY <2>1, ProcessRegisters DEF P!IsNull
  <2>4. ldtr.base = P!LdtAddress(i)
    BY <2>1 DEF LdtOf
  <2>5. /\ P!IsFlat(P!ProcessEntry(i).ldts[0]) /\ P!IsFlat(P!ProcessEntry(i).ldts[1])
        /\ P!IsWritable(P!ProcessEntry(i).ldts[1])
    BY <2>1, ProcessDescriptors
  <2> HIDE DEF i, r
  <2>6. Segments
    BY <2>1, <2>2, <2>3, <2>5, KernelDescriptors
  <2> QED
    BY <2>4, <2>6 DEF i
<1> QED
  BY <1>1, <1>2, <1>3, <1>4 DEF NoFault, P!NoFault

(* IOPL 1 and the bitmap behind the end of the TSS.                        *)
LEMMA OnlyTasksReachPorts ==
  ASSUME KernelInv
  PROVE  TasksAlone
<1>1. ASSUME kpc = "kernel"
      PROVE  P!CPL = P!PRIVILEGE_KRNL
  BY <1>1 DEF KernelInv, P!CPL, P!Rpl, P!SELECTOR_KERNEL_CS, P!PRIVILEGE_KRNL
<1>2. ASSUME kpc = "process"
      PROVE  LET task == p_proc_ready < NR_TASKS
             IN /\ \A port \in P!Ports : P!PortAllowed(port) <=> task
                /\ (P!CPL <= P!IOPL(cpu.eflags)) <=> task
                /\ P!CPL = IF task THEN P!PRIVILEGE_TASK ELSE P!PRIVILEGE_USER
  <2> DEFINE i == p_proc_ready
             task == i < NR_TASKS
  <2>1. /\ i \in P!Proc /\ cpu = P!ProcessEntry(i).regs /\ tss = FilledTss
        /\ tr.limit = P!TssSize - 1
    BY <1>2 DEF KernelInv, TaskLoaded, TablesLoaded, TablesFilled
  <2>2. P!CPL = P!Privilege(i) /\ cpu.eflags = P!Eflags(i)
    BY <2>1, ProcessRegisters DEF P!CPL
  <2>3. P!CPL = IF task THEN 1 ELSE 3
    BY <2>2 DEF P!Privilege, P!PRIVILEGE_TASK, P!PRIVILEGE_USER
  <2>4. P!IOPL(cpu.eflags) = IF task THEN 1 ELSE 0
    BY SMT, <2>2 DEF P!Eflags, P!IOPL
  <2>5. (P!CPL <= P!IOPL(cpu.eflags)) <=> task
    BY <2>3, <2>4
  <2>6. ASSUME NEW port \in P!Ports
        PROVE  ~(tss.iobase + (port \div 8) + 1 <= tr.limit)
    <3>1. tss.iobase = 104 /\ tr.limit = 103
      BY <2>1 DEF FilledTss, P!IoBase, P!TssSize
    <3>2. port \in Nat
      BY SMT DEF P!Ports
    <3> QED
      BY SMT, <3>1, <3>2
  <2>7. \A port \in P!Ports : P!PortAllowed(port) <=> task
    BY <2>5, <2>6 DEF P!PortAllowed
  <2> QED
    BY <2>3, <2>5, <2>7 DEF P!PRIVILEGE_TASK, P!PRIVILEGE_USER
<1> QED
  BY <1>1, <1>2 DEF TasksAlone, P!TasksAlone

-----------------------------------------------------------------------------
(* A program that was loaded was there.                                    *)
WasThere(n) == pc = "file_loaded" => files[n] # <<>>

(* The drive and the search for a file, once they are out of use.          *)
Parked ==
  /\ wRootDirSizeForLoop = 0 /\ wSectorNo = F(LoaderFileName)!SectorNoOfRootDirectory
  /\ pc = "file_loaded" /\ dx = 0 /\ di = 0 /\ ax = 0 /\ bx = 0
  /\ cluster = F(LoaderFileName)!Free
  /\ mem \in [0 .. SegSectors - 1 -> 0 .. F(LoaderFileName)!FirstData + Clusters - 1]

(* The invariant of all programs, by the one that runs.                    *)
BootInv ==
  /\ program \in {"boot", "loader", "memory", "kernel"}
  /\ program = "boot" => FileInv(LoaderFileName)
  /\ program = "loader" => FileInv(KernelFileName) /\ WasThere(KernelFileName)
  /\ program \in {"boot", "loader"} => L!LoaderInit /\ kernel = Built(files[KernelFileName])
  /\ program \in {"memory", "kernel"} => Parked
  /\ program = "memory" => MemoryInv
  /\ L!LoaderTypeOK
  /\ KernelInv

(* It holds when the BIOS jumps to the boot sector.                        *)
LEMMA BootInvInit ==
  ASSUME Init
  PROVE  BootInv
<1>1. FileInv(LoaderFileName)
  BY SearchInits DEF Init, FileNames
<1>2. KernelInv
  BY KernelInvInit DEF Init
<1>3. L!LoaderTypeOK
  BY Machine DEF Init, L!LoaderInit, L!LoaderTypeOK
<1> QED
  BY <1>1, <1>2, <1>3 DEF Init, BootInv

(* A step of boot/boot.asm.                                                *)
LEMMA BootSectorKeeps ==
  ASSUME BootInv, BootSector
  PROVE  BootInv'
<1>1. program = "boot" /\ F(LoaderFileName)!Next
      /\ UNCHANGED <<program, kernel, memory, tables>>
  BY DEF BootSector
<1>2. FileInv(LoaderFileName)'
  BY <1>1, FileGoesOn DEF BootInv, FileNames
<1>3. files' = files
  BY <1>1 DEF F!Next, F!LabelStart, F!SearchInRootDir, F!SearchForLoaderbin, F!GoonLoadingFile,
     F!disk
<1>4. (L!LoaderInit /\ kernel = Built(files[KernelFileName]))'
  BY <1>1, <1>3 DEF BootInv, memory, L!LoaderInit, Built
<1>5. L!LoaderTypeOK'
  BY <1>1 DEF BootInv, memory, L!LoaderTypeOK
<1>6. KernelInv'
  BY <1>1, KernelIdle DEF BootInv
<1> QED
  BY <1>1, <1>2, <1>4, <1>5, <1>6 DEF BootInv

(* A step of boot/loader.asm that searches or loads the kernel.            *)
LEMMA LoadKernelKeeps ==
  ASSUME BootInv, LoadKernel
  PROVE  BootInv'
<1>1. program = "loader" /\ F(KernelFileName)!Next
      /\ UNCHANGED <<program, kernel, memory, tables>>
  BY DEF LoadKernel
<1>2. FileInv(KernelFileName)'
  BY <1>1, FileGoesOn DEF BootInv, FileNames
<1>3. files' = files
  BY <1>1 DEF F!Next, F!LabelStart, F!SearchInRootDir, F!SearchForLoaderbin, F!GoonLoadingFile,
     F!disk
<1>4. (L!LoaderInit /\ kernel = Built(files[KernelFileName]))'
  BY <1>1, <1>3 DEF BootInv, memory, L!LoaderInit, Built
<1>5. L!LoaderTypeOK'
  BY <1>1 DEF BootInv, memory, L!LoaderTypeOK
<1>6. KernelInv'
  BY <1>1, KernelIdle DEF BootInv
<1>7. WasThere(KernelFileName)'
  <2>1. SUFFICES ASSUME pc' = "file_loaded"
                 PROVE  files[KernelFileName] # <<>>
    BY <1>3 DEF WasThere
  <2>2. pc = "goon_loading_file"
    BY <1>1, <2>1 DEF F!Next, F!LabelStart, F!SearchInRootDir, F!SearchForLoaderbin,
       F!GoonLoadingFile, F!search
  <2>3. bx < Len(files[KernelFileName]) /\ bx \in 0 .. SegSectors - 1
    BY <1>1, <2>2 DEF BootInv, FileInv, Loading, F!TypeOK
  <2>4. F(KernelFileName)!DiskInit /\ KernelFileName \in FileNames
    BY <1>1 DEF BootInv, FileInv, FileNames
  <2>5. Len(files[KernelFileName]) > 0
    BY <2>3, <2>4, ChainProperties
  <2> QED
    BY <2>4, <2>5, ChainProperties
<1> QED
  BY <1>1, <1>2, <1>4, <1>5, <1>6, <1>7 DEF BootInv

(* The disk is the same for both programs.                                 *)
LEMMA SameDisk ==
  /\ F(LoaderFileName)!DiskInit <=> F(KernelFileName)!DiskInit
  /\ F(LoaderFileName)!TypeOK <=> F(KernelFileName)!TypeOK
  /\ F(LoaderFileName)!FirstData = F(KernelFileName)!FirstData
  /\ F(LoaderFileName)!SectorNoOfRootDirectory = F(KernelFileName)!SectorNoOfRootDirectory
<1>1. F(LoaderFileName)!FirstData = F(KernelFileName)!FirstData
  BY DEF F!FirstData, F!SectorNoOfRootDirectory, F!SectorNoOfFAT1
<1>2. F(LoaderFileName)!SectorNoOfRootDirectory = F(KernelFileName)!SectorNoOfRootDirectory
  BY DEF F!SectorNoOfRootDirectory, F!SectorNoOfFAT1
<1>3. F(LoaderFileName)!DiskInit <=> F(KernelFileName)!DiskInit
  BY DEF F!DiskInit, F!Chains, F!FileSizes, F!Cluster, F!DirEntries, F!Free
<1>4. F(LoaderFileName)!TypeOK <=> F(KernelFileName)!TypeOK
  BY <1>1, <1>2 DEF F!TypeOK, F!Cluster, F!Free, F!EOF
<1> QED
  BY <1>1, <1>2, <1>3, <1>4

(* The search begins again, for the other name on the same disk.           *)
LEMMA JumpToLoaderKeeps ==
  ASSUME BootInv, JumpToLoader
  PROVE  BootInv'
<1>1. /\ program = "boot" /\ pc = "file_loaded" /\ program' = "loader" /\ pc' = "label_start"
      /\ dx' = 0 /\ di' = 0 /\ buffer' = <<>> /\ ax' = 0
      /\ cluster' = F(LoaderFileName)!Free /\ bx' = 0
      /\ UNCHANGED <<disk, wRootDirSizeForLoop, wSectorNo, mem, kernel, memory, tables>>
      /\ FileInv(LoaderFileName)
  BY DEF JumpToLoader, BootInv
<1>2. F(LoaderFileName)!DiskInit' /\ LoaderFileName \in FileNames
  BY <1>1 DEF disk, FileInv, F!DiskInit, FileNames
<1>3. F(LoaderFileName)!TypeOK'
  <2>1. /\ EntriesPerSector \in Nat \ {0} /\ SegSectors \in Nat \ {0}
        /\ EntriesPerSector * EntrySize \in Nat
    <3>1. EntriesPerSector \in Nat \ {0} /\ EntrySize \in Nat
          /\ SegSectors \in Nat \ {0}
      BY <1>2, Sizes
    <3> QED
      BY SMT, <3>1
  <2> QED
    BY <1>1, <2>1 DEF FileInv, F!TypeOK
<1>4. FileInv(KernelFileName)'
  <2>1. F(KernelFileName)!DiskInit' /\ F(KernelFileName)!TypeOK'
    BY <1>2, <1>3, SameDisk, PTL
  <2> QED
    BY <1>1, <2>1 DEF FileInv, Searching, Loading, F!FileLoaded
<1>5. (L!LoaderInit /\ kernel = Built(files[KernelFileName]))'
  BY <1>1 DEF BootInv, memory, L!LoaderInit, Built, disk
<1>6. L!LoaderTypeOK'
  BY <1>1 DEF BootInv, memory, L!LoaderTypeOK
<1>7. KernelInv'
  BY <1>1, KernelIdle DEF BootInv
<1> QED
  BY <1>1, <1>4, <1>5, <1>6, <1>7 DEF BootInv, WasThere

(* The kernel, when its loading is done.                                   *)
LEMMA KernelLoaded ==
  ASSUME BootInv, program = "loader", pc = "file_loaded"
  PROVE  KernelInMemory
<1> DEFINE K == files[KernelFileName]
           b == F(KernelFileName)!FirstData
<1>1. /\ F(KernelFileName)!DiskInit /\ KernelFileName \in FileNames /\ K # <<>>
      /\ \A i \in DOMAIN K : mem[i - 1] = b + K[i] - 2
      /\ kernel = Built(K)
  BY DEF BootInv, FileInv, F!FileLoaded, FileNames, WasThere
<1>2. /\ Len(K) \in F(KernelFileName)!FileSizes \ {0}
      /\ DOMAIN K = 1 .. Len(K) /\ Len(K) \in Nat
  <2>1. /\ Len(K) \in 0 .. Clusters /\ Len(K) <= SegSectors /\ Len(K) > 0
        /\ DOMAIN K = 1 .. Len(K)
    BY <1>1, ChainProperties
  <2> QED
    BY <2>1 DEF F!FileSizes
<1>3. /\ kernel.sectors = [i \in DOMAIN K |-> b + K[i] - 2]
      /\ kernel.phdrs = Linked(Len(K))
  BY <1>1 DEF Built
<1> HIDE DEF K, b
<1>4. kernel.sectors = [i \in 1 .. Len(K) |-> b + K[i] - 2] /\ Len(kernel.sectors) = Len(K)
  <2>1. kernel.sectors = [i \in 1 .. Len(K) |-> b + K[i] - 2]
    BY <1>2, <1>3
  <2> QED
    BY <1>2, <2>1
<1>5. kernel.sectors # <<>>
  BY <1>2, <1>4
<1>6. \A i \in 1 .. Len(K) : mem[i - 1] = kernel.sectors[i]
  BY <1>1, <1>2, <1>4
<1> QED
  BY <1>2, <1>3, <1>4, <1>5, <1>6 DEF KernelInMemory

(* The disk goes, and kernel.bin stays in memory.                          *)
LEMMA KillMotorKeeps ==
  ASSUME BootInv, KillMotor
  PROVE  BootInv'
<1>1. /\ program = "loader" /\ pc = "file_loaded" /\ program' = "memory"
      /\ wRootDirSizeForLoop' = 0 /\ wSectorNo' = F(LoaderFileName)!SectorNoOfRootDirectory
      /\ dx' = 0 /\ di' = 0 /\ ax' = 0 /\ bx' = 0 /\ cluster' = F(LoaderFileName)!Free
      /\ UNCHANGED <<pc, mem, kernel, memory, tables>>
      /\ FileInv(KernelFileName) /\ L!LoaderInit
  BY DEF KillMotor, BootInv
<1>2. KernelInMemory'
  BY <1>1, KernelLoaded DEF KernelInMemory
<1>3. L!LoaderTypeOK' /\ L!LoaderInit'
  BY <1>1 DEF BootInv, memory, L!LoaderTypeOK, L!LoaderInit
<1>4. MemoryInv'
  <2>1. /\ lpc' = "file_loaded" /\ MemChkBuf' = <<>> /\ dwMCRNumber' = 0 /\ dwMemSize' = 0
        /\ DOMAIN ram' = 0 .. LowMemory - 1
    BY <1>3 DEF L!LoaderInit
  <2> QED
    BY <1>2, <1>3, <2>1 DEF MemoryInv, MapInv
<1>5. Parked'
  <2>1. mem \in [0 .. SegSectors - 1 -> 0 .. F(LoaderFileName)!FirstData + Clusters - 1]
    BY <1>1, SameDisk DEF FileInv, F!TypeOK
  <2> QED
    BY <1>1, <2>1 DEF Parked
<1>6. KernelInv'
  BY <1>1, KernelIdle DEF BootInv
<1> QED
  BY <1>1, <1>3, <1>4, <1>5, <1>6 DEF BootInv

(* A step of boot/loader.asm in memory.                                    *)
LEMMA MemoryKeeps ==
  ASSUME BootInv, Memory
  PROVE  BootInv'
<1>1. program = "memory" /\ L!LoaderNext /\ UNCHANGED <<program, disk, search, tables>>
      /\ mem' = mem
  BY DEF Memory, L!LoaderNext
<1>2. MemoryInv'
  BY <1>1, MemoryGoesOn DEF BootInv
<1>3. Parked'
  BY <1>1 DEF BootInv, Parked, search
<1>4. KernelInv'
  BY <1>1, KernelIdle DEF BootInv
<1> QED
  BY <1>1, <1>2, <1>3, <1>4 DEF BootInv, MemoryInv

(* The loader goes.                                                        *)
LEMMA JumpToKernelKeeps ==
  ASSUME BootInv, JumpToKernel
  PROVE  BootInv'
<1>1. /\ program = "memory" /\ program' = "kernel" /\ lpc = "kernel" /\ lpc' = lpc
      /\ mem' = [s \in DOMAIN mem |-> 0]
      /\ MemChkBuf' = <<>> /\ dwMCRNumber' = 0 /\ dwMemSize' = 0 /\ mapped' = 0
      /\ UNCHANGED <<disk, search, tables>>
  BY DEF JumpToKernel
<1>2. L!LoaderTypeOK'
  BY <1>1, Machine DEF L!LoaderTypeOK
<1>3. Parked'
  <2>1. /\ F(LoaderFileName)!FirstData \in Nat /\ Clusters \in Nat \ {0}
        /\ 0 \in 0 .. F(LoaderFileName)!FirstData + Clusters - 1
    <3>1. /\ F(LoaderFileName)!FirstData = 1 + 2 * FATSz + RootDirSectors
          /\ FATSz \in Nat /\ RootDirSectors \in Nat /\ Clusters \in Nat \ {0}
      BY Sizes DEF FileNames
    <3> QED
      BY <3>1
  <2>2. mem' \in [0 .. SegSectors - 1 -> 0 .. F(LoaderFileName)!FirstData + Clusters - 1]
    BY <1>1, <2>1 DEF BootInv, Parked
  <2> QED
    BY <1>1, <2>2 DEF BootInv, Parked, search
<1>4. KernelInv'
  BY <1>1, KernelIdle DEF BootInv
<1> QED
  BY <1>1, <1>2, <1>3, <1>4 DEF BootInv

(* A step of the kernel or of a process.                                   *)
LEMMA KernelKeeps ==
  ASSUME BootInv, Kernel
  PROVE  BootInv'
<1>1. /\ program = "kernel" /\ program' = "kernel" /\ P!Next
      /\ UNCHANGED <<disk, search, mem, memory>>
  BY DEF Kernel
<1>2. KernelInv'
  BY <1>1, KernelGoesOn DEF BootInv
<1>3. L!LoaderTypeOK'
  BY <1>1 DEF BootInv, memory, L!LoaderTypeOK
<1>4. Parked'
  BY <1>1 DEF BootInv, Parked, search
<1> QED
  BY <1>1, <1>2, <1>3, <1>4 DEF BootInv

(* Nothing changes.                                                        *)
LEMMA BootIdles ==
  ASSUME BootInv, UNCHANGED vars
  PROVE  BootInv'
<1>1. UNCHANGED <<program, files, dir, search, mem, kernel, memory, tables>>
  BY DEF vars, disk
<1>2. program = "boot" => FileInv(LoaderFileName)'
  BY <1>1, FileIdle DEF BootInv, FileNames
<1>3. program = "loader" => FileInv(KernelFileName)' /\ WasThere(KernelFileName)'
  BY <1>1, FileIdle DEF BootInv, FileNames, WasThere, search
<1>4. program \in {"boot", "loader"} => (L!LoaderInit /\ kernel = Built(files[KernelFileName]))'
  BY <1>1 DEF BootInv, memory, L!LoaderInit, Built
<1>5. program \in {"memory", "kernel"} => Parked'
  BY <1>1 DEF BootInv, Parked, search
<1>6. L!LoaderTypeOK'
  BY <1>1 DEF BootInv, memory, L!LoaderTypeOK
<1>7. program = "memory" => MemoryInv'
  <2>1. SUFFICES ASSUME MemoryInv PROVE MemoryInv'
    BY DEF BootInv
  <2>2. KernelInMemory' /\ MapInv'
    BY <1>1, <2>1 DEF MemoryInv, KernelInMemory, MapInv, Listed, Measured, memory
  <2> QED
    BY <1>1, <1>6, <2>1, <2>2 DEF MemoryInv, Measured, Placed, memory
<1>8. KernelInv'
  BY <1>1, KernelIdle DEF BootInv
<1> QED
  BY <1>1, <1>2, <1>3, <1>4, <1>5, <1>6, <1>7, <1>8 DEF BootInv

(* BootInv is inductive.                                                   *)
LEMMA BootInvNext ==
  BootInv /\ [Next]_vars => BootInv'
<1>1. SUFFICES ASSUME BootInv, [Next]_vars PROVE BootInv'
  OBVIOUS
<1> QED
  BY <1>1, BootSectorKeeps, JumpToLoaderKeeps, LoadKernelKeeps, KillMotorKeeps, MemoryKeeps,
     JumpToKernelKeeps, KernelKeeps, BootIdles DEF Next

(* Every reachable state is as BootInv says.                               *)
THEOREM BootInvariant == Spec => []BootInv
<1>1. Init => BootInv
  BY BootInvInit
<1> QED
  BY <1>1, BootInvNext, PTL DEF Spec

(* The types of the variables of boot/boot.asm, boot/loader.asm and the    *)
(* kernel's start.                                                         *)
THEOREM TypeCorrect == Spec => []TypeOK
<1>1. BootInv => TypeOK
  <2>1. SUFFICES ASSUME BootInv PROVE TypeOK
    OBVIOUS
  <2>2. P!TypeOK
    BY <2>1 DEF BootInv, KernelInv, Raised, P!TypeOK, P!Failed
  <2>3. F(LoaderFileName)!TypeOK
    <3>1. CASE program \in {"boot", "loader"}
      BY <2>1, <3>1, SameDisk DEF BootInv, FileInv
    <3>2. CASE program \in {"memory", "kernel"}
      <4>1. /\ RootDirSectors \in Nat /\ EntriesPerSector \in Nat \ {0} /\ SegSectors \in Nat \ {0}
            /\ EntrySize \in Nat
            /\ F(LoaderFileName)!SectorNoOfRootDirectory \in Nat
            /\ F(LoaderFileName)!FirstData =
                 F(LoaderFileName)!SectorNoOfRootDirectory + RootDirSectors
        BY Sizes DEF FileNames
      <4>2. EntriesPerSector * EntrySize \in Nat
        BY SMT, <4>1
      <4> QED
        BY <2>1, <3>2, <4>1, <4>2 DEF BootInv, Parked, F!TypeOK
    <3> QED
      BY <2>1, <3>1, <3>2 DEF BootInv
  <2> QED
    BY <2>1, <2>2, <2>3 DEF BootInv, TypeOK
<1> QED
  BY <1>1, BootInvariant, PTL

(* LABEL_GOON_LOADING_FILE of both programs loads a file whole and in      *)
(* order, wherever its clusters and their entries in the FAT lie, and the  *)
(* search only misses what is not there.                                   *)
THEOREM FilesLoaded == Spec => []FileLoaded
<1>1. BootInv => FileLoaded
  BY DEF BootInv, FileInv, FileLoaded
<1> QED
  BY <1>1, BootInvariant, PTL

(* The loader jumps to a kernel whose segments are where ld linked them,   *)
(* with all memory below 4 GB mapped and the page tables in it.            *)
THEOREM KernelIsEntered == Spec => []KernelReady
<1>1. BootInv => KernelReady
  BY KernelIsReady DEF BootInv, KernelReady
<1> QED
  BY <1>1, BootInvariant, PTL

(* The CPU refuses no table, selector or gate that cstart(), init_prot()   *)
(* and kernel_main() leave, whoever runs.                                  *)
THEOREM NothingRefused == Spec => []NoFault
<1>1. BootInv => NoFault
  BY NobodyFaults DEF BootInv
<1> QED
  BY <1>1, BootInvariant, PTL

(* exception_handler() shows the exception as the CPU raised it, with or   *)
(* without an error code, and from an int instruction of a process, too.   *)
THEOREM ShownAsRaised == Spec => []ExceptionShown
<1>1. BootInv => ExceptionShown
  BY DEF BootInv, KernelInv, ExceptionShown, P!ExceptionShown
<1> QED
  BY <1>1, BootInvariant, PTL

(* Tasks reach the ports and may turn interrupts off, user processes may   *)
(* not, and the kernel runs at its own level.                              *)
THEOREM PortsGuarded == Spec => []TasksAlone
<1>1. BootInv => TasksAlone
  BY OnlyTasksReachPorts DEF BootInv
<1> QED
  BY <1>1, BootInvariant, PTL

(* After an exception nobody runs any more.                                *)
THEOREM ExceptionsLast == Spec => ExceptionIsFinal
<1>1. BootInv /\ [Next]_vars => [P!Failed => P!Failed']_(P!vars)
  <2>1. SUFFICES ASSUME BootInv, [Next]_vars
                 PROVE  (P!Failed => P!Failed') \/ UNCHANGED P!vars
    OBVIOUS
  <2>2. CASE Kernel
    BY <2>1, <2>2, ExceptionLasts DEF BootInv, Kernel
  <2>3. CASE UNCHANGED tables
    BY <2>3 DEF tables, P!vars, P!tables, P!system, P!error
  <2>4. Kernel \/ UNCHANGED tables
    BY <2>1 DEF Next, BootSector, JumpToLoader, LoadKernel, KillMotor, Memory, JumpToKernel, vars
  <2> QED
    BY <2>2, <2>3, <2>4
<1> QED
  BY <1>1, BootInvariant, PTL DEF Spec, ExceptionIsFinal, P!ExceptionIsFinal
=============================================================================
