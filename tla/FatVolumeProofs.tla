-------------------------- MODULE FatVolumeProofs --------------------------
(***************************************************************************)
(* Fat_FileRead returns the bytes of the file from the position on, in     *)
(* every volume and however reads and failures follow one another, and     *)
(* main decodes the video that is selected, which is the next one.         *)
(***************************************************************************)
EXTENDS FatVolume, SequenceTheorems, TLAPS

-----------------------------------------------------------------------------
(* Sectors, clusters and chains.                                           *)

\* What is taken from the assumption on the volume.
LEMMA SizesAre ==
  /\ SectorBytes \in Nat \ {0} /\ ClusterSectors \in Nat \ {0} /\ FatEntries \in Nat \ {0}
  /\ ClusterBytes \in Nat \ {0} /\ ClusterSectors <= ClusterBytes
  /\ Word \in Nat /\ Sizes \subseteq Nat \ {0} /\ Offsets \subseteq 0 .. Word - 1
BY FatAssumption DEF ClusterBytes

\* Quotient and remainder, and what products tell of factors.
LEMMA Divided ==
  ASSUME NEW n \in Nat, NEW m \in Nat \ {0}
  PROVE  /\ n \div m \in Nat /\ n % m \in 0 .. m - 1 /\ n = (n \div m) * m + (n % m)
         /\ (n \div m) * m <= n /\ n - (n \div m) * m < m
OBVIOUS

LEMMA Multiplied ==
  ASSUME NEW a \in Int, NEW b \in Int, NEW m \in Nat \ {0}
  PROVE  /\ a < b => a * m + m <= b * m
         /\ a * m < b * m => a < b
         /\ (a + 1) * m = a * m + m
OBVIOUS

LEMMA Division ==
  ASSUME NEW q \in Nat, NEW m \in Nat \ {0}, NEW r \in 0 .. m - 1
  PROVE  (q * m + r) \div m = q /\ (q * m + r) % m = r
<1> DEFINE n == q * m + r
           d == n \div m
<1>1. n \in Nat /\ n = q * m + r
  OBVIOUS
<1>2. d \in Nat /\ n % m \in 0 .. m - 1 /\ n = d * m + (n % m)
  BY <1>1, Divided
<1>3. q < d => q * m + m <= d * m
  BY <1>2, Multiplied
<1>4. d < q => d * m + m <= q * m
  BY <1>2, Multiplied
<1>5. d * m \in Int /\ q * m \in Int
  BY <1>2
<1> HIDE DEF d, n
<1>6. d = q
  BY <1>1, <1>2, <1>3, <1>4, <1>5
<1>7. n % m = r
  BY <1>1, <1>2, <1>5, <1>6
<1> QED BY <1>6, <1>7 DEF d, n

\* A file in the volume.
LEMMA ChainIs ==
  ASSUME NEW f \in Files
  PROVE  /\ Chains[f] \in Seq(Nat \ {0, 1}) /\ Len(Chains[f]) \in Nat \ {0}
         /\ Len(Chains[f]) * ClusterBytes \in Nat
         /\ Len(Chains[f]) * ClusterBytes + ClusterBytes < Word /\ Len(Chains[f]) < Word
<1>1. Chains[f] \in Seq(Nat \ {0, 1}) /\ Chains[f] # << >>
  BY FatAssumption
<1>2. Len(Chains[f]) \in Nat \ {0}
  BY <1>1
<1>3. Word > (Len(Chains[f]) + 1) * ClusterBytes
  BY FatAssumption
<1> DEFINE n == Len(Chains[f])
<1>4. (n + 1) * ClusterBytes = n * ClusterBytes + ClusterBytes
  BY <1>2, SizesAre, Multiplied
<1>5. n * ClusterBytes \in Nat /\ n <= n * ClusterBytes
  BY <1>2, SizesAre
<1> QED BY <1>1, <1>2, <1>3, <1>4, <1>5, SizesAre

\* The clusters of the files, and the FAT entry of each.
LEMMA ClusterIs ==
  ASSUME NEW f \in Files, NEW n \in 1 .. Len(Chains[f])
  PROVE  /\ Chains[f][n] \in Clusters
         /\ Entries(Chains[f][n]) = {IF n < Len(Chains[f]) THEN Chains[f][n + 1] ELSE EndMark}
<1> DEFINE c == Chains[f][n]
           l == CHOOSE k \in Links : Chains[k[1]][k[2]] = c
<1>1. <<f, n>> \in Links
  BY ChainIs DEF Links
<1>2. c \in Clusters
  BY <1>1 DEF Clusters
<1>3. l \in Links /\ Chains[l[1]][l[2]] = c
  BY <1>1
<1>4. l = <<f, n>>
  BY <1>1, <1>3, FatAssumption
<1>5. Entries(c) = {IF l[2] < Len(Chains[l[1]]) THEN Chains[l[1]][l[2] + 1] ELSE EndMark}
  BY <1>2 DEF Entries
<1> HIDE DEF l
<1>6. l[1] = f /\ l[2] = n
  BY <1>4
<1> QED BY <1>2, <1>5, <1>6

LEMMA ClusterTypes == Clusters \subseteq Nat \ {0, 1}
<1> SUFFICES ASSUME NEW l \in Links PROVE Chains[l[1]][l[2]] \in Nat \ {0, 1}
  BY DEF Clusters
<1>1. PICK f \in Files : l \in {f} \X DOMAIN Chains[f]
  BY DEF Links
<1> QED BY <1>1, ChainIs

LEMMA EntriesKnown == ASSUME NEW c PROVE Entries(c) \subseteq Clusters \cup {0, EndMark}
<1>1. CASE c \notin Clusters
  BY <1>1 DEF Entries
<1>2. CASE c \in Clusters
  <2> DEFINE l == CHOOSE k \in Links : Chains[k[1]][k[2]] = c
  <2>1. l \in Links
    BY <1>2 DEF Clusters
  <2>2. PICK f \in Files : l \in {f} \X DOMAIN Chains[f]
    BY <2>1 DEF Links
  <2>3. l[1] = f /\ l[2] \in 1 .. Len(Chains[f])
    BY <2>2, ChainIs
  <2>4. Entries(c) = {IF l[2] < Len(Chains[l[1]]) THEN Chains[l[1]][l[2] + 1] ELSE EndMark}
    BY <1>2 DEF Entries
  <2>5. l[2] < Len(Chains[f]) => Chains[f][l[2] + 1] \in Clusters
    BY <2>3, ChainIs, ClusterIs
  <2> QED BY <2>3, <2>4, <2>5
<1> QED BY <1>1, <1>2

\* The n bytes of file f from position p on.
AddressIn(f, p) ==
  FirstSectorOf(Chains[f][p \div ClusterBytes + 1]) * SectorBytes + (p % ClusterBytes)
Bytes(f, p, n) == [i \in 1 .. n |-> AddressIn(f, p + i - 1)]

\* Where the bytes of a cluster are.
LEMMA AddressIs ==
  ASSUME NEW f, NEW q \in Nat, NEW r \in 0 .. ClusterBytes - 1
  PROVE  AddressIn(f, q * ClusterBytes + r) = FirstSectorOf(Chains[f][q + 1]) * SectorBytes + r
BY SizesAre, Division DEF AddressIn

LEMMA SectorIs ==
  ASSUME NEW k \in 0 .. ClusterSectors - 1
  PROVE  k * SectorBytes \in Nat /\ k * SectorBytes + SectorBytes <= ClusterBytes
<1>1. k \in Int /\ ClusterSectors \in Int /\ k < ClusterSectors
  BY SizesAre
<1> QED BY <1>1, SizesAre, Multiplied DEF ClusterBytes

\* What is copied from a sector is a sequence of bytes.
LEMMA BytesTyped ==
  ASSUME NEW s \in Int, NEW first \in Nat, NEW last \in Int, last - first + 1 \in Nat
  PROVE  /\ BytesOf(s, first, last) \in Seq(Int)
         /\ Len(BytesOf(s, first, last)) = last - first + 1
<1>1. BytesOf(s, first, last) \in [1 .. last - first + 1 -> Int]
  BY SizesAre DEF BytesOf, Garbage
<1> QED BY <1>1

\* The n bytes from the position p of the file f lie in sector k of its cluster q, from
\* first to last.
LiesIn(f, p, n, q, k, first, last) ==
  /\ q < Len(Chains[f]) /\ last = first + n - 1
  /\ k * SectorBytes + first + n <= ClusterBytes
  /\ p = q * ClusterBytes + k * SectorBytes + first

\* Bytes of a sector of a cluster are bytes of the file.
LEMMA BytesAre ==
  ASSUME NEW f \in Files, NEW p \in Nat, NEW n \in Nat, NEW q \in Nat,
         NEW k \in 0 .. ClusterSectors - 1, NEW first \in Nat, NEW last \in Int,
         LiesIn(f, p, n, q, k, first, last)
  PROVE  LET bytes == BytesOf(FirstSectorOf(Chains[f][q + 1]) + k, first, last)
         IN  bytes \in Seq(Int) /\ Len(bytes) = n /\ bytes = Bytes(f, p, n)
<1> DEFINE c == FirstSectorOf(Chains[f][q + 1])
           s == c + k
<1> USE DEF LiesIn
<1>1. Chains[f][q + 1] \in Nat \ {0, 1}
  BY ChainIs
<1>2. c \in Nat
  BY <1>1, SizesAre DEF FirstSectorOf
<1>3. s \in Int /\ s # Garbage
  BY <1>2 DEF Garbage
<1>4. s * SectorBytes = c * SectorBytes + k * SectorBytes
  BY <1>2, SizesAre
<1>5. ASSUME NEW i \in 1 .. n
      PROVE  s * SectorBytes + first + i - 1 = AddressIn(f, p + i - 1)
  <2> DEFINE r == k * SectorBytes + first + i - 1
  <2>1. r \in 0 .. ClusterBytes - 1
    BY SectorIs, SizesAre
  <2>2. AddressIn(f, q * ClusterBytes + r) = c * SectorBytes + r
    BY <2>1, AddressIs
  <2>3. q * ClusterBytes + r = p + i - 1
    BY SectorIs, SizesAre
  <2> QED BY <1>2, <1>4, <2>2, <2>3, SectorIs, SizesAre
<1>6. last - first + 1 = n
  OBVIOUS
<1>7. BytesOf(s, first, last) \in Seq(Int) /\ Len(BytesOf(s, first, last)) = n
  BY <1>3, <1>6, BytesTyped
<1>8. BytesOf(s, first, last) = Bytes(f, p, n)
  BY <1>3, <1>5, <1>6 DEF BytesOf, Bytes
<1> QED BY <1>7, <1>8

\* Reading on behind what has been read.
LEMMA BytesJoin ==
  ASSUME NEW f, NEW p \in Nat, NEW m \in Nat, NEW n \in Nat,
         Bytes(f, p, m) \in Seq(Int), Bytes(f, p + m, n) \in Seq(Int)
  PROVE  Bytes(f, p, m) \o Bytes(f, p + m, n) = Bytes(f, p, m + n)
<1> DEFINE b == Bytes(f, p, m)
           c == Bytes(f, p + m, n)
<1>1. b \in Seq(Int) /\ Len(b) = m /\ \A i \in 1 .. m : b[i] = AddressIn(f, p + i - 1)
  <2>1. DOMAIN b = 1 .. m
    BY DEF Bytes
  <2> QED BY <2>1 DEF Bytes
<1>2. c \in Seq(Int) /\ Len(c) = n /\ \A i \in 1 .. n : c[i] = AddressIn(f, p + m + i - 1)
  <2>1. DOMAIN c = 1 .. n
    BY DEF Bytes
  <2> QED BY <2>1 DEF Bytes
<1> HIDE DEF b, c
<1> DEFINE d == b \o c
<1>3. d = [i \in 1 .. m + n |-> IF i <= m THEN b[i] ELSE c[i - m]]
  <2>1. d \in Seq(Int) /\ Len(d) = m + n
    BY <1>1, <1>2, ConcatProperties
  <2>2. \A i \in 1 .. m + n : d[i] = IF i <= m THEN b[i] ELSE c[i - m]
    BY <1>1, <1>2, ConcatProperties
  <2> HIDE DEF d
  <2>3. DOMAIN d = 1 .. m + n /\ d = [i \in DOMAIN d |-> d[i]]
    BY <2>1
  <2> QED BY <2>2, <2>3
<1>4. ASSUME NEW i \in 1 .. m + n
      PROVE  (IF i <= m THEN b[i] ELSE c[i - m]) = AddressIn(f, p + i - 1)
  BY <1>1, <1>2
<1>5. b \o c = Bytes(f, p, m + n)
  BY <1>3, <1>4 DEF Bytes
<1> QED BY <1>5 DEF b, c

-----------------------------------------------------------------------------
(* Types.                                                                  *)

USE DEF fileVars, cacheVars, localVars, historyVars, vars, volumeVars, allVars

\* The cached sector is the one it is taken for.
CacheInv ==
  /\ {cached, data} \subseteq Int /\ faults \in Nat
  /\ cached # NoSector => data = cached

\* The inductive form of TypeOK: unless it counts as damaged, a call reads within the file.
FileTypes ==
  /\ TypeOK
  /\ size \in Nat /\ buffer \in Seq(Int) /\ sector \in Int
  /\ at # "idle" => size > 0 /\ (~damaged => seekPos + size <= FileBytes)

\* A call is under way only while main decodes.
CallInDecode == at # "idle" => main = "decode"

LEMMA SectorsTyped ==
  ASSUME NEW c \in Clusters \cup {EndMark} PROVE FirstSectorOf(c) \in Int /\ FatSector(c) \in Int
BY ClusterTypes, SizesAre, Divided DEF FirstSectorOf, FatSector, EndMark

\* Loading a sector, and failing to.
LEMMA CacheRead ==
  ASSUME CacheInv, NEW s \in Int, Load(s), faults' = faults
  PROVE  CacheInv' /\ (s # NoSector => data' = s)
BY DEF CacheInv, Load

LEMMA CacheFails == ASSUME CacheInv, NEW s, SectorFails(s) PROVE CacheInv' /\ damaged'
BY DEF CacheInv, SectorFails, CardFails, NoSector, Garbage

LEMMA NextClusterKeeps ==
  ASSUME CacheInv, NEW c \in Clusters \cup {EndMark}, NEW next, NextCluster(c, next)
  PROVE  CacheInv' /\ next \in Clusters \cup {0, EndMark}
<1>1. FatSector(c) \in Int
  BY SectorsTyped
<1>2. CASE SectorRead(FatSector(c)) /\ next \in Entries(c)
  BY <1>1, <1>2, CacheRead, EntriesKnown DEF SectorRead, CardReads
<1>3. CASE SectorFails(FatSector(c)) /\ next \in Clusters \cup {0, EndMark}
  BY <1>3, CacheFails
<1> QED BY <1>2, <1>3 DEF NextCluster

LEMMA DamageStays ==
  ASSUME damaged \in BOOLEAN, NEW c, NEW next, NextCluster(c, next)
  PROVE  damaged' \in BOOLEAN /\ (~damaged' => ~damaged)
BY DEF NextCluster, SectorRead, SectorFails, CardFails, CardReads

\* The file stays the one that is open.
LEMMA SameFile == ASSUME file' = file PROVE Chain' = Chain /\ FileBytes' = FileBytes
BY DEF Chain, FileBytes

\* Positions are kept modulo Word.
LEMMA Wrapped == ASSUME NEW n \in Int PROVE n % Word \in 0 .. Word - 1
<1>1. Word \in Nat /\ Word > 0
  BY VolumeAssumption, SizesAre, ChainIs
<1> QED BY <1>1

LEMMA FileIs ==
  ASSUME FileTypes
  PROVE  /\ Len(Chain) \in Nat \ {0} /\ FileBytes \in Nat /\ FileBytes + ClusterBytes < Word
         /\ \A n \in 1 .. Len(Chain) : Chain[n] \in Clusters
BY ChainIs, ClusterIs DEF FileTypes, TypeOK, Chain, FileBytes

LEMMA WalkTypes == ASSUME FileTypes, CacheInv, Walk PROVE FileTypes' /\ CacheInv'
<1>1. PICK next \in Clusters \cup {0, EndMark} :
        /\ NextCluster(current, next)
        /\ success' = (next # 0)
        /\ current' = IF next = 0 THEN current ELSE next
  BY DEF Walk
<1>2. CacheInv'
  BY <1>1, NextClusterKeeps DEF FileTypes, TypeOK
<1>3. damaged' \in BOOLEAN /\ (~damaged' => ~damaged)
  BY <1>1, DamageStays DEF FileTypes, TypeOK
<1>4. current' \in Clusters \cup {EndMark} /\ cluster' = current' /\ success' \in BOOLEAN
  BY <1>1 DEF Walk, FileTypes, TypeOK
<1>5. pos' \in 0 .. Word - 1 /\ clusterSeq' \in 0 .. Word - 1
  <2>1. clusterSeq + 1 \in Int /\ pos \in 0 .. Word - 1 /\ Word \in Nat
    BY SizesAre DEF FileTypes, TypeOK
  <2>2. pos' \in 0 .. Word - 1
    BY <2>1, SizesAre DEF Walk, Walking
  <2> QED BY <2>1, <2>2, Wrapped DEF Walk
<1> QED BY <1>2, <1>3, <1>4, <1>5, SameFile DEF Walk, FileTypes, TypeOK

LEMMA FailTypes == ASSUME FileTypes, Fail, damaged' PROVE FileTypes'
BY SameFile DEF Fail, FileTypes, TypeOK

LEMMA FirstTypes == ASSUME FileTypes, CacheInv, First PROVE FileTypes' /\ CacheInv'
<1> DEFINE offset == pos \div SectorBytes
           byte == pos % SectorBytes
           s == FirstSectorOf(current) + offset
           count == Least(size, SectorBytes - byte)
<1>1. offset \in Nat /\ byte \in 0 .. SectorBytes - 1 /\ offset + 1 <= Word
  <2>1. pos \in Nat /\ pos < Word
    BY SizesAre DEF FileTypes, TypeOK
  <2>2. offset \in Nat /\ offset <= offset * SectorBytes /\ offset * SectorBytes <= pos
    BY <2>1, SizesAre, Divided
  <2>3. offset * SectorBytes \in Nat
    BY <2>2, SizesAre
  <2>4. byte \in 0 .. SectorBytes - 1
    BY <2>1, SizesAre, Divided
  <2> HIDE DEF offset, byte
  <2> QED BY <2>1, <2>2, <2>3, <2>4, SizesAre
<1>2. s \in Int
  BY <1>1, SectorsTyped DEF FileTypes, TypeOK
<1>3. count \in Nat /\ count <= size
  BY <1>1, SizesAre DEF Least, FileTypes
<1> HIDE DEF offset, byte, count
<1>4. CASE SectorFails(s) /\ Fail
  BY <1>4, CacheFails, FailTypes
<1>5. CASE /\ SectorRead(s)
           /\ buffer' = BytesOf(data', byte, byte + count - 1)
           /\ at' = IF count < size /\ offset = ClusterSectors - 1 THEN "follow" ELSE "runs"
           /\ sectorOffset' = offset + 1 /\ sector' = s + 1
           /\ UNCHANGED <<fileVars, size, pos, current, success, from, calls>>
  <2>1. CacheInv' /\ UNCHANGED <<damaged, faults>>
    BY <1>2, <1>5, CacheRead DEF SectorRead, CardReads
  <2>2. buffer' \in Seq(Int) /\ Len(buffer') = count
    <3> DEFINE last == byte + count - 1
    <3>1. byte \in Nat /\ last \in Int /\ last - byte + 1 = count /\ data' \in Int
      BY <1>1, <1>3, <2>1, SizesAre DEF CacheInv
    <3>2. buffer' = BytesOf(data', byte, last)
      BY <1>5
    <3> HIDE DEF last
    <3> QED BY <1>3, <3>1, <3>2, BytesTyped
  <2> HIDE DEF s
  <2> QED BY <1>1, <1>2, <1>3, <1>5, <2>1, <2>2, SameFile, SizesAre
             DEF First, FileTypes, TypeOK
<1>6. CASE /\ at' = "runs" /\ sectorOffset' = offset /\ sector' = s
           /\ UNCHANGED <<fileVars, cacheVars, size, pos, current, success, buffer,
                          historyVars>>
  BY <1>1, <1>2, <1>6, SameFile, SizesAre DEF First, FileTypes, TypeOK, CacheInv
<1> QED BY <1>4, <1>5, <1>6 DEF First, offset, byte, count

LEMMA FollowTypes == ASSUME FileTypes, CacheInv, FollowChain PROVE FileTypes' /\ CacheInv'
<1>1. PICK next \in Clusters \cup {0, EndMark} :
        /\ NextCluster(current, next)
        /\ IF next = 0 THEN Fail
           ELSE /\ current' = next /\ cluster' = next /\ clusterSeq' = (clusterSeq + 1) % Word
                /\ sector' = FirstSectorOf(next) /\ sectorOffset' = 0
                /\ at' = "runs"
                /\ UNCHANGED <<file, seekPos, size, pos, success, buffer, from, calls>>
  BY DEF FollowChain
<1>2. CacheInv'
  BY <1>1, NextClusterKeeps DEF FileTypes, TypeOK
<1>3. damaged' \in BOOLEAN /\ (~damaged' => ~damaged)
  BY <1>1, DamageStays DEF FileTypes, TypeOK
<1>4. CASE next = 0
  BY <1>1, <1>2, <1>3, <1>4, SameFile DEF Fail, FileTypes, TypeOK
<1>5. CASE next # 0
  <2>1. (clusterSeq + 1) % Word \in 0 .. Word - 1
    <3>1. clusterSeq + 1 \in Int
      BY SizesAre DEF FileTypes, TypeOK
    <3> QED BY <3>1, Wrapped
  <2>2. FirstSectorOf(next) \in Int
    BY <1>5, SectorsTyped
  <2> QED BY <1>1, <1>2, <1>3, <1>5, <2>1, <2>2, SameFile, SizesAre
          DEF FollowChain, FileTypes, TypeOK
<1> QED BY <1>4, <1>5

\* A run of sectors fits into the rest of the buffer.
LEMMA RunFits ==
  ASSUME FileTypes, NEW n \in Int, n > 0, n <= SectorsToRead
  PROVE  /\ n * SectorBytes \in Nat /\ SectorBytes <= n * SectorBytes
         /\ Len(buffer) + n * SectorBytes <= size
<1> DEFINE rest == size - Len(buffer)
<1>1. rest \in Nat
  BY DEF FileTypes, TypeOK
<1>2. SectorsToRead \in Nat /\ SectorsToRead * SectorBytes <= rest
  BY <1>1, SizesAre, Divided DEF SectorsToRead
<1>3. n * SectorBytes <= SectorsToRead * SectorBytes
  BY <1>2, SizesAre, Multiplied
<1>4. n * SectorBytes \in Nat /\ SectorsToRead * SectorBytes \in Nat /\ SectorBytes <= n * SectorBytes
  BY <1>2, SizesAre
<1> QED BY <1>1, <1>2, <1>3, <1>4 DEF FileTypes

LEMMA RunsTypes == ASSUME FileTypes, CacheInv, Runs PROVE FileTypes' /\ CacheInv'
<1> DEFINE n == Least(SectorsToRead, SectorsLeft)
           more == n = SectorsLeft /\ Len(buffer) + n * SectorBytes < size
<1>1. n \in Int /\ n <= SectorsToRead
  <2>1. SectorsToRead \in Int
    BY SizesAre, Divided DEF SectorsToRead, FileTypes, TypeOK
  <2>2. SectorsLeft \in Int
    BY SizesAre, FileIs DEF SectorsLeft, FileTypes, TypeOK
  <2> QED BY <2>1, <2>2 DEF Least
<1> HIDE DEF n
<1>2. CASE (IF n > 0 THEN CardFails(sector) ELSE damaged' = TRUE /\ UNCHANGED faults)
             /\ Fail /\ UNCHANGED cacheVars
  BY <1>2, FailTypes DEF CardFails, CacheInv
<1>3. CASE /\ n > 0
           /\ buffer' = buffer \o BytesOf(sector, 0, n * SectorBytes - 1)
           /\ sector' = sector + n
           /\ at' = IF more THEN "follow" ELSE "runs"
           /\ UNCHANGED <<fileVars, cacheVars, size, pos, current, sectorOffset, success,
                          historyVars>>
  <2>1. n * SectorBytes \in Nat /\ Len(buffer) + n * SectorBytes <= size
    BY <1>1, <1>3, RunFits
  <2> DEFINE last == n * SectorBytes - 1
             b == BytesOf(sector, 0, last)
  <2>2. b \in Seq(Int) /\ Len(b) = n * SectorBytes
    <3>1. last \in Int /\ last - 0 + 1 = n * SectorBytes /\ sector \in Int
      BY <2>1 DEF FileTypes
    <3> HIDE DEF last
    <3> QED BY <2>1, <3>1, BytesTyped
  <2> HIDE DEF b
  <2>3. buffer' \in Seq(Int) /\ Len(buffer') <= size
    BY <1>3, <2>1, <2>2, ConcatProperties DEF FileTypes, b
  <2> HIDE DEF more
  <2> QED BY <1>1, <1>3, <2>3, SameFile DEF Runs, FileTypes, TypeOK, CacheInv
<1> QED BY <1>2, <1>3 DEF Runs, ReadRun, n

LEMMA LastTypes == ASSUME FileTypes, CacheInv, Last PROVE FileTypes' /\ CacheInv'
<1>1. CASE Len(buffer) < size /\ SectorFails(sector) /\ Fail
  BY <1>1, CacheFails, FailTypes
<1>2. CASE /\ IF Len(buffer) < size
                THEN /\ SectorRead(sector)
                     /\ buffer' = buffer \o BytesOf(data', 0, size - Len(buffer) - 1)
                ELSE UNCHANGED <<buffer, cacheVars, damaged, faults>>
           /\ seekPos' = IF success THEN (seekPos + size) % Word ELSE seekPos
           /\ at' = "idle"
           /\ UNCHANGED <<file, cluster, clusterSeq, size, pos, current, sectorOffset, sector,
                          success, from, calls>>
  <2>1. CacheInv' /\ UNCHANGED <<damaged, faults>>
    BY <1>2, CacheRead DEF SectorRead, CardReads, FileTypes, CacheInv
  <2>2. buffer' \in Seq(Int) /\ Len(buffer') <= size
    <3>1. CASE Len(buffer) < size
      <4> DEFINE last == size - Len(buffer) - 1
                 b == BytesOf(data', 0, last)
      <4>1. b \in Seq(Int) /\ Len(b) = size - Len(buffer)
        <5>1. last \in Int /\ last - 0 + 1 = size - Len(buffer) /\ data' \in Int
          BY <3>1, <2>1 DEF FileTypes, CacheInv
        <5>2. size - Len(buffer) \in Nat
          BY <3>1 DEF FileTypes
        <5> HIDE DEF last
        <5> QED BY <5>1, <5>2, BytesTyped
      <4>2. buffer' = buffer \o b /\ buffer \in Seq(Int) /\ size \in Nat
        BY <1>2, <3>1 DEF FileTypes
      <4> HIDE DEF b
      <4> QED BY <3>1, <4>1, <4>2, ConcatProperties
    <3>2. CASE ~(Len(buffer) < size)
      BY <1>2, <3>2 DEF FileTypes, TypeOK
    <3> QED BY <3>1, <3>2
  <2>3. seekPos' \in 0 .. Word - 1
    <3>1. seekPos + size \in Int
      BY SizesAre DEF FileTypes, TypeOK
    <3>2. (seekPos + size) % Word \in 0 .. Word - 1
      BY <3>1, Wrapped
    <3> QED BY <1>2, <3>2 DEF FileTypes, TypeOK
  <2> QED BY <1>2, <2>1, <2>2, <2>3, SameFile DEF FileTypes, TypeOK
<1> QED BY <1>1, <1>2 DEF Last

LEMMA SeekTypes == ASSUME FileTypes, NEW o \in Offsets, Seek(o) PROVE FileTypes'
<1>1. o \in 0 .. Word - 1
  BY SizesAre
<1>2. Chain[1] \in Clusters /\ 0 \in 0 .. Word - 1
  BY FileIs, SizesAre
<1>3. seekPos' \in 0 .. Word - 1 /\ cluster' \in Clusters /\ clusterSeq' \in 0 .. Word - 1
  BY <1>1, <1>2, SameFile DEF Seek
<1>4. /\ size' = 0 /\ buffer' = << >> /\ at' = "idle"
      /\ success' \in BOOLEAN /\ damaged' \in BOOLEAN
  BY DEF Seek
<1>5. UNCHANGED <<file, cacheVars, at, pos, current, sectorOffset, sector, faults, calls>>
  BY DEF Seek
<1> QED BY <1>3, <1>4, <1>5 DEF FileTypes, TypeOK

LEMMA CallTyped == ASSUME FileTypes, NEW n \in Sizes, Call(n) PROVE FileTypes'
<1>1. n \in Nat /\ n > 0
  BY SizesAre
<1>2. (seekPos - clusterSeq * ClusterBytes) % Word \in 0 .. Word - 1
  <2>1. seekPos - clusterSeq * ClusterBytes \in Int
    BY FileIs, SizesAre DEF FileTypes, TypeOK
  <2> QED BY <2>1, Wrapped
<1>3. damaged' \in BOOLEAN /\ (~damaged' => seekPos + n <= FileBytes)
  <2>1. damaged' = (damaged \/ seekPos + n > FileBytes)
    BY DEF Call
  <2>2. damaged' \in BOOLEAN /\ (~damaged' => ~(seekPos + n > FileBytes))
    BY <2>1
  <2>3. seekPos \in Int /\ FileBytes \in Int
    BY FileIs, SizesAre DEF FileTypes, TypeOK
  <2> QED BY <1>1, <2>2, <2>3
<1>4. /\ size' = n /\ buffer' = << >> /\ success' = TRUE
      /\ current' = cluster /\ at' \in {"walk", "first"}
      /\ pos' = (seekPos - clusterSeq * ClusterBytes) % Word
      /\ UNCHANGED <<file, seekPos, cluster, clusterSeq, sectorOffset, sector>>
  BY DEF Call
<1> QED BY <1>1, <1>2, <1>3, <1>4, SameFile DEF FileTypes, TypeOK

-----------------------------------------------------------------------------
(* What is read.                                                           *)

\* The position read up to.
Reached == IF at = "idle" THEN seekPos ELSE seekPos + Len(buffer)

\* The sector to be read next is the one of the position reached, and its number in the
\* cluster is known as long as whole sectors are to be read.
AtSector ==
  \E k \in 0 .. ClusterSectors - 1 :
     /\ sector = FirstSectorOf(current) + k
     /\ clusterSeq * ClusterBytes + k * SectorBytes = Reached
     /\ SectorsToRead > 0 => k = sectorOffset

\* The file is at the cluster it is taken for, which is not beyond the position, and what
\* has been read of the call are the bytes from the position on.
Exact ==
  /\ success /\ clusterSeq < Len(Chains[file]) /\ cluster = Chains[file][clusterSeq + 1]
  /\ clusterSeq * ClusterBytes <= Reached
  /\ at = "idle" => seekPos = from + size /\ from \in Nat /\ buffer = Bytes(file, from, size)
  /\ at # "idle" => /\ from = seekPos /\ current = cluster
                    /\ buffer = Bytes(file, from, Len(buffer))
  /\ at \in {"walk", "first"} => buffer = << >> /\ clusterSeq * ClusterBytes + pos = seekPos
  /\ at = "first" => pos < ClusterBytes
  /\ at = "follow" =>
       Len(buffer) < size /\ clusterSeq * ClusterBytes + ClusterBytes = Reached
  /\ at = "runs" /\ Len(buffer) < size => AtSector

ExactInv == ~damaged => Exact

\* The types in the form the arithmetic needs.
LEMMA Numbers ==
  ASSUME FileTypes
  PROVE  /\ file \in Files /\ seekPos \in Nat /\ clusterSeq \in Nat /\ pos \in Nat
         /\ sectorOffset \in Nat /\ size \in Nat /\ sector \in Int /\ Len(buffer) \in Nat
         /\ Len(buffer) <= size /\ buffer \in Seq(Int)
         /\ Len(Chains[file]) \in Nat \ {0} /\ Len(Chains[file]) < Word /\ Word \in Nat
BY ChainIs, SizesAre, FileIs DEF FileTypes, TypeOK, Chain

LEMMA Products ==
  ASSUME FileTypes
  PROVE  /\ clusterSeq * ClusterBytes \in Nat /\ ClusterBytes \in Nat \ {0}
         /\ (clusterSeq + 1) * ClusterBytes = clusterSeq * ClusterBytes + ClusterBytes
         /\ FileBytes \in Nat /\ FileBytes + ClusterBytes < Word
<1>1. clusterSeq \in Nat /\ ClusterBytes \in Nat \ {0}
  BY Numbers, SizesAre
<1>2. clusterSeq * ClusterBytes \in Nat
  BY <1>1
<1> QED BY <1>1, <1>2, Multiplied, FileIs

\* A position in the file is in one of its clusters.
LEMMA InFile ==
  ASSUME FileTypes, NEW q \in Nat, q * ClusterBytes < FileBytes
  PROVE  q < Len(Chains[file]) /\ q % Word = q
<1>1. q * ClusterBytes < Len(Chains[file]) * ClusterBytes
  BY DEF FileBytes, Chain
<1>2. q < Len(Chains[file])
  <2>1. Len(Chains[file]) \in Int /\ q \in Int /\ ClusterBytes \in Nat \ {0}
    BY Numbers, SizesAre
  <2> QED BY <1>1, <2>1, Multiplied
<1>3. Word \in Nat /\ q < Word
  BY <1>2, Numbers
<1> QED BY <1>2, <1>3

\* The FAT leads from a cluster of the file to the next.
LEMMA NextExact ==
  ASSUME FileTypes, NEW next, NextCluster(current, next), ~damaged',
         clusterSeq + 1 < Len(Chains[file]), current = Chains[file][clusterSeq + 1]
  PROVE  next = Chains[file][clusterSeq + 2] /\ next # 0 /\ ~damaged
<1>1. SectorRead(FatSector(current)) /\ next \in Entries(current)
  BY DEF NextCluster, SectorFails, CardFails
<1>2. clusterSeq + 1 \in 1 .. Len(Chains[file]) /\ clusterSeq + 2 \in 1 .. Len(Chains[file])
  BY Numbers
<1>3. Entries(current) = {Chains[file][clusterSeq + 2]}
  <2>1. clusterSeq + 1 + 1 = clusterSeq + 2
    BY Numbers
  <2> QED BY <1>2, <2>1, Numbers, ClusterIs
<1>4. Chains[file][clusterSeq + 2] # 0
  <2>1. file \in Files
    BY Numbers
  <2>2. Chains[file] \in Seq(Nat \ {0, 1})
    BY <2>1, ChainIs
  <2> QED BY <1>2, <2>2
<1> QED BY <1>1, <1>3, <1>4 DEF SectorRead, CardReads

LEMMA WalkExact == ASSUME FileTypes, ExactInv, Walk, ~damaged' PROVE Exact'
<1>1. PICK next \in Clusters \cup {0, EndMark} :
        /\ NextCluster(current, next)
        /\ success' = (next # 0)
        /\ current' = IF next = 0 THEN current ELSE next
  BY DEF Walk
<1>2. ~damaged
  BY <1>1 DEF NextCluster, SectorRead, SectorFails, CardFails, CardReads
<1>3. /\ at = "walk" /\ pos >= ClusterBytes /\ clusterSeq * ClusterBytes + pos = seekPos
      /\ current = Chains[file][clusterSeq + 1] /\ buffer = << >> /\ from = seekPos
      /\ buffer = Bytes(file, from, Len(buffer)) /\ seekPos + size <= FileBytes /\ size > 0
  BY <1>2 DEF Walk, Walking, ExactInv, Exact, FileTypes
<1>4. (clusterSeq + 1) * ClusterBytes <= seekPos /\ (clusterSeq + 1) * ClusterBytes < FileBytes
  <2> DEFINE here == clusterSeq * ClusterBytes
             there == (clusterSeq + 1) * ClusterBytes
  <2>1. here \in Nat /\ there = here + ClusterBytes /\ ClusterBytes \in Nat /\ FileBytes \in Nat
    BY Products
  <2>2. /\ pos >= ClusterBytes /\ here + pos = seekPos
        /\ seekPos + size <= FileBytes /\ size > 0
    BY <1>3
  <2> HIDE DEF here, there
  <2>3. there <= seekPos /\ there < FileBytes
    BY <2>1, <2>2, Numbers
  <2> QED BY <2>3 DEF there
<1>5. clusterSeq + 1 < Len(Chains[file]) /\ (clusterSeq + 1) % Word = clusterSeq + 1
  BY <1>4, Numbers, InFile
<1>6. next = Chains[file][clusterSeq + 2] /\ next # 0
  BY <1>1, <1>3, <1>5, NextExact
<1>7. /\ success' /\ clusterSeq' = clusterSeq + 1 /\ cluster' = next /\ current' = next
      /\ clusterSeq' + 1 = clusterSeq + 2 /\ pos' = pos - ClusterBytes
      /\ UNCHANGED <<file, seekPos, at, size, sectorOffset, sector, buffer, from>>
  <2>1. success'
    BY <1>1, <1>6
  <2>2. current' = next
    BY <1>1, <1>6
  <2>3. clusterSeq' = clusterSeq + 1 /\ clusterSeq' + 1 = clusterSeq + 2
    BY <1>5, Numbers DEF Walk
  <2> QED BY <2>1, <2>2, <2>3 DEF Walk
<1>8. clusterSeq' * ClusterBytes <= seekPos /\ clusterSeq' * ClusterBytes + pos' = seekPos
  BY <1>3, <1>4, <1>7, Numbers, Products
<1>9. Reached' = seekPos
  BY <1>3, <1>7, Numbers DEF Reached
<1> QED BY <1>3, <1>5, <1>6, <1>7, <1>8, <1>9 DEF Exact

LEMMA WalkEndsExact == ASSUME FileTypes, ExactInv, WalkEnds, ~damaged' PROVE Exact'
<1>1. Exact /\ at = "walk" /\ ~Walking /\ at' = "first"
  BY DEF WalkEnds, ExactInv
<1>2. pos < ClusterBytes
  BY <1>1, Numbers, SizesAre DEF Walking, Exact
<1>3. UNCHANGED <<fileVars, cacheVars, size, pos, current, sectorOffset, sector, success,
                 buffer, historyVars>>
  BY DEF WalkEnds
<1>4. Reached' = Reached
  BY <1>1, <1>3 DEF Reached
<1> QED BY <1>1, <1>2, <1>3, <1>4 DEF Exact

\* Nothing has been read.
LEMMA BytesNone == ASSUME NEW f, NEW p PROVE Bytes(f, p, 0) = << >>
BY DEF Bytes

\* The sectors of the cluster at hand.
LEMMA SectorNumbers ==
  ASSUME NEW f \in Files, NEW q \in Nat, q < Len(Chains[f]), NEW k \in Nat
  PROVE  FirstSectorOf(Chains[f][q + 1]) \in Nat /\ FirstSectorOf(Chains[f][q + 1]) + k # NoSector
<1>1. q + 1 \in 1 .. Len(Chains[f])
  BY ChainIs
<1>2. Chains[f][q + 1] \in Nat \ {0, 1}
  BY <1>1, ChainIs
<1>3. FirstSectorOf(Chains[f][q + 1]) \in Nat
  BY <1>2, SizesAre DEF FirstSectorOf
<1> QED BY <1>3 DEF NoSector

\* The sector of a position in the cluster.
LEMMA SectorOf ==
  ASSUME NEW n \in Nat, n < ClusterBytes
  PROVE  /\ n \div SectorBytes \in 0 .. ClusterSectors - 1
         /\ n % SectorBytes \in 0 .. SectorBytes - 1
         /\ n = (n \div SectorBytes) * SectorBytes + (n % SectorBytes)
         /\ (n \div SectorBytes) * SectorBytes \in Nat
<1> DEFINE d == n \div SectorBytes
<1>1. /\ d \in Nat /\ n % SectorBytes \in 0 .. SectorBytes - 1
      /\ n = d * SectorBytes + (n % SectorBytes) /\ d * SectorBytes <= n
  BY SizesAre, Divided
<1> HIDE DEF d
<1>2. d * SectorBytes \in Nat /\ d * SectorBytes < ClusterSectors * SectorBytes
  BY <1>1, SizesAre DEF ClusterBytes
<1>3. d < ClusterSectors
  <2>1. d \in Int /\ ClusterSectors \in Int /\ SectorBytes \in Nat \ {0}
    BY <1>1, SizesAre
  <2> QED BY <1>2, <2>1, Multiplied
<1> QED BY <1>1, <1>2, <1>3, SizesAre DEF d

LEMMA FirstExact == ASSUME FileTypes, CacheInv, ExactInv, First, ~damaged' PROVE Exact'
<1> DEFINE offset == pos \div SectorBytes
           byte == pos % SectorBytes
           s == FirstSectorOf(current) + offset
           count == Least(size, SectorBytes - byte)
           here == clusterSeq * ClusterBytes
           past == offset * SectorBytes
<1>1. ~damaged
  BY DEF First, SectorFails, CardFails, SectorRead, CardReads
<1>2. /\ at = "first" /\ success /\ buffer = << >> /\ buffer = Bytes(file, from, 0)
      /\ from = seekPos /\ current = cluster
  BY <1>1, BytesNone DEF First, ExactInv, Exact
<1>3. pos < ClusterBytes /\ here + pos = seekPos
  BY <1>1 DEF First, ExactInv, Exact
<1>4. clusterSeq < Len(Chains[file]) /\ current = Chains[file][clusterSeq + 1]
  BY <1>1 DEF First, ExactInv, Exact
<1>5. /\ offset \in 0 .. ClusterSectors - 1 /\ byte \in 0 .. SectorBytes - 1
      /\ pos = past + byte /\ past \in Nat /\ here \in Nat
  BY <1>3, Numbers, Products, SectorOf
<1>6. past + SectorBytes <= ClusterBytes /\ (offset + 1) * SectorBytes = past + SectorBytes
  <2>1. offset \in Int /\ SectorBytes \in Nat \ {0}
    BY <1>5, SizesAre
  <2> QED BY <1>5, <2>1, SectorIs, Multiplied
<1>7. past = offset * SectorBytes /\ here = clusterSeq * ClusterBytes
  OBVIOUS
<1>8. count = IF size < SectorBytes - byte THEN size ELSE SectorBytes - byte
  BY DEF Least
<1>9. /\ at = "first"
      /\ IF byte > 0 \/ size < SectorBytes
         THEN \/ SectorFails(s) /\ Fail
              \/ /\ SectorRead(s)
                 /\ buffer' = BytesOf(data', byte, byte + count - 1)
                 /\ at' = IF count < size /\ offset = ClusterSectors - 1
                          THEN "follow" ELSE "runs"
                 /\ sectorOffset' = offset + 1 /\ sector' = s + 1
                 /\ UNCHANGED <<fileVars, size, pos, current, success, from, calls>>
         ELSE /\ at' = "runs" /\ sectorOffset' = offset /\ sector' = s
              /\ UNCHANGED <<fileVars, cacheVars, size, pos, current, success, buffer,
                             historyVars>>
  BY DEF First
<1> HIDE DEF offset, byte, count, here, past
<1>10. offset = ClusterSectors - 1 => past + SectorBytes = ClusterBytes
  <2>1. offset = ClusterSectors - 1 => offset + 1 = ClusterSectors
    BY SizesAre
  <2>2. ClusterBytes = ClusterSectors * SectorBytes
    BY SizesAre DEF ClusterBytes
  <2> QED BY <1>6, <2>1, <2>2
<1>11. count \in Nat /\ count <= size /\ (count = size \/ count = SectorBytes - byte)
        /\ count <= SectorBytes - byte
  BY <1>5, <1>8, Numbers, SizesAre
<1>12. FirstSectorOf(current) \in Nat /\ s \in Nat /\ s # NoSector
  <2>1. offset \in Nat /\ clusterSeq \in Nat /\ file \in Files
    BY <1>5, Numbers, SizesAre
  <2>2. FirstSectorOf(current) \in Nat
    BY <1>4, <2>1, SectorNumbers
  <2> QED BY <2>1, <2>2 DEF NoSector
<1>13. CASE /\ SectorRead(s)
            /\ buffer' = BytesOf(data', byte, byte + count - 1)
            /\ at' = IF count < size /\ offset = ClusterSectors - 1 THEN "follow" ELSE "runs"
            /\ sectorOffset' = offset + 1 /\ sector' = s + 1
            /\ UNCHANGED <<fileVars, size, pos, current, success, from, calls>>
  <2>1. data' = s
    BY <1>12, <1>13, CacheRead DEF SectorRead, CardReads
  <2>2. buffer' = Bytes(file, from, count) /\ Len(buffer') = count
    <3> DEFINE last == byte + count - 1
    <3>1. from \in Nat /\ from = here + past + byte
      BY <1>2, <1>3, <1>5, Numbers
    <3>2. byte \in Nat /\ last \in Int /\ past + byte + count <= ClusterBytes
      BY <1>5, <1>6, <1>11, SizesAre
    <3>3. last = byte + count - 1
      OBVIOUS
    <3>4. buffer' = BytesOf(FirstSectorOf(Chains[file][clusterSeq + 1]) + offset, byte, last)
      BY <1>4, <1>13, <2>1
    <3>5. file \in Files /\ clusterSeq \in Nat
      BY Numbers
    <3>6. /\ from = clusterSeq * ClusterBytes + offset * SectorBytes + byte
          /\ offset * SectorBytes + byte + count <= ClusterBytes
      BY <1>7, <3>1, <3>2
    <3>7. clusterSeq < Len(Chains[file]) /\ offset \in 0 .. ClusterSectors - 1 /\ count \in Nat
      BY <1>4, <1>5, <1>11
    <3> HIDE DEF last
    <3>8. LET bytes == BytesOf(FirstSectorOf(Chains[file][clusterSeq + 1]) + offset, byte, last)
          IN  bytes \in Seq(Int) /\ Len(bytes) = count /\ bytes = Bytes(file, from, count)
      <4>1. LiesIn(file, from, count, clusterSeq, offset, byte, last)
        BY <3>3, <3>6, <3>7 DEF LiesIn
      <4>2. from \in Nat /\ byte \in Nat /\ last \in Int
        BY <3>1, <3>2
      <4> QED BY <3>5, <3>7, <4>1, <4>2, BytesAre
    <3> DEFINE bytes ==
                 BytesOf(FirstSectorOf(Chains[file][clusterSeq + 1]) + offset, byte, last)
    <3>9. bytes = Bytes(file, from, count) /\ Len(bytes) = count /\ buffer' = bytes
      BY <3>4, <3>8
    <3> HIDE DEF bytes
    <3> QED BY <3>9
  <2>4. Reached' = seekPos + count /\ seekPos = here + past + byte
    <3>1. at' # "idle" /\ seekPos' = seekPos
      BY <1>13
    <3>2. seekPos = here + past + byte
      BY <1>3, <1>5, Numbers
    <3> QED BY <2>2, <3>1, <3>2 DEF Reached
  <2>5. count < size => Reached' = here + past + SectorBytes
    BY <1>5, <1>11, <2>4, Numbers, SizesAre
  <2>6. clusterSeq' * ClusterBytes = here /\ here <= Reached'
    <3>1. clusterSeq' * ClusterBytes = here
      BY <1>7, <1>13
    <3>2. here <= Reached'
      BY <1>5, <1>11, <2>4
    <3> QED BY <3>1, <3>2
  <2>7. at' = "follow" => Len(buffer') < size' /\ here + ClusterBytes = Reached'
    <3> SUFFICES ASSUME at' = "follow" PROVE Len(buffer') < size' /\ here + ClusterBytes = Reached'
      OBVIOUS
    <3>1. count < size /\ offset = ClusterSectors - 1 /\ size' = size
      BY <1>13
    <3>2. Reached' = here + past + SectorBytes /\ past + SectorBytes = ClusterBytes
      BY <1>10, <2>5, <3>1
    <3> QED BY <1>5, <2>2, <3>1, <3>2, SizesAre
  <2>8. at' = "runs" /\ Len(buffer') < size' => AtSector'
    <3> SUFFICES ASSUME at' = "runs", Len(buffer') < size' PROVE AtSector'
      OBVIOUS
    <3>1. count < size /\ offset + 1 \in 0 .. ClusterSectors - 1
      <4>1. count < size
        BY <1>13, <2>2
      <4>2. offset # ClusterSectors - 1
        BY <1>13, <4>1
      <4> QED BY <1>5, <4>1, <4>2, SizesAre
    <3>2. here + (offset + 1) * SectorBytes = Reached'
      BY <1>5, <1>6, <2>5, <3>1, SizesAre
    <3>3. sector' = FirstSectorOf(current') + (offset + 1) /\ sectorOffset' = offset + 1
      <4>1. s + 1 = FirstSectorOf(current) + (offset + 1)
        BY <1>5, <1>12
      <4> QED BY <1>13, <4>1
    <3> QED BY <2>6, <3>1, <3>2, <3>3 DEF AtSector
  <2> QED BY <1>2, <1>4, <1>13, <2>2, <2>6, <2>7, <2>8 DEF Exact
<1>14. CASE /\ ~(byte > 0 \/ size < SectorBytes)
            /\ at' = "runs" /\ sectorOffset' = offset /\ sector' = s
            /\ UNCHANGED <<fileVars, cacheVars, size, pos, current, success, buffer,
                           historyVars>>
  <2>1. byte = 0
    BY <1>5, <1>14, SizesAre
  <2>2. Reached' = seekPos /\ here + past = seekPos
    <3>1. at' # "idle" /\ seekPos' = seekPos /\ Len(buffer') = 0
      BY <1>2, <1>14
    <3>2. here + past = seekPos
      BY <1>3, <1>5, <2>1
    <3> QED BY <3>1, <3>2, Numbers DEF Reached
  <2>3. clusterSeq' * ClusterBytes = here
    BY <1>7, <1>14
  <2>4. AtSector'
    <3>1. offset \in 0 .. ClusterSectors - 1 /\ here + offset * SectorBytes = seekPos
      BY <1>5, <1>7, <2>2
    <3> QED BY <1>14, <2>2, <2>3, <3>1 DEF AtSector
  <2>5. here <= seekPos /\ Len(buffer) = 0
    BY <1>2, <1>5, <2>2
  <2> QED BY <1>2, <1>4, <1>14, <2>2, <2>3, <2>4, <2>5 DEF Exact
<1> QED
  <2>1. ~SectorFails(s)
    BY DEF SectorFails, CardFails
  <2> QED BY <1>9, <1>13, <1>14, <2>1

LEMMA FollowExact == ASSUME FileTypes, ExactInv, FollowChain, ~damaged' PROVE Exact'
<1> DEFINE here == clusterSeq * ClusterBytes
           there == (clusterSeq + 1) * ClusterBytes
<1>1. PICK next \in Clusters \cup {0, EndMark} :
        /\ NextCluster(current, next)
        /\ IF next = 0 THEN Fail
           ELSE /\ current' = next /\ cluster' = next /\ clusterSeq' = (clusterSeq + 1) % Word
                /\ sector' = FirstSectorOf(next) /\ sectorOffset' = 0
                /\ at' = "runs"
                /\ UNCHANGED <<file, seekPos, size, pos, success, buffer, from, calls>>
  BY DEF FollowChain
<1>2. ~damaged
  BY <1>1 DEF NextCluster, SectorRead, SectorFails, CardFails, CardReads
<1>3. /\ at = "follow" /\ success /\ from = seekPos
      /\ current = Chains[file][clusterSeq + 1] /\ buffer = Bytes(file, from, Len(buffer))
  BY <1>2 DEF FollowChain, ExactInv, Exact
<1>4. Len(buffer) < size /\ here + ClusterBytes = seekPos + Len(buffer)
  BY <1>2 DEF FollowChain, ExactInv, Exact, Reached
<1>5. there = here + ClusterBytes /\ FileBytes \in Nat /\ here \in Nat /\ ClusterBytes \in Nat
  BY Products
<1>6. seekPos + size <= FileBytes
  BY <1>2, <1>3 DEF FileTypes
<1> HIDE DEF here, there
<1>7. there = seekPos + Len(buffer) /\ there < FileBytes
  BY <1>4, <1>5, <1>6, Numbers
<1>8. clusterSeq + 1 < Len(Chains[file]) /\ (clusterSeq + 1) % Word = clusterSeq + 1
  <2>1. clusterSeq + 1 \in Nat
    BY Numbers
  <2> QED BY <1>7, <2>1, InFile DEF there
<1>9. next = Chains[file][clusterSeq + 2] /\ next # 0
  BY <1>1, <1>3, <1>8, NextExact
<1>10. /\ current' = next /\ cluster' = next /\ clusterSeq' = clusterSeq + 1
       /\ sector' = FirstSectorOf(next) /\ sectorOffset' = 0 /\ at' = "runs"
       /\ UNCHANGED <<file, seekPos, size, pos, success, buffer, from>>
  BY <1>1, <1>8, <1>9
<1>11. clusterSeq' + 1 = clusterSeq + 2
  BY <1>10, Numbers
<1>12. Reached' = there /\ clusterSeq' * ClusterBytes = there
  BY <1>7, <1>10 DEF Reached, there
<1>13. AtSector'
  <2>1. 0 \in 0 .. ClusterSectors - 1 /\ 0 * SectorBytes = 0
    BY SizesAre
  <2>2. there + 0 * SectorBytes = there
    BY <1>7, <2>1, Numbers
  <2>3. FirstSectorOf(next) \in Int
    BY <1>9, SectorsTyped
  <2>4. sector' = FirstSectorOf(current') + 0
    BY <1>10, <2>3
  <2> QED BY <1>10, <1>12, <2>1, <2>2, <2>4 DEF AtSector
<1>14. there <= there
  BY <1>7, Numbers
<1> QED BY <1>3, <1>8, <1>9, <1>10, <1>11, <1>12, <1>13, <1>14 DEF Exact

\* Where a read in the middle of a call begins.
LEMMA ReadOn ==
  ASSUME FileTypes, ExactInv, ~damaged, at = "runs", Len(buffer) < size
  PROVE  \E k \in 0 .. ClusterSectors - 1 :
           /\ sector = FirstSectorOf(Chains[file][clusterSeq + 1]) + k
           /\ seekPos + Len(buffer) = clusterSeq * ClusterBytes + k * SectorBytes
           /\ SectorsToRead > 0 => k = sectorOffset
           /\ sector \in Nat
           /\ \A n \in Nat, last \in Int :
                last = n - 1 /\ k * SectorBytes + n <= ClusterBytes =>
                  LET bytes == BytesOf(sector, 0, last)
                  IN  /\ bytes \in Seq(Int) /\ Len(bytes) = n
                      /\ buffer \o bytes = Bytes(file, from, Len(buffer) + n)
<1>1. AtSector /\ clusterSeq < Len(Chains[file]) /\ Reached = seekPos + Len(buffer)
  BY DEF ExactInv, Exact, Reached
<1>2. /\ current = Chains[file][clusterSeq + 1] /\ from = seekPos
      /\ buffer = Bytes(file, from, Len(buffer))
  BY DEF ExactInv, Exact
<1>3. PICK k \in 0 .. ClusterSectors - 1 :
        /\ sector = FirstSectorOf(current) + k
        /\ clusterSeq * ClusterBytes + k * SectorBytes = Reached
        /\ SectorsToRead > 0 => k = sectorOffset
  BY <1>1 DEF AtSector
<1>4. k \in Nat /\ file \in Files /\ clusterSeq \in Nat /\ from \in Nat /\ Len(buffer) \in Nat
  BY <1>2, Numbers, SizesAre
<1>5. sector \in Nat
  <2>1. FirstSectorOf(current) \in Nat
    BY <1>1, <1>2, <1>4, SectorNumbers
  <2> QED BY <1>3, <1>4, <2>1
<1>6. ASSUME NEW n \in Nat, NEW last \in Int, last = n - 1,
             k * SectorBytes + n <= ClusterBytes
      PROVE  LET bytes == BytesOf(sector, 0, last)
             IN  /\ bytes \in Seq(Int) /\ Len(bytes) = n
                 /\ buffer \o bytes = Bytes(file, from, Len(buffer) + n)
  <2> DEFINE p == from + Len(buffer)
  <2>1. k * SectorBytes \in Nat /\ clusterSeq * ClusterBytes \in Nat
    BY SectorIs, Products
  <2>2. /\ p \in Nat /\ p = clusterSeq * ClusterBytes + k * SectorBytes + 0
        /\ k * SectorBytes + 0 + n <= ClusterBytes /\ last = 0 + n - 1
    BY <1>1, <1>2, <1>3, <1>4, <1>6, <2>1
  <2> DEFINE bytes == BytesOf(FirstSectorOf(Chains[file][clusterSeq + 1]) + k, 0, last)
  <2> HIDE DEF p
  <2>3. bytes \in Seq(Int) /\ Len(bytes) = n /\ bytes = Bytes(file, p, n)
    <3>1. LiesIn(file, p, n, clusterSeq, k, 0, last)
      BY <1>1, <2>2 DEF LiesIn
    <3> QED BY <1>4, <2>2, <3>1, BytesAre
  <2>4. bytes = BytesOf(sector, 0, last)
    BY <1>2, <1>3
  <2> HIDE DEF bytes
  <2>5. buffer \o bytes = Bytes(file, from, Len(buffer) + n)
    <3> DEFINE m == Len(buffer)
    <3>1. buffer \in Seq(Int) /\ buffer = Bytes(file, from, m) /\ m \in Nat /\ from \in Nat
      BY <1>2, <1>4, Numbers
    <3>2. bytes \in Seq(Int) /\ bytes = Bytes(file, from + m, n)
      BY <2>3 DEF p
    <3> HIDE DEF m
    <3>3. buffer \o bytes = Bytes(file, from, m + n)
      BY <3>1, <3>2, BytesJoin
    <3> QED BY <3>3 DEF m
  <2> QED BY <2>3, <2>4, <2>5
<1> QED BY <1>1, <1>2, <1>3, <1>5, <1>6

LEMMA RunsExact == ASSUME FileTypes, ExactInv, Runs, ~damaged' PROVE Exact'
<1> DEFINE n == Least(SectorsToRead, SectorsLeft)
           here == clusterSeq * ClusterBytes
           length == n * SectorBytes
<1>1. /\ at = "runs" /\ SectorsToRead > 0
      /\ n > 0 /\ buffer' = buffer \o BytesOf(sector, 0, length - 1)
      /\ sector' = sector + n
      /\ at' = IF n = SectorsLeft /\ Len(buffer) + length < size THEN "follow" ELSE "runs"
      /\ UNCHANGED <<fileVars, cacheVars, size, pos, current, sectorOffset, success,
                     historyVars>>
  BY DEF Runs, ReadRun, CardFails
<1>2. SectorsToRead \in Nat /\ size - Len(buffer) \in Nat /\ Len(buffer) < size
  <2>1. size - Len(buffer) \in Nat
    BY Numbers
  <2>2. SectorsToRead \in Nat /\ SectorsToRead * SectorBytes <= size - Len(buffer)
    BY <2>1, SizesAre, Divided DEF SectorsToRead
  <2>3. SectorBytes <= SectorsToRead * SectorBytes
    BY <1>1, <2>2, SizesAre
  <2> QED BY <2>1, <2>2, <2>3, Numbers, SizesAre
<1>3. PICK k \in 0 .. ClusterSectors - 1 :
        /\ sector = FirstSectorOf(Chains[file][clusterSeq + 1]) + k
        /\ seekPos + Len(buffer) = here + k * SectorBytes
        /\ SectorsToRead > 0 => k = sectorOffset
        /\ sector \in Nat
        /\ \A j \in Nat, last \in Int :
             last = j - 1 /\ k * SectorBytes + j <= ClusterBytes =>
               LET bytes == BytesOf(sector, 0, last)
               IN  /\ bytes \in Seq(Int) /\ Len(bytes) = j
                   /\ buffer \o bytes = Bytes(file, from, Len(buffer) + j)
  BY <1>1, <1>2, ReadOn DEF Runs
<1>4. SectorsLeft = ClusterSectors - k
  <2>1. k = sectorOffset
    BY <1>1, <1>3
  <2>2. ClusterSectors - k \in Nat /\ ClusterSectors - k < Word
    BY SizesAre, Numbers, Products
  <2>3. Word \in Nat
    BY Numbers
  <2> QED BY <2>1, <2>2, <2>3 DEF SectorsLeft
<1>5. /\ n \in Nat /\ n <= SectorsToRead /\ n <= ClusterSectors - k
      /\ (n = SectorsToRead \/ n = ClusterSectors - k)
  BY <1>1, <1>2, <1>4, SizesAre DEF Least
<1>6. length \in Nat /\ Len(buffer) + length <= size
  BY <1>1, <1>5, RunFits
<1> HIDE DEF n
<1>7. /\ k * SectorBytes \in Nat /\ (k + n) * SectorBytes = k * SectorBytes + length
      /\ (k + n) * SectorBytes <= ClusterBytes
      /\ n = ClusterSectors - k => (k + n) * SectorBytes = ClusterBytes
  <2>1. k \in Nat /\ k * SectorBytes \in Nat /\ SectorBytes \in Nat \ {0}
    BY SectorIs, SizesAre
  <2>2. (k + n) * SectorBytes = k * SectorBytes + length
    BY <1>5, <2>1
  <2>3. ClusterSectors * SectorBytes = ClusterBytes
    BY SizesAre DEF ClusterBytes
  <2>4. n = ClusterSectors - k => k + n = ClusterSectors
    BY <1>5, <2>1, SizesAre
  <2>5. k + n < ClusterSectors => (k + n) * SectorBytes + SectorBytes <= ClusterBytes
    <3>1. k + n < ClusterSectors => k + n \in 0 .. ClusterSectors - 1
      BY <1>5, <2>1, SizesAre
    <3> QED BY <3>1, SectorIs
  <2>6. (k + n) * SectorBytes \in Nat
    BY <1>5, <2>1
  <2>7. k + n < ClusterSectors \/ n = ClusterSectors - k
    BY <1>5, <2>1, SizesAre
  <2>8. ClusterBytes \in Nat
    BY SizesAre
  <2>9. n = ClusterSectors - k => (k + n) * SectorBytes = ClusterBytes
    BY <2>3, <2>4
  <2>10. (k + n) * SectorBytes <= ClusterBytes
    BY <2>1, <2>5, <2>6, <2>7, <2>8, <2>9
  <2> QED BY <2>1, <2>2, <2>9, <2>10
<1> HIDE DEF length, here
<1>8. buffer' = Bytes(file, from, Len(buffer) + length) /\ Len(buffer') = Len(buffer) + length
  <2> DEFINE last == length - 1
             bytes == BytesOf(sector, 0, last)
  <2>1. last \in Int /\ last = length - 1 /\ k * SectorBytes + length <= ClusterBytes
    BY <1>6, <1>7
  <2> HIDE DEF last
  <2>2. bytes \in Seq(Int) /\ Len(bytes) = length
          /\ buffer \o bytes = Bytes(file, from, Len(buffer) + length)
    BY <1>3, <1>6, <2>1
  <2>3. buffer' = buffer \o bytes
    BY <1>1 DEF last
  <2> HIDE DEF bytes
  <2>4. buffer \in Seq(Int)
    BY Numbers
  <2> QED BY <2>2, <2>3, <2>4, ConcatProperties
<1>9. Reached' = here + (k + n) * SectorBytes /\ here \in Nat
  <2>1. Reached' = seekPos + (Len(buffer) + length)
    BY <1>1, <1>8 DEF Reached
  <2>2. here \in Nat
    BY Products DEF here
  <2> DEFINE old == k * SectorBytes
             new == (k + n) * SectorBytes
  <2>3. seekPos + Len(buffer) = here + old
    BY <1>3
  <2>4. old \in Nat /\ new = old + length /\ length \in Nat
    BY <1>6, <1>7
  <2> HIDE DEF old, new
  <2>5. seekPos \in Nat /\ Len(buffer) \in Nat
    BY Numbers
  <2>6. seekPos + (Len(buffer) + length) = here + new
    BY <2>2, <2>3, <2>4, <2>5
  <2> QED BY <2>1, <2>2, <2>6 DEF new
<1>10. clusterSeq' * ClusterBytes = here /\ here <= Reached'
  <2>1. clusterSeq' * ClusterBytes = here
    BY <1>1 DEF here
  <2>2. (k + n) * SectorBytes \in Nat
    BY <1>6, <1>7
  <2> QED BY <1>9, <2>1, <2>2
<1>11. at' = "follow" => Len(buffer') < size' /\ here + ClusterBytes = Reached'
  <2> SUFFICES ASSUME at' = "follow" PROVE Len(buffer') < size' /\ here + ClusterBytes = Reached'
    OBVIOUS
  <2>1. n = SectorsLeft /\ Len(buffer) + length < size /\ size' = size
    BY <1>1
  <2> QED BY <1>4, <1>7, <1>8, <1>9, <2>1
<1>12. at' = "runs" /\ Len(buffer') < size' => AtSector'
  <2> SUFFICES ASSUME at' = "runs", Len(buffer') < size' PROVE AtSector'
    OBVIOUS
  <2>1. n # SectorsLeft /\ n = SectorsToRead /\ size' = size
    BY <1>1, <1>4, <1>5, <1>8
  <2>2. k + n \in 0 .. ClusterSectors - 1
    BY <1>4, <1>5, <2>1, SizesAre
  <2>3. sector' = FirstSectorOf(current') + (k + n)
    <3>1. current = Chains[file][clusterSeq + 1]
      BY <1>1 DEF ExactInv, Exact
    <3>2. FirstSectorOf(current) \in Int
      BY SectorsTyped DEF FileTypes, TypeOK
    <3> QED BY <1>1, <1>3, <1>5, <3>1, <3>2, SizesAre
  <2>4. SectorsToRead' = 0
    <3> DEFINE rest == size - Len(buffer)
    <3>1. rest \in Nat /\ rest - (rest \div SectorBytes) * SectorBytes < SectorBytes
      BY <1>2, SizesAre, Divided
    <3>2. length = (rest \div SectorBytes) * SectorBytes
      BY <2>1 DEF length, SectorsToRead
    <3>3. size' - Len(buffer') \in 0 .. SectorBytes - 1
      <4> DEFINE whole == (rest \div SectorBytes) * SectorBytes
      <4>1. rest - whole < SectorBytes /\ whole = length
        BY <3>1, <3>2
      <4>2. length \in Nat /\ Len(buffer) + length <= size /\ Len(buffer') = Len(buffer) + length
        BY <1>6, <1>8
      <4> HIDE DEF whole
      <4> QED BY <2>1, <4>1, <4>2, SizesAre, Numbers
    <3>4. 0 * SectorBytes + (size' - Len(buffer')) = size' - Len(buffer')
      BY <3>3, SizesAre
    <3> QED BY <3>3, <3>4, SizesAre, Division DEF SectorsToRead
  <2> QED BY <1>9, <1>10, <2>2, <2>3, <2>4 DEF AtSector
<1>13. ~damaged /\ success /\ from = seekPos /\ current = cluster
        /\ clusterSeq < Len(Chains[file]) /\ cluster = Chains[file][clusterSeq + 1]
  BY <1>1 DEF ExactInv, Exact
<1> QED BY <1>1, <1>8, <1>10, <1>11, <1>12, <1>13 DEF Exact

LEMMA LastExact == ASSUME FileTypes, CacheInv, ExactInv, Last, ~damaged' PROVE Exact'
<1> DEFINE rest == size - Len(buffer)
<1>1. /\ IF Len(buffer) < size
           THEN /\ SectorRead(sector)
                /\ buffer' = buffer \o BytesOf(data', 0, rest - 1)
           ELSE UNCHANGED <<buffer, cacheVars, damaged, faults>>
      /\ seekPos' = IF success THEN (seekPos + size) % Word ELSE seekPos
      /\ at = "runs" /\ at' = "idle" /\ SectorsToRead = 0
      /\ UNCHANGED <<file, cluster, clusterSeq, size, pos, current, sectorOffset, sector,
                     success, from, calls>>
  BY DEF Last, SectorFails, CardFails
<1>2. ~damaged
  BY <1>1 DEF SectorRead, CardReads
<1>3. /\ success /\ from = seekPos /\ buffer = Bytes(file, from, Len(buffer))
      /\ clusterSeq < Len(Chains[file]) /\ cluster = Chains[file][clusterSeq + 1]
  BY <1>1, <1>2 DEF ExactInv, Exact
<1>4. clusterSeq * ClusterBytes <= seekPos + Len(buffer)
  BY <1>1, <1>2 DEF ExactInv, Exact, Reached
<1>5. seekPos' = from + size /\ from \in Nat /\ clusterSeq' * ClusterBytes <= seekPos'
  <2>1. (seekPos + size) % Word = seekPos + size
    <3> DEFINE end == seekPos + size
    <3>1. end <= FileBytes /\ end \in Nat
      BY <1>2, Numbers DEF Last, FileTypes
    <3> HIDE DEF end
    <3>2. /\ FileBytes + ClusterBytes < Word
          /\ FileBytes \in Nat /\ ClusterBytes \in Nat /\ Word \in Nat
      BY Products, SizesAre
    <3>3. end < Word
      BY <3>1, <3>2
    <3>4. end % Word = end
      BY <3>1, <3>2, <3>3
    <3> QED BY <3>4 DEF end
  <2>2. clusterSeq * ClusterBytes <= seekPos + size
    <3> DEFINE here == clusterSeq * ClusterBytes
    <3>1. here \in Nat /\ here <= seekPos + Len(buffer)
      BY <1>4, Products
    <3> HIDE DEF here
    <3>2. here <= seekPos + size
      BY <3>1, Numbers
    <3> QED BY <3>2 DEF here
  <2> QED BY <1>1, <1>3, <2>1, <2>2, Numbers
<1>6. buffer' = Bytes(file, from, size)
  <2>1. CASE Len(buffer) < size
    <3>1. PICK k \in 0 .. ClusterSectors - 1 :
            /\ sector \in Nat
            /\ \A n \in Nat, last \in Int :
                 last = n - 1 /\ k * SectorBytes + n <= ClusterBytes =>
                   LET bytes == BytesOf(sector, 0, last)
                   IN  /\ bytes \in Seq(Int) /\ Len(bytes) = n
                       /\ buffer \o bytes = Bytes(file, from, Len(buffer) + n)
      BY <1>1, <1>2, <2>1, ReadOn
    <3>2. rest \in Nat /\ rest < SectorBytes
      <4>1. rest \in Nat
        BY <2>1, Numbers
      <4>2. rest - (rest \div SectorBytes) * SectorBytes < SectorBytes
        BY <4>1, SizesAre, Divided
      <4>3. (rest \div SectorBytes) * SectorBytes = 0
        BY <1>1, SizesAre DEF SectorsToRead
      <4> QED BY <4>1, <4>2, <4>3
    <3>3. data' = sector
      <4>1. Load(sector) /\ faults' = faults /\ sector \in Int /\ sector # NoSector
        BY <1>1, <2>1, <3>1 DEF SectorRead, CardReads, NoSector
      <4> QED BY <4>1, CacheRead
    <3> DEFINE last == rest - 1
    <3>4. k * SectorBytes + rest <= ClusterBytes
      BY <3>2, SectorIs, SizesAre
    <3>5. last \in Int /\ last = rest - 1
      BY <3>2
    <3>6. buffer' = buffer \o BytesOf(sector, 0, last)
      BY <1>1, <2>1, <3>3
    <3>7. Len(buffer) + rest = size
      BY Numbers
    <3> HIDE DEF last, rest
    <3> QED BY <3>1, <3>2, <3>4, <3>5, <3>6, <3>7
  <2>2. CASE ~(Len(buffer) < size)
    <3>1. Len(buffer) = size
      BY <2>2, Numbers
    <3> QED BY <1>1, <1>3, <2>2, <3>1
  <2> QED BY <2>1, <2>2
<1>7. Reached' = seekPos'
  BY <1>1 DEF Reached
<1> QED BY <1>1, <1>3, <1>5, <1>6, <1>7 DEF Exact

LEMMA CallExact == ASSUME FileTypes, ExactInv, NEW n \in Sizes, Call(n), ~damaged' PROVE Exact'
<1> DEFINE here == clusterSeq * ClusterBytes
<1>1. /\ clusterSeq < Len(Chains[file]) /\ cluster = Chains[file][clusterSeq + 1]
      /\ at = "idle" /\ here <= seekPos
  BY DEF Call, ExactInv, Exact, Reached
<1>2. /\ success' /\ from' = seekPos /\ current' = cluster /\ size' = n /\ buffer' = << >>
      /\ at' = IF seekPos \div ClusterBytes # clusterSeq THEN "walk" ELSE "first"
      /\ UNCHANGED <<file, seekPos, cluster, clusterSeq>>
  BY DEF Call
<1>3. here \in Nat /\ seekPos \in Nat /\ seekPos < Word /\ Word \in Nat
  BY Numbers, Products DEF FileTypes, TypeOK
<1>4. pos' = seekPos - here
  <2>1. seekPos - here \in 0 .. Word - 1 /\ pos' = (seekPos - here) % Word
    BY <1>1, <1>3 DEF Call
  <2> HIDE DEF here
  <2> QED BY <1>3, <2>1
<1>5. at' = "first" => pos' < ClusterBytes
  <2> SUFFICES ASSUME at' = "first" PROVE pos' < ClusterBytes
    OBVIOUS
  <2>1. seekPos - (seekPos \div ClusterBytes) * ClusterBytes < ClusterBytes
    BY <1>3, SizesAre, Divided
  <2> QED BY <1>2, <1>4, <2>1
<1>6. Reached' = seekPos
  BY <1>2, <1>3 DEF Reached
<1>7. clusterSeq' * ClusterBytes = here /\ here + pos' = seekPos'
  <2>1. clusterSeq' * ClusterBytes = here
    BY <1>2
  <2> HIDE DEF here
  <2> QED BY <1>2, <1>3, <1>4, <2>1
<1>8. buffer' = Bytes(file, from', Len(buffer'))
  BY <1>2, BytesNone
<1> HIDE DEF here
<1> QED BY <1>1, <1>2, <1>5, <1>6, <1>7, <1>8 DEF Exact

LEMMA SeekExact == ASSUME FileTypes, NEW o \in Offsets, Seek(o) PROVE Exact'
<1>1. o \in Nat /\ 0 * ClusterBytes = 0 /\ 0 <= o
  BY SizesAre
<1>2. /\ success' /\ from' = o /\ seekPos' = o /\ size' = 0 /\ buffer' = << >> /\ at' = "idle"
      /\ clusterSeq' = 0 /\ cluster' = Chains[file][1] /\ file' = file
  BY DEF Seek, Chain
<1>3. 0 < Len(Chains[file]) /\ 0 + 1 = 1 /\ o + 0 = o
  BY <1>1, Numbers
<1> QED BY <1>1, <1>2, <1>3, BytesNone DEF Exact, Reached

\* A file is opened.
LEMMA OpenExact ==
  ASSUME FileTypes, context \in Files, at = "idle", OpenFinds
  PROVE  FileTypes' /\ Exact'
<1>1. /\ success' = TRUE /\ from' = 0 /\ seekPos' = 0 /\ size' = 0 /\ buffer' = << >> /\ at' = "idle"
      /\ clusterSeq' = 0 /\ cluster' = Chains[context][1] /\ file' = context /\ damaged' = FALSE
      /\ UNCHANGED <<pos, current, sectorOffset, sector>>
  BY DEF OpenFinds
<1>2. Chains[context][1] \in Clusters /\ 0 < Len(Chains[context])
  BY ChainIs, ClusterIs
<1>3. Exact'
  <2>1. 0 * ClusterBytes = 0 /\ 0 <= 0 /\ 0 + 1 = 1 /\ 0 + 0 = 0
    BY SizesAre
  <2> QED BY <1>1, <1>2, <2>1, BytesNone DEF Exact, Reached
<1>4. seekPos' \in 0 .. Word - 1 /\ clusterSeq' \in 0 .. Word - 1
  <2>1. FileBytes' = Len(Chains[context]) * ClusterBytes
    BY <1>1 DEF FileBytes, Chain
  <2>2. Len(Chains[context]) * ClusterBytes \in Nat /\ Word - 1 \in Nat
    BY ChainIs, Numbers
  <2> QED BY <1>1, <2>1, <2>2
<1>5. success' \in BOOLEAN /\ damaged' \in BOOLEAN /\ Len(buffer') = 0 /\ buffer' \in Seq(Int)
  <2>1. success' \in BOOLEAN /\ damaged' \in BOOLEAN
    BY DEF OpenFinds
  <2>2. Len(buffer') = 0 /\ buffer' \in Seq(Int)
    BY <1>1
  <2> QED BY <2>1, <2>2
<1>6. FileTypes'
  BY <1>1, <1>2, <1>4, <1>5 DEF FileTypes, TypeOK
<1> QED BY <1>3, <1>6

-----------------------------------------------------------------------------
(* The directory.                                                          *)

Handles == {"main", "open"}

VolumeTypes ==
  /\ directory \in Directories /\ long \in BOOLEAN
  /\ index \in [Handles -> 0 .. Len(directory) + 1]
  /\ main = "open" => context \in Files

\* The entries of the directory.
LEMMA DirectoryIs ==
  ASSUME VolumeTypes
  PROVE  /\ Len(directory) \in Nat /\ DOMAIN directory = 1 .. Len(directory)
         /\ \A i \in DOMAIN directory : directory[i] \in Kinds \cup Files
         /\ \A v \in Files : \E i \in DOMAIN directory :
              \A j \in DOMAIN directory : directory[j] = v <=> j = i
         /\ \A i \in DOMAIN directory :
              directory[i] = "part" => i < Len(directory) /\ directory[i + 1] # "unused"
         /\ \A i \in DOMAIN directory :
              directory[i] = FirstVideo => i = 1 \/ directory[i - 1] # "part"
<1>1. directory \in Seq(Kinds \cup Files)
  BY VolumeAssumption DEF VolumeTypes
<1> QED BY <1>1, VolumeAssumption DEF VolumeTypes

LEMMA LookedIs ==
  ASSUME VolumeTypes, NEW h \in Handles
  PROVE  /\ Looked(h) \in 1 .. Len(directory) + 1
         /\ Looked(h) = IF index[h] <= Len(directory) THEN index[h] + 1 ELSE index[h]
         /\ RootSector(Looked(h)) \in Int
<1>1. index[h] \in 0 .. Len(directory) + 1 /\ Len(directory) \in Nat
  BY DirectoryIs DEF VolumeTypes
<1>2. Looked(h) \in 1 .. Len(directory) + 1
  BY <1>1 DEF Looked
<1>3. Looked(h) - 1 \in Nat /\ RootEntries \in Nat \ {0}
  BY <1>1, <1>2, VolumeAssumption
<1>4. (Looked(h) - 1) \div RootEntries \in Nat
  BY <1>3, Divided
<1> QED BY <1>2, <1>4 DEF RootSector, Looked

\* What main does while no call is under way.
Elsewhere == Select \/ Browse \/ StartDecode \/ DecodeReturns

\* A step looks at an entry, or leaves the directory and the cache alone.
Turn ==
  \E h \in Handles :
    /\ TurnReads(h) \/ TurnFails(h)
    /\ index' = index \/ index' = [index EXCEPT ![h] = Looked(h)]
                     \/ index' = [index EXCEPT ![h] = 0]
    /\ long' \in BOOLEAN

LEMMA ElsewhereIs ==
  ASSUME VolumeTypes, Elsewhere
  PROVE  /\ directory' = directory /\ calls' = calls
         /\ \/ OpenFinds
            \/ KeepFile
         /\ \/ Turn
            \/ /\ UNCHANGED <<cacheVars, long>> /\ faults' \in {faults, faults + 1}
               /\ index' = index \/ index' = [index EXCEPT !.open = 0]
<1> USE DEF KeepFile, Keep, Handles
<1>1. CASE Mount \/ Browse \/ StartDecode \/ DecodeReturns
  BY <1>1 DEF Mount, Browse, StartDecode, DecodeReturns
<1>2. CASE Search \/ BrowseNext
  BY <1>2
     DEF VolumeTypes, Search, BrowseNext, Skips, Finds, FindsNone, TurnReads, Turn
<1>3. CASE BrowseAgain \/ OpenFails
  BY <1>3 DEF VolumeTypes, BrowseAgain, OpenFails, FindsNone, TurnReads, Turn
<1>4. CASE OpenSkips \/ OpenFinds
  BY <1>4 DEF VolumeTypes, OpenSkips, OpenFinds, Skips, Finds, TurnReads, Turn
<1> QED BY <1>1, <1>2, <1>3, <1>4 DEF Elsewhere, Select

\* Fat_FileOpen is called with the name of a video.
LEMMA OpenedIs ==
  ASSUME VolumeTypes, Elsewhere PROVE main' = "open" => context' \in Files
<1>1. CASE Mount \/ Browse \/ StartDecode \/ DecodeReturns
  BY <1>1 DEF Mount, Browse, StartDecode, DecodeReturns
<1>2. CASE Search
  BY <1>2 DEF Search
<1>3. CASE BrowseNext
  BY <1>3 DEF BrowseNext, IsVideo
<1>4. CASE BrowseAgain \/ OpenSkips \/ OpenFinds \/ OpenFails
  BY <1>4 DEF VolumeTypes, BrowseAgain, OpenFails, OpenSkips, OpenFinds
<1> QED BY <1>1, <1>2, <1>3, <1>4 DEF Elsewhere, Select

LEMMA ElsewhereTypes ==
  ASSUME VolumeTypes, CacheInv, Elsewhere PROVE VolumeTypes' /\ CacheInv'
<1>1. CASE Turn
  <2>1. PICK h \in Handles :
          /\ TurnReads(h) \/ TurnFails(h)
          /\ index' = index \/ index' = [index EXCEPT ![h] = Looked(h)]
                           \/ index' = [index EXCEPT ![h] = 0]
          /\ long' \in BOOLEAN
    BY <1>1 DEF Turn
  <2>2. Looked(h) \in 0 .. Len(directory) + 1 /\ RootSector(Looked(h)) \in Int
    BY LookedIs, DirectoryIs
  <2>3. CacheInv'
    <3>1. CASE TurnReads(h)
      BY <2>2, <3>1, CacheRead DEF TurnReads
    <3>2. CASE TurnFails(h)
      BY <3>2 DEF TurnFails, CacheInv, NoSector, Garbage
    <3> QED BY <2>1, <3>1, <3>2
  <2>4. index' \in [Handles -> 0 .. Len(directory) + 1]
    BY <2>1, <2>2, DirectoryIs DEF VolumeTypes
  <2> QED BY <2>1, <2>3, <2>4, OpenedIs, ElsewhereIs DEF VolumeTypes
<1>2. CASE /\ UNCHANGED <<cacheVars, long>> /\ faults' \in {faults, faults + 1}
           /\ index' = index \/ index' = [index EXCEPT !.open = 0]
  <2>1. CacheInv'
    BY <1>2 DEF CacheInv
  <2>2. index' \in [Handles -> 0 .. Len(directory) + 1]
    BY <1>2, DirectoryIs DEF VolumeTypes, Handles
  <2> QED BY <1>2, <2>1, <2>2, OpenedIs, ElsewhereIs DEF VolumeTypes
<1> QED BY <1>1, <1>2, ElsewhereIs

-----------------------------------------------------------------------------
(* The file that is open, whatever main does.                              *)

FileInv == FileTypes /\ CacheInv /\ CallInDecode /\ VolumeTypes /\ ExactInv

LEMMA FileUnchanged ==
  ASSUME FileTypes, ExactInv, UNCHANGED <<fileVars, localVars, from, damaged>>
  PROVE  FileTypes' /\ ExactInv'
<1>1. FileTypes'
  BY SameFile DEF FileTypes, TypeOK
<1>2. Reached' = Reached /\ SectorsToRead' = SectorsToRead
  BY DEF Reached, SectorsToRead
<1>3. AtSector' <=> AtSector
  BY <1>2 DEF AtSector
<1>4. ExactInv'
  BY <1>2, <1>3 DEF ExactInv, Exact
<1> QED BY <1>1, <1>4

LEMMA ReadStep ==
  ASSUME FileTypes, CacheInv, ExactInv, Read
  PROVE  FileTypes' /\ CacheInv' /\ ExactInv'
<1>1. CASE Walk
  BY <1>1, WalkTypes, WalkExact DEF ExactInv
<1>2. CASE WalkEnds
  <2>1. FileTypes' /\ CacheInv'
    BY <1>2, SameFile DEF WalkEnds, FileTypes, TypeOK, CacheInv
  <2> QED BY <1>2, <2>1, WalkEndsExact DEF ExactInv
<1>3. CASE First
  BY <1>3, FirstTypes, FirstExact DEF ExactInv
<1>4. CASE FollowChain
  BY <1>4, FollowTypes, FollowExact DEF ExactInv
<1>5. CASE Runs
  BY <1>5, RunsTypes, RunsExact DEF ExactInv
<1>6. CASE Last
  BY <1>6, LastTypes, LastExact DEF ExactInv
<1> QED BY <1>1, <1>2, <1>3, <1>4, <1>5, <1>6 DEF Read

LEMMA FileStep == FileInv /\ [VolumeNext]_allVars => FileInv'
<1> SUFFICES ASSUME FileInv, [VolumeNext]_allVars PROVE FileInv'
  OBVIOUS
<1> USE DEF FileInv
<1>1. CASE Elsewhere
  <2>1. VolumeTypes' /\ CacheInv'
    BY <1>1, ElsewhereTypes
  <2>2. at = "idle"
    BY <1>1
       DEF CallInDecode, Elsewhere, Select, Mount, Search, BrowseNext, BrowseAgain,
                OpenSkips, OpenFinds, OpenFails, Browse, StartDecode, DecodeReturns
  <2>3. CASE OpenFinds
    <3>1. context \in Files
      BY <2>3 DEF OpenFinds, VolumeTypes
    <3>2. FileTypes' /\ Exact' /\ at' = "idle"
      BY <2>2, <2>3, <3>1, OpenExact DEF OpenFinds
    <3> QED BY <2>1, <3>2 DEF ExactInv, CallInDecode
  <2>4. CASE KeepFile
    <3>1. FileTypes' /\ ExactInv'
      BY <2>4, FileUnchanged DEF KeepFile
    <3>2. at' = "idle"
      BY <2>2, <2>4 DEF KeepFile
    <3> QED BY <2>1, <3>1, <3>2 DEF CallInDecode
  <2> QED BY <1>1, <2>3, <2>4, ElsewhereIs
<1>2. CASE Decode(Read) \/ Decode(\E o \in Offsets : Seek(o)) \/ Decode(\E n \in Sizes : Call(n))
  <2>1. main' = "decode" /\ UNCHANGED volumeVars
    BY <1>2 DEF Decode
  <2>2. VolumeTypes' /\ CallInDecode'
    BY <2>1 DEF VolumeTypes, CallInDecode
  <2>3. CASE Decode(Read)
    BY <2>2, <2>3, ReadStep DEF Decode
  <2>4. CASE Decode(\E o \in Offsets : Seek(o))
    <3>1. PICK o \in Offsets : Seek(o)
      BY <2>4 DEF Decode
    <3>2. CacheInv'
      BY <3>1 DEF Seek, CacheInv
    <3> QED BY <2>2, <3>1, <3>2, SeekTypes, SeekExact DEF ExactInv
  <2>5. CASE Decode(\E n \in Sizes : Call(n))
    <3>1. PICK n \in Sizes : Call(n)
      BY <2>5 DEF Decode
    <3>2. CacheInv'
      BY <3>1 DEF Call, CacheInv
    <3> QED BY <2>2, <3>1, <3>2, CallTyped, CallExact DEF ExactInv
  <2> QED BY <1>2, <2>3, <2>4, <2>5
<1>3. CASE UNCHANGED allVars
  BY <1>3, FileUnchanged DEF CacheInv, CallInDecode, VolumeTypes
<1> QED BY <1>1, <1>2, <1>3 DEF VolumeNext, Elsewhere

LEMMA FileInit == VolumeInit => FileInv
<1> SUFFICES ASSUME VolumeInit PROVE FileInv
  OBVIOUS
<1>1. /\ file = FirstVideo /\ directory \in Directories
      /\ main = "mount" /\ index = [main |-> 0, open |-> 0] /\ long = FALSE
      /\ file \in Files /\ seekPos = 0 /\ cluster = Chains[file][1] /\ clusterSeq = 0
      /\ cached = NoSector /\ data = Garbage /\ at = "idle" /\ size = 0 /\ pos = 0
      /\ current = Chains[file][1] /\ sectorOffset = 0 /\ sector = 0 /\ success = TRUE
      /\ buffer = << >> /\ from = 0 /\ damaged = FALSE /\ faults = 0
  BY DEF VolumeInit, Init, Chain
<1>2. VolumeTypes
  <2>1. Len(directory) \in Nat
    BY <1>1, VolumeAssumption
  <2>2. long \in BOOLEAN
    BY DEF VolumeInit
  <2>3. index \in [Handles -> 0 .. Len(directory) + 1]
    BY <1>1, <2>1 DEF Handles
  <2> QED BY <1>1, <2>2, <2>3 DEF VolumeTypes
<1>3. CacheInv /\ CallInDecode
  BY <1>1 DEF CacheInv, CallInDecode, NoSector, Garbage
<1>4. Chains[file][1] \in Clusters /\ 0 < Len(Chains[file]) /\ FileBytes \in Nat /\ Word - 1 \in Nat
  BY <1>1, ChainIs, ClusterIs, SizesAre DEF FileBytes, Chain
<1>5. success \in BOOLEAN /\ damaged \in BOOLEAN
  BY DEF VolumeInit, Init
<1>6. buffer \in Seq(Int) /\ Len(buffer) = 0
  BY <1>1
<1>7. FileTypes
  BY <1>1, <1>4, <1>5, <1>6, SizesAre DEF FileTypes, TypeOK
<1>8. Exact
  <2>1. 0 * ClusterBytes = 0 /\ 0 <= 0 /\ 0 + 1 = 1 /\ 0 + 0 = 0
    BY SizesAre
  <2> QED BY <1>1, <1>4, <2>1, BytesNone DEF Exact, Reached
<1> QED BY <1>2, <1>3, <1>7, <1>8 DEF FileInv, ExactInv

\* The inductive invariant of the reads.
THEOREM FileInductive == VolumeSpec => []FileInv
<1> QED BY FileInit, FileStep, PTL DEF VolumeSpec

\* The types hold, the position stays in the file, and Fat_FileRead never writes beyond
\* the caller's buffer.
THEOREM FatTypes == VolumeSpec => []TypeOK
<1>1. FileInv => TypeOK
  BY DEF FileInv, FileTypes
<1> QED BY <1>1, FileInductive, PTL

\* As long as no read of the card has failed and none has gone beyond the end of the file
\* since the last seek, Fat_FileRead returns TRUE with the bytes of the file from the
\* position on.
THEOREM ReadsAreExact == VolumeSpec => []ReadIsExact
<1>1. FileInv => ReadIsExact
  BY DEF FileInv, ExactInv, Exact, ReadIsExact, Bytes, AddressIn, Address, Chain
<1> QED BY <1>1, FileInductive, PTL

-----------------------------------------------------------------------------
(* The turns of Fat_FileBrowseNext.                                        *)

PartAt(i) == i \in DOMAIN directory /\ directory[i] = "part"

\* The entry looked at, or the end.
LEMMA EntryIs ==
  ASSUME VolumeTypes, NEW h \in Handles
  PROVE  \/ /\ Looked(h) = index[h] + 1 /\ Looked(h) \in DOMAIN directory
            /\ Seen(h) = directory[Looked(h)] /\ Seen(h) \in Kinds \cup Files /\ Seen(h) # "end"
         \/ /\ Looked(h) = Len(directory) + 1 /\ index[h] >= Len(directory) /\ Seen(h) = "end"
<1>1. "end" \notin Kinds \cup Files
  BY VolumeAssumption DEF Kinds
<1>2. index[h] \in 0 .. Len(directory) + 1
  BY DEF VolumeTypes
<1>3. CASE Looked(h) \in 1 .. Len(directory)
  BY <1>1, <1>2, <1>3, LookedIs, DirectoryIs DEF Seen, Entry
<1>4. CASE Looked(h) = Len(directory) + 1
  BY <1>2, <1>4, LookedIs, DirectoryIs DEF Seen, Entry
<1> QED BY <1>3, <1>4, LookedIs, DirectoryIs

\* A long name is under way only behind a part of it, so it never ends at a free entry.
LEMMA SkipsIs ==
  ASSUME VolumeTypes, NEW h \in Handles, long => PartAt(index[h]), Skips(h)
  PROVE  /\ Looked(h) = index[h] + 1 /\ Looked(h) \in DOMAIN directory
         /\ ~Passed(Looked(h)) /\ ~Selectable(Looked(h))
         /\ index' = [index EXCEPT ![h] = Looked(h)] /\ UNCHANGED <<missed, faults>>
         /\ long' <=> PartAt(Looked(h))
         /\ Seen(h) = directory[Looked(h)]
<1>1. Seen(h) \in {"unused", "part"} /\ Seen(h) # "end"
  BY DEF Skips
<1>2. /\ Looked(h) = index[h] + 1 /\ Looked(h) \in DOMAIN directory
      /\ Seen(h) = directory[Looked(h)]
  BY <1>1, EntryIs
<1>3. ~Passed(Looked(h)) /\ ~Selectable(Looked(h))
  BY <1>1, <1>2, VolumeAssumption DEF Passed, Selectable, Kinds
<1>4. Seen(h) = "unused" => ~long
  BY <1>2, DirectoryIs DEF PartAt
<1>5. long' <=> PartAt(Looked(h))
  BY <1>1, <1>2, <1>4 DEF Skips, PartAt, VolumeTypes
<1> QED BY <1>2, <1>3, <1>5 DEF Skips, TurnReads

LEMMA FindsIs ==
  ASSUME VolumeTypes, NEW h \in Handles, long => PartAt(index[h]), Finds(h)
  PROVE  /\ Looked(h) = index[h] + 1 /\ Looked(h) \in DOMAIN directory
         /\ Seen(h) = directory[Looked(h)]
         /\ Passed(Looked(h)) /\ ~PartAt(Looked(h))
         /\ Selectable(Looked(h)) => ~long /\ Seen(h) \in Files
         /\ Seen(h) \in Files /\ ~PartAt(index[h]) => Selectable(Looked(h))
         /\ index' = [index EXCEPT ![h] = Looked(h)] /\ UNCHANGED <<missed, faults>> /\ ~long'
<1>1. Seen(h) \in Files \cup {"other", "bare"} /\ Seen(h) \notin {"end", "unused", "part"}
  BY VolumeAssumption DEF Finds, Kinds
<1>2. /\ Looked(h) = index[h] + 1 /\ Looked(h) \in DOMAIN directory
      /\ Seen(h) = directory[Looked(h)]
  BY <1>1, EntryIs
<1>3. Passed(Looked(h)) /\ ~PartAt(Looked(h))
  BY <1>1, <1>2 DEF Passed, PartAt
<1>4. index[h] \in 0 .. Len(directory) + 1 /\ Looked(h) - 1 = index[h]
  BY <1>2, DirectoryIs DEF VolumeTypes
<1>5. Selectable(Looked(h)) => ~long /\ Seen(h) \in Files
  BY <1>2, <1>4, DirectoryIs DEF Selectable, PartAt
<1>6. Seen(h) \in Files /\ ~PartAt(index[h]) => Selectable(Looked(h))
  BY <1>2, <1>4, DirectoryIs DEF Selectable, PartAt
<1> QED BY <1>2, <1>3, <1>5, <1>6 DEF Finds, TurnReads

LEMMA FindsNoneIs ==
  ASSUME VolumeTypes, NEW h \in Handles, long => PartAt(index[h]), FindsNone(h)
  PROVE  /\ ~long'
         /\ \/ missed' /\ faults' = faults + 1
            \/ /\ UNCHANGED <<missed, faults>>
               /\ \/ Looked(h) = Len(directory) + 1 /\ index[h] >= Len(directory) /\ ~long
                  \/ /\ Looked(h) = index[h] + 1 /\ Looked(h) \in DOMAIN directory
                     /\ Broken(Looked(h))
<1>1. CASE TurnFails(h)
  BY <1>1 DEF FindsNone, TurnFails
<1>2. CASE TurnReads(h) /\ Seen(h) = "end"
  <2>1. Looked(h) = Len(directory) + 1 /\ index[h] >= Len(directory)
    BY <1>2, EntryIs, DirectoryIs
  <2>2. ~long
    BY <2>1, DirectoryIs DEF PartAt, VolumeTypes
  <2> QED BY <1>2, <2>1, <2>2 DEF FindsNone, TurnReads
<1>3. CASE TurnReads(h) /\ long /\ Seen(h) = "bare"
  <2>1. /\ Looked(h) = index[h] + 1 /\ Looked(h) \in DOMAIN directory
        /\ Seen(h) = directory[Looked(h)]
    BY <1>3, EntryIs
  <2>2. Broken(Looked(h))
    BY <1>3, <2>1, DirectoryIs DEF Broken, PartAt
  <2> QED BY <1>3, <2>1, <2>2 DEF FindsNone, TurnReads
<1> QED BY <1>1, <1>2, <1>3 DEF FindsNone

\* A name that is a video's is the one of before, at a free entry, or the short name of the
\* entry.
LEMMA NameIs ==
  ASSUME VolumeTypes, NEW h \in Handles, Name(h) \in Files
  PROVE  (Seen(h) = "unused" /\ Name(h) = context) \/ (~long /\ Seen(h) \in Files /\ Name(h) = Seen(h))
BY VolumeAssumption DEF Name, Kinds

-----------------------------------------------------------------------------
(* The names that main selects.                                            *)

\* Behind a part of a name bLongFilename is set, unless a read failed there, and it is set
\* nowhere else; so a name found is that of an entry without a long name.
NamesInv ==
  /\ missed => faults > 0
  /\ long => \/ main \in {"search", "next", "scan"} /\ PartAt(index["main"])
             \/ main = "open" /\ PartAt(index["open"])
  /\ PartAt(index["main"]) => missed \/ (long /\ main \in {"search", "next", "scan"})
  /\ \A p \in DOMAIN directory :
       directory[p] = context /\ context \in Files => Selectable(p) \/ missed
  /\ main \in {"loop", "decode"} => context \in Files

\* The reads of the decoder.
LEMMA ReadKeeps ==
  ASSUME FileTypes, CacheInv, Read
  PROVE  file' = file /\ faults' \in {faults, faults + 1} /\ faults \in Nat
<1> USE
    DEF NextCluster, SectorRead, SectorFails, CardFails, CardReads, Fail, CacheInv
<1>1. CASE Walk
  BY <1>1 DEF Walk
<1>2. CASE WalkEnds
  BY <1>2 DEF WalkEnds
<1>3. CASE First
  BY <1>3 DEF First
<1>4. CASE FollowChain
  BY <1>4 DEF FollowChain
<1>5. CASE Runs
  BY <1>5 DEF Runs, ReadRun
<1>6. CASE Last
  BY <1>6 DEF Last
<1> QED BY <1>1, <1>2, <1>3, <1>4, <1>5, <1>6 DEF Read

\* A turn of main's own search.
MainTurns ==
  /\ main \in {"search", "next", "scan"}
  /\ \/ Skips("main") /\ context' = Name("main") /\ main' = main
     \/ Finds("main") /\ context' = Name("main")
     \/ /\ FindsNone("main") /\ context' = context
        /\ \/ index' = [index EXCEPT !["main"] = Looked("main")]
           \/ index' = [index EXCEPT !["main"] = 0]

LEMMA TurnNames ==
  ASSUME VolumeTypes, CacheInv, NamesInv, MainTurns, directory' = directory,
         main' \in {"loop", "decode"} => context' \in Files
  PROVE  NamesInv'
<1>1. /\ long => PartAt(index["main"]) /\ index["main"] \in 0 .. Len(directory) + 1
      /\ "main" \in Handles /\ DOMAIN index = Handles
  BY DEF MainTurns, NamesInv, VolumeTypes, Handles
<1> DEFINE i == Looked("main")
<1>2. \A p \in DOMAIN directory : Selectable(p)' <=> Selectable(p)
  BY DEF Selectable
<1>3. CASE Skips("main") /\ context' = Name("main") /\ main' = main
  <2>1. /\ index'["main"] = i /\ UNCHANGED <<missed, faults>>
        /\ long' <=> PartAt(i)
    BY <1>1, <1>3, SkipsIs
  <2>2. context' \in Files => context' = context
    BY <1>1, <1>3, NameIs, VolumeAssumption DEF Skips, Kinds
  <2> HIDE DEF i
  <2> QED BY <1>2, <1>3, <2>1, <2>2 DEF NamesInv, PartAt, MainTurns
<1>4. CASE Finds("main") /\ context' = Name("main")
  <2>1. /\ index'["main"] = i /\ UNCHANGED <<missed, faults>> /\ ~long' /\ ~PartAt(i)
        /\ Seen("main") \in Files /\ ~PartAt(index["main"]) => Selectable(i)
        /\ Seen("main") = directory[i] /\ i \in DOMAIN directory
    BY <1>1, <1>4, FindsIs
  <2>2. context' \in Files => context' = context \/ (~long /\ Seen("main") \in Files /\ context' = Seen("main"))
    BY <1>1, <1>4, NameIs
  <2> HIDE DEF i
  <2>3. ASSUME NEW p \in DOMAIN directory, directory[p] = context', context' \in Files
        PROVE  Selectable(p) \/ missed
    <3>1. CASE context' = context
      BY <2>3, <3>1 DEF NamesInv
    <3>2. CASE ~long /\ Seen("main") \in Files /\ context' = Seen("main")
      <4>1. p = i
        BY <2>1, <2>3, <3>2, DirectoryIs
      <4> QED BY <2>1, <3>2, <4>1 DEF NamesInv
    <3> QED BY <2>2, <2>3, <3>1, <3>2
  <2> QED BY <1>2, <1>4, <2>1, <2>3 DEF NamesInv, PartAt, MainTurns
<1>5. CASE /\ FindsNone("main") /\ context' = context
           /\ \/ index' = [index EXCEPT !["main"] = i]
              \/ index' = [index EXCEPT !["main"] = 0]
  <2>1. /\ ~long'
        /\ \/ missed' /\ faults' = faults + 1
           \/ /\ UNCHANGED <<missed, faults>>
              /\ i = Len(directory) + 1 \/ (i \in DOMAIN directory /\ Broken(i))
    BY <1>1, <1>5, FindsNoneIs
  <2>2. index'["main"] = i \/ index'["main"] = 0
    BY <1>1, <1>5
  <2> HIDE DEF i
  <2>3. missed' \/ (UNCHANGED <<missed, faults>> /\ ~PartAt(index'["main"]))
    BY <2>1, <2>2, DirectoryIs DEF PartAt, Broken
  <2>4. missed' => faults' > 0
    <3>1. CASE missed' /\ faults' = faults + 1
      BY <3>1 DEF CacheInv
    <3>2. CASE UNCHANGED <<missed, faults>>
      BY <3>2 DEF NamesInv
    <3> QED BY <2>1, <3>1, <3>2
  <2>5. missed => missed'
    BY <2>1
  <2> QED BY <1>2, <1>5, <2>1, <2>3, <2>4, <2>5 DEF NamesInv, PartAt
<1> QED BY <1>3, <1>4, <1>5 DEF MainTurns

LEMMA NamesStep ==
  ASSUME FileTypes, CacheInv, VolumeTypes, NamesInv, [VolumeNext]_allVars PROVE NamesInv'
<1> USE DEF Keep, KeepFile
<1>1. index \in [Handles -> 0 .. Len(directory) + 1]
  BY DEF VolumeTypes
<1>2. \A p \in DOMAIN directory : directory' = directory => (Selectable(p)' <=> Selectable(p))
  BY DEF Selectable
<1>3. CASE Mount
  BY <1>2, <1>3 DEF Mount, NamesInv, PartAt, CacheInv
<1>4. CASE Search
  <2>1. MainTurns /\ directory' = directory
    BY <1>4 DEF Search, MainTurns
  <2> QED BY <1>4, <2>1, TurnNames, VolumeAssumption DEF Search
<1>5. CASE BrowseNext
  <2>1. MainTurns /\ directory' = directory /\ main' \notin {"loop", "decode"}
    BY <1>5 DEF BrowseNext, MainTurns
  <2> QED BY <2>1, TurnNames
<1>6. CASE BrowseAgain
  <2>1. MainTurns /\ directory' = directory /\ main' \notin {"loop", "decode"}
    BY <1>6 DEF BrowseAgain, MainTurns
  <2> QED BY <2>1, TurnNames
<1>7. CASE OpenSkips
  <2>1. main = "open" /\ (long => PartAt(index["open"])) /\ "open" \in Handles
    BY <1>7 DEF OpenSkips, NamesInv, Handles
  <2>2. /\ index'["main"] = index["main"] /\ UNCHANGED <<missed, faults>>
        /\ long' => PartAt(index'["open"])
    <3>1. CASE Skips("open")
      <4>1. /\ index' = [index EXCEPT !["open"] = Looked("open")] /\ UNCHANGED <<missed, faults>>
            /\ long' <=> PartAt(Looked("open"))
        BY <2>1, <3>1, SkipsIs
      <4> QED BY <1>1, <2>1, <4>1 DEF Handles
    <3>2. CASE Finds("open")
      <4>1. /\ index' = [index EXCEPT !["open"] = Looked("open")] /\ UNCHANGED <<missed, faults>>
            /\ ~long'
        BY <2>1, <3>2, FindsIs
      <4> QED BY <1>1, <2>1, <4>1 DEF Handles
    <3> QED BY <1>7, <3>1, <3>2 DEF OpenSkips
  <2>3. UNCHANGED <<directory, main, context>>
    BY <1>7 DEF OpenSkips
  <2> QED BY <1>2, <2>1, <2>2, <2>3 DEF NamesInv, PartAt
<1>8. CASE OpenFinds \/ OpenFails
  <2>1. main = "open" /\ (long => PartAt(index["open"])) /\ "open" \in Handles
    BY <1>8 DEF OpenFinds, OpenFails, NamesInv, Handles
  <2>2. ~long' /\ index'["main"] = index["main"]
    <3>1. CASE OpenFinds
      <4>1. Finds("open") /\ index' = [index EXCEPT !["open"] = Looked("open")] /\ ~long'
        BY <3>1 DEF OpenFinds, Finds
      <4> QED BY <1>1, <2>1, <4>1 DEF Handles
    <3>2. CASE OpenFails
      BY <3>2 DEF OpenFails, FindsNone
    <3> QED BY <1>8, <3>1, <3>2
  <2>3. (missed' /\ faults' = faults + 1) \/ UNCHANGED <<missed, faults>>
    <3>1. CASE OpenFinds
      BY <1>1, <2>1, <3>1, FindsIs DEF OpenFinds
    <3>2. CASE OpenFails
      BY <1>1, <2>1, <3>2, FindsNoneIs DEF OpenFails
    <3> QED BY <1>8, <3>1, <3>2
  <2>4. main' = "loop" /\ context \in Files /\ UNCHANGED <<directory, context>>
    BY <1>8, <2>1 DEF OpenFinds, OpenFails, VolumeTypes
  <2>5. missed' => faults' > 0
    <3>1. CASE missed' /\ faults' = faults + 1
      BY <3>1 DEF CacheInv
    <3>2. CASE UNCHANGED <<missed, faults>>
      BY <3>2 DEF NamesInv
    <3> QED BY <2>3, <3>1, <3>2
  <2>6. missed => missed'
    BY <2>3
  <2> QED BY <1>2, <2>1, <2>2, <2>4, <2>5, <2>6 DEF NamesInv, PartAt
<1>10. CASE Browse
  BY <1>1, <1>2, <1>10 DEF Browse, NamesInv, PartAt, Handles
<1>11. CASE StartDecode \/ DecodeReturns
  BY <1>2, <1>11 DEF StartDecode, DecodeReturns, NamesInv, PartAt
<1>12. CASE Decode(Read)
  BY <1>2, <1>12, ReadKeeps DEF Decode, NamesInv, PartAt
<1>13. CASE Decode(\E o \in Offsets : Seek(o)) \/ Decode(\E n \in Sizes : Call(n))
  BY <1>2, <1>13 DEF Decode, Seek, Call, NamesInv, PartAt
<1>14. CASE UNCHANGED allVars
  BY <1>2, <1>14 DEF NamesInv, PartAt
<1> QED BY <1>3, <1>4, <1>5, <1>6, <1>7, <1>8, <1>10, <1>11, <1>12, <1>13, <1>14
        DEF VolumeNext, Select

-----------------------------------------------------------------------------
(* The file that main opens.                                               *)

\* Fat_FileOpen has not come to the entry of the video yet; what it leaves behind is an
\* open file of that name, or no file and a reason.
OpenInv ==
  /\ handle \in {"unset", "null", "open"}
  /\ main \in {"mount", "search"} => handle = "unset"
  /\ main \in {"loop", "decode"} /\ handle = "open" => file = context
  /\ main = "decode" => handle = "open"
  /\ main \in {"next", "scan"} => index["open"] = 0
  /\ main = "open" =>
       missed \/ \A p \in DOMAIN directory : directory[p] = context => index["open"] < p
  /\ main = "wild" => faults > 0 \/ handle # "open"
  /\ main \in {"loop", "wild"} /\ handle = "null" =>
       \/ faults > 0
       \/ /\ context \in Files
          /\ \E p \in DOMAIN directory : directory[p] = context /\ \E i \in 1 .. p : Broken(i)

LEMMA OpenStep ==
  ASSUME FileTypes, CacheInv, VolumeTypes, NamesInv, OpenInv, [VolumeNext]_allVars
  PROVE  OpenInv'
<1> USE DEF Keep, KeepFile
<1>1. /\ index \in [Handles -> 0 .. Len(directory) + 1] /\ "open" \in Handles /\ "main" \in Handles
      /\ DOMAIN directory = 1 .. Len(directory) /\ Len(directory) \in Nat
  BY DirectoryIs DEF VolumeTypes, Handles
<1>2. \A i : directory' = directory => (Broken(i)' <=> Broken(i))
  BY DEF Broken
<1>3. CASE Mount
  BY <1>3 DEF Mount, OpenInv, CacheInv
<1>4. CASE Search
  BY <1>1, <1>4 DEF Search, OpenInv
<1>5. CASE BrowseNext
  <2>1. index'["open"] = 0
    BY <1>1, <1>5 DEF BrowseNext, OpenInv, Skips, Finds
  <2> QED BY <1>1, <1>5, <2>1 DEF BrowseNext, OpenInv
<1>6. CASE BrowseAgain
  BY <1>1, <1>6 DEF BrowseAgain, OpenInv
<1>7. CASE OpenSkips
  <2>1. main = "open" /\ (long => PartAt(index["open"])) /\ context \in Files
    BY <1>7 DEF OpenSkips, NamesInv, VolumeTypes
  <2>2. /\ Looked("open") = index["open"] + 1 /\ index'["open"] = Looked("open")
        /\ missed' = missed
    BY <1>1, <1>7, <2>1, SkipsIs, FindsIs DEF OpenSkips
  <2>3. ASSUME NEW p \in DOMAIN directory, directory[p] = context, ~missed, index["open"] < p
        PROVE  Looked("open") < p
    <3>1. p # Looked("open")
      <4>1. Selectable(p)
        BY <2>1, <2>3 DEF NamesInv
      <4>2. CASE Skips("open")
        BY <1>1, <2>1, <4>1, <4>2, SkipsIs
      <4>3. CASE Finds("open") /\ (long \/ Seen("open") # context)
        BY <1>1, <2>1, <2>3, <4>1, <4>3, FindsIs
      <4> QED BY <1>7, <4>2, <4>3 DEF OpenSkips
    <3> QED BY <1>1, <2>2, <2>3, <3>1
  <2> QED BY <1>7, <2>1, <2>2, <2>3 DEF OpenSkips, OpenInv
<1>8. CASE OpenFinds
  BY <1>8 DEF OpenFinds, OpenInv
<1>9. CASE OpenFails
  <2>1. main = "open" /\ (long => PartAt(index["open"])) /\ context \in Files
    BY <1>9 DEF OpenFails, NamesInv, VolumeTypes
  <2>2. PICK p \in DOMAIN directory : directory[p] = context
    BY <2>1, DirectoryIs
  <2>3. CASE missed' /\ faults' = faults + 1
    BY <1>9, <2>3 DEF OpenFails, OpenInv, CacheInv
  <2>4. CASE missed /\ UNCHANGED <<missed, faults>>
    BY <1>9, <2>4 DEF OpenFails, OpenInv, NamesInv
  <2>5. CASE ~missed /\ UNCHANGED <<missed, faults>>
    <3>1. index["open"] < p
      BY <2>1, <2>2, <2>5 DEF OpenInv
    <3>2. Looked("open") = index["open"] + 1 /\ Broken(Looked("open"))
      <4>1. ~(index["open"] >= Len(directory))
        BY <1>1, <2>2, <3>1
      <4>2. FindsNone("open")
        BY <1>9 DEF OpenFails
      <4> QED BY <1>1, <2>1, <2>5, <4>1, <4>2, FindsNoneIs
    <3>3. Looked("open") \in 1 .. p
      BY <1>1, <2>2, <3>1, <3>2
    <3> QED BY <1>2, <1>9, <2>1, <2>2, <3>2, <3>3 DEF OpenFails, OpenInv
  <2>6. (missed' /\ faults' = faults + 1) \/ UNCHANGED <<missed, faults>>
    BY <1>1, <1>9, <2>1, FindsNoneIs DEF OpenFails
  <2> QED BY <2>3, <2>4, <2>5, <2>6
<1>10. CASE Browse
  BY <1>1, <1>10 DEF Browse, OpenInv
<1>11. CASE StartDecode
  BY <1>2, <1>11 DEF StartDecode, OpenInv
<1>12. CASE DecodeReturns
  BY <1>12 DEF DecodeReturns, OpenInv
<1>13. CASE Decode(Read)
  BY <1>13, ReadKeeps DEF Decode, OpenInv
<1>14. CASE Decode(\E o \in Offsets : Seek(o)) \/ Decode(\E n \in Sizes : Call(n))
  BY <1>14 DEF Decode, Seek, Call, OpenInv
<1>15. CASE UNCHANGED allVars
  BY <1>2, <1>15 DEF OpenInv
<1> QED BY <1>3, <1>4, <1>5, <1>6, <1>7, <1>8, <1>9, <1>10, <1>11, <1>12, <1>13,
           <1>14, <1>15
        DEF VolumeNext, Select

-----------------------------------------------------------------------------
(* The video that comes next.                                              *)

\* Between entries i and j of directory d browsing passes no name, or no video.
NonePassed(d, i, j) == \A k \in DOMAIN d : i < k /\ k <= j => d[k] \in {"unused", "part"}
SelectableIn(d, k) == d[k] \in Files /\ (k = 1 \/ d[k - 1] # "part")
NoneSelectable(d, i, j) == \A k \in DOMAIN d : i < k /\ k <= j => ~SelectableIn(d, k)

\* v is the name of entry p, and names follow behind it; or none do.
NamesBehind(d, v, p) == p \in DOMAIN d /\ d[p] = v /\ ~NonePassed(d, p, Len(d))
IsLast(d, v) == \E p \in DOMAIN d : d[p] = v /\ NonePassed(d, p, Len(d))

\* w is the video next to v around the directory.
IsNext(d, v, w) ==
  \/ w = v /\ IsLast(d, v)
  \/ \E p, n \in DOMAIN d :
       /\ NamesBehind(d, v, p) /\ d[n] = w /\ SelectableIn(d, n)
       /\ \/ p < n /\ NoneSelectable(d, p, n - 1)
          \/ NoneSelectable(d, p, Len(d)) /\ NoneSelectable(d, 0, n - 1)

LEMMA LowestIs ==
  ASSUME NEW S \in SUBSET Int, NEW i \in S, \A j \in S : i <= j PROVE Lowest(S) = i
<1> DEFINE l == Lowest(S)
<1>1. l \in S /\ \A j \in S : l <= j
  BY DEF Lowest
<1>2. i \in Int /\ l \in Int
  BY <1>1
<1> HIDE DEF l
<1>3. l <= i /\ i <= l
  BY <1>1
<1>4. l = i
  BY <1>2, <1>3
<1> QED BY <1>4 DEF l

LEMMA NextIs ==
  ASSUME VolumeTypes, NEW v \in Files, NEW w, IsNext(directory, v, w) PROVE w = NextVideo(v)
<1> DEFINE videos == {i \in DOMAIN directory : Selectable(i)}
           behind == {i \in videos : i > Place(v)}
<1>1. Place(v) \in DOMAIN directory /\ directory[Place(v)] = v
  BY DirectoryIs DEF Place
<1>2. \A p \in DOMAIN directory : directory[p] = v => p = Place(v)
  BY <1>1, DirectoryIs
<1>3. /\ DOMAIN directory = 1 .. Len(directory) /\ Len(directory) \in Nat
      /\ \A i \in DOMAIN directory : Selectable(i) <=> SelectableIn(directory, i)
  BY DirectoryIs DEF Selectable, SelectableIn
<1>4. NonePassed(directory, Place(v), Len(directory))
        <=> \A i \in DOMAIN directory : i > Place(v) => ~Passed(i)
  BY <1>1, <1>3 DEF NonePassed, Passed
<1>5. CASE w = v /\ IsLast(directory, v)
  <2>1. NonePassed(directory, Place(v), Len(directory))
    BY <1>2, <1>5 DEF IsLast
  <2> QED BY <1>4, <1>5, <2>1 DEF NextVideo
<1>6. CASE \E p, n \in DOMAIN directory :
             /\ NamesBehind(directory, v, p) /\ directory[n] = w /\ SelectableIn(directory, n)
             /\ \/ p < n /\ NoneSelectable(directory, p, n - 1)
                \/ NoneSelectable(directory, p, Len(directory))
                     /\ NoneSelectable(directory, 0, n - 1)
  <2>1. PICK n \in DOMAIN directory :
          /\ ~NonePassed(directory, Place(v), Len(directory))
          /\ directory[n] = w /\ SelectableIn(directory, n)
          /\ \/ Place(v) < n /\ NoneSelectable(directory, Place(v), n - 1)
             \/ NoneSelectable(directory, Place(v), Len(directory))
                  /\ NoneSelectable(directory, 0, n - 1)
    BY <1>2, <1>6 DEF NamesBehind
  <2>2. NextVideo(v) = directory[Lowest(IF behind # {} THEN behind ELSE videos)]
    BY <1>4, <2>1 DEF NextVideo
  <2>3. n \in videos /\ videos \subseteq 1 .. Len(directory) /\ Place(v) \in Nat
    BY <1>1, <1>3, <2>1
  <2>4. CASE Place(v) < n /\ NoneSelectable(directory, Place(v), n - 1)
    <3>1. n \in behind
      BY <2>3, <2>4
    <3>2. \A j \in behind : n <= j
      BY <1>3, <2>3, <2>4 DEF NoneSelectable
    <3>3. behind \in SUBSET Int
      BY <2>3
    <3> HIDE DEF videos, behind
    <3>4. Lowest(behind) = n
      BY <3>1, <3>2, <3>3, LowestIs
    <3>5. behind # {}
      BY <3>1
    <3> QED BY <2>1, <2>2, <3>4, <3>5
  <2>5. CASE NoneSelectable(directory, Place(v), Len(directory))
               /\ NoneSelectable(directory, 0, n - 1)
    <3>1. behind = {}
      BY <1>3, <2>3, <2>5 DEF NoneSelectable
    <3>2. \A j \in videos : n <= j
      BY <1>3, <2>3, <2>5 DEF NoneSelectable
    <3>3. videos \in SUBSET Int /\ n \in videos
      BY <2>3
    <3> HIDE DEF videos, behind
    <3>4. Lowest(videos) = n
      BY <3>2, <3>3, LowestIs
    <3> QED BY <2>1, <2>2, <3>1, <3>4
  <2> QED BY <2>1, <2>4, <2>5
<1> QED BY <1>5, <1>6 DEF IsNext

\* No read of the directory has failed and no long name ends a call that looks for more.
Sound == ~missed /\ \A i \in DOMAIN directory : ~Broken(i)

\* Entry p is the video v, and main's handle has passed no name behind it.
StandsBehind(d, v, i) == \E p \in DOMAIN d : d[p] = v /\ p <= i /\ NonePassed(d, p, i)

\* Where the scan for the video behind v is: no video so far, to the end or around it.
Scanning(d, v, i) ==
  \E p \in DOMAIN d :
    /\ NamesBehind(d, v, p)
    /\ \/ p <= i /\ NoneSelectable(d, p, i)
       \/ NoneSelectable(d, p, Len(d)) /\ NoneSelectable(d, 0, i)

Browses ==
  /\ main \in {"loop", "decode", "open"} => StandsBehind(directory, context, index["main"])
  /\ main = "next" =>
       StandsBehind(directory, previous, index["main"]) /\ (long \/ context = previous)
  /\ main = "scan" => Scanning(directory, previous, index["main"])
  /\ main = "open" => IsNext(directory, previous, context)
  /\ main \in {"next", "scan", "open"} => previous \in Files

BrowseInv == Sound => Browses

\* A name found is that of its entry; the names passed over are not videos.
LEMMA FoundIs ==
  ASSUME VolumeTypes, NamesInv, main \in {"search", "next", "scan"}, ~missed, Finds("main")
  PROVE  /\ Looked("main") = index["main"] + 1 /\ Looked("main") \in DOMAIN directory
         /\ index' = [index EXCEPT !["main"] = Looked("main")]
         /\ directory[Looked("main")] \notin {"unused", "part"}
         /\ IF Name("main") \in Files
            THEN /\ directory[Looked("main")] = Name("main")
                 /\ SelectableIn(directory, Looked("main"))
            ELSE ~SelectableIn(directory, Looked("main"))
<1> DEFINE i == Looked("main")
<1>1. "main" \in Handles /\ (long => PartAt(index["main"])) /\ (PartAt(index["main"]) => long)
  BY DEF Handles, NamesInv
<1>2. /\ i = index["main"] + 1 /\ i \in DOMAIN directory
      /\ Seen("main") = directory[i] /\ Passed(i)
      /\ Selectable(i) => ~long /\ Seen("main") \in Files
      /\ Seen("main") \in Files /\ ~PartAt(index["main"]) => Selectable(i)
      /\ index' = [index EXCEPT !["main"] = i]
  BY <1>1, FindsIs
<1>3. Selectable(i) <=> SelectableIn(directory, i)
  BY DEF Selectable, SelectableIn
<1>4. Seen("main") \notin {"unused", "part"}
  BY <1>2 DEF Passed
<1> HIDE DEF i
<1>5. CASE Name("main") \in Files
  <2>1. ~long /\ Seen("main") \in Files /\ Name("main") = Seen("main")
    BY <1>1, <1>4, <1>5, NameIs
  <2> QED BY <1>1, <1>2, <1>3, <1>4, <1>5, <2>1 DEF i
<1>6. CASE Name("main") \notin Files
  <2>1. ~Selectable(i)
    BY <1>2, <1>4, <1>6 DEF Name
  <2> QED BY <1>2, <1>3, <1>4, <1>6, <2>1 DEF i
<1> QED BY <1>5, <1>6

\* The video found is the one next to v, from where main's handle was.
LEMMA FoundIsNext ==
  ASSUME VolumeTypes, NEW v, NEW m \in Nat, NEW i \in DOMAIN directory, i = m + 1,
         SelectableIn(directory, i),
         StandsBehind(directory, v, m) \/ Scanning(directory, v, m)
  PROVE  IsNext(directory, v, directory[i])
<1>1. DOMAIN directory = 1 .. Len(directory) /\ Len(directory) \in Nat /\ i - 1 = m
  BY DirectoryIs
<1>2. directory[i] \notin {"unused", "part"}
  BY VolumeAssumption DEF SelectableIn, Kinds
<1>3. CASE StandsBehind(directory, v, m)
  <2>1. PICK p \in DOMAIN directory :
          directory[p] = v /\ p <= m /\ NonePassed(directory, p, m)
    BY <1>3 DEF StandsBehind
  <2>2. p < i /\ NamesBehind(directory, v, p)
    BY <1>1, <1>2, <2>1 DEF NamesBehind, NonePassed
  <2>3. NoneSelectable(directory, p, i - 1)
    BY <1>1, <2>1, VolumeAssumption
       DEF NonePassed, NoneSelectable, SelectableIn, Kinds
  <2> QED BY <2>2, <2>3 DEF IsNext
<1>4. CASE Scanning(directory, v, m)
  <2>1. PICK p \in DOMAIN directory :
          /\ NamesBehind(directory, v, p)
          /\ \/ p <= m /\ NoneSelectable(directory, p, m)
             \/ NoneSelectable(directory, p, Len(directory)) /\ NoneSelectable(directory, 0, m)
    BY <1>4 DEF Scanning
  <2>2. p <= m => p < i
    BY <1>1
  <2> QED BY <1>1, <2>1, <2>2 DEF IsNext
<1> QED BY <1>3, <1>4

\* What is passed over on the way.
LEMMA PassedOver ==
  ASSUME VolumeTypes, NEW v, NEW m \in Nat, NEW i \in DOMAIN directory, i = m + 1
  PROVE  /\ StandsBehind(directory, v, m) /\ directory[i] \in {"unused", "part"} =>
              StandsBehind(directory, v, i)
         /\ /\ StandsBehind(directory, v, m) /\ directory[i] \notin {"unused", "part"}
            /\ ~SelectableIn(directory, i)
            => Scanning(directory, v, i)
         /\ Scanning(directory, v, m) /\ ~SelectableIn(directory, i) => Scanning(directory, v, i)
<1>1. /\ DOMAIN directory = 1 .. Len(directory) /\ Len(directory) \in Nat
      /\ \A k \in DOMAIN directory : k <= i => k <= m \/ k = i
  BY DirectoryIs
<1>2. ASSUME StandsBehind(directory, v, m)
      PROVE  /\ directory[i] \in {"unused", "part"} => StandsBehind(directory, v, i)
             /\ directory[i] \notin {"unused", "part"} /\ ~SelectableIn(directory, i) =>
                  Scanning(directory, v, i)
  <2>1. PICK p \in DOMAIN directory :
          directory[p] = v /\ p <= m /\ NonePassed(directory, p, m)
    BY <1>2 DEF StandsBehind
  <2>2. p <= i /\ p < i
    BY <1>1, <2>1
  <2>3. CASE directory[i] \in {"unused", "part"}
    <3>1. NonePassed(directory, p, i)
      BY <1>1, <2>1, <2>3 DEF NonePassed
    <3> QED BY <2>1, <2>2, <2>3, <3>1 DEF StandsBehind
  <2>4. CASE directory[i] \notin {"unused", "part"} /\ ~SelectableIn(directory, i)
    <3>1. NamesBehind(directory, v, p)
      BY <1>1, <2>1, <2>2, <2>4 DEF NamesBehind, NonePassed
    <3>2. NoneSelectable(directory, p, i)
      BY <1>1, <2>1, <2>4, VolumeAssumption
         DEF NonePassed, NoneSelectable, SelectableIn, Kinds
    <3> QED BY <2>2, <2>4, <3>1, <3>2 DEF Scanning
  <2> QED BY <2>3, <2>4
<1>3. ASSUME Scanning(directory, v, m), ~SelectableIn(directory, i)
      PROVE  Scanning(directory, v, i)
  <2>1. PICK p \in DOMAIN directory :
          /\ NamesBehind(directory, v, p)
          /\ \/ p <= m /\ NoneSelectable(directory, p, m)
             \/ NoneSelectable(directory, p, Len(directory)) /\ NoneSelectable(directory, 0, m)
    BY <1>3 DEF Scanning
  <2>2. p <= m => p <= i
    BY <1>1
  <2>3. /\ NoneSelectable(directory, p, m) => NoneSelectable(directory, p, i)
        /\ NoneSelectable(directory, 0, m) => NoneSelectable(directory, 0, i)
    BY <1>1, <1>3 DEF NoneSelectable
  <2> QED BY <2>1, <2>2, <2>3 DEF Scanning
<1> QED BY <1>2, <1>3

LEMMA VolumeKeeps == ASSUME [VolumeNext]_allVars PROVE directory' = directory /\ (missed => missed')
<1> USE DEF Keep, KeepFile, Skips, Finds, FindsNone, TurnReads, TurnFails
<1>1. CASE Mount \/ Browse \/ StartDecode \/ DecodeReturns
  BY <1>1 DEF Mount, Browse, StartDecode, DecodeReturns
<1>2. CASE Search \/ BrowseNext \/ BrowseAgain
  BY <1>2 DEF Search, BrowseNext, BrowseAgain
<1>3. CASE OpenSkips \/ OpenFinds \/ OpenFails
  BY <1>3 DEF OpenSkips, OpenFinds, OpenFails
<1>4. CASE \/ Decode(Read) \/ Decode(\E o \in Offsets : Seek(o))
           \/ Decode(\E n \in Sizes : Call(n)) \/ UNCHANGED allVars
  BY <1>4 DEF Decode
<1> QED BY <1>1, <1>2, <1>3, <1>4 DEF VolumeNext, Select

LEMMA BrowseStep ==
  ASSUME VolumeTypes, NamesInv, BrowseInv, [VolumeNext]_allVars PROVE BrowseInv'
<1> SUFFICES ASSUME Sound' PROVE Browses'
  BY DEF BrowseInv
<1> USE DEF Keep
<1> DEFINE m == index["main"]
           i == Looked("main")
<1>1. Sound /\ directory' = directory /\ ~missed /\ ~missed'
  <2>1. \A k : directory' = directory => (Broken(k)' <=> Broken(k))
    BY DEF Broken
  <2> QED BY <2>1, VolumeKeeps DEF Sound
<1>2. Browses
  BY <1>1 DEF BrowseInv
<1>3. /\ index \in [Handles -> 0 .. Len(directory) + 1] /\ "main" \in Handles /\ m \in Nat
      /\ DOMAIN directory = 1 .. Len(directory) /\ Len(directory) \in Nat
  BY DirectoryIs DEF VolumeTypes, Handles
<1>4. main \in {"search", "next", "scan"} => (long => PartAt(m))
  BY DEF NamesInv
<1>5. CASE Mount
  BY <1>5 DEF Mount, Browses
<1>6. CASE Search
  <2>1. CASE main' = "loop"
    <3>1. Finds("main") /\ context' = Name("main") /\ context' = FirstVideo /\ main = "search"
      BY <1>6, <2>1 DEF Search
    <3>2. i \in DOMAIN directory /\ directory[i] = context' /\ index'["main"] = i
      BY <1>1, <1>3, <3>1, FoundIs, VolumeAssumption
    <3> HIDE DEF i
    <3>3. StandsBehind(directory, context', i)
      BY <1>3, <3>2 DEF StandsBehind, NonePassed
    <3> QED BY <1>1, <2>1, <3>2, <3>3 DEF Browses
  <2> QED BY <1>6, <2>1 DEF Search, Browses
<1>7. CASE BrowseNext /\ Skips("main") /\ context' = Name("main") /\ main' = main
  <2>1. main \in {"next", "scan"} /\ previous' = previous
    BY <1>7 DEF BrowseNext
  <2>2. /\ i = m + 1 /\ i \in DOMAIN directory /\ ~Passed(i) /\ ~Selectable(i)
        /\ Seen("main") = directory[i] /\ index'["main"] = i
    BY <1>3, <1>4, <1>7, <2>1, SkipsIs
  <2>3. directory[i] \in {"unused", "part"} /\ ~SelectableIn(directory, i)
    BY <2>2 DEF Passed, Selectable, SelectableIn
  <2>4. (long \/ context = previous) => (long' \/ context' = previous)
    BY <1>7 DEF Skips, Name
  <2> HIDE DEF i, m
  <2>5. /\ StandsBehind(directory, previous, m) => StandsBehind(directory, previous, i)
        /\ Scanning(directory, previous, m) => Scanning(directory, previous, i)
    BY <1>3, <2>2, <2>3, PassedOver
  <2> QED BY <1>1, <1>2, <1>7, <2>1, <2>2, <2>4, <2>5 DEF Browses, m
<1>8. CASE /\ BrowseNext /\ Finds("main") /\ context' = Name("main")
           /\ main' = IF IsVideo(context') THEN "open" ELSE "scan"
  <2>1. main \in {"next", "scan"} /\ previous' = previous
    BY <1>8 DEF BrowseNext
  <2>2. /\ i = m + 1 /\ i \in DOMAIN directory
        /\ directory[i] \notin {"unused", "part"} /\ index'["main"] = i
        /\ IF context' \in Files
           THEN directory[i] = context' /\ SelectableIn(directory, i)
           ELSE ~SelectableIn(directory, i)
    BY <1>1, <1>3, <1>8, <2>1, FoundIs
  <2>3. StandsBehind(directory, previous, m) \/ Scanning(directory, previous, m)
    BY <1>2, <2>1 DEF Browses
  <2> HIDE DEF i, m
  <2>4. CASE context' \in Files
    <3>1. IsNext(directory, previous, context')
      BY <1>3, <2>2, <2>3, <2>4, FoundIsNext
    <3>2. StandsBehind(directory, context', i)
      BY <1>3, <2>2, <2>4 DEF StandsBehind, NonePassed
    <3> QED BY <1>1, <1>2, <1>8, <2>1, <2>2, <2>4, <3>1, <3>2 DEF Browses, IsVideo
  <2>5. CASE context' \notin Files
    <3>1. Scanning(directory, previous, i)
      BY <1>3, <2>2, <2>3, <2>5, PassedOver
    <3> QED BY <1>1, <1>2, <1>8, <2>1, <2>2, <2>5, <3>1 DEF Browses, IsVideo
  <2> QED BY <2>4, <2>5
<1>9. CASE /\ BrowseNext /\ main = "next" /\ FindsNone("main")
           /\ index' = [index EXCEPT !.main = i]
           /\ main' = (IF IsVideo(context) THEN "open" ELSE "scan") /\ context' = context
  <2>1. i = Len(directory) + 1 /\ m >= Len(directory) /\ ~long
    BY <1>1, <1>3, <1>4, <1>9, FindsNoneIs DEF Sound
  <2>2. StandsBehind(directory, previous, m) /\ context = previous /\ previous \in Files
    BY <1>2, <1>9, <2>1 DEF Browses
  <2>3. index'["main"] = i /\ previous' = previous
    BY <1>3, <1>9 DEF BrowseNext
  <2> HIDE DEF i, m
  <2>4. PICK p \in DOMAIN directory :
          directory[p] = previous /\ p <= m /\ NonePassed(directory, p, m)
    BY <2>2 DEF StandsBehind
  <2>5. NonePassed(directory, p, Len(directory)) /\ NonePassed(directory, p, i) /\ p <= i
    BY <1>3, <2>1, <2>4 DEF NonePassed
  <2>6. IsNext(directory, previous, context) /\ StandsBehind(directory, context, i)
    BY <2>2, <2>4, <2>5 DEF IsNext, IsLast, StandsBehind
  <2> QED BY <1>1, <1>9, <2>2, <2>3, <2>6 DEF Browses, IsVideo
<1>10. CASE BrowseAgain
  <2>1. i = Len(directory) + 1 /\ m >= Len(directory) /\ main = "scan"
    BY <1>1, <1>3, <1>4, <1>10, FindsNoneIs DEF Sound, BrowseAgain
  <2>2. index'["main"] = 0 /\ UNCHANGED <<main, previous>>
    BY <1>3, <1>10 DEF BrowseAgain
  <2> HIDE DEF i
  <2>3. Scanning(directory, previous, m) /\ previous \in Files
    BY <1>2, <2>1 DEF Browses
  <2> HIDE DEF m
  <2>4. Scanning(directory, previous, 0)
    BY <1>3, <2>1, <2>3 DEF Scanning, NoneSelectable
  <2> QED BY <1>1, <2>1, <2>2, <2>3, <2>4 DEF Browses
<1>11. CASE OpenSkips \/ OpenFinds \/ OpenFails
  <2>1. /\ main = "open" /\ main' \in {"open", "loop"} /\ UNCHANGED <<context, previous>>
        /\ index'["main"] = m
    BY <1>3, <1>11 DEF OpenSkips, OpenFinds, OpenFails, Skips, Finds
  <2> QED BY <1>1, <1>2, <2>1 DEF Browses
<1>12. CASE Browse
  <2>1. /\ main = "loop" /\ main' = "next" /\ previous' = context /\ context' = context
        /\ index'["main"] = m
    BY <1>3, <1>12 DEF Browse
  <2> QED BY <1>1, <1>2, <2>1 DEF Browses, NamesInv
<1>13. CASE StartDecode \/ DecodeReturns
  BY <1>2, <1>13 DEF StartDecode, DecodeReturns, Browses
<1>14. CASE \/ Decode(Read) \/ Decode(\E o \in Offsets : Seek(o))
            \/ Decode(\E n \in Sizes : Call(n)) \/ UNCHANGED allVars
  <2>1. UNCHANGED volumeVars
    BY <1>14 DEF Decode
  <2> QED BY <1>2, <2>1 DEF Browses
<1>15. CASE BrowseNext
  BY <1>7, <1>8, <1>9, <1>15 DEF BrowseNext
<1> QED BY <1>5, <1>6, <1>10, <1>11, <1>12, <1>13, <1>14, <1>15
           DEF VolumeNext, Select

-----------------------------------------------------------------------------
(* The volume as a whole.                                                  *)

VolumeInv == FileInv /\ NamesInv /\ OpenInv /\ BrowseInv

\* The inductive invariant of main's way to the videos.
THEOREM VolumeInductive == VolumeSpec => []VolumeInv
<1>1. VolumeInit => VolumeInv
  <2> SUFFICES ASSUME VolumeInit PROVE VolumeInv
    OBVIOUS
  <2>1. NamesInv
    BY VolumeAssumption DEF VolumeInit, NamesInv, PartAt, Files
  <2>2. OpenInv
    BY DEF VolumeInit, OpenInv
  <2>3. BrowseInv
    BY DEF VolumeInit, BrowseInv, Browses
  <2> QED BY <2>1, <2>2, <2>3, FileInit DEF VolumeInv
<1>2. VolumeInv /\ [VolumeNext]_allVars => VolumeInv'
  BY FileStep, NamesStep, OpenStep, BrowseStep DEF VolumeInv, FileInv
<1> QED BY <1>1, <1>2, PTL DEF VolumeSpec

\* The decoder reads the file whose name is selected, and runs without one only before the
\* first choice, after a failed read, or for an entry behind a broken long name.
THEOREM SelectedIsPlayed == VolumeSpec => []PlaysSelected
<1>1. VolumeInv => PlaysSelected
  <2> SUFFICES ASSUME VolumeInv PROVE PlaysSelected
    OBVIOUS
  <2>1. main = "decode" => file = context
    BY DEF VolumeInv, OpenInv
  <2>2. ASSUME main = "wild", faults = 0, handle # "unset"
        PROVE  \E k \in 1 .. Place(context) : Broken(k)
    <3>1. context \in Files
      BY <2>2 DEF VolumeInv, OpenInv
    <3>2. PICK p \in DOMAIN directory : directory[p] = context /\ \E k \in 1 .. p : Broken(k)
      BY <2>2 DEF VolumeInv, OpenInv
    <3>3. Place(context) = p
      <4>1. Place(context) \in DOMAIN directory /\ directory[Place(context)] = context
        BY <3>2 DEF Place
      <4> QED BY <3>1, <3>2, <4>1, DirectoryIs DEF VolumeInv, FileInv
    <3> QED BY <3>2, <3>3
  <2>3. faults \in Nat
    BY DEF VolumeInv, FileInv, CacheInv
  <2> QED BY <2>1, <2>2, <2>3 DEF PlaysSelected
<1> QED BY <1>1, VolumeInductive, PTL

\* Whatever the calls of Fat_FileBrowseNext end at, the video selected is the next one.
THEOREM SelectionIsNext == VolumeSpec => []SelectedIsNext
<1>1. VolumeInv => SelectedIsNext
  <2> SUFFICES ASSUME VolumeInv, main = "open", Sound PROVE context = NextVideo(previous)
    BY DEF SelectedIsNext, Sound
  <2>1. IsNext(directory, previous, context) /\ previous \in Files /\ VolumeTypes
    BY DEF VolumeInv, FileInv, BrowseInv, Browses
  <2> QED BY <2>1, NextIs
<1> QED BY <1>1, VolumeInductive, PTL
=============================================================================
