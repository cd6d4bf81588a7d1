------------------------------ MODULE FatFile ------------------------------
(***************************************************************************)
(* Fat_FileSeek and Fat_FileRead on the open file: the seek position, the  *)
(* cluster the file is at, the walk along the cluster chain, and the       *)
(* reading of a first partial sector, runs of whole sectors within a       *)
(* cluster and a last partial sector.  One sector, Secter_Data, is cached; *)
(* directory, FAT and file data share it.  Any read of the card may fail,  *)
(* and the decoder goes on after a failed call.                            *)
(*                                                                         *)
(* A byte of the data area is named by its address, so that a buffer shows *)
(* where each of its bytes was read from.  Sectors of the FAT and of the   *)
(* directory have negative numbers.                                        *)
(***************************************************************************)
EXTENDS Integers, Sequences

CONSTANTS
  SectorBytes,     \* BPB_BytsPerSec, 512
  ClusterSectors,  \* BPB_SecPerCluster
  Chains,          \* of each file, the clusters in its order
  FatEntries,      \* FAT entries in a sector
  Word,            \* 2^32: positions and counts are alt_u32
  Sizes,           \* the nBufferSize of reads
  Offsets,         \* the positions sought
  MaxCalls,        \* bound: calls of Fat_FileRead
  MaxFaults        \* bound: reads of the card that fail

ClusterBytes == SectorBytes * ClusterSectors
Files == DOMAIN Chains
Links == UNION {{f} \X DOMAIN Chains[f] : f \in Files}
Clusters == {Chains[l[1]][l[2]] : l \in Links}

\* No cluster belongs to two files or to one file twice.
ASSUME FatAssumption ==
  /\ {SectorBytes, ClusterSectors, FatEntries} \subseteq Nat \ {0}
  /\ \A f \in Files : Chains[f] \in Seq(Nat \ {0, 1}) /\ Chains[f] # << >>
  /\ \A k, l \in Links : Chains[k[1]][k[2]] = Chains[l[1]][l[2]] => k = l
  /\ Word \in Nat /\ \A f \in Files : Word > (Len(Chains[f]) + 1) * ClusterBytes
  /\ Sizes \subseteq 1 .. Word - 1 /\ Offsets \subseteq 0 .. Word - 1
  /\ MaxCalls \in Nat /\ MaxFaults \in Nat

VARIABLES
  \* FAT_FILE_INFO
  file,          \* Directory
  seekPos,       \* SeekPos
  cluster,       \* Cluster
  clusterSeq,    \* ClusterSeq
  \* VOLUME_INFO
  cached,        \* Secter_Index
  data,          \* the sector whose bytes are in Secter_Data, or Garbage
  \* Fat_FileRead
  at,            \* where it is; "idle" between calls
  size,          \* nBufferSize
  pos,           \* Pos
  current,       \* Cluster, the local variable
  sectorOffset,  \* SectorOffset
  sector,        \* PhysicalSecter
  success,       \* bSuccess, and in "idle" what the last call returned
  buffer,        \* the nReadCount bytes of pBuffer written so far
  \* history
  from,          \* the seek position at the call
  damaged,       \* since the last seek a read of the card has failed, or a call asked
                 \* for more than there is of the file
  faults, calls

fileVars == <<file, seekPos, cluster, clusterSeq>>
cacheVars == <<cached, data>>
localVars == <<at, size, pos, current, sectorOffset, sector, success, buffer>>
historyVars == <<from, damaged, faults, calls>>
vars == <<fileVars, cacheVars, localVars, historyVars>>

NoSector == -1
Garbage == -2
FatSector(c) == -4 - c \div FatEntries
FirstSectorOf(c) == (c - 2) * ClusterSectors
EndMark == 100000   \* FAT entry of a file's last cluster: 0xFFF8 and up

Chain == Chains[file]
FileBytes == Len(Chain) * ClusterBytes

Least(a, b) == IF a < b THEN a ELSE b

\* Bytes first to last, counted from the start of sector s.
BytesOf(s, first, last) ==
  [i \in 1 .. last - first + 1 |->
     IF s = Garbage THEN Garbage ELSE s * SectorBytes + first + i - 1]

\* A file as Fat_FileOpen leaves it, and no sector in the cache.
Init ==
  /\ file \in Files
  /\ seekPos = 0 /\ cluster = Chain[1] /\ clusterSeq = 0
  /\ cached = NoSector /\ data = Garbage
  /\ at = "idle" /\ size = 0 /\ pos = 0 /\ current = Chain[1]
  /\ sectorOffset = 0 /\ sector = 0 /\ success = TRUE /\ buffer = << >>
  /\ from = 0 /\ damaged = FALSE /\ faults = 0 /\ calls = 0

-----------------------------------------------------------------------------
(* The card                                                                *)

\* The FAT and the files' clusters are on the card, so that only a fault makes
\* their reading fail.  Whether any other sector is on the card is left open.
Known(s) ==
  s < 0 \/ \E c \in Clusters : s - FirstSectorOf(c) \in 0 .. ClusterSectors - 1

CardFails(s) ==
  /\ Known(s) => faults < MaxFaults
  /\ faults' = IF Known(s) THEN faults + 1 ELSE faults
  /\ damaged' = TRUE
CardReads == UNCHANGED <<damaged, faults>>

\* fatReadSecter when it has to read and fails, and when it succeeds.
SectorFails(s) == cached # s /\ CardFails(s) /\ data' = Garbage /\ cached' = NoSector
Load(s) == cached' = s /\ data' = IF cached = s THEN data ELSE s
SectorRead(s) == CardReads /\ Load(s)

\* The FAT entry of cluster c, 0 if it names no cluster of a file.  Outside the
\* files' chains the entry is unknown.
Entries(c) ==
  IF c \notin Clusters THEN {0, EndMark}
  ELSE LET l == CHOOSE k \in Links : Chains[k[1]][k[2]] = c
       IN  {IF l[2] < Len(Chains[l[1]]) THEN Chains[l[1]][l[2] + 1] ELSE EndMark}

\* fatNextCluster returns next for c.  If it cannot read the FAT it returns its
\* uninitialized local variable.
NextCluster(c, next) ==
  \/ SectorRead(FatSector(c)) /\ next \in Entries(c)
  \/ SectorFails(FatSector(c)) /\ next \in Clusters \cup {0, EndMark}

-----------------------------------------------------------------------------
(* Fat_FileSeek and Fat_FileRead                                           *)

\* FILE_SEEK_BEGIN, the only kind the decoder uses.  What is left of the last call is
\* cleared.
Seek(offset) ==
  /\ at = "idle" /\ calls < MaxCalls
  /\ seekPos' = offset /\ cluster' = Chain[1] /\ clusterSeq' = 0
  /\ size' = 0 /\ success' = TRUE /\ buffer' = << >> /\ from' = offset
  /\ damaged' = FALSE
  /\ UNCHANGED <<file, cacheVars, at, pos, current, sectorOffset, sector, faults, calls>>

\* The size of the file is not looked at.  The subtraction wraps around if the file is at a
\* cluster beyond the position, where a call that failed can leave it.
Call(n) ==
  /\ at = "idle" /\ calls < MaxCalls
  /\ size' = n /\ buffer' = << >> /\ success' = TRUE
  /\ pos' = (seekPos - clusterSeq * ClusterBytes) % Word
  /\ current' = cluster
  /\ at' = IF seekPos \div ClusterBytes # clusterSeq THEN "walk" ELSE "first"
  /\ from' = seekPos /\ calls' = calls + 1
  /\ damaged' = (damaged \/ seekPos + n > FileBytes)
  /\ UNCHANGED <<fileVars, cacheVars, sectorOffset, sector, faults>>

Walking == at = "walk" /\ pos >= ClusterBytes /\ success

\* One turn of the walk to the cluster of the position; a missing cluster ends it.
Walk ==
  /\ Walking
  /\ \E next \in Clusters \cup {0, EndMark} :
       /\ NextCluster(current, next)
       /\ success' = (next # 0)
       /\ current' = IF next = 0 THEN current ELSE next
  /\ pos' = pos - ClusterBytes
  /\ cluster' = current' /\ clusterSeq' = (clusterSeq + 1) % Word
  /\ UNCHANGED <<file, seekPos, at, size, sectorOffset, sector, buffer, from, calls>>

\* The read goes on whether or not the walk has arrived.
WalkEnds ==
  /\ at = "walk" /\ ~Walking
  /\ at' = "first"
  /\ UNCHANGED <<fileVars, cacheVars, size, pos, current, sectorOffset, sector, success,
                 buffer, historyVars>>

\* The early returns of FALSE.
Fail ==
  /\ at' = "idle" /\ success' = FALSE
  /\ UNCHANGED <<fileVars, size, pos, current, sectorOffset, sector, buffer, from, calls>>

\* The first sector is read through the cache if it is not read from its beginning or
\* the whole buffer is smaller than a sector.
First ==
  /\ at = "first"
  /\ LET offset == pos \div SectorBytes
         byte   == pos % SectorBytes
         s      == FirstSectorOf(current) + offset
         count  == Least(size, SectorBytes - byte)
     IN  IF byte > 0 \/ size < SectorBytes
         THEN \/ SectorFails(s) /\ Fail
              \/ /\ SectorRead(s)
                 /\ buffer' = BytesOf(data', byte, byte + count - 1)
                 /\ at' = IF count < size /\ offset = ClusterSectors - 1
                          THEN "follow" ELSE "runs"
                 /\ sectorOffset' = offset + 1 /\ sector' = s + 1
                 /\ UNCHANGED <<fileVars, size, pos, current, success, from, calls>>
         ELSE /\ at' = "runs" /\ sectorOffset' = offset /\ sector' = s
              /\ UNCHANGED <<fileVars, cacheVars, size, pos, current, success, buffer,
                             historyVars>>

\* The cluster has been read to its end and there is more to read.
FollowChain ==
  /\ at = "follow"
  /\ \E next \in Clusters \cup {0, EndMark} :
       /\ NextCluster(current, next)
       /\ IF next = 0 THEN Fail
          ELSE /\ current' = next /\ cluster' = next /\ clusterSeq' = (clusterSeq + 1) % Word
               /\ sector' = FirstSectorOf(next) /\ sectorOffset' = 0
               /\ at' = "runs"
               /\ UNCHANGED <<file, seekPos, size, pos, success, buffer, from, calls>>

SectorsToRead == (size - Len(buffer)) \div SectorBytes
SectorsLeft == (ClusterSectors - sectorOffset) % Word

\* A run of n whole sectors goes straight into the buffer; more: there is more to
\* read in another cluster.  SDLIB_ReadBlocks refuses a run of none.
ReadRun(n, more) ==
  \/ /\ IF n > 0 THEN CardFails(sector) ELSE damaged' = TRUE /\ UNCHANGED faults
     /\ Fail /\ UNCHANGED cacheVars
  \/ /\ n > 0
     /\ buffer' = buffer \o BytesOf(sector, 0, n * SectorBytes - 1)
     /\ sector' = sector + n
     /\ at' = IF more THEN "follow" ELSE "runs"
     /\ UNCHANGED <<fileVars, cacheVars, size, pos, current, sectorOffset, success,
                    historyVars>>

\* Mutants of Runs: the run is not limited to what is to be read; a partial sector
\* after the end of the cluster is overlooked; a run of none is not refused and the
\* loop goes round for ever.
RunsToClusterEnd ==
  /\ at = "runs" /\ SectorsToRead > 0
  /\ ReadRun(SectorsLeft, Len(buffer) + SectorsLeft * SectorBytes < size)
RunsForgetTail ==
  /\ at = "runs" /\ SectorsToRead > 0
  /\ LET n == Least(SectorsToRead, SectorsLeft)
     IN  ReadRun(n, n = SectorsLeft /\ n < SectorsToRead)
RunsOfNone ==
  /\ at = "runs" /\ SectorsToRead > 0
  /\ LET n == Least(SectorsToRead, SectorsLeft)
     IN  n > 0 /\ ReadRun(n, n = SectorsLeft /\ Len(buffer) + n * SectorBytes < size)

\* A run goes up to the end of the cluster at most.
Runs ==
  /\ at = "runs" /\ SectorsToRead > 0
  /\ LET n == Least(SectorsToRead, SectorsLeft)
     IN  ReadRun(n, n = SectorsLeft /\ Len(buffer) + n * SectorBytes < size)

\* The rest of the buffer, less than a sector, and the return.
Last ==
  /\ at = "runs" /\ SectorsToRead = 0
  /\ \/ Len(buffer) < size /\ SectorFails(sector) /\ Fail
     \/ /\ IF Len(buffer) < size
           THEN /\ SectorRead(sector)
                /\ buffer' = buffer \o BytesOf(data', 0, size - Len(buffer) - 1)
           ELSE UNCHANGED <<buffer, cacheVars, damaged, faults>>
        /\ seekPos' = IF success THEN (seekPos + size) % Word ELSE seekPos
        /\ at' = "idle"
        /\ UNCHANGED <<file, cluster, clusterSeq, size, pos, current, sectorOffset, sector,
                       success, from, calls>>

Read == Walk \/ WalkEnds \/ First \/ FollowChain \/ Runs \/ Last

Next == Read \/ (\E o \in Offsets : Seek(o)) \/ (\E n \in Sizes : Call(n))

Spec == Init /\ [][Next]_vars

-----------------------------------------------------------------------------
(* Properties.                                                             *)

\* The types; Fat_FileRead never writes beyond the caller's buffer, whatever failed
\* before and wherever a wrapped position or the end of the file leads.
TypeOK ==
  /\ file \in Files /\ seekPos \in 0 .. Word - 1 /\ clusterSeq \in 0 .. Word - 1
  /\ {cluster, current} \subseteq Clusters \cup {EndMark}
  /\ at \in {"idle", "walk", "first", "follow", "runs"}
  /\ pos \in 0 .. Word - 1 /\ sectorOffset \in 0 .. Word
  /\ success \in BOOLEAN /\ damaged \in BOOLEAN
  /\ Len(buffer) <= size

Address(p) ==
  FirstSectorOf(Chain[p \div ClusterBytes + 1]) * SectorBytes + (p % ClusterBytes)

\* As long as no read of the card has failed and no call has gone beyond the end of the
\* file since the last seek, Fat_FileRead returns TRUE with exactly the bytes of the file
\* from the position on, however the reads lie with respect to sectors and clusters, and
\* whatever failed before that seek.
ReadIsExact ==
  at = "idle" /\ ~damaged =>
    /\ success /\ seekPos = from + size
    /\ buffer = [i \in 1 .. size |-> Address(from + i - 1)]

\* Every call returns, even one whose position has wrapped around and that walks off
\* the end of the chain.
CallReturns == [](at # "idle" => <>(at = "idle"))
=============================================================================
