----------------------------- MODULE FatVolume -----------------------------
(***************************************************************************)
(* The main CPU's way to a video on the card: Fat_Mount, the search for    *)
(* the first video in main, pio_functionality's browsing for the next one  *)
(* and Fat_FileOpen, all by Fat_FileBrowseNext; then the reads and seeks   *)
(* of the decoder (FatFile).  Directory, FAT and files share one cached    *)
(* sector, and any read may fail.                                          *)
(*                                                                         *)
(* A directory entry is "unused", "part" of a long name, "other", "bare"   *)
(* (neither an archive nor a directory), or the name of a video.  Behind   *)
(* the last one all entries are free, as many as are ever looked at.  No   *)
(* long name spells the short name of a video.                             *)
(***************************************************************************)
EXTENDS FatFile

CONSTANTS
  Directories,  \* the contents of the root directory to be checked
  FirstVideo,   \* the name V1_72.MPG
  RootEntries,  \* directory entries in a sector
  MaxBrowses    \* bound: times the user asks for the next video

Kinds == {"unused", "part", "other", "bare"}

\* Each video is there once.  A part is followed by more of its name or the short entry,
\* and the name of the first video is short.
ASSUME VolumeAssumption ==
  /\ Files \cap (Kinds \cup {"none", "long", "end"}) = {} /\ FirstVideo \in Files
  /\ RootEntries \in Nat \ {0} /\ MaxBrowses \in Nat
  /\ \A d \in Directories :
       /\ d \in Seq(Kinds \cup Files)
       /\ \A v \in Files : \E i \in DOMAIN d : \A j \in DOMAIN d : d[j] = v <=> j = i
       /\ \A i \in DOMAIN d : d[i] = "part" => i < Len(d) /\ d[i + 1] # "unused"
       /\ \A i \in DOMAIN d : d[i] = FirstVideo => i = 1 \/ d[i - 1] # "part"

VARIABLES
  directory,  \* what is on the card
  main,       \* what the main CPU is doing
  index,      \* DirectoryIndex of main's handle and of that in Fat_FileOpen, from 1 on
  long,       \* bLongFilename
  context,    \* szName in main's pFileContext; "long" for any long name
  handle,     \* hFileHandle: "unset", "null" or "open"
  \* history
  previous,   \* the video selected when the user asked for the next one
  missed,     \* a read of the directory has failed
  browses

volumeVars == <<directory, main, index, long, context, handle, previous, missed, browses>>
allVars == <<vars, volumeVars>>

RootSector(i) == -1000 - (i - 1) \div RootEntries
Entry(i) == IF i \in DOMAIN directory THEN directory[i] ELSE "end"

VolumeInit ==
  /\ Init /\ file = FirstVideo
  /\ directory \in Directories
  /\ main = "mount" /\ index = [main |-> 0, open |-> 0] /\ long = FALSE
  /\ context = "none" /\ handle = "unset"
  /\ previous = "none" /\ missed = FALSE /\ browses = 0

-----------------------------------------------------------------------------
(* Fat_FileBrowseNext, on the handle h.  An action is a turn of its loop.   *)

\* The index is advanced whatever the turn finds.  Behind the end of the directory one
\* free entry is like the other.
Looked(h) == IF index[h] <= Len(directory) THEN index[h] + 1 ELSE index[h]
Seen(h) == Entry(Looked(h))

TurnReads(h) == Load(RootSector(Looked(h))) /\ UNCHANGED <<faults, missed>>

TurnFails(h) ==
  /\ cached # RootSector(Looked(h)) /\ faults < MaxFaults
  /\ faults' = faults + 1 /\ missed' = TRUE
  /\ cached' = NoSector /\ data' = Garbage

\* The call goes on to the next entry.
Skips(h) ==
  /\ TurnReads(h) /\ Seen(h) \in {"unused", "part"}
  /\ index' = [index EXCEPT ![h] = Looked(h)] /\ long' = (long \/ Seen(h) = "part")

\* It returns TRUE.
Finds(h) ==
  /\ TurnReads(h) /\ Seen(h) \in Files \cup {"other", "bare"}
  /\ ~(long /\ Seen(h) = "bare")
  /\ index' = [index EXCEPT ![h] = Looked(h)] /\ long' = FALSE

\* It returns FALSE: at the end, for a long name of an entry that has no archive
\* attribute and is no directory, or because the sector cannot be read.
FindsNone(h) ==
  /\ (TurnReads(h) /\ (Seen(h) = "end" \/ (long /\ Seen(h) = "bare"))) \/ TurnFails(h)
  /\ long' = FALSE

\* What szName holds after a turn that reads an entry.
Name(h) ==
  IF Seen(h) = "unused" THEN context
  ELSE IF long \/ Seen(h) = "part" THEN "long" ELSE Seen(h)

-----------------------------------------------------------------------------
(* The main CPU                                                            *)

KeepFile == UNCHANGED <<fileVars, localVars, from, damaged>>
Keep == UNCHANGED <<calls, directory, previous, browses>>

\* The boot sectors are read around the cache.  Without a volume main goes on with a
\* browse handle it has not initialized.
Mount ==
  /\ main = "mount"
  /\ \/ main' = "search" /\ UNCHANGED faults
     \/ faults < MaxFaults /\ faults' = faults + 1 /\ main' = "wild"
  /\ UNCHANGED <<cacheVars, index, long, context, handle, missed>> /\ KeepFile /\ Keep

\* main looks for its first video and takes no notice of what the calls return.
Search ==
  /\ main = "search"
  /\ \/ Skips("main") /\ context' = Name("main") /\ UNCHANGED main
     \/ /\ Finds("main") /\ context' = Name("main")
        /\ main' = IF context' = FirstVideo THEN "loop" ELSE "search"
     \/ /\ FindsNone("main") /\ index' = [index EXCEPT !.main = Looked("main")]
        /\ UNCHANGED <<main, context>>
  /\ UNCHANGED handle /\ KeepFile /\ Keep

\* The user has asked for the next video.  The handle in Fat_FileOpen is a local variable
\* that begins before the first entry.
Browse ==
  /\ main = "loop" /\ browses < MaxBrowses
  /\ main' = "next" /\ browses' = browses + 1 /\ previous' = context
  /\ index' = [index EXCEPT !.open = 0]
  /\ UNCHANGED <<vars, directory, long, context, handle, missed>>

\* The extension is never seen in a long name, which has two bytes for a letter.
IsVideo(name) == name \in Files

\* pio_functionality: a call whose result is ignored ("next"), then calls until the name
\* is that of a video ("scan").
BrowseNext ==
  /\ main \in {"next", "scan"}
  /\ \/ Skips("main") /\ context' = Name("main") /\ UNCHANGED main
     \/ /\ Finds("main") /\ context' = Name("main")
        /\ main' = IF IsVideo(context') THEN "open" ELSE "scan"
     \/ /\ main = "next" /\ FindsNone("main")
        /\ index' = [index EXCEPT !.main = Looked("main")]
        /\ main' = (IF IsVideo(context) THEN "open" ELSE "scan") /\ UNCHANGED context
  /\ UNCHANGED handle /\ KeepFile /\ Keep

\* Mutant of BrowseAgain: it goes on where it is.
BrowseOn ==
  /\ main = "scan" /\ FindsNone("main")
  /\ index' = [index EXCEPT !.main = Looked("main")]
  /\ UNCHANGED <<main, context, handle>> /\ KeepFile /\ Keep

\* Mutant of BrowseAgain: it starts again behind the first entry.
BrowseFromSecond ==
  /\ main = "scan" /\ FindsNone("main")
  /\ index' = [index EXCEPT !.main = 1]
  /\ UNCHANGED <<main, context, handle>> /\ KeepFile /\ Keep

\* When a call fails, browsing starts again with the first entry.
BrowseAgain ==
  /\ main = "scan" /\ FindsNone("main")
  /\ index' = [index EXCEPT !.main = 0]
  /\ UNCHANGED <<main, context, handle>> /\ KeepFile /\ Keep

\* The entry is not the one sought: the name of a video is short.
OpenSkips ==
  /\ main = "open"
  /\ Skips("open") \/ (Finds("open") /\ (long \/ Seen("open") # context))
  /\ UNCHANGED <<main, context, handle>> /\ KeepFile /\ Keep

\* Mutant of OpenFinds: the first entry is opened.
OpenFindsAny ==
  /\ main = "open" /\ Finds("open") /\ ~long /\ IsVideo(Seen("open"))
  /\ main' = "loop" /\ handle' = "open"
  /\ file' = Seen("open") /\ seekPos' = 0 /\ cluster' = Chains[file'][1] /\ clusterSeq' = 0
  /\ size' = 0 /\ success' = TRUE /\ buffer' = << >> /\ from' = 0 /\ damaged' = FALSE
  /\ UNCHANGED <<at, pos, current, sectorOffset, sector, context>> /\ Keep

\* There is one static FAT_FILE_INFO for all files.  What is left of the last read is
\* cleared.
OpenFinds ==
  /\ main = "open" /\ Finds("open") /\ ~long /\ Seen("open") = context
  /\ main' = "loop" /\ handle' = "open"
  /\ file' = context /\ seekPos' = 0 /\ cluster' = Chains[context][1] /\ clusterSeq' = 0
  /\ size' = 0 /\ success' = TRUE /\ buffer' = << >> /\ from' = 0 /\ damaged' = FALSE
  /\ UNCHANGED <<at, pos, current, sectorOffset, sector, context>> /\ Keep

\* The search ends with the first call that returns FALSE.
OpenFails ==
  /\ main = "open" /\ FindsNone("open")
  /\ main' = "loop" /\ handle' = "null"
  /\ UNCHANGED <<index, context>> /\ KeepFile /\ Keep

\* Nothing tells main whether there is a file to decode.
StartDecode ==
  /\ main = "loop" /\ main' = IF handle = "open" THEN "decode" ELSE "wild"
  /\ UNCHANGED <<vars, directory, index, long, context, handle, previous, missed, browses>>

\* The file stays where the decoder has left it.
DecodeReturns ==
  /\ main = "decode" /\ at = "idle" /\ main' = "loop"
  /\ UNCHANGED <<vars, directory, index, long, context, handle, previous, missed, browses>>

Select ==
  Mount \/ Search \/ BrowseNext \/ BrowseAgain \/ OpenSkips \/ OpenFinds \/ OpenFails

Decode(A) == main = "decode" /\ A /\ UNCHANGED volumeVars

VolumeNext ==
  \/ Select \/ Browse \/ StartDecode \/ DecodeReturns
  \/ Decode(Read) \/ Decode(\E o \in Offsets : Seek(o)) \/ Decode(\E n \in Sizes : Call(n))

VolumeSpec == VolumeInit /\ [][VolumeNext]_allVars

\* No loop here waits; the card driver's waits are bounded.  The user need not do anything.
FairSpec == VolumeSpec /\ WF_allVars(Select) /\ WF_allVars(Decode(Read))

-----------------------------------------------------------------------------
(* Properties                                                              *)

Place(v) == CHOOSE i \in DOMAIN directory : directory[i] = v

\* Entry i is a long name that ends a call of Fat_FileBrowseNext with FALSE.
Broken(i) == i > 1 /\ directory[i] = "bare" /\ directory[i - 1] = "part"

\* The names that browsing stops at, and those it passes by on the way to the next.
Selectable(i) == directory[i] \in Files /\ (i = 1 \/ directory[i - 1] # "part")
Passed(i) == directory[i] \notin {"unused", "part"}

Lowest(S) == CHOOSE i \in S : \A j \in S : i <= j

\* The next video around the directory -- but the last name of the directory is its own
\* next.
NextVideo(v) ==
  LET videos == {i \in DOMAIN directory : Selectable(i)}
      behind == {i \in videos : i > Place(v)}
  IN  IF \A i \in DOMAIN directory : i > Place(v) => ~Passed(i) THEN v
      ELSE directory[Lowest(IF behind # {} THEN behind ELSE videos)]

\* Whatever calls of Fat_FileBrowseNext end at unused entries, long names and the end
\* of the directory, and whatever FAT and file sectors have gone through the cache in
\* between, the video selected is the next one.
SelectedIsNext ==
  main = "open" /\ ~missed /\ (\A i \in DOMAIN directory : ~Broken(i)) =>
    context = NextVideo(previous)

\* The decoder reads the file whose name is selected; it runs without an open file only
\* if the user has not asked for a video yet, a read failed, or the file's entry is
\* behind a long name that ends the search in Fat_FileOpen but not the browsing.
PlaysSelected ==
  /\ main = "decode" => file = context
  /\ main = "wild" =>
       \/ faults > 0 \/ handle = "unset"
       \/ \E i \in 1 .. Place(context) : Broken(i)

\* The first video is found unless a read of the directory failed: one such failure, of
\* just its entry, and main searches for ever.
SearchEnds == main = "search" ~> main = "loop" \/ missed

\* Browsing ends and the user is heard again, failed reads or not, unless the videos are
\* all behind a long name at which browsing starts again.
BrowseEnds ==
  (main \in {"next", "scan", "open"}
     /\ \E i \in DOMAIN directory : Selectable(i) /\ \A j \in 1 .. i : ~Broken(j))
  ~> main = "loop"

\* Every loop of main over the directory comes to its end.
SelectionEnds == SearchEnds /\ BrowseEnds
=============================================================================
