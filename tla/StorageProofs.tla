------------------------------ MODULE StorageProofs ------------------------------
(* Theorems about what the programs keep on disk beside the database: the   *)
(* webserver its screenshots (ScreenshotFiles), the archives of its backups *)
(* (BackupRuns) and what a restore makes of them (Restores), the scanner    *)
(* its queue of results (SubmitQueue). Each holds for any number of         *)
(* captures, deletions, archives, restores, results and drainers, and any   *)
(* faults.                                                                  *)
EXTENDS ScreenshotFiles, BackupRuns, Restores, SubmitQueue, FiniteSetTheorems, TLAPS

CaptureStates == [pc : {"none", "write", "insert", "done"}, host : 0 .. MaxHosts]
DeletionStates == [pc : {"idle", "rows", "unlink"}, host : 0 .. MaxHosts, paths : SUBSET Shots]

(***************************************************************************)
(* ScreenshotFiles. A capture that has written its file and not            *)
(* inserted its row holds a file no sweep is old enough to take; a         *)
(* deletion only takes files of captures that are over, and once it comes  *)
(* to unlink them, none of them has a row any more.                        *)
(***************************************************************************)

\* Where a capture is, and its file.
CaptureSound ==
    \A s \in Shots :
        /\ capture[s].pc \in {"write", "insert"} => capture[s].host \in 1 .. hostCount
        /\ capture[s].pc = "insert" => files[s] = "young"
        /\ s \in rows => capture[s].pc = "done" /\ files[s] # "none"

\* What a deletion may unlink.
DeletionSound ==
    \A d \in Deleters :
        /\ deletion[d].paths \subseteq {s \in Shots : capture[s].pc = "done"}
        /\ deletion[d].pc = "rows" => /\ deletion[d].host \in 1 .. hostCount
                                      /\ deletion[d].host # hostId => deletion[d].paths \cap rows = {}
        /\ deletion[d].pc = "unlink" => deletion[d].paths \cap rows = {}

FilesInv == ShotTypeOK /\ hostId <= hostCount /\ CaptureSound /\ DeletionSound

LEMMA GoneType ==
  ASSUME NEW S, NEW what \in [Shots -> FileAge]
  PROVE  Gone(S, what) \in [Shots -> FileAge] /\ \A s \in Shots \ S : Gone(S, what)[s] = what[s]
BY DEF Gone, FileAge

LEMMA FaultType ==
  ASSUME ShotTypeOK, shotFaults < MaxShotFaults, shotFaults' = shotFaults + 1
  PROVE  shotFaults' \in 0 .. MaxShotFaults
BY ShotAssumption DEF ShotTypeOK

LEMMA CaptureFields ==
  ASSUME NEW x \in CaptureStates
  PROVE  /\ x.pc \in {"none", "write", "insert", "done"} /\ x.host \in 0 .. MaxHosts
         /\ \A pc \in {"none", "write", "insert", "done"} :
              /\ [x EXCEPT !.pc = pc] \in CaptureStates
              /\ [x EXCEPT !.pc = pc].pc = pc /\ [x EXCEPT !.pc = pc].host = x.host
BY DEF CaptureStates

LEMMA DeletionFields ==
  ASSUME NEW x \in DeletionStates
  PROVE  /\ x.pc \in {"idle", "rows", "unlink"} /\ x.host \in 0 .. MaxHosts /\ x.paths \in SUBSET Shots
         /\ \A pc \in {"idle", "rows", "unlink"} :
              /\ [x EXCEPT !.pc = pc] \in DeletionStates
              /\ [x EXCEPT !.pc = pc].pc = pc /\ [x EXCEPT !.pc = pc].host = x.host
              /\ [x EXCEPT !.pc = pc].paths = x.paths
BY DEF DeletionStates

LEMMA NoDeletionType ==
  NoDeletion \in DeletionStates /\ NoDeletion.pc = "idle" /\ NoDeletion.paths = {}
BY ShotAssumption DEF NoDeletion, DeletionStates

LEMMA FilesInit == ShotInit => FilesInv
BY ShotAssumption, NoDeletionType
   DEF ShotInit, FilesInv, ShotTypeOK, CaptureSound, DeletionSound, NoSweep, FileAge, DeletionStates

LEMMA HostFoundStep == ASSUME FilesInv, HostFound PROVE FilesInv'
<1>1. hostCount' = hostCount + 1 /\ hostId' = hostCount + 1 /\ hostCount < MaxHosts /\ hostId = 0 /\ rows = {}
  BY DEF HostFound, FilesInv, ShotTypeOK
<1>2. hostCount \in Nat /\ MaxHosts \in Nat BY ShotAssumption DEF FilesInv, ShotTypeOK
<1>3. ShotTypeOK' BY <1>1, <1>2 DEF HostFound, FilesInv, ShotTypeOK
<1>4. CaptureSound' BY <1>1, <1>2 DEF HostFound, FilesInv, CaptureSound
<1>5. DeletionSound' BY <1>1, <1>2 DEF HostFound, FilesInv, DeletionSound
<1> QED BY <1>1, <1>2, <1>3, <1>4, <1>5 DEF FilesInv

LEMMA ShotCaptureStep ==
  ASSUME FilesInv, NEW s \in Shots, LookUpHost(s) \/ WriteFile(s) \/ InsertRow(s) PROVE FilesInv'
<1>c. capture \in [Shots -> CaptureStates] BY DEF FilesInv, ShotTypeOK, CaptureStates
<1>d. deletion \in [Deleters -> DeletionStates] BY DEF FilesInv, ShotTypeOK, DeletionStates
<1>1. CASE LookUpHost(s)
  <2> DEFINE x == [pc |-> "write", host |-> hostId]
  <2>0. x \in CaptureStates /\ hostId \in 1 .. hostCount BY <1>1 DEF LookUpHost, FilesInv, ShotTypeOK, CaptureStates
  <2>1. capture' = [capture EXCEPT ![s] = x] /\ capture[s].pc = "none" BY <1>1 DEF LookUpHost
  <2>2. UNCHANGED <<hostRow, rows, outdated, files, thumbs, preview, deletion, orphans, shotFaults>>
    BY <1>1 DEF LookUpHost
  <2>3. capture'[s] = x /\ \A t \in Shots \ {s} : capture'[t] = capture[t] BY <1>c, <2>1
  <2>4. ShotTypeOK' BY <1>c, <2>0, <2>1, <2>2 DEF FilesInv, ShotTypeOK, CaptureStates, hostRow
  <2>5. CaptureSound' BY <2>0, <2>1, <2>2, <2>3 DEF FilesInv, CaptureSound, hostRow
  <2>6. DeletionSound' BY <2>1, <2>2, <2>3 DEF FilesInv, DeletionSound, hostRow
  <2> QED BY <2>2, <2>4, <2>5, <2>6 DEF FilesInv, hostRow
<1>2. CASE WriteFile(s)
  <2> DEFINE x == [capture[s] EXCEPT !.pc = "insert"]
  <2>0. x \in CaptureStates /\ x.pc = "insert" /\ x.host = capture[s].host BY <1>c, CaptureFields, ZenonT(60)
  <2>1. capture' = [capture EXCEPT ![s] = x] /\ capture[s].pc = "write" BY <1>2, <1>c DEF WriteFile
  <2>2. files' = [files EXCEPT ![s] = "young"]
        /\ UNCHANGED <<hostRow, rows, outdated, thumbs, preview, deletion, orphans, shotFaults>>
    BY <1>2 DEF WriteFile
  <2> HIDE DEF x
  <2>3. capture'[s] = x /\ \A t \in Shots \ {s} : capture'[t] = capture[t] BY <1>c, <2>1
  <2>4. ShotTypeOK' BY <1>c, <2>0, <2>1, <2>2 DEF FilesInv, ShotTypeOK, CaptureStates, FileAge, hostRow
  <2>f. files'[s] = "young" /\ \A t \in Shots \ {s} : files'[t] = files[t]
    BY <2>2 DEF FilesInv, ShotTypeOK
  <2>5. CaptureSound' BY <2>0, <2>1, <2>2, <2>3, <2>f DEF FilesInv, CaptureSound, hostRow
  <2>6. DeletionSound' BY <2>1, <2>2, <2>3 DEF FilesInv, DeletionSound, hostRow
  <2> QED BY <2>2, <2>4, <2>5, <2>6 DEF FilesInv, hostRow
<1>3. CASE InsertRow(s)
  <2> DEFINE x == [capture[s] EXCEPT !.pc = "done"]
  <2>0. x \in CaptureStates /\ x.pc = "done" /\ x.host = capture[s].host BY <1>c, CaptureFields, ZenonT(60)
  <2>1. capture' = [capture EXCEPT ![s] = x] /\ capture[s].pc = "insert" BY <1>3, <1>c DEF InsertRow
  <2>2. rows' = (IF capture[s].host = hostId THEN rows \cup {s} ELSE rows)
        /\ UNCHANGED <<hostRow, outdated, files, thumbs, preview, deletion, orphans, shotFaults>>
    BY <1>3 DEF InsertRow
  <2> HIDE DEF x
  <2>3. capture'[s] = x /\ \A t \in Shots \ {s} : capture'[t] = capture[t] BY <1>c, <2>1
  <2>h. capture[s].host \in 1 .. hostCount /\ files[s] = "young" BY <2>1 DEF FilesInv, CaptureSound
  <2>r. hostId = 0 => rows' = rows BY <2>2, <2>h
  <2>4. ShotTypeOK' BY <1>c, <2>0, <2>1, <2>2, <2>r DEF FilesInv, ShotTypeOK, CaptureStates, hostRow
  <2>5. CaptureSound' BY <2>0, <2>1, <2>2, <2>3, <2>h DEF FilesInv, CaptureSound, hostRow
  <2>6. DeletionSound'
    <3>1. \A d \in Deleters : s \notin deletion[d].paths BY <2>1 DEF FilesInv, DeletionSound
    <3>2. rows' \subseteq rows \cup {s} BY <2>2
    <3> QED BY <2>0, <2>1, <2>2, <2>3, <3>1, <3>2 DEF FilesInv, DeletionSound, hostRow
  <2> QED BY <2>2, <2>4, <2>5, <2>6 DEF FilesInv, hostRow
<1> QED BY <1>1, <1>2, <1>3

LEMMA PreviewStep ==
  ASSUME FilesInv, NEW s \in Shots, StartPreview(s) \/ RenamePreview(s) PROVE FilesInv'
<1>1. UNCHANGED <<hostRow, capture, rows, outdated, files, deletion, orphans, shotFaults>>
  BY DEF StartPreview, RenamePreview
<1>2. preview' \in SUBSET Shots /\ thumbs' \in [Shots -> FileAge]
  BY DEF StartPreview, RenamePreview, FilesInv, ShotTypeOK, FileAge
<1>3. ShotTypeOK' BY <1>1, <1>2 DEF FilesInv, ShotTypeOK, hostRow
<1>4. CaptureSound' /\ DeletionSound' BY <1>1 DEF FilesInv, CaptureSound, DeletionSound, hostRow
<1> QED BY <1>1, <1>3, <1>4 DEF FilesInv, hostRow

LEMMA AgeingStep ==
  ASSUME FilesInv, NEW s \in Shots, FileAges(s) \/ ThumbAges(s) \/ RowAges(s) PROVE FilesInv'
<1>1. UNCHANGED <<hostRow, capture, rows, preview, deletion, orphans, shotFaults>>
  BY DEF FileAges, ThumbAges, RowAges
<1>2. /\ files' \in [Shots -> FileAge] /\ thumbs' \in [Shots -> FileAge]
      /\ outdated' \in SUBSET rows
  BY SMTT(30) DEF FileAges, ThumbAges, RowAges, FilesInv, ShotTypeOK, FileAge
<1>3. \A t \in Shots : files'[t] = files[t] \/ (capture[t].pc = "done" /\ files'[t] = "old")
  BY DEF FileAges, ThumbAges, RowAges, FilesInv, ShotTypeOK, FileAge
<1>4. ShotTypeOK' BY <1>1, <1>2 DEF FilesInv, ShotTypeOK, hostRow
<1>5. CaptureSound'
  <2> SUFFICES ASSUME NEW t \in Shots
      PROVE /\ capture[t].pc \in {"write", "insert"} => capture[t].host \in 1 .. hostCount
            /\ capture[t].pc = "insert" => files'[t] = "young"
            /\ t \in rows => capture[t].pc = "done" /\ files'[t] # "none"
    BY <1>1 DEF CaptureSound, hostRow
  <2> QED BY <1>3 DEF FilesInv, CaptureSound
<1>6. DeletionSound' BY <1>1 DEF FilesInv, DeletionSound, hostRow
<1> QED BY <1>1, <1>4, <1>5, <1>6 DEF FilesInv, hostRow

\* Unlinking files without a row, of captures that are over or whose file is old.
LEMMA UnlinkKeeps ==
  ASSUME FilesInv, NEW S \in SUBSET Shots, S \cap rows = {},
         \A s \in S : capture[s].pc = "done" \/ files[s] # "young",
         files' = Gone(S, files), thumbs' \in [Shots -> FileAge],
         UNCHANGED <<hostRow, capture, rows, outdated, preview, shotFaults>>
  PROVE  /\ files' \in [Shots -> FileAge] /\ CaptureSound'
         /\ \A s \in Shots \ S : files'[s] = files[s]
<1>1. files' \in [Shots -> FileAge] /\ \A s \in Shots \ S : files'[s] = files[s]
  BY GoneType DEF FilesInv, ShotTypeOK
<1>2. CaptureSound'
  <2> SUFFICES ASSUME NEW t \in Shots
      PROVE /\ capture[t].pc \in {"write", "insert"} => capture[t].host \in 1 .. hostCount
            /\ capture[t].pc = "insert" => files'[t] = "young"
            /\ t \in rows => capture[t].pc = "done" /\ files'[t] # "none"
    BY DEF CaptureSound, hostRow
  <2>1. capture[t].pc = "insert" => t \notin S
    BY DEF FilesInv, CaptureSound
  <2>2. t \in rows => t \notin S OBVIOUS
  <2> QED BY <1>1, <2>1, <2>2 DEF FilesInv, CaptureSound
<1> QED BY <1>1, <1>2

LEMMA SweepStep ==
  ASSUME FilesInv, ListFiles \/ UnlinkOrphans PROVE FilesInv'
<1>1. CASE ListFiles
  <2>1. UNCHANGED <<hostRow, capture, rows, outdated, files, preview, deletion, shotFaults>>
    BY <1>1 DEF ListFiles
  <2>2. thumbs' \in [Shots -> FileAge] BY <1>1, GoneType DEF ListFiles, FilesInv, ShotTypeOK
  <2>3. orphans' \in [pc : {"idle", "query"}, listed : SUBSET Shots]
    <3> DEFINE found == {s \in Shots : files[s] # "none"}
    <3>1. orphans' = IF found = {} THEN NoSweep ELSE [pc |-> "query", listed |-> found]
      BY <1>1 DEF ListFiles
    <3> QED BY <3>1 DEF NoSweep
  <2>4. ShotTypeOK' BY <2>1, <2>2, <2>3 DEF FilesInv, ShotTypeOK, hostRow
  <2>5. CaptureSound' /\ DeletionSound' BY <2>1 DEF FilesInv, CaptureSound, DeletionSound, hostRow
  <2> QED BY <2>1, <2>4, <2>5 DEF FilesInv, hostRow
<1>2. CASE UnlinkOrphans
  <2> DEFINE unlinked == {s \in orphans.listed \ rows : files[s] = "old"}
  <2>1. /\ files' = Gone(unlinked, files) /\ thumbs' = Gone(unlinked, thumbs) /\ orphans' = NoSweep
        /\ UNCHANGED <<hostRow, capture, rows, outdated, preview, deletion, shotFaults>>
    BY <1>2 DEF UnlinkOrphans
  <2>2. unlinked \in SUBSET Shots BY DEF FilesInv, ShotTypeOK
  <2>3. thumbs' \in [Shots -> FileAge] BY <2>1, GoneType DEF FilesInv, ShotTypeOK
  <2>4. files' \in [Shots -> FileAge] /\ CaptureSound'
    <3> HIDE DEF unlinked
    <3>1. unlinked \cap rows = {} /\ \A s \in unlinked : files[s] # "young" BY DEF unlinked
    <3> QED BY <2>1, <2>2, <2>3, <3>1, UnlinkKeeps
  <2>5. ShotTypeOK' BY <2>1, <2>3, <2>4 DEF FilesInv, ShotTypeOK, hostRow, NoSweep
  <2>6. DeletionSound' BY <2>1 DEF FilesInv, DeletionSound, hostRow
  <2> QED BY <2>1, <2>4, <2>5, <2>6 DEF FilesInv, hostRow
<1> QED BY <1>1, <1>2

\* One deletion moves on; what it holds is sound, and so are the others.
LEMMA DeletionMoves ==
  ASSUME FilesInv, NEW d \in Deleters, NEW x \in DeletionStates,
         deletion' = [deletion EXCEPT ![d] = x],
         UNCHANGED <<hostCount, capture>>, rows' \subseteq rows,
         hostId' # hostId => rows' = {},
         x.paths \subseteq {s \in Shots : capture[s].pc = "done"},
         x.pc = "rows" => x.host \in 1 .. hostCount /\ (x.host # hostId' => x.paths \cap rows' = {}),
         x.pc = "unlink" => x.paths \cap rows' = {}
  PROVE  deletion' \in [Deleters -> DeletionStates] /\ DeletionSound'
<1>1. deletion \in [Deleters -> DeletionStates] BY DEF FilesInv, ShotTypeOK, DeletionStates
<1>2. deletion' \in [Deleters -> DeletionStates] BY <1>1
<1>3. deletion'[d] = x /\ \A e \in Deleters \ {d} : deletion'[e] = deletion[e] BY <1>1
<1>4. DeletionSound'
  <2> SUFFICES ASSUME NEW e \in Deleters
      PROVE /\ deletion'[e].paths \subseteq {s \in Shots : capture[s].pc = "done"}
            /\ deletion'[e].pc = "rows" =>
                 /\ deletion'[e].host \in 1 .. hostCount
                 /\ deletion'[e].host # hostId' => deletion'[e].paths \cap rows' = {}
            /\ deletion'[e].pc = "unlink" => deletion'[e].paths \cap rows' = {}
    BY DEF DeletionSound
  <2>1. CASE e = d BY <1>3, <2>1
  <2>2. CASE e # d
    <3>1. deletion'[e] = deletion[e] BY <1>3, <2>2
    <3> QED BY <3>1 DEF FilesInv, DeletionSound
  <2> QED BY <2>1, <2>2
<1> QED BY <1>2, <1>4

LEMMA CollectStep ==
  ASSUME FilesInv, NEW d \in Deleters, CollectPaths(d) \/ PurgeOldRows(d) PROVE FilesInv'
<1>1. CASE CollectPaths(d)
  <2> DEFINE x == [pc |-> "rows", host |-> hostId, paths |-> rows]
  <2>1. /\ deletion' = [deletion EXCEPT ![d] = x] /\ hostId # 0
        /\ UNCHANGED <<hostRow, capture, rows, outdated, files, thumbs, preview, orphans, shotFaults>>
    BY <1>1 DEF CollectPaths
  <2>2. x \in DeletionStates /\ hostId \in 1 .. hostCount
    BY <2>1 DEF FilesInv, ShotTypeOK, DeletionStates
  <2>3. rows \subseteq {s \in Shots : capture[s].pc = "done"} BY DEF FilesInv, ShotTypeOK, CaptureSound
  <2>4. deletion' \in [Deleters -> DeletionStates] /\ DeletionSound'
    BY <2>1, <2>2, <2>3, DeletionMoves DEF hostRow
  <2>5. ShotTypeOK' BY <2>1, <2>4 DEF FilesInv, ShotTypeOK, DeletionStates, hostRow
  <2>6. CaptureSound' BY <2>1 DEF FilesInv, CaptureSound, hostRow
  <2> QED BY <2>1, <2>4, <2>5, <2>6 DEF FilesInv, hostRow
<1>2. CASE PurgeOldRows(d)
  <2> DEFINE x == [pc |-> "unlink", host |-> 0, paths |-> outdated]
  <2>1. /\ deletion' = [deletion EXCEPT ![d] = x]
        /\ rows' = rows \ outdated /\ outdated' = {}
        /\ UNCHANGED <<hostRow, capture, files, thumbs, preview, orphans, shotFaults>>
    BY <1>2 DEF PurgeOldRows
  <2>2. x \in DeletionStates /\ outdated \subseteq rows
    BY ShotAssumption DEF FilesInv, ShotTypeOK, DeletionStates
  <2>3. rows \subseteq {s \in Shots : capture[s].pc = "done"} BY DEF FilesInv, ShotTypeOK, CaptureSound
  <2>4. deletion' \in [Deleters -> DeletionStates] /\ DeletionSound'
    BY <2>1, <2>2, <2>3, DeletionMoves DEF hostRow
  <2>5. ShotTypeOK' BY <2>1, <2>4 DEF FilesInv, ShotTypeOK, DeletionStates, hostRow
  <2>6. CaptureSound' BY <2>1 DEF FilesInv, CaptureSound, hostRow
  <2> QED BY <2>1, <2>4, <2>5, <2>6 DEF FilesInv, hostRow
<1> QED BY <1>1, <1>2

LEMMA DeleteStep ==
  ASSUME FilesInv, NEW d \in Deleters, DeleteHost(d) \/ DeleteFiles(d) PROVE FilesInv'
<1>d. deletion[d] \in DeletionStates BY DEF FilesInv, ShotTypeOK, DeletionStates
<1>s. deletion[d].paths \subseteq {s \in Shots : capture[s].pc = "done"} BY DEF FilesInv, DeletionSound
<1>1. CASE DeleteHost(d)
  <2> DEFINE x == [deletion[d] EXCEPT !.pc = "unlink"]
  <2>0. x \in DeletionStates /\ x.pc = "unlink" /\ x.paths = deletion[d].paths BY <1>d, DeletionFields
  <2>1. deletion[d].pc = "rows" /\ UNCHANGED <<hostCount, capture, files, thumbs, preview, orphans, shotFaults>>
    BY <1>1 DEF DeleteHost
  <2>2. \/ /\ hostId' = 0 /\ rows' = {} /\ outdated' = {}
           /\ deletion' = [deletion EXCEPT ![d] = x]
        \/ /\ deletion[d].host # hostId /\ UNCHANGED <<hostId, rows, outdated>>
           /\ deletion' = [deletion EXCEPT ![d] = x] \/ deletion' = [deletion EXCEPT ![d] = NoDeletion]
    <3>1. [deletion EXCEPT ![d].pc = "unlink"] = [deletion EXCEPT ![d] = x] OBVIOUS
    <3> QED BY <1>1, <3>1 DEF DeleteHost
  <2> HIDE DEF x
  <2>3. /\ rows' \subseteq rows /\ (hostId' # hostId => rows' = {}) /\ (hostId' = 0 => rows' = {})
        /\ hostId' \in 0 .. MaxHosts /\ hostId' <= hostCount /\ outdated' \in SUBSET rows'
    BY <2>2, ShotAssumption DEF FilesInv, ShotTypeOK
  <2>4. deletion' \in [Deleters -> DeletionStates] /\ DeletionSound'
    <3>1. x.paths \cap rows' = {}
      BY <2>0, <2>1, <2>2 DEF FilesInv, DeletionSound
    <3>2. CASE deletion' = [deletion EXCEPT ![d] = x]
      BY <1>s, <2>0, <2>1, <2>3, <3>1, <3>2, DeletionMoves
    <3>3. CASE deletion' = [deletion EXCEPT ![d] = NoDeletion]
      <4>1. NoDeletion \in DeletionStates /\ NoDeletion.pc = "idle" /\ NoDeletion.paths = {} BY NoDeletionType
      <4> QED BY <2>1, <2>3, <3>3, <4>1, DeletionMoves
    <3> QED BY <2>2, <3>2, <3>3
  <2>5. ShotTypeOK' BY <2>1, <2>3, <2>4 DEF FilesInv, ShotTypeOK, DeletionStates
  <2>6. CaptureSound' BY <2>1, <2>3 DEF FilesInv, CaptureSound
  <2> QED BY <2>1, <2>3, <2>4, <2>5, <2>6 DEF FilesInv
<1>2. CASE DeleteFiles(d)
  <2> DEFINE S == deletion[d].paths
  <2>1. /\ files' = Gone(S, files) /\ thumbs' = Gone(S, thumbs)
        /\ deletion' = [deletion EXCEPT ![d] = NoDeletion] /\ deletion[d].pc = "unlink"
        /\ UNCHANGED <<hostRow, capture, rows, outdated, preview, orphans, shotFaults>>
    BY <1>2 DEF DeleteFiles
  <2>2. S \in SUBSET Shots /\ S \cap rows = {} /\ \A s \in S : capture[s].pc = "done"
    BY <1>d, <1>s, <2>1 DEF FilesInv, DeletionSound, DeletionStates
  <2> HIDE DEF S
  <2>3. thumbs' \in [Shots -> FileAge] BY <2>1, <2>2, GoneType DEF FilesInv, ShotTypeOK
  <2>4. files' \in [Shots -> FileAge] /\ CaptureSound' BY <2>1, <2>2, <2>3, UnlinkKeeps
  <2>5. deletion' \in [Deleters -> DeletionStates] /\ DeletionSound'
    BY <2>1, NoDeletionType, DeletionMoves DEF hostRow
  <2>6. ShotTypeOK' BY <2>1, <2>3, <2>4, <2>5 DEF FilesInv, ShotTypeOK, DeletionStates, hostRow
  <2> QED BY <2>1, <2>4, <2>5, <2>6 DEF FilesInv, hostRow
<1> QED BY <1>1, <1>2

LEMMA FaultStep == ASSUME FilesInv, ShotFault PROVE FilesInv'
<1>1. UNCHANGED <<hostRow, rows, outdated, files, thumbs>> BY DEF ShotFault
<1>2. shotFaults' \in 0 .. MaxShotFaults BY FaultType DEF ShotFault, FilesInv
<1>c. capture \in [Shots -> CaptureStates] BY DEF FilesInv, ShotTypeOK, CaptureStates
<1>d. deletion \in [Deleters -> DeletionStates] BY DEF FilesInv, ShotTypeOK, DeletionStates
<1>3. /\ capture' \in [Shots -> CaptureStates]
      /\ \A s \in Shots : capture'[s] = capture[s] \/ capture'[s].pc = "done"
  <2>1. \A s \in Shots : [capture[s] EXCEPT !.pc = "done"] \in CaptureStates
                         /\ [capture[s] EXCEPT !.pc = "done"].pc = "done"
    BY <1>c, CaptureFields, ZenonT(60)
  <2>2. CASE \E s \in Shots : capture' = [capture EXCEPT ![s].pc = "done"]
    <3>1. PICK s \in Shots : capture' = [capture EXCEPT ![s].pc = "done"] BY <2>2
    <3>2. capture' = [capture EXCEPT ![s] = [capture[s] EXCEPT !.pc = "done"]] BY <3>1
    <3> QED BY <1>c, <2>1, <3>2
  <2>3. CASE capture' = capture BY <1>c, <2>3
  <2>4. CASE capture' = [s \in Shots |-> IF capture[s].pc = "none" THEN capture[s]
                                         ELSE [capture[s] EXCEPT !.pc = "done"]]
    BY <1>c, <2>1, <2>4
  <2> QED BY <2>2, <2>3, <2>4 DEF ShotFault
<1>4. /\ deletion' \in [Deleters -> DeletionStates]
      /\ \A d \in Deleters : deletion'[d] = deletion[d] \/ deletion'[d] = NoDeletion
  BY <1>d, NoDeletionType DEF ShotFault
<1>5. orphans' \in [pc : {"idle", "query"}, listed : SUBSET Shots] /\ preview' \in SUBSET Shots
  BY DEF ShotFault, FilesInv, ShotTypeOK, NoSweep
<1>6. ShotTypeOK' BY <1>1, <1>2, <1>3, <1>4, <1>5 DEF FilesInv, ShotTypeOK, CaptureStates, DeletionStates, hostRow
<1>7. CaptureSound' BY <1>1, <1>3 DEF FilesInv, CaptureSound, hostRow
<1>8. DeletionSound'
  <2>1. \A s \in Shots : capture[s].pc = "done" => capture'[s].pc = "done" BY <1>3
  <2> QED BY <1>1, <1>4, <2>1, NoDeletionType DEF FilesInv, DeletionSound, hostRow
<1> QED BY <1>1, <1>6, <1>7, <1>8 DEF FilesInv, hostRow

LEMMA FilesStep == ASSUME FilesInv, [ShotNext]_shotVars PROVE FilesInv'
<1>1. CASE UNCHANGED shotVars
  BY <1>1 DEF shotVars, FilesInv, ShotTypeOK, CaptureSound, DeletionSound
<1>2. CASE ShotNext
  BY <1>2, HostFoundStep, ShotCaptureStep, PreviewStep, AgeingStep, CollectStep, DeleteStep, SweepStep, FaultStep
     DEF ShotNext
<1> QED BY <1>1, <1>2

\* Every variable stays in its type, and no row outlives its host.
THEOREM ShotTypeCorrect == ShotSpec => []ShotTypeOK
<1>1. FilesInv => ShotTypeOK BY DEF FilesInv
<1> QED BY <1>1, FilesInit, FilesStep, PTL DEF ShotSpec

\* The file of every row is there (files.ts:81-91), whatever captures,
\* deletions, sweeps and faults meet, for any number of each.
THEOREM RowsStayWhole == ShotSpec => []RowsAreWhole
<1>1. FilesInv => RowsAreWhole BY DEF FilesInv, CaptureSound, RowsAreWhole, RowsHaveFiles, ShotTypeOK
<1> QED BY <1>1, FilesInit, FilesStep, PTL DEF ShotSpec

(***************************************************************************)
(* BackupRuns. The flag is set while a run is under way, and without one   *)
(* only where the settings could not be read. What has left the target has *)
(* enough newer archives behind it for good, since archives only get more, *)
(* and what a run is about to prune has them already.                      *)
(***************************************************************************)

FlagHeld ==
    /\ backup.pc # "none" => running
    /\ backup.pc = "none" => backup = NoBackup /\ (running => jammed)

Newer(n) == {m \in delivered : m > n}

Shelved ==
    /\ delivered \subseteq 1 .. built /\ partial \subseteq 1 .. built
    /\ shelf \subseteq delivered /\ partial \cap delivered = {}
    /\ \A n \in delivered \ shelf : \E keep \in Keeps : Cardinality(Newer(n)) >= keep
    /\ lastRun.status = "succeeded" => lastRun.archive \in delivered

\* What a run knows in each of its phases.
RunKnows ==
    /\ backup.pc \in {"build", "copy", "rename", "list", "prune", "succeed"} => backup.keep \in Keeps
    /\ backup.pc \in {"copy", "rename"} => backup.archive \in (1 .. built) \ delivered
    /\ backup.pc \in {"list", "prune", "succeed"} => backup.archive \in delivered
    /\ backup.pc = "prune" =>
          /\ \A n \in backup.doomed : Cardinality(Newer(n)) >= backup.keep
          /\ Cardinality(shelf \ backup.doomed) <= backup.keep
    /\ backup.pc = "succeed" => Cardinality(shelf) <= backup.keep

BackupInv ==
    /\ BackupTypeOK
    /\ FlagHeld
    /\ Shelved
    /\ RunKnows
    /\ over \ recorded \subseteq unheard

\* A set of numbers has a least one.
LEMMA LeastOne ==
  ASSUME NEW S, S \subseteq Nat, S # {}
  PROVE  \E x \in S : \A y \in S : x <= y
<1> DEFINE Less == {ss \in Nat \X Nat : ss[1] < ss[2]}
<1>1. IsWellFoundedOn(Less, Nat) BY NatLessThanWellFounded DEF OpToRel
<1>2. PICK x \in S : \A y \in S : ~(<<y, x>> \in Less) BY <1>1, WFMin
<1>3. \A y \in S : ~(y < x) BY <1>2
<1> QED BY <1>3

\* Pruning leaves as many as are to be kept: of those that stay, the least has
\* fewer newer ones than that.
LEMMA KeptAreFew ==
  ASSUME NEW S, S \subseteq Nat, IsFiniteSet(S), NEW keep \in Nat \ {0}
  PROVE  Cardinality(S \ ArchivesToPrune(S, keep)) <= keep
<1> DEFINE Kept == S \ ArchivesToPrune(S, keep)
           After(n) == {m \in S : m > n}
<1>1. IsFiniteSet(Kept) BY FS_Subset
<1>2. CASE Kept = {} BY <1>2, FS_EmptySet
<1>3. CASE Kept # {}
  <2>1. PICK x \in Kept : \A y \in Kept : x <= y BY <1>3, LeastOne
  <2>2. IsFiniteSet(After(x)) /\ Cardinality(After(x)) \in Nat BY FS_Subset, FS_CardinalityType
  <2>3. Cardinality(After(x)) < keep BY <2>1, <2>2 DEF ArchivesToPrune
  <2> HIDE DEF After
  <2>4. IsFiniteSet(After(x) \cup {x}) /\ Cardinality(After(x) \cup {x}) <= Cardinality(After(x)) + 1
    BY <2>2, FS_AddElement, SMTT(30)
  <2>5. ASSUME NEW y \in Kept, y # x PROVE y \in After(x)
    <3>1. x \in Nat /\ y \in Nat /\ x <= y BY <2>1
    <3>2. y > x BY <2>5, <3>1
    <3> QED BY <3>2 DEF After
  <2>6. Cardinality(Kept) <= Cardinality(After(x) \cup {x})
    <3>1. Kept \subseteq After(x) \cup {x} BY <2>5
    <3> QED BY <2>4, <3>1, FS_Subset
  <2>7. Cardinality(Kept) \in Nat /\ Cardinality(After(x) \cup {x}) \in Nat BY <1>1, <2>4, FS_CardinalityType
  <2> QED BY <2>2, <2>3, <2>4, <2>6, <2>7
<1> QED BY <1>2, <1>3

LEMMA ArchivesAreFinite ==
  ASSUME NEW S, S \subseteq Archives
  PROVE  IsFiniteSet(S) /\ Cardinality(S) \in Nat /\ S \subseteq Nat
<1>1. IsFiniteSet(Archives) BY BackupAssumption, FS_Interval DEF Archives
<1>2. IsFiniteSet(S) BY <1>1, FS_Subset
<1>3. S \subseteq Nat BY BackupAssumption DEF Archives
<1> QED BY <1>2, <1>3, FS_CardinalityType

\* Archives that are newer than one only get more.
LEMMA NewerGrow ==
  ASSUME delivered \subseteq delivered', delivered' \subseteq Archives, NEW n
  PROVE  /\ Cardinality(Newer(n)) \in Nat /\ Cardinality(Newer(n)') \in Nat
         /\ Cardinality(Newer(n)) <= Cardinality(Newer(n)')
<1>1. Newer(n) \subseteq Newer(n)' /\ Newer(n)' \subseteq Archives BY DEF Newer
<1>2. IsFiniteSet(Newer(n)') BY <1>1, ArchivesAreFinite
<1> QED BY <1>1, <1>2, ArchivesAreFinite, FS_Subset

LEMMA BackupInvInit == BackupInit => BackupInv
<1> SUFFICES ASSUME BackupInit PROVE BackupInv OBVIOUS
<1>1. 1 \in Days /\ 0 \in 0 .. MaxDay /\ 0 \in 0 .. MaxArchives /\ 0 \in 0 .. MaxBackupFaults
  BY BackupAssumption DEF Days
<1>2. schedule \in [enabled : BOOLEAN, keep : Keeps] BY DEF BackupInit
<1>3. NoBackup \in [pc : Phases, due : 0 .. MaxDay, keep : Keeps \cup {1},
                     archive : 0 .. MaxArchives, doomed : SUBSET Archives]
  BY <1>1 DEF NoBackup, Phases
<1>4. BackupTypeOK BY <1>1, <1>2, <1>3 DEF BackupInit, BackupTypeOK
<1> QED BY <1>4 DEF BackupInit, BackupInv, FlagHeld, Shelved, RunKnows, NoBackup

\* What the invariant says of the target stays as long as the target does.
LEMMA TargetStays ==
  ASSUME BackupInv, UNCHANGED <<target, lastRun>>
  PROVE  Shelved'
BY DEF BackupInv, Shelved, target, Newer

\* The clock, the ticker's reads and the settings touch no run.
LEMMA SettingsStep ==
  ASSUME BackupInv,
         \/ TimePasses \/ ReadClock
         \/ \E on \in BOOLEAN, keep \in Keeps : SetBackupSchedule(on, keep)
  PROVE  BackupInv'
<1>1. UNCHANGED <<running, backup, target, lastRun, ends, jammed, backupFaults>>
  BY DEF TimePasses, ReadClock, SetBackupSchedule
<1>2. BackupTypeOK'
  <2>0. day \in Days /\ (day < MaxDay => day + 1 \in Days)
    BY BackupAssumption DEF BackupInv, BackupTypeOK, Days
  <2>1. day' \in Days /\ inHour' \in BOOLEAN /\ tickReads' \in BOOLEAN /\ claimed' = claimed
    BY <2>0 DEF BackupInv, BackupTypeOK, TimePasses, ReadClock, SetBackupSchedule, clock
  <2>2. schedule' \in [enabled : BOOLEAN, keep : Keeps]
    BY DEF BackupInv, BackupTypeOK, TimePasses, ReadClock, SetBackupSchedule
  <2> QED BY <1>1, <2>1, <2>2 DEF BackupInv, BackupTypeOK, target, ends
<1>3. Shelved' BY <1>1, TargetStays
<1> QED BY <1>1, <1>2, <1>3 DEF BackupInv, FlagHeld, RunKnows, Newer, target, ends

\* A run enters where no other does.
LEMMA EnterStep == ASSUME BackupInv, ClaimDay \/ RunNow PROVE BackupInv'
<1>1. UNCHANGED <<clock, schedule, target, lastRun, jammed, backupFaults>> BY DEF ClaimDay, RunNow
<1>2. \/ /\ UNCHANGED <<running, backup, recorded>>
         /\ \E due \in SUBSET {day} : over' = over \cup due /\ unheard' = unheard \cup due
      \/ /\ running' = TRUE /\ UNCHANGED ends
         /\ \E due \in {0, day} : backup' = [NoBackup EXCEPT !.pc = "settings", !.due = due]
  <2>1. CASE UNCHANGED <<running, backup, ends>>
    <3>1. over' = over \cup {} /\ unheard' = unheard \cup {} /\ {} \in SUBSET {day} BY <2>1 DEF ends
    <3> QED BY <2>1, <3>1 DEF ends
  <2>2. CASE \E due \in {{}, {day}} : Enter(due)
    <3>1. PICK due \in {{}, {day}} : Enter(due) BY <2>2
    <3> QED BY <3>1 DEF Enter
  <2> QED BY <2>1, <2>2 DEF ClaimDay, RunNow
<1>3. day \in Days /\ day \in 0 .. MaxDay /\ 0 \in 0 .. MaxDay BY BackupAssumption DEF BackupInv, BackupTypeOK, Days
<1>4. claimed' \in 0 .. MaxDay /\ tickReads' \in BOOLEAN
  BY <1>3 DEF ClaimDay, RunNow, BackupInv, BackupTypeOK
<1>5. Shelved' BY <1>1, TargetStays
<1>6. CASE UNCHANGED <<running, backup, recorded>>
           /\ \E due \in SUBSET {day} : over' = over \cup due /\ unheard' = unheard \cup due
  <2>1. BackupTypeOK' BY <1>1, <1>3, <1>4, <1>6 DEF BackupInv, BackupTypeOK, clock, target
  <2>2. (over \ recorded \subseteq unheard)' BY <1>6 DEF BackupInv
  <2> QED BY <1>1, <1>5, <1>6, <2>1, <2>2 DEF BackupInv, FlagHeld, RunKnows, Newer, target
<1>7. CASE running' = TRUE /\ UNCHANGED ends
           /\ \E due \in {0, day} : backup' = [NoBackup EXCEPT !.pc = "settings", !.due = due]
  <2>1. PICK due \in {0, day} : backup' = [NoBackup EXCEPT !.pc = "settings", !.due = due] BY <1>7
  <2>2. backup' = [pc |-> "settings", due |-> due, keep |-> 1, archive |-> 0, doomed |-> {}]
    BY <2>1 DEF NoBackup
  <2>3. due \in 0 .. MaxDay BY <1>3
  <2>4. BackupTypeOK' BY <1>1, <1>3, <1>4, <1>7, <2>2, <2>3, BackupAssumption
    DEF BackupInv, BackupTypeOK, clock, target, ends, Phases
  <2> QED BY <1>5, <1>7, <2>2, <2>4 DEF BackupInv, FlagHeld, RunKnows, ends
<1> QED BY <1>2, <1>6, <1>7

-----------------------------------------------------------------------------
\* The steps of a run

Frame == <<clock, schedule, claimed, tickReads, running, lastRun, ends, jammed>>

\* A step within a run: what it makes of the run, of the target and what it
\* knows then is all there is to show.
LEMMA WithinRun ==
  ASSUME BackupInv, UNCHANGED Frame, backup.pc # "none", backup'.pc # "none",
         backup' \in [pc : Phases, due : 0 .. MaxDay, keep : Keeps \cup {1},
                      archive : 0 .. MaxArchives, doomed : SUBSET Archives],
         built' \in 0 .. MaxArchives, backupFaults' \in 0 .. MaxBackupFaults,
         Shelved', RunKnows'
  PROVE  BackupInv'
<1>0. MaxArchives \in Nat BY BackupAssumption
<1>1. 1 .. built' \subseteq Archives BY <1>0 DEF Archives
<1>2. {shelf', partial', delivered'} \subseteq SUBSET Archives BY <1>1 DEF Shelved
<1>3. BackupTypeOK' BY <1>2 DEF Frame, clock, ends, BackupInv, BackupTypeOK
<1> QED BY <1>3 DEF BackupInv, FlagHeld, Frame, ends

\* What a step of a run finds.
LEMMA RunFound ==
  ASSUME BackupInv
  PROVE  /\ backup \in [pc : Phases, due : 0 .. MaxDay, keep : Keeps \cup {1},
                        archive : 0 .. MaxArchives, doomed : SUBSET Archives]
         /\ built \in 0 .. MaxArchives /\ backupFaults \in 0 .. MaxBackupFaults
         /\ schedule.keep \in Keeps
         /\ delivered \subseteq Archives /\ shelf \subseteq delivered
         /\ MaxArchives \in Nat /\ MaxBackupFaults \in Nat /\ Keeps \subseteq Nat \ {0}
BY BackupAssumption DEF BackupInv, BackupTypeOK, Shelved

\* Until the archive is under its name, nothing of the target is told of it.
LEMMA BuildStep ==
  ASSUME BackupInv, GetBackupSchedule \/ BuildArchive \/ BuildFails \/ CopyPartial
  PROVE  BackupInv'
<1>1. UNCHANGED Frame /\ UNCHANGED <<shelf, delivered, backupFaults>>
  BY DEF GetBackupSchedule, BuildArchive, BuildFails, CopyPartial, Only, target, Frame
<1>2. backup.pc # "none" /\ backup'.pc # "none"
      /\ backup' \in [pc : Phases, due : 0 .. MaxDay, keep : Keeps \cup {1},
                      archive : 0 .. MaxArchives, doomed : SUBSET Archives]
  <2>1. CASE GetBackupSchedule BY <2>1, RunFound DEF GetBackupSchedule, Only, Phases
  <2>2. CASE BuildArchive
    <3>1. built + 1 \in 0 .. MaxArchives BY <2>2, RunFound DEF BuildArchive
    <3> QED BY <2>2, <3>1, RunFound DEF BuildArchive, Only, Phases
  <2>3. CASE BuildFails \/ CopyPartial BY <2>3, RunFound DEF BuildFails, CopyPartial, Only, Phases
  <2> QED BY <2>1, <2>2, <2>3
<1>3. built' \in 0 .. MaxArchives /\ built <= built'
  BY RunFound DEF GetBackupSchedule, BuildArchive, BuildFails, CopyPartial, target
<1>4. Shelved'
  <2>1. partial' \subseteq 1 .. built' /\ partial' \cap delivered = {}
    BY <1>3, RunFound
    DEF BackupInv, Shelved, RunKnows, GetBackupSchedule, BuildArchive, BuildFails, CopyPartial, target
  <2>2. delivered' \subseteq 1 .. built' BY <1>1, <1>3, RunFound DEF BackupInv, Shelved
  <2> QED BY <1>1, <2>1, <2>2 DEF BackupInv, Shelved, Newer, Frame
<1>5. RunKnows'
  <2>1. backup'.pc \in {"build", "copy", "rename", "fail"}
    BY RunFound DEF GetBackupSchedule, BuildArchive, BuildFails, CopyPartial, Only
  <2>2. backup'.pc # "fail" => backup'.keep \in Keeps
    BY RunFound DEF BackupInv, RunKnows, GetBackupSchedule, BuildArchive, BuildFails, CopyPartial, Only
  <2>3. backup'.pc \in {"copy", "rename"} => backup'.archive \in (1 .. built') \ delivered'
    <3>1. CASE BuildArchive
      <4>1. backup'.archive = built + 1 /\ built' = built + 1 /\ delivered' = delivered
        BY <3>1, RunFound DEF BuildArchive, Only
      <4>2. built + 1 \notin delivered BY RunFound DEF BackupInv, Shelved
      <4> QED BY <4>1, <4>2, RunFound
    <3>2. CASE CopyPartial
      BY <3>2, RunFound DEF CopyPartial, Only, BackupInv, RunKnows
    <3>3. CASE GetBackupSchedule \/ BuildFails BY <3>3, RunFound DEF GetBackupSchedule, BuildFails, Only
    <3> QED BY <3>1, <3>2, <3>3
  <2> QED BY <2>1, <2>2, <2>3 DEF RunKnows
<1> QED BY <1>1, <1>2, <1>3, <1>4, <1>5, RunFound, WithinRun

LEMMA RenameStep == ASSUME BackupInv, Rename PROVE BackupInv'
<1>1. /\ backup.pc = "rename" /\ backup' = [backup EXCEPT !.pc = "list"]
      /\ partial' = partial \ {backup.archive} /\ shelf' = shelf \cup {backup.archive}
      /\ delivered' = delivered \cup {backup.archive}
      /\ UNCHANGED <<built, backupFaults>> /\ UNCHANGED Frame
  BY DEF Rename, Only, Frame
<1>2. backup.archive \in 1 .. built /\ backup.keep \in Keeps BY <1>1 DEF BackupInv, RunKnows
<1>3. delivered \subseteq delivered' /\ delivered' \subseteq Archives
  BY <1>1, <1>2, RunFound DEF Archives
<1>4. Shelved'
  <2>1. ASSUME NEW n \in delivered' \ shelf' PROVE \E keep \in Keeps : Cardinality(Newer(n)') >= keep
    <3>1. n \in delivered \ shelf BY <1>1
    <3>2. PICK keep \in Keeps : Cardinality(Newer(n)) >= keep BY <3>1 DEF BackupInv, Shelved
    <3> QED BY <1>3, <3>2, NewerGrow, RunFound
  <2> QED BY <1>1, <1>2, <2>1 DEF BackupInv, Shelved, Frame
<1>5. backup'.pc = "list" /\ backup'.keep \in Keeps /\ backup'.archive \in delivered'
  BY <1>1, <1>2, RunFound
<1>6. RunKnows' BY <1>5 DEF RunKnows
<1>7. backup' \in [pc : Phases, due : 0 .. MaxDay, keep : Keeps \cup {1},
                   archive : 0 .. MaxArchives, doomed : SUBSET Archives]
  BY <1>1, RunFound DEF Phases
<1> QED BY <1>1, <1>4, <1>5, <1>6, <1>7, RunFound, WithinRun

\* What the list tells to prune has as many newer ones, and no more stay.
LEMMA ListStep == ASSUME BackupInv, ListShelf PROVE BackupInv'
<1> DEFINE doomed == ArchivesToPrune(shelf, backup.keep)
<1>1. /\ backup.pc = "list" /\ backup' = [backup EXCEPT !.pc = "prune", !.doomed = doomed]
      /\ UNCHANGED <<target, backupFaults>> /\ UNCHANGED Frame
  BY DEF ListShelf, Only, Frame
<1>2. doomed \subseteq shelf BY DEF ArchivesToPrune
<1>3. ASSUME NEW n \in doomed PROVE Cardinality(Newer(n)) >= backup.keep
  <2>1. {m \in shelf : m > n} \subseteq Newer(n) /\ Newer(n) \subseteq Archives BY RunFound DEF Newer
  <2>2. Cardinality({m \in shelf : m > n}) >= backup.keep BY <1>3 DEF ArchivesToPrune
  <2>3. Cardinality({m \in shelf : m > n}) <= Cardinality(Newer(n))
        /\ Cardinality({m \in shelf : m > n}) \in Nat /\ Cardinality(Newer(n)) \in Nat
    BY <2>1, ArchivesAreFinite, FS_Subset
  <2>4. backup.keep \in Nat BY RunFound
  <2> QED BY <2>2, <2>3, <2>4
<1>4. backup.keep \in Keeps /\ backup.archive \in delivered BY <1>1 DEF BackupInv, RunKnows
<1>5. Cardinality(shelf \ doomed) <= backup.keep
  <2>1. shelf \subseteq Archives BY RunFound
  <2> QED BY <1>4, <2>1, ArchivesAreFinite, KeptAreFew, RunFound
<1> HIDE DEF doomed
<1>6. backup'.pc = "prune" /\ backup'.keep = backup.keep /\ backup'.archive = backup.archive
      /\ backup'.doomed = doomed
  BY <1>1, RunFound
<1>7. RunKnows' BY <1>1, <1>3, <1>4, <1>5, <1>6 DEF RunKnows, Newer, target
<1>8. backup' \in [pc : Phases, due : 0 .. MaxDay, keep : Keeps \cup {1},
                   archive : 0 .. MaxArchives, doomed : SUBSET Archives]
  <2>1. doomed \in SUBSET Archives BY <1>2, RunFound
  <2> QED BY <1>1, <2>1, RunFound DEF Phases
<1>9. UNCHANGED lastRun BY <1>1 DEF Frame
<1>10. Shelved' BY <1>1, <1>9, TargetStays
<1>11. built' = built BY <1>1 DEF target
<1> QED BY <1>1, <1>6, <1>7, <1>8, <1>10, <1>11, RunFound, WithinRun

\* An archive that is pruned has the newer ones it needs.
LEMMA PruneStep == ASSUME BackupInv, PruneOne PROVE BackupInv'
<1>1. PICK n \in backup.doomed : shelf' = shelf \ {n} /\ Only([backup EXCEPT !.doomed = @ \ {n}])
  BY DEF PruneOne
<1>2. /\ backup.pc = "prune" /\ UNCHANGED Frame /\ UNCHANGED <<built, partial, delivered, backupFaults>>
  BY <1>1 DEF PruneOne, Only, Frame
<1>3. backup' = [backup EXCEPT !.doomed = backup.doomed \ {n}] BY <1>1, RunFound DEF Only
<1>4. /\ backup'.pc = "prune" /\ backup'.keep = backup.keep /\ backup'.archive = backup.archive
      /\ backup'.doomed = backup.doomed \ {n}
  BY <1>2, <1>3, RunFound
<1>5. /\ backup.keep \in Keeps /\ backup.archive \in delivered
      /\ \A m \in backup.doomed : Cardinality(Newer(m)) >= backup.keep
      /\ Cardinality(shelf \ backup.doomed) <= backup.keep
  BY <1>2 DEF BackupInv, RunKnows
<1>6. Shelved'
  <2>1. \A m \in delivered \ shelf' : \E keep \in Keeps : Cardinality(Newer(m)) >= keep
    BY <1>1, <1>5 DEF BackupInv, Shelved
  <2> QED BY <1>1, <1>2, <2>1 DEF BackupInv, Shelved, Newer, Frame
<1>7. Cardinality(shelf' \ backup'.doomed) <= backup'.keep
  <2>1. shelf' \ backup'.doomed = shelf \ backup.doomed BY <1>1, <1>4
  <2> QED BY <1>4, <1>5, <2>1
<1>8. RunKnows' BY <1>2, <1>4, <1>5, <1>7 DEF RunKnows, Newer
<1>9. backup' \in [pc : Phases, due : 0 .. MaxDay, keep : Keeps \cup {1},
                   archive : 0 .. MaxArchives, doomed : SUBSET Archives]
  BY <1>3, RunFound
<1> QED BY <1>2, <1>4, <1>6, <1>8, <1>9, RunFound, WithinRun

LEMMA PruneDoneStep == ASSUME BackupInv, PruneDone \/ StepFails PROVE BackupInv'
<1>1. /\ UNCHANGED target /\ UNCHANGED Frame /\ backup.pc # "none"
      /\ \/ backup' = [backup EXCEPT !.pc = "fail"]
         \/ /\ backup.pc = "prune" /\ backup.doomed = {}
            /\ backup' = [backup EXCEPT !.pc = "succeed"]
  BY DEF PruneDone, StepFails, Only, Frame
<1>2. backupFaults' \in 0 .. MaxBackupFaults BY RunFound DEF PruneDone, StepFails, Only
<1>3. backup'.pc \in {"succeed", "fail"} BY <1>1, RunFound
<1>4. RunKnows'
  <2>1. CASE backup' = [backup EXCEPT !.pc = "fail"] BY <2>1, RunFound DEF RunKnows
  <2>2. CASE backup.pc = "prune" /\ backup.doomed = {} /\ backup' = [backup EXCEPT !.pc = "succeed"]
    <3>1. backup'.keep = backup.keep /\ backup'.archive = backup.archive /\ backup'.pc = "succeed"
      BY <2>2, RunFound
    <3>2. Cardinality(shelf) <= backup.keep
      <4>1. shelf \ backup.doomed = shelf BY <2>2
      <4> QED BY <2>2, <4>1 DEF BackupInv, RunKnows
    <3> QED BY <1>1, <2>2, <3>1, <3>2 DEF BackupInv, RunKnows, target
  <2> QED BY <1>1, <2>1, <2>2
<1>5. backup' \in [pc : Phases, due : 0 .. MaxDay, keep : Keeps \cup {1},
                   archive : 0 .. MaxArchives, doomed : SUBSET Archives]
  BY <1>1, RunFound DEF Phases
<1>6. UNCHANGED <<target, lastRun>> BY <1>1 DEF Frame
<1>7. Shelved' BY <1>6, TargetStays
<1> QED BY <1>1, <1>2, <1>3, <1>4, <1>5, <1>6, <1>7, RunFound, WithinRun DEF target

-----------------------------------------------------------------------------
\* The end of a run: its day is recorded, or unheard of, and the flag is
\* given back, but for a run that could not read its settings.
LEMMA EndOfBackupStep ==
  ASSUME BackupInv, RecordOutcome \/ SettingsFail \/ RecordFails \/ BackupRestart
  PROVE  BackupInv'
<1>1. UNCHANGED <<clock, schedule, claimed, target>> /\ backup' = NoBackup /\ over' = over \cup DaysOf(backup)
  BY DEF RecordOutcome, SettingsFail, RecordFails, BackupRestart, Leave
<1>2. running' \in BOOLEAN /\ (running' => jammed') /\ jammed' \in BOOLEAN
  BY DEF BackupInv, BackupTypeOK, RecordOutcome, SettingsFail, RecordFails, BackupRestart, Leave
<1>3. DaysOf(backup) \subseteq Days BY RunFound, BackupAssumption DEF DaysOf, Days
<1>4. /\ recorded \subseteq recorded' /\ unheard \subseteq unheard'
      /\ DaysOf(backup) \subseteq recorded' \cup unheard'
      /\ recorded' \cup unheard' \subseteq recorded \cup unheard \cup DaysOf(backup)
  BY DEF RecordOutcome, SettingsFail, RecordFails, BackupRestart
<1>5. (over \ recorded \subseteq unheard)' BY <1>1, <1>4 DEF BackupInv
<1>6. /\ lastRun' \in [status : {"none", "succeeded", "failed"}, archive : 0 .. MaxArchives]
      /\ lastRun'.status = "succeeded" => lastRun'.archive \in delivered
  <2>1. CASE UNCHANGED lastRun BY <2>1 DEF BackupInv, BackupTypeOK, Shelved
  <2>2. CASE lastRun' = [lastRun EXCEPT !.status = "failed"] BY <2>2 DEF BackupInv, BackupTypeOK
  <2>3. CASE backup.pc = "succeed" /\ lastRun' = [status |-> "succeeded", archive |-> backup.archive]
    BY <2>3, RunFound DEF BackupInv, RunKnows
  <2> QED BY <2>1, <2>2, <2>3 DEF RecordOutcome, SettingsFail, RecordFails, BackupRestart
<1>7. Shelved'
  BY <1>1, <1>6 DEF BackupInv, Shelved, Newer, target
<1>8. BackupTypeOK'
  <2>1. backupFaults' \in 0 .. MaxBackupFaults
    BY RunFound DEF RecordOutcome, SettingsFail, RecordFails, BackupRestart
  <2>2. tickReads' \in BOOLEAN
    BY DEF BackupInv, BackupTypeOK, RecordOutcome, SettingsFail, RecordFails, BackupRestart
  <2>3. NoBackup \in [pc : Phases, due : 0 .. MaxDay, keep : Keeps \cup {1},
                      archive : 0 .. MaxArchives, doomed : SUBSET Archives]
    BY BackupAssumption DEF NoBackup, Phases
  <2> QED BY <1>1, <1>2, <1>3, <1>4, <1>6, <2>1, <2>2, <2>3 DEF BackupInv, BackupTypeOK, clock, target
<1>9. RunKnows' /\ FlagHeld' BY <1>1, <1>2 DEF RunKnows, FlagHeld, NoBackup
<1> QED BY <1>5, <1>7, <1>8, <1>9 DEF BackupInv

LEMMA BackupInvStep == ASSUME BackupInv, [BackupNext]_backupVars PROVE BackupInv'
<1>1. CASE UNCHANGED backupVars
  BY <1>1 DEF backupVars, BackupInv, BackupTypeOK, FlagHeld, Shelved, RunKnows, Newer
<1>2. CASE BackupNext
  BY <1>2, SettingsStep, EnterStep, BuildStep, RenameStep, ListStep, PruneStep, PruneDoneStep, EndOfBackupStep
     DEF BackupNext, BackupStep
<1> QED BY <1>1, <1>2

\* The state of scheduled backups keeps its types.
THEOREM BackupTypeCorrect == BackupSpec => []BackupTypeOK
<1>1. BackupInv => BackupTypeOK BY DEF BackupInv
<1> QED BY <1>1, BackupInvInit, BackupInvStep, PTL DEF BackupSpec

\* For any number of days and archives, and any faults and restarts: an archive
\* leaves the target only for as many newer ones as are to be kept, a success
\* is recorded only of one that got there, and no run fails silently but where
\* the statements that would tell fail (backup/schedule.ts:185-187).
THEOREM BackupsStaySound == BackupSpec => []BackupsAreSound
<1>1. ASSUME BackupInv PROVE BackupsAreSound
  <2>1. TargetIsTended BY <1>1 DEF BackupInv, Shelved, RunKnows, Newer, TargetIsTended
  <2>2. RecordIsTrue BY <1>1 DEF BackupInv, Shelved, RecordIsTrue
  <2>3. FailuresAreTold BY <1>1 DEF BackupInv, FlagHeld, FailuresAreTold, NoBackup
  <2> QED BY <1>1, <2>1, <2>2, <2>3 DEF BackupInv, BackupsAreSound
<1> QED BY <1>1, BackupInvInit, BackupInvStep, PTL DEF BackupSpec

(***************************************************************************)
(* Restores. As long as two restores have not met and no load was cut off, *)
(* one restore at most is under way, and while it loads, what is in the    *)
(* database was put there since it saved it; after the load the database   *)
(* holds what it loaded but for what the webserver has touched since.      *)
(***************************************************************************)

RestoreKind ==
    [pc : {"none", "save", "load", "loading", "rolling", "files", "swap", "exit", "over"},
     whole : BOOLEAN, rows : SUBSET Captures, files : SUBSET Captures,
     saved : [whole : BOOLEAN, rows : SUBSET Captures], staged : SUBSET Captures]

Resting == {"none", "over"}
Loading(r) == restore[r].pc \in {"loading", "rolling"}

\* What was captured, deleted or unlinked is known to have moved before its
\* second half is done.
TrafficIsKnown == taking \cup leaving \subseteq moved

OneAtATime ==
    /\ \A q, r \in Uploads : restore[q].pc \notin Resting /\ restore[r].pc \notin Resting => q = r
    /\ \A r \in Uploads : restore[r].pc \in {"load", "loading", "rolling", "files", "swap"} => ~expected.known

LoadsAreTrue ==
    \A r \in Uploads :
        /\ Loading(r) => dbRows \subseteq moved
        /\ restore[r].pc \in {"files", "swap"} =>
              \A c \in Captures \ moved : c \in dbRows <=> c \in restore[r].rows

RestoreInv ==
    /\ RestoreTypeOK
    /\ TrafficIsKnown
    /\ ~twoMet => OneAtATime
    /\ ~twoMet /\ ~lost => LoadsAreTrue
    /\ whole \/ lost \/ twoMet \/ \E r \in Uploads : Loading(r)
    /\ RestoredIsThere
    /\ archive.pc = "files" => archive.rows \ disk \subseteq archive.bare
    /\ ArchiveIsConsistent

LEMMA RestoreInvInit == RestoreInit => RestoreInv
<1> SUFFICES ASSUME RestoreInit PROVE RestoreInv OBVIOUS
<1>1. NoRestore \in RestoreKind BY DEF NoRestore, RestoreKind
<1>2. 0 \in 0 .. MaxRestoreFaults BY RestoreAssumption
<1>3. RestoreTypeOK BY <1>1, <1>2 DEF RestoreInit, RestoreTypeOK, RestoreKind, NoArchive, Nothing
<1> QED BY <1>3
  DEF RestoreInit, RestoreInv, TrafficIsKnown, OneAtATime, LoadsAreTrue, RestoredIsThere, ArchiveIsConsistent,
      NoRestore, NoArchive, Nothing, Resting, Loading

ArchiveKind ==
    [pc : {"none", "files", "done"}, whole : BOOLEAN, rows : SUBSET Captures,
     files : SUBSET Captures, bare : SUBSET Captures]

\* Files S leave the disk, others may come: a backup under way hears of it.
ArchiveKeeps(S) ==
    /\ disk \subseteq disk' \cup S
    /\ archive' = IF archive.pc = "files" THEN [archive EXCEPT !.bare = @ \cup S] ELSE archive

LEMMA ArchiveMoves ==
  ASSUME RestoreInv, NEW S \in SUBSET Captures, ArchiveKeeps(S)
  PROVE  /\ archive' \in ArchiveKind
         /\ (archive.pc = "files" => archive.rows \ disk \subseteq archive.bare)'
         /\ ArchiveIsConsistent'
<1>1. archive \in ArchiveKind BY DEF RestoreInv, RestoreTypeOK, ArchiveKind
<1>2. CASE archive.pc = "files"
  <2>1. archive' = [archive EXCEPT !.bare = archive.bare \cup S] BY <1>1, <1>2 DEF ArchiveKeeps, ArchiveKind
  <2>2. archive'.pc = "files" /\ archive'.rows = archive.rows /\ archive'.bare = archive.bare \cup S
    BY <1>1, <1>2, <2>1 DEF ArchiveKind
  <2>3. archive' \in ArchiveKind BY <1>1, <2>1 DEF ArchiveKind
  <2> QED BY <1>2, <2>2, <2>3 DEF ArchiveKeeps, ArchiveIsConsistent, RestoreInv
<1>3. CASE archive.pc # "files" BY <1>1, <1>3 DEF ArchiveKeeps, ArchiveIsConsistent, RestoreInv
<1> QED BY <1>2, <1>3

\* A step that leaves the restores as they are, and of which what it changes in
\* the database and on disk counts as moved.
LEMMA TrafficMoves ==
  ASSUME RestoreInv, UNCHANGED <<restore, expected, twoMet, lost, whole>>, moved \subseteq moved',
         \A c \in Captures \ moved' : (c \in dbRows' <=> c \in dbRows) /\ (c \in disk' <=> c \in disk),
         dbRows' \subseteq dbRows \cup moved'
  PROVE  /\ ~twoMet' => OneAtATime'
         /\ ~twoMet' /\ ~lost' => LoadsAreTrue'
         /\ (whole \/ lost \/ twoMet \/ \E r \in Uploads : Loading(r))'
         /\ RestoredIsThere'
<1>1. ~twoMet => OneAtATime' BY DEF RestoreInv, OneAtATime
<1>2. ~twoMet /\ ~lost => LoadsAreTrue'
  <2> SUFFICES ASSUME ~twoMet, ~lost, NEW r \in Uploads
      PROVE  /\ Loading(r) => dbRows' \subseteq moved'
             /\ restore[r].pc \in {"files", "swap"} =>
                   \A c \in Captures \ moved' : c \in dbRows' <=> c \in restore[r].rows
    BY DEF LoadsAreTrue, Loading
  <2> QED BY DEF RestoreInv, LoadsAreTrue
<1>3. RestoredIsThere' BY DEF RestoreInv, RestoredIsThere
<1> QED BY <1>1, <1>2, <1>3 DEF RestoreInv, Loading

LEMMA CaptureStep ==
  ASSUME RestoreInv,
         \/ \E c \in Captures : WriteCapture(c) \/ InsertCapture(c) \/ DeleteCapture(c) \/ UnlinkCapture(c)
         \/ SweepList \/ SweepUnlink
  PROVE  RestoreInv'
<1>1. UNCHANGED <<restore, expected, twoMet, lost, whole, restoreFaults>>
  BY DEF WriteCapture, InsertCapture, DeleteCapture, UnlinkCapture, SweepList, SweepUnlink, verdicts
<1>2. /\ dbRows \in SUBSET Captures /\ disk \in SUBSET Captures /\ moved \in SUBSET Captures
      /\ taking \in SUBSET Captures /\ leaving \in SUBSET Captures /\ listed \in SUBSET Captures
      /\ taking \cup leaving \subseteq moved
  BY DEF RestoreInv, RestoreTypeOK, TrafficIsKnown
<1>3. /\ dbRows' \in SUBSET Captures /\ disk' \in SUBSET Captures /\ moved' \in SUBSET Captures
      /\ taking' \in SUBSET Captures /\ leaving' \in SUBSET Captures /\ listed' \in SUBSET Captures
      /\ moved \subseteq moved' /\ TrafficIsKnown'
      /\ \A c \in Captures \ moved' : (c \in dbRows' <=> c \in dbRows) /\ (c \in disk' <=> c \in disk)
      /\ dbRows' \subseteq dbRows \cup moved'
  <2>1. CASE \E c \in Captures : WriteCapture(c) \/ InsertCapture(c) \/ DeleteCapture(c)
    <3>1. PICK c \in Captures : WriteCapture(c) \/ InsertCapture(c) \/ DeleteCapture(c) BY <2>1
    <3> QED BY <1>2, <3>1 DEF WriteCapture, InsertCapture, DeleteCapture, TrafficIsKnown
  <2>2. CASE \E c \in Captures : UnlinkCapture(c)
    <3>1. PICK c \in Captures : UnlinkCapture(c) BY <2>2
    <3> QED BY <1>2, <3>1 DEF UnlinkCapture, Unlink, TrafficIsKnown
  <2>3. CASE SweepList \/ SweepUnlink BY <1>2, <2>3 DEF SweepList, SweepUnlink, Unlink, TrafficIsKnown
  <2> QED BY <2>1, <2>2, <2>3
<1>4. PICK S \in SUBSET Captures : ArchiveKeeps(S)
  <2>1. CASE archive' = archive /\ disk \subseteq disk'
    <3>1. archive = [archive EXCEPT !.bare = @ \cup {}] BY DEF RestoreInv, RestoreTypeOK
    <3>2. ArchiveKeeps({}) BY <2>1, <3>1 DEF ArchiveKeeps
    <3> QED BY <3>2
  <2>2. CASE \E S \in SUBSET Captures : Unlink(S)
    <3>1. PICK S \in SUBSET Captures : Unlink(S) BY <2>2
    <3>2. ArchiveKeeps(S) BY <1>2, <3>1 DEF Unlink, ArchiveKeeps
    <3> QED BY <3>2
  <2>3. (archive' = archive /\ disk \subseteq disk') \/ \E S \in SUBSET Captures : Unlink(S)
    BY <1>2 DEF WriteCapture, InsertCapture, DeleteCapture, UnlinkCapture, SweepList, SweepUnlink
  <2> QED BY <2>1, <2>2, <2>3
<1>5. RestoreTypeOK' BY <1>1, <1>3, <1>4, ArchiveMoves DEF RestoreInv, RestoreTypeOK, ArchiveKind
<1> QED BY <1>1, <1>3, <1>4, <1>5, ArchiveMoves, TrafficMoves DEF RestoreInv

LEMMA ArchiveStep == ASSUME RestoreInv, DumpDatabase \/ TarFiles \/ TarFails PROVE RestoreInv'
<1>1. UNCHANGED <<whole, dbRows, disk, traffic, restore, moved, verdicts, restoreFaults>>
  BY DEF DumpDatabase, TarFiles, TarFails
<1>2. archive \in ArchiveKind /\ whole \in BOOLEAN /\ disk \in SUBSET Captures /\ dbRows \in SUBSET Captures
  BY DEF RestoreInv, RestoreTypeOK, ArchiveKind
<1>3. /\ archive' \in ArchiveKind
      /\ (archive.pc = "files" => archive.rows \ disk \subseteq archive.bare)'
      /\ ArchiveIsConsistent'
  <2>1. CASE DumpDatabase BY <1>1, <1>2, <2>1 DEF DumpDatabase, ArchiveKind, ArchiveIsConsistent
  <2>2. CASE TarFiles
    <3>1. archive.pc = "files" /\ archive' = [archive EXCEPT !.pc = "done", !.files = disk] BY <2>2 DEF TarFiles
    <3>2. /\ archive' \in ArchiveKind /\ archive'.pc = "done"
          /\ archive'.rows = archive.rows /\ archive'.bare = archive.bare /\ archive'.files = disk
      BY <1>2, <3>1 DEF ArchiveKind
    <3> QED BY <3>1, <3>2 DEF RestoreInv, ArchiveIsConsistent
  <2>3. CASE TarFails BY <2>3 DEF TarFails, NoArchive, ArchiveKind, ArchiveIsConsistent
  <2> QED BY <2>1, <2>2, <2>3
<1>4. RestoreTypeOK' BY <1>1, <1>3 DEF RestoreInv, RestoreTypeOK, ArchiveKind, traffic, verdicts
<1> QED BY <1>1, <1>3, <1>4
  DEF RestoreInv, TrafficIsKnown, OneAtATime, LoadsAreTrue, Loading, RestoredIsThere, traffic, verdicts

\* A step of restore r that leaves the archive, the disk and the traffic alone:
\* what it makes of the database, and what it then knows, is all there is to
\* show.
LEMMA RestoreMoves ==
  ASSUME RestoreInv, NEW r \in Uploads, NEW x \in RestoreKind,
         restore' = [restore EXCEPT ![r] = x],
         UNCHANGED <<disk, traffic, archive>>,
         whole' \in BOOLEAN, dbRows' \in SUBSET Captures, twoMet' \in BOOLEAN, lost' \in BOOLEAN,
         restoreFaults' \in 0 .. MaxRestoreFaults,
         expected' \in [known : BOOLEAN, rows : SUBSET Captures, files : SUBSET Captures],
         moved' \in SUBSET Captures, taking \cup leaving \subseteq moved',
         ~twoMet' => OneAtATime', ~twoMet' /\ ~lost' => LoadsAreTrue',
         (whole \/ lost \/ twoMet \/ \E q \in Uploads : Loading(q))', RestoredIsThere'
  PROVE  RestoreInv'
<1>1. restore' \in [Uploads -> RestoreKind] BY DEF RestoreInv, RestoreTypeOK, RestoreKind
<1>2. RestoreTypeOK' BY <1>1 DEF RestoreInv, RestoreTypeOK, RestoreKind, traffic
<1>3. ArchiveIsConsistent' BY DEF RestoreInv, ArchiveIsConsistent
<1> QED BY <1>2, <1>3 DEF RestoreInv, TrafficIsKnown, traffic

LEMMA RestoreFound ==
  ASSUME RestoreInv
  PROVE  /\ restore \in [Uploads -> RestoreKind] /\ archive \in ArchiveKind
         /\ expected \in [known : BOOLEAN, rows : SUBSET Captures, files : SUBSET Captures]
         /\ dbRows \in SUBSET Captures /\ disk \in SUBSET Captures /\ moved \in SUBSET Captures
         /\ taking \in SUBSET Captures /\ leaving \in SUBSET Captures /\ listed \in SUBSET Captures
         /\ taking \cup leaving \subseteq moved
         /\ restoreFaults \in 0 .. MaxRestoreFaults /\ whole \in BOOLEAN /\ twoMet \in BOOLEAN /\ lost \in BOOLEAN
BY DEF RestoreInv, RestoreTypeOK, RestoreKind, ArchiveKind, TrafficIsKnown

LEMMA ToPhase ==
  ASSUME NEW y \in RestoreKind,
         NEW pc \in {"none", "save", "load", "loading", "rolling", "files", "swap", "exit", "over"}
  PROVE  /\ [y EXCEPT !.pc = pc] \in RestoreKind /\ [y EXCEPT !.pc = pc].pc = pc
         /\ [y EXCEPT !.pc = pc].rows = y.rows
         /\ [NoRestore EXCEPT !.pc = pc] \in RestoreKind /\ [NoRestore EXCEPT !.pc = pc].pc = pc
<1>1. NoRestore \in RestoreKind BY DEF NoRestore, RestoreKind
<1> QED BY <1>1 DEF RestoreKind

\* One restore takes a step.
LEMMA OneMoves ==
  ASSUME RestoreInv, NEW r \in Uploads, NEW x, restore' = [restore EXCEPT ![r] = x]
  PROVE  restore'[r] = x /\ \A q \in Uploads \ {r} : restore'[q] = restore[q]
BY RestoreFound

\* A restore begins, and saves the database: nothing is expected any more.
LEMMA StartRestoreStep == ASSUME RestoreInv, NEW r \in Uploads, StartRestore(r) PROVE RestoreInv'
<1> DEFINE x == [NoRestore EXCEPT !.pc = "save", !.whole = archive.whole,
                                  !.rows = archive.rows, !.files = archive.files]
<1>1. /\ restore' = [restore EXCEPT ![r] = x] /\ restore[r].pc = "none"
      /\ twoMet' = (twoMet \/ \E q \in Uploads \ {r} : restore[q].pc \notin Resting)
      /\ UNCHANGED <<whole, dbRows, disk, traffic, archive, expected, moved, lost, restoreFaults>>
  BY DEF StartRestore, Resting, IsAt
<1>2. x \in RestoreKind /\ x.pc = "save"
  <2>1. archive \in ArchiveKind BY RestoreFound
  <2>2. archive.whole \in BOOLEAN /\ archive.rows \in SUBSET Captures /\ archive.files \in SUBSET Captures
    BY <2>1 DEF ArchiveKind
  <2>3. NoRestore \in RestoreKind BY DEF NoRestore, RestoreKind
  <2> QED BY <2>2, <2>3 DEF RestoreKind
<1> HIDE DEF x
<1>3. restore'[r].pc = "save" /\ \A q \in Uploads \ {r} : restore'[q] = restore[q]
  BY <1>1, <1>2, OneMoves
<1>4. ~twoMet' => ~twoMet /\ OneAtATime'
  <2> SUFFICES ASSUME ~twoMet' PROVE ~twoMet /\ OneAtATime' OBVIOUS
  <2>1. ~twoMet /\ \A q \in Uploads \ {r} : restore[q].pc \in Resting BY <1>1
  <2>2. \A q \in Uploads \ {r} : restore'[q].pc \in Resting BY <1>3, <2>1
  <2> QED BY <1>3, <2>1, <2>2 DEF OneAtATime, Resting
<1>5. ~twoMet' /\ ~lost' => LoadsAreTrue' BY <1>1, <1>3, <1>4 DEF RestoreInv, LoadsAreTrue, Loading
<1>6. (whole \/ lost \/ twoMet \/ \E q \in Uploads : Loading(q))'
  BY <1>1, <1>3, <1>4 DEF RestoreInv, Loading
<1>7. RestoredIsThere' BY <1>1, <1>4 DEF RestoreInv, RestoredIsThere
<1>8. twoMet' \in BOOLEAN BY <1>1
<1> QED BY <1>1, <1>2, <1>4, <1>5, <1>6, <1>7, <1>8, RestoreFound, RestoreMoves

LEMMA SaveStep == ASSUME RestoreInv, NEW r \in Uploads, SaveDatabase(r) PROVE RestoreInv'
<1> DEFINE x == [restore[r] EXCEPT !.pc = "load", !.saved = [whole |-> whole, rows |-> dbRows]]
<1>1. /\ restore' = [restore EXCEPT ![r] = x] /\ restore[r].pc = "save"
      /\ moved' = taking \cup leaving \cup listed /\ expected' = Nothing
      /\ UNCHANGED <<whole, dbRows, disk, traffic, archive, twoMet, lost, restoreFaults>>
  BY RestoreFound DEF SaveDatabase, IsAt
<1>2. x \in RestoreKind /\ x.pc = "load"
  <2>1. restore[r] \in RestoreKind /\ dbRows \in SUBSET Captures /\ whole \in BOOLEAN BY RestoreFound
  <2> QED BY <2>1 DEF RestoreKind
<1> HIDE DEF x
<1>3. restore'[r].pc = "load" /\ \A q \in Uploads \ {r} : restore'[q] = restore[q]
  BY <1>1, <1>2, OneMoves
<1>4. ~twoMet' => OneAtATime' BY <1>1, <1>3 DEF RestoreInv, OneAtATime, Resting, Nothing
<1>5. ~twoMet' /\ ~lost' => LoadsAreTrue'
  BY <1>1, <1>3 DEF RestoreInv, OneAtATime, Resting, LoadsAreTrue, Loading
<1>6. (whole \/ lost \/ twoMet \/ \E q \in Uploads : Loading(q))' BY <1>1, <1>3 DEF RestoreInv, Loading
<1>7. RestoredIsThere' BY <1>1 DEF RestoredIsThere, Nothing
<1>8. expected' \in [known : BOOLEAN, rows : SUBSET Captures, files : SUBSET Captures] BY <1>1 DEF Nothing
<1> QED BY <1>1, <1>2, <1>4, <1>5, <1>6, <1>7, <1>8, RestoreFound, RestoreMoves

\* The load empties the tables; it may fail.
LEMMA LoadStep == ASSUME RestoreInv, NEW r \in Uploads, BeginLoad(r) \/ LoadFails(r) PROVE RestoreInv'
<1>1. PICK pc \in {"loading", "rolling"} :
        restore' = [restore EXCEPT ![r] = [restore[r] EXCEPT !.pc = pc]]
  BY RestoreFound DEF BeginLoad, LoadFails, To
<1>2. /\ UNCHANGED <<disk, traffic, archive, moved, verdicts>>
      /\ whole' \in BOOLEAN /\ dbRows' \in SUBSET Captures /\ restoreFaults' \in 0 .. MaxRestoreFaults
      /\ restore[r].pc \in {"load", "loading"}
      /\ dbRows' = {} \/ (restore[r].pc = "loading" /\ UNCHANGED dbRows)
  <2>1. CASE BeginLoad(r)
    <3>1. restoreFaults' \in 0 .. MaxRestoreFaults BY <2>1, RestoreFound DEF BeginLoad
    <3>2. whole' \in BOOLEAN /\ dbRows' \in SUBSET Captures BY <2>1 DEF BeginLoad
    <3> QED BY <2>1, <3>1, <3>2 DEF BeginLoad, IsAt
  <2>2. CASE LoadFails(r)
    <3>1. restoreFaults' \in 0 .. MaxRestoreFaults BY <2>2, RestoreFound, RestoreAssumption DEF LoadFails
    <3> QED BY <2>2, <3>1, RestoreFound DEF LoadFails, IsAt, verdicts
  <2> QED BY <2>1, <2>2
<1>3. /\ restore'[r].pc \in {"loading", "rolling"} /\ [restore[r] EXCEPT !.pc = pc] \in RestoreKind
      /\ \A q \in Uploads \ {r} : restore'[q] = restore[q]
  <2>1. restore[r] \in RestoreKind BY RestoreFound
  <2>2. [restore[r] EXCEPT !.pc = pc] \in RestoreKind /\ [restore[r] EXCEPT !.pc = pc].pc = pc
    BY <2>1 DEF RestoreKind
  <2> QED BY <1>1, <2>2, OneMoves
<1>4. ~twoMet' => OneAtATime'
  BY <1>2, <1>3 DEF RestoreInv, OneAtATime, Resting, verdicts
<1>5. ~twoMet' /\ ~lost' => LoadsAreTrue'
  <2> SUFFICES ASSUME ~twoMet', ~lost' PROVE LoadsAreTrue' OBVIOUS
  <2>1. ~twoMet /\ ~lost BY <1>2 DEF verdicts
  <2>2. dbRows' \subseteq moved' BY <1>2, <2>1 DEF RestoreInv, LoadsAreTrue, Loading
  <2>3. \A q \in Uploads \ {r} : restore'[q].pc \in Resting
    BY <1>2, <1>3, <2>1 DEF RestoreInv, OneAtATime, Resting
  <2> QED BY <1>3, <2>2, <2>3 DEF LoadsAreTrue, Loading, Resting
<1>6. (\E q \in Uploads : Loading(q))' BY <1>3 DEF Loading
<1>7. RestoredIsThere' BY <1>2 DEF RestoreInv, OneAtATime, RestoredIsThere, verdicts
<1>8. UNCHANGED <<expected, twoMet, lost>> BY <1>2 DEF verdicts
<1> QED BY <1>1, <1>2, <1>3, <1>4, <1>5, <1>6, <1>7, <1>8, RestoreFound, RestoreMoves

\* What the end of a psql leaves, when no other restore is about.
LEMMA LeavesWhatItLoads ==
  ASSUME RestoreInv, NEW r \in Uploads, Loading(r),
         NEW dump \in [whole : BOOLEAN, rows : SUBSET Captures], Leaves(r, dump)
  PROVE  /\ whole' \in BOOLEAN /\ dbRows' \in SUBSET Captures /\ lost' \in BOOLEAN /\ (~lost' => ~lost)
         /\ whole' \/ lost' \/ twoMet
         /\ ~twoMet /\ ~lost' => \A c \in Captures \ moved : c \in dbRows' <=> c \in dump.rows
<1>1. dbRows \in SUBSET Captures /\ {lost, twoMet} \subseteq BOOLEAN BY RestoreFound
<1>2. whole' \in BOOLEAN /\ dbRows' \in SUBSET Captures /\ lost' \in BOOLEAN /\ (~lost' => ~lost)
  BY <1>1 DEF Leaves
<1>3. ~twoMet => ~Beside(r) BY DEF RestoreInv, OneAtATime, Beside, Loading, Resting
<1>4. ~twoMet /\ ~lost => dbRows \subseteq moved BY DEF RestoreInv, LoadsAreTrue
<1>5. whole' \/ lost' \/ twoMet BY <1>3 DEF Leaves
<1> QED BY <1>2, <1>3, <1>4, <1>5 DEF Leaves

LEMMA EndLoadStep == ASSUME RestoreInv, NEW r \in Uploads, EndLoad(r) PROVE RestoreInv'
<1> DEFINE x == [restore[r] EXCEPT !.pc = "files"]
           dump == [whole |-> restore[r].whole, rows |-> restore[r].rows]
<1>1. /\ restore' = [restore EXCEPT ![r] = x] /\ restore[r].pc = "loading" /\ Leaves(r, restore[r])
      /\ UNCHANGED <<disk, traffic, archive, expected, moved, twoMet, restoreFaults>>
  BY RestoreFound DEF EndLoad, IsAt, To
<1>0. restore[r] \in RestoreKind BY RestoreFound
<1>2. x \in RestoreKind /\ x.pc = "files" /\ x.rows = restore[r].rows BY <1>0, ToPhase
<1>3. Leaves(r, dump) /\ dump \in [whole : BOOLEAN, rows : SUBSET Captures] /\ dump.rows = restore[r].rows
  <2>1. dump.whole = restore[r].whole /\ dump.rows = restore[r].rows OBVIOUS
  <2>2. dump \in [whole : BOOLEAN, rows : SUBSET Captures] BY <1>0 DEF RestoreKind
  <2> HIDE DEF dump
  <2> QED BY <1>1, <2>1, <2>2 DEF Leaves
<1> HIDE DEF x, dump
<1>4. /\ whole' \in BOOLEAN /\ dbRows' \in SUBSET Captures /\ lost' \in BOOLEAN /\ (~lost' => ~lost)
      /\ whole' \/ lost' \/ twoMet
      /\ ~twoMet /\ ~lost' => \A c \in Captures \ moved : c \in dbRows' <=> c \in restore[r].rows
  BY <1>1, <1>3, LeavesWhatItLoads DEF Loading
<1>5. /\ restore'[r].pc = "files" /\ restore'[r].rows = restore[r].rows
      /\ \A q \in Uploads \ {r} : restore'[q] = restore[q]
  BY <1>1, <1>2, OneMoves
<1>6. ~twoMet' => OneAtATime' BY <1>1, <1>5 DEF RestoreInv, OneAtATime, Resting
<1>7. ~twoMet' /\ ~lost' => LoadsAreTrue'
  <2> SUFFICES ASSUME ~twoMet', ~lost' PROVE LoadsAreTrue' OBVIOUS
  <2>1. \A q \in Uploads \ {r} : restore'[q].pc \in Resting
    BY <1>1, <1>5 DEF RestoreInv, OneAtATime, Resting
  <2> QED BY <1>1, <1>4, <1>5, <2>1 DEF LoadsAreTrue, Loading, Resting
<1>8. (whole \/ lost \/ twoMet \/ \E q \in Uploads : Loading(q))' BY <1>1, <1>4
<1>9. RestoredIsThere' BY <1>1 DEF RestoreInv, OneAtATime, RestoredIsThere
<1> QED BY <1>1, <1>2, <1>4, <1>6, <1>7, <1>8, <1>9, RestoreFound, RestoreMoves

\* The dump is put back, or cannot be.
LEMMA RollBackStep == ASSUME RestoreInv, NEW r \in Uploads, RollBack(r) \/ RollBackFails(r) PROVE RestoreInv'
<1> DEFINE x == [NoRestore EXCEPT !.pc = "over"]
<1>1. /\ restore' = [restore EXCEPT ![r] = x] /\ restore[r].pc = "rolling"
      /\ UNCHANGED <<disk, traffic, archive, moved, twoMet>>
      /\ restoreFaults' \in 0 .. MaxRestoreFaults
  <2>1. restoreFaults' \in 0 .. MaxRestoreFaults BY RestoreFound, RestoreAssumption DEF RollBack, RollBackFails
  <2> QED BY <2>1 DEF RollBack, RollBackFails, IsAt, Ends
<1>2. x \in RestoreKind /\ x.pc = "over"
  <2>1. restore[r] \in RestoreKind BY RestoreFound
  <2> QED BY <2>1, ToPhase
<1> HIDE DEF x
<1>3. restore'[r].pc = "over" /\ \A q \in Uploads \ {r} : restore'[q] = restore[q]
  BY <1>1, <1>2, OneMoves
<1>4. ~twoMet' => OneAtATime' /\ \A q \in Uploads : restore'[q].pc \in Resting
  BY <1>1, <1>3 DEF RestoreInv, OneAtATime, Resting
<1>5. ~twoMet' /\ ~lost' => LoadsAreTrue' BY <1>4 DEF LoadsAreTrue, Loading, Resting
<1>6. /\ whole' \in BOOLEAN /\ dbRows' \in SUBSET Captures /\ lost' \in BOOLEAN
      /\ expected' \in [known : BOOLEAN, rows : SUBSET Captures, files : SUBSET Captures]
      /\ whole' \/ lost' \/ twoMet
      /\ RestoredIsThere'
  <2>1. CASE RollBack(r)
    <3>1. /\ Leaves(r, restore[r].saved)
          /\ expected' = [known |-> TRUE, rows |-> restore[r].saved.rows, files |-> disk]
      BY <2>1 DEF RollBack
    <3>2. restore[r].saved \in [whole : BOOLEAN, rows : SUBSET Captures] /\ disk \in SUBSET Captures
      <4>1. restore[r] \in RestoreKind BY RestoreFound
      <4> QED BY <4>1, RestoreFound DEF RestoreKind
    <3>3. /\ whole' \in BOOLEAN /\ dbRows' \in SUBSET Captures /\ lost' \in BOOLEAN
          /\ whole' \/ lost' \/ twoMet
          /\ ~twoMet /\ ~lost' => \A c \in Captures \ moved : c \in dbRows' <=> c \in restore[r].saved.rows
      BY <1>1, <3>1, <3>2, LeavesWhatItLoads DEF Loading
    <3> QED BY <1>1, <3>1, <3>2, <3>3 DEF RestoredIsThere
  <2>2. CASE RollBackFails(r)
    BY <2>2, RestoreFound DEF RollBackFails, RestoredIsThere
  <2> QED BY <2>1, <2>2
<1> QED BY <1>1, <1>2, <1>4, <1>5, <1>6, RestoreFound, RestoreMoves

\* The files come out of the archive, all of them or some.
LEMMA StageStep == ASSUME RestoreInv, NEW r \in Uploads, StageFiles(r) \/ StageFails(r) PROVE RestoreInv'
<1>0. restore[r] \in RestoreKind BY RestoreFound
<1>1. PICK some \in SUBSET Captures :
        restore' = [restore EXCEPT ![r] = [restore[r] EXCEPT !.pc = "swap", !.staged = some]]
  <2>1. restore[r].files \in SUBSET Captures BY <1>0 DEF RestoreKind
  <2> QED BY <1>0, <2>1, RestoreFound DEF StageFiles, StageFails
<1> DEFINE x == [restore[r] EXCEPT !.pc = "swap", !.staged = some]
<1>2. x \in RestoreKind /\ x.pc = "swap" /\ x.rows = restore[r].rows BY <1>0 DEF RestoreKind
<1>3. /\ restore[r].pc = "files"
      /\ UNCHANGED <<whole, dbRows, disk, traffic, archive, moved, expected, twoMet, lost>>
  BY DEF StageFiles, StageFails, IsAt, verdicts
<1>4. restoreFaults' \in 0 .. MaxRestoreFaults
  BY RestoreFound, RestoreAssumption DEF StageFiles, StageFails
<1>5. restore' = [restore EXCEPT ![r] = x] BY <1>1
<1> HIDE DEF x
<1>6. /\ restore'[r].pc = "swap" /\ restore'[r].rows = restore[r].rows
      /\ \A q \in Uploads \ {r} : restore'[q] = restore[q]
  BY <1>2, <1>5, OneMoves
<1>7. ~twoMet' => OneAtATime' BY <1>3, <1>6 DEF RestoreInv, OneAtATime, Resting
<1>8. ~twoMet' /\ ~lost' => LoadsAreTrue' BY <1>3, <1>6 DEF RestoreInv, LoadsAreTrue, Loading
<1>9. (whole \/ lost \/ twoMet \/ \E q \in Uploads : Loading(q))'
  BY <1>3, <1>6 DEF RestoreInv, Loading
<1>10. RestoredIsThere' BY <1>3 DEF RestoreInv, RestoredIsThere
<1> QED BY <1>2, <1>3, <1>4, <1>5, <1>7, <1>8, <1>9, <1>10, RestoreFound, RestoreMoves

\* The files are swapped, or some of them, and what another restore has staged may
\* go with them.
LEMMA SwapStep == ASSUME RestoreInv, NEW r \in Uploads, SwapFiles(r) \/ SwapFails(r) PROVE RestoreInv'
<1>0. restore[r] \in RestoreKind /\ disk \in SUBSET Captures BY RestoreFound
<1>1. PICK merged \in SUBSET Captures :
        /\ disk' = merged
        /\ archive' = IF archive.pc = "files" THEN [archive EXCEPT !.bare = @ \cup (disk \ merged)] ELSE archive
        /\ expected' = [known |-> TRUE, rows |-> restore[r].rows, files |-> merged] \/ UNCHANGED expected
  <2>1. restore[r].staged \in SUBSET Captures BY <1>0 DEF RestoreKind
  <2>2. CASE SwapFiles(r)
    <3>1. PICK left \in {disk, restore[r].staged} :
            /\ disk' = left
            /\ archive' = IF archive.pc = "files" THEN [archive EXCEPT !.bare = @ \cup (disk \ left)] ELSE archive
            /\ expected' = [known |-> TRUE, rows |-> restore[r].rows, files |-> left]
      BY <2>2 DEF SwapFiles
    <3>2. left \in SUBSET Captures BY <1>0, <2>1
    <3> QED BY <3>1, <3>2
  <2>3. CASE SwapFails(r)
    <3>1. PICK left \in (SUBSET disk) \cup (SUBSET restore[r].staged), clears \in BOOLEAN :
            /\ disk' = left
            /\ archive' = IF archive.pc = "files" THEN [archive EXCEPT !.bare = @ \cup (disk \ left)] ELSE archive
      BY <2>3, Zenon DEF SwapFails
    <3>2. UNCHANGED expected BY <2>3 DEF SwapFails, verdicts
    <3>3. left \in SUBSET Captures
      <4>1. CASE left \in SUBSET disk BY <1>0, <4>1
      <4>2. CASE left \in SUBSET restore[r].staged BY <2>1, <4>2
      <4> QED BY <4>1, <4>2
    <3> QED BY <3>1, <3>2, <3>3
  <2> QED BY <2>2, <2>3
<1>2. /\ restore[r].pc = "swap"
      /\ UNCHANGED <<whole, dbRows, traffic, moved, twoMet, lost>>
  BY DEF SwapFiles, SwapFails, IsAt, verdicts
<1>14. restoreFaults' \in 0 .. MaxRestoreFaults
  BY RestoreFound, RestoreAssumption DEF SwapFiles, SwapFails
<1>3. PICK stays \in BOOLEAN, pc \in {"exit", "over"} :
        restore' = [q \in Uploads |-> IF q = r THEN [NoRestore EXCEPT !.pc = pc]
                                      ELSE [restore[q] EXCEPT !.staged = IF stays THEN @ ELSE {}]]
  <2>1. CASE SwapFiles(r) BY <2>1 DEF SwapFiles
  <2>2. CASE SwapFails(r)
    <3>1. PICK clears \in BOOLEAN :
            restore' = [q \in Uploads |-> IF q = r THEN [NoRestore EXCEPT !.pc = "over"]
                                          ELSE [restore[q] EXCEPT !.staged = IF clears THEN {} ELSE @]]
      BY <2>2 DEF SwapFails
    <3>2. restore' = [q \in Uploads |-> IF q = r THEN [NoRestore EXCEPT !.pc = "over"]
                                        ELSE [restore[q] EXCEPT !.staged = IF ~clears THEN @ ELSE {}]]
      BY <3>1
    <3> QED BY <3>2
  <2> QED BY <2>1, <2>2
<1>4. \A q \in Uploads \ {r} : restore'[q] \in RestoreKind /\ restore'[q].pc = restore[q].pc
  <2> SUFFICES ASSUME NEW q \in Uploads \ {r}
      PROVE  restore'[q] \in RestoreKind /\ restore'[q].pc = restore[q].pc
    OBVIOUS
  <2>1. restore[q] \in RestoreKind BY RestoreFound
  <2>2. PICK staged \in SUBSET Captures : restore'[q] = [restore[q] EXCEPT !.staged = staged]
    <3>1. restore[q].staged \in SUBSET Captures BY <2>1 DEF RestoreKind
    <3>2. restore'[q] = [restore[q] EXCEPT !.staged = IF stays THEN restore[q].staged ELSE {}] BY <1>3, <2>1
    <3> QED BY <3>1, <3>2
  <2> QED BY <2>1, <2>2 DEF RestoreKind
<1>5. restore'[r] \in RestoreKind /\ restore'[r].pc \in {"exit", "over"}
  <2>1. [NoRestore EXCEPT !.pc = pc] \in RestoreKind /\ [NoRestore EXCEPT !.pc = pc].pc = pc
    BY <1>0, ToPhase
  <2> QED BY <1>3, <2>1
<1>6. restore' \in [Uploads -> RestoreKind] BY <1>3, <1>4, <1>5
<1>7. ~twoMet' => OneAtATime' /\ \A q \in Uploads \ {r} : restore'[q].pc \in Resting
  BY <1>2, <1>4, <1>5 DEF RestoreInv, OneAtATime, Resting
<1>8. ~twoMet' /\ ~lost' => LoadsAreTrue' BY <1>5, <1>7 DEF LoadsAreTrue, Loading, Resting
<1>9. (whole \/ lost \/ twoMet \/ \E q \in Uploads : Loading(q))'
  <2>1. \A q \in Uploads : Loading(q) => q # r BY <1>2 DEF Loading
  <2> QED BY <1>2, <1>4, <2>1 DEF RestoreInv, Loading
<1>10. RestoredIsThere'
  <2>1. CASE UNCHANGED expected BY <1>2, <2>1 DEF RestoreInv, OneAtATime, RestoredIsThere
  <2>2. CASE expected' = [known |-> TRUE, rows |-> restore[r].rows, files |-> merged]
    BY <1>1, <1>2, <2>2 DEF RestoreInv, LoadsAreTrue, RestoredIsThere
  <2> QED BY <1>1, <2>1, <2>2
<1>11. ArchiveKeeps(disk \ merged) /\ disk \ merged \in SUBSET Captures BY <1>0, <1>1 DEF ArchiveKeeps
<1>12. expected' \in [known : BOOLEAN, rows : SUBSET Captures, files : SUBSET Captures]
  <2>1. restore[r].rows \in SUBSET Captures BY <1>0 DEF RestoreKind
  <2>2. CASE UNCHANGED expected BY <2>2, RestoreFound
  <2>3. CASE expected' = [known |-> TRUE, rows |-> restore[r].rows, files |-> merged] BY <2>1, <2>3
  <2> QED BY <1>1, <2>2, <2>3
<1>13. RestoreTypeOK'
  <2>1. archive' \in ArchiveKind BY <1>1, <1>2, <1>11, ArchiveMoves
  <2>2. disk' \in SUBSET Captures BY <1>1
  <2> QED BY <1>2, <1>6, <1>12, <1>14, <2>1, <2>2 DEF RestoreInv, RestoreTypeOK, RestoreKind, ArchiveKind, traffic
<1> QED BY <1>2, <1>7, <1>8, <1>9, <1>10, <1>11, <1>13, ArchiveMoves DEF RestoreInv, TrafficIsKnown, traffic

\* The process ends: no restore is under way, and a load that was is lost.
LEMMA ProcessEndStep ==
  ASSUME RestoreInv, (\E r \in Uploads : ExitAfterRestore(r)) \/ RestoreCrash
  PROVE  RestoreInv'
<1>1. ProcessEnds /\ UNCHANGED expected /\ restoreFaults' \in 0 .. MaxRestoreFaults
  BY RestoreFound, RestoreAssumption DEF ExitAfterRestore, RestoreCrash
<1>2. restore' \in [Uploads -> RestoreKind] /\ \A r \in Uploads : restore'[r].pc \in Resting
  <2>1. ASSUME NEW r \in Uploads PROVE restore'[r] \in RestoreKind /\ restore'[r].pc \in Resting
    <3>1. restore[r] \in RestoreKind BY RestoreFound
    <3>2. [NoRestore EXCEPT !.pc = "over"] \in RestoreKind /\ [NoRestore EXCEPT !.pc = "over"].pc = "over"
      BY <3>1, ToPhase
    <3> QED BY <1>1, <3>1, <3>2 DEF ProcessEnds, IsAt, Resting
  <2> QED BY <1>1, <2>1 DEF ProcessEnds
<1>3. archive' \in ArchiveKind /\ (archive' = archive \/ archive' = NoArchive) /\ archive'.pc # "files"
  <2>1. archive \in ArchiveKind BY RestoreFound
  <2>2. NoArchive \in ArchiveKind /\ NoArchive.pc = "none" BY DEF NoArchive, ArchiveKind
  <2> QED BY <1>1, <2>1, <2>2 DEF ProcessEnds
<1>4. ArchiveIsConsistent' BY <1>3 DEF RestoreInv, ArchiveIsConsistent, NoArchive
<1>5. lost' \in BOOLEAN /\ (lost => lost') /\ ((\E r \in Uploads : Loading(r)) => lost')
  BY <1>1, RestoreFound DEF ProcessEnds, Loading
<1>6. UNCHANGED <<whole, dbRows, disk, moved, twoMet, expected>> /\ taking' = {} /\ leaving' = {} /\ listed' = {}
  BY <1>1 DEF ProcessEnds
<1>7. RestoreTypeOK' BY <1>1, <1>2, <1>3, <1>5, <1>6 DEF RestoreInv, RestoreTypeOK, RestoreKind, ArchiveKind
<1>8. OneAtATime' /\ LoadsAreTrue' BY <1>2 DEF OneAtATime, LoadsAreTrue, Loading, Resting
<1>9. RestoredIsThere' BY <1>5, <1>6 DEF RestoreInv, RestoredIsThere
<1> QED BY <1>3, <1>4, <1>5, <1>6, <1>7, <1>8, <1>9 DEF RestoreInv, TrafficIsKnown

LEMMA RestoreInvStep == ASSUME RestoreInv, [RestoreNext]_restoreVars PROVE RestoreInv'
<1>1. CASE UNCHANGED restoreVars
  BY <1>1 DEF restoreVars, traffic, verdicts, RestoreInv, RestoreTypeOK, TrafficIsKnown, OneAtATime,
              LoadsAreTrue, Loading, RestoredIsThere, ArchiveIsConsistent
<1>2. CASE RestoreNext
  BY <1>2, CaptureStep, ArchiveStep, StartRestoreStep, SaveStep, LoadStep, EndLoadStep, RollBackStep,
     StageStep, SwapStep, ProcessEndStep
  DEF RestoreNext
<1> QED BY <1>1, <1>2

\* The state of backups and restores keeps its types.
THEOREM RestoreTypeCorrect == RestoreSpec => []RestoreTypeOK
<1>1. RestoreInv => RestoreTypeOK BY DEF RestoreInv
<1> QED BY <1>1, RestoreInvInit, RestoreInvStep, PTL DEF RestoreSpec

\* For any captures, any number of restores and any faults: a restore leaves a
\* whole database (restore.ts:239-243) that holds what it says, but for what
\* the webserver has touched meanwhile, unless restores meet or a load is cut
\* off; and an archive lacks no file but those that had gone.
THEOREM RestoresStaySound == RestoreSpec => []RestoresAreSound
<1>1. ASSUME RestoreInv PROVE RestoresAreSound
  BY <1>1 DEF RestoreInv, RestoresAreSound, DatabaseIsWhole, Loading
<1> QED BY <1>1, RestoreInvInit, RestoreInvStep, PTL DEF RestoreSpec

(***************************************************************************)
(* SubmitQueue, the scanner's directories on its own disk: for every set   *)
(* of results and drainers, every limit of attempts and any bound on       *)
(* outages and faults. A result that is not queued any more was delivered  *)
(* or given up for a recorded reason, and only an entry that is still      *)
(* being written, or that a crash has left, is not whole.                  *)
(***************************************************************************)
LEMMA EntriesAreCounted == Cardinality(Entries) \in Nat
<1>1. Entries \subseteq Results BY DEF Entries
<1>2. IsFiniteSet(Entries) BY <1>1, SubmitQueueAssumption, FS_Subset
<1> QED BY <1>2, FS_CardinalityType

\* What the proofs need to know of the records in drain.
LEMMA DrainRecords ==
  /\ IdleDrain \in DrainStates /\ IdleDrain.pc = "idle"
  /\ \A queue \in SUBSET Results : Snapshot(queue) \in DrainStates /\ Snapshot(queue).pc = "loop"
BY DEF DrainStates, IdleDrain, Snapshot

LEMMA DrainFields ==
  ASSUME NEW x \in DrainStates
  PROVE  /\ x.pc \in {"idle", "loop", "submitting", "rewriting"}
         /\ x.todo \in SUBSET Results /\ x.seen \in Nat /\ x.left \in Nat
         /\ x.pc \in {"submitting", "rewriting"} => x.cur \in Results
BY DEF DrainStates

LEMMA DrainUpdates ==
  ASSUME NEW x \in DrainStates
  PROVE  /\ \A r : x.pc = "loop" => [x EXCEPT !.todo = @ \ {r}] \in DrainStates
         /\ x.pc = "submitting" => [x EXCEPT !.pc = "rewriting"] \in DrainStates
<1>1. CASE x \in [pc : {"idle", "loop"}, todo : SUBSET Results, cur : {NoResult}, seen : Nat, left : Nat]
  <2>1. ASSUME NEW r PROVE [x EXCEPT !.todo = @ \ {r}] \in DrainStates
    BY <1>1 DEF DrainStates
  <2>2. x.pc # "submitting" BY <1>1
  <2> QED BY <2>1, <2>2
<1>2. CASE x \in [pc : {"submitting", "rewriting"}, todo : SUBSET Results, cur : Results, seen : Nat, left : Nat]
  <2>1. x.pc # "loop" BY <1>2
  <2>2. [x EXCEPT !.pc = "rewriting"] \in DrainStates BY <1>2 DEF DrainStates
  <2> QED BY <2>1, <2>2
<1> QED BY <1>1, <1>2 DEF DrainStates

LEMMA NextEntryType ==
  ASSUME TypeOK, NEW d \in Drainers, NEW n \in Nat, NextEntry(d, n)
  PROVE  drain' \in [Drainers -> DrainStates]
<1>1. drain[d] \in DrainStates BY DEF TypeOK
<1>2. [pc |-> "loop", todo |-> drain[d].todo, cur |-> NoResult,
       seen |-> drain[d].seen, left |-> drain[d].left + n] \in DrainStates
  BY <1>1, DrainFields DEF DrainStates
<1> QED BY <1>2 DEF TypeOK, NextEntry

LEMMA ReturnType ==
  ASSUME TypeOK, NEW r \in Results, NEW s \in {"yes", "no"}, Return(r, s)
  PROVE  /\ live' \in [Results -> LiveStates]
         /\ audit' \in [Results -> {"none", "yes", "no"}]
BY DEF TypeOK, Return, LiveStates

LEMMA AbandonType ==
  ASSUME TypeOK, NEW r \in Results, NEW why \in Fates, Abandon(r, why)
  PROVE  fate' \in [Results -> SUBSET Fates]
BY DEF TypeOK, Abandon

LEMMA RemoveType ==
  ASSUME TypeOK, NEW r \in Results, Remove(r)
  PROVE  entry' \in [Results -> EntryStates]
BY DEF TypeOK, Remove, EntryStates

LEMMA BoundType ==
  ASSUME TypeOK PROVE (Fault => faults' \in Nat) /\ (Outage => outages' \in Nat)
BY DEF TypeOK, Fault, Outage

\* A callback keeps the types of what it changes.
LEMMA CallbackType == ASSUME TypeOK, NEW r \in Results, Callback(r) PROVE TypeOK'
<1> USE DEF diskVars, liveVars, histVars
<1>f. "rejected" \in Fates /\ "lost" \in Fates BY DEF Fates
<1>1. CASE SubmitLive(r)
  <2>1. CASE r \notin Invalid /\ arrived' = arrived \cup {r} /\ Return(r, "yes") /\ UNCHANGED <<fate, outages>>
    BY <1>1, <2>1, ReturnType DEF TypeOK, SubmitLive
  <2>2. CASE Abandon(r, "rejected") /\ Return(r, "no") /\ UNCHANGED <<arrived, outages>>
    BY <1>1, <2>2, <1>f, ReturnType, AbandonType DEF TypeOK, SubmitLive
  <2>3. CASE Outage /\ arrived' \in {arrived, arrived \cup ({r} \ Invalid)}
             /\ live' = [live EXCEPT ![r] = "unsent"] /\ UNCHANGED <<audit, fate>>
    BY <1>1, <2>3, BoundType DEF TypeOK, SubmitLive, LiveStates
  <2> QED BY <1>1, <2>1, <2>2, <2>3 DEF SubmitLive
<1>2. CASE MakeEntry(r)
  <2>1. CASE live' = [live EXCEPT ![r] = "copying"] /\ entry' = [entry EXCEPT ![r] = "bare"]
             /\ UNCHANGED <<audit, fate, faults>>
    BY <1>2, <2>1 DEF TypeOK, MakeEntry, LiveStates, EntryStates
  <2>2. CASE Fault /\ Abandon(r, "lost") /\ Return(r, "no") /\ UNCHANGED entry
    BY <1>2, <2>2, <1>f, ReturnType, AbandonType, BoundType DEF TypeOK, MakeEntry
  <2> QED BY <1>2, <2>1, <2>2 DEF MakeEntry
<1>3. CASE CreateItem(r)
  <2>1. CASE entry' = [entry EXCEPT ![r] = "torn"] /\ live' = [live EXCEPT ![r] = "writing"]
             /\ UNCHANGED <<audit, fate, faults>>
    BY <1>3, <2>1 DEF TypeOK, CreateItem, LiveStates, EntryStates
  <2>2. CASE /\ IF entry[r] = "none" THEN UNCHANGED faults ELSE Fault
             /\ Abandon(r, "lost") /\ Return(r, "no") /\ RemovePartial(r)
    <3>1. faults' \in Nat
      BY <2>2, BoundType DEF TypeOK
    <3> QED BY <1>3, <2>2, <3>1, <1>f, ReturnType, AbandonType, RemoveType DEF TypeOK, CreateItem, RemovePartial
  <2> QED BY <1>3, <2>1, <2>2 DEF CreateItem
<1>4. CASE WriteItem(r)
  <2>1. CASE FillItem(r) /\ UNCHANGED <<audit, fate, faults>>
    <3>1. entry' \in [Results -> EntryStates]
      BY <2>1 DEF TypeOK, FillItem, EntryStates
    <3>2. live' \in [Results -> LiveStates]
      BY <2>1 DEF TypeOK, FillItem, LiveStates
    <3> QED BY <1>4, <2>1, <3>1, <3>2 DEF TypeOK, WriteItem
  <2>2. CASE Fault /\ Abandon(r, "lost") /\ Return(r, "no") /\ RemovePartial(r)
    BY <1>4, <2>2, <1>f, ReturnType, AbandonType, RemoveType, BoundType DEF TypeOK, WriteItem, RemovePartial
  <2> QED BY <1>4, <2>1, <2>2 DEF WriteItem
<1>5. CASE PublishPending(r)
  BY <1>5, ReturnType, EntriesAreCounted DEF TypeOK, PublishPending
<1> QED BY <1>1, <1>2, <1>3, <1>4, <1>5 DEF Callback

\* A step of a drain keeps the types of what it changes.
LEMMA DrainType == ASSUME TypeOK, NEW d \in Drainers, DrainStep(d) PROVE TypeOK'
<1> USE DEF diskVars, liveVars, histVars
<1>f. "rejected" \in Fates /\ "gaveUp" \in Fates /\ "dropped" \in Fates BY DEF Fates
<1>d. drain[d] \in DrainStates BY DEF TypeOK
<1>c. drain[d].pc \in {"submitting", "rewriting"} => drain[d].cur \in Results
  BY <1>d, DrainFields
<1>1. CASE StartDrain(d)
  <2>1. Entries \in SUBSET Results BY DEF Entries
  <2> QED BY <1>1, <2>1, DrainRecords DEF TypeOK, StartDrain
<1>2. ASSUME NEW r \in Results, ReadItem(d, r) PROVE TypeOK'
  <2>1. [pc |-> "submitting", todo |-> drain[d].todo \ {r}, cur |-> r,
         seen |-> attempts[r], left |-> drain[d].left] \in DrainStates
    BY <1>d, DrainFields DEF TypeOK, DrainStates
  <2> QED BY <1>2, <2>1 DEF TypeOK, ReadItem
<1>3. ASSUME NEW r \in Results, DropEntry(d, r) PROVE TypeOK'
  <2>1. [drain[d] EXCEPT !.todo = @ \ {r}] \in DrainStates
    BY <1>3, <1>d, DrainUpdates DEF DropEntry
  <2>2. fate' \in [Results -> SUBSET Fates]
    BY <1>3, <1>f, AbandonType DEF TypeOK, DropEntry
  <2> QED BY <1>3, <2>1, <2>2, RemoveType DEF TypeOK, DropEntry
<1>4. CASE Resubmit(d)
  <2>1. drain' \in [Drainers -> DrainStates]
    BY <1>4, NextEntryType DEF Resubmit
  <2>2. fate' \in [Results -> SUBSET Fates]
    BY <1>4, <1>c, <1>f, AbandonType DEF TypeOK, Resubmit
  <2>3. entry' \in [Results -> EntryStates]
    BY <1>4, <1>c, RemoveType DEF TypeOK, Resubmit, RemoveDelivered
  <2>4. arrived' \subseteq Results
    BY <1>4, <1>c DEF TypeOK, Resubmit, RemoveDelivered
  <2> QED BY <1>4, <2>1, <2>2, <2>3, <2>4 DEF TypeOK, Resubmit
<1>5. CASE RetryFails(d)
  <2> DEFINE r == drain[d].cur
  <2>1. r \in Results BY <1>5, <1>c DEF RetryFails
  <2>2. arrived' \subseteq Results /\ tried' \in [Results -> Nat] /\ outages' \in Nat
    BY <1>5, <2>1, BoundType DEF TypeOK, RetryFails
  <2>3. CASE Remove(r) /\ Abandon(r, "gaveUp") /\ NextEntry(d, 0)
    BY <1>5, <2>1, <2>2, <2>3, <1>f, RemoveType, AbandonType, NextEntryType DEF TypeOK, RetryFails
  <2>4. CASE /\ entry' = [entry EXCEPT ![r] = IF @ = "none" THEN @ ELSE "torn"]
             /\ drain' = [drain EXCEPT ![d].pc = "rewriting"]
             /\ UNCHANGED fate
    <3>1. [drain[d] EXCEPT !.pc = "rewriting"] \in DrainStates
      BY <1>5, <1>d, DrainUpdates DEF RetryFails
    <3>2. entry' \in [Results -> EntryStates]
      BY <2>1, <2>4 DEF TypeOK, EntryStates
    <3> QED BY <1>5, <2>2, <2>4, <3>1, <3>2 DEF TypeOK, RetryFails
  <2> QED BY <1>5, <2>3, <2>4 DEF RetryFails
<1>6. CASE RewriteItem(d)
  <2>1. drain' \in [Drainers -> DrainStates]
    BY <1>6, NextEntryType DEF RewriteItem
  <2>2. entry' \in [Results -> EntryStates] /\ attempts' \in [Results -> Nat]
    BY <1>6, <1>c, <1>d, DrainFields DEF TypeOK, RewriteItem, StoreAttempts, EntryStates
  <2>3. torn' \subseteq Results /\ faults' \in Nat
    BY <1>6, <1>c, BoundType DEF TypeOK, RewriteItem
  <2> QED BY <1>6, <2>1, <2>2, <2>3 DEF TypeOK, RewriteItem
<1>7. CASE EndDrain(d)
  BY <1>7, <1>d, DrainRecords, DrainFields DEF TypeOK, EndDrain
<1> QED BY <1>1, <1>2, <1>3, <1>4, <1>5, <1>6, <1>7 DEF DrainStep

LEMMA CrashType == ASSUME TypeOK, NEW d \in Drainers, Crash(d) PROVE TypeOK'
<1>1. live' \in [Results -> LiveStates] /\ pending' \in Nat
  BY DEF TypeOK, Crash, LiveStates
<1>2. torn' \subseteq Results /\ drain' \in [Drainers -> DrainStates]
  BY DrainRecords DEF TypeOK, Crash
<1> QED BY <1>1, <1>2, BoundType DEF TypeOK, Crash, diskVars

LEMMA TypeStep == TypeOK /\ [Next]_vars => TypeOK'
<1> SUFFICES ASSUME TypeOK, [Next]_vars PROVE TypeOK'
  OBVIOUS
<1>1. ASSUME NEW r \in Results, Discard(r) PROVE TypeOK'
  <2>1. "discarded" \in Fates BY DEF Fates
  <2> QED BY <1>1, <2>1, RemoveType, AbandonType DEF TypeOK, Discard, liveVars
<1>2. ASSUME NEW r \in Results, Expire(r) PROVE TypeOK'
  BY <1>2 DEF TypeOK, Expire, liveVars, histVars
<1>3. CASE UNCHANGED vars
  BY <1>3 DEF TypeOK, vars, liveVars, diskVars, histVars
<1> QED BY <1>1, <1>2, <1>3, CallbackType, DrainType, CrashType DEF Next

LEMMA TypeInit == Init => TypeOK
BY DrainRecords DEF Init, TypeOK, LiveStates, EntryStates

\* Every reachable state of the submit queue is well typed.
THEOREM TypeCorrect == Spec => []TypeOK
BY TypeInit, TypeStep, PTL DEF Spec

-----------------------------------------------------------------------------
(* Nothing vanishes.  The invariant starts one step before Enqueue has     *)
(* written anything: from the moment the entry directory exists, it can    *)
(* only be gone for a reason.                                              *)

Traced ==
  \A r \in Results :
    live[r] \in {"copying", "writing", "queued", "done"} /\ entry[r] = "none" => Accounted(r)

LEMMA AbandonTraces ==
  ASSUME TypeOK, NEW r \in Results, NEW why, Abandon(r, why)
  PROVE  fate'[r] # {} /\ \A q \in Results : fate[q] # {} => fate'[q] # {}
BY DEF TypeOK, Abandon

\* An entry may be removed when its result has arrived or was abandoned.
LEMMA RemovalTraced ==
  ASSUME TypeOK, Traced, NEW r \in Results,
         Remove(r), UNCHANGED live, arrived \subseteq arrived',
         \/ \E why \in Fates : Abandon(r, why)
         \/ UNCHANGED fate /\ (r \in arrived' \/ entry[r] = "none")
  PROVE  Traced'
<1>1. \A q \in Results : fate[q] # {} => fate'[q] # {}
  BY AbandonTraces
<1>2. \A q \in Results \ {r} : entry'[q] = entry[q]
  BY DEF TypeOK, Remove
<1>3. CASE \E why \in Fates : Abandon(r, why)
  BY <1>1, <1>2, <1>3, AbandonTraces DEF Traced, Accounted
<1>4. CASE UNCHANGED fate /\ (r \in arrived' \/ entry[r] = "none")
  BY <1>1, <1>2, <1>4 DEF Traced, Accounted
<1> QED BY <1>3, <1>4

LEMMA TracedInit == Init => Traced
BY DEF Init, Traced

LEMMA TracedStep == TypeOK /\ Traced /\ [Next]_vars => Traced'
<1> SUFFICES ASSUME TypeOK, Traced, [Next]_vars PROVE Traced'
  OBVIOUS
<1> USE DEF Traced, Accounted, liveVars, diskVars, histVars
<1>1. ASSUME NEW r \in Results, Callback(r) PROVE Traced'
  <2>1. CASE SubmitLive(r)
    BY <1>1, <2>1 DEF TypeOK, SubmitLive, Return, Abandon, LiveStates
  <2>2. CASE MakeEntry(r)
    <3>1. CASE live' = [live EXCEPT ![r] = "copying"] /\ entry' = [entry EXCEPT ![r] = "bare"]
               /\ UNCHANGED fate
      BY <2>2, <3>1 DEF TypeOK, MakeEntry
    <3>2. CASE Abandon(r, "lost") /\ Return(r, "no") /\ UNCHANGED entry
      BY <2>2, <3>2, AbandonTraces DEF TypeOK, MakeEntry, Return
    <3> QED BY <2>2, <3>1, <3>2 DEF MakeEntry
  <2>3. CASE CreateItem(r)
    BY <2>3 DEF TypeOK, CreateItem, Return, Abandon, RemovePartial, Remove
  <2>4. CASE WriteItem(r)
    BY <2>4 DEF TypeOK, WriteItem, FillItem, Return, Abandon, RemovePartial, Remove
  <2>5. CASE PublishPending(r)
    BY <2>5 DEF TypeOK, PublishPending, Return
  <2> QED BY <1>1, <2>1, <2>2, <2>3, <2>4, <2>5 DEF Callback
<1>2. ASSUME NEW r \in Results, Discard(r) PROVE Traced'
  <2>1. "discarded" \in Fates BY DEF Fates
  <2> QED BY <1>2, <2>1, RemovalTraced DEF Discard
<1>3. ASSUME NEW r \in Results, Expire(r) PROVE Traced'
  BY <1>3 DEF Expire
<1>4. ASSUME NEW d \in Drainers, DrainStep(d) PROVE Traced'
  <2>1. CASE StartDrain(d)
    BY <2>1 DEF StartDrain
  <2>2. ASSUME NEW r \in Results, ReadItem(d, r) PROVE Traced'
    BY <2>2 DEF ReadItem
  <2>3. ASSUME NEW r \in Results, DropEntry(d, r) PROVE Traced'
    <3>1. "dropped" \in Fates BY DEF Fates
    <3>2. r \in Incomplete \/ entry[r] = "none"
      BY <2>3 DEF TypeOK, DropEntry, Incomplete, EntryStates
    <3> QED BY <2>3, <3>1, <3>2, RemovalTraced DEF DropEntry
  <2>4. CASE Resubmit(d)
    <3>1. "rejected" \in Fates BY DEF Fates
    <3>2. drain[d].cur \in Results BY <2>4, DrainFields DEF TypeOK, Resubmit
    <3> QED BY <2>4, <3>1, <3>2, RemovalTraced DEF Resubmit, RemoveDelivered
  <2>5. CASE RetryFails(d)
    <3> DEFINE r == drain[d].cur
    <3>1. "gaveUp" \in Fates BY DEF Fates
    <3>2. r \in Results BY <2>5, DrainFields DEF TypeOK, RetryFails
    <3>3. arrived \subseteq arrived' BY <2>5 DEF RetryFails
    <3>4. CASE Remove(r) /\ Abandon(r, "gaveUp")
      BY <2>5, <3>1, <3>2, <3>3, <3>4, RemovalTraced DEF RetryFails
    <3>5. CASE entry' = [entry EXCEPT ![r] = IF @ = "none" THEN @ ELSE "torn"] /\ UNCHANGED fate
      BY <2>5, <3>2, <3>3, <3>5 DEF TypeOK, RetryFails
    <3> QED BY <2>5, <3>4, <3>5 DEF RetryFails
  <2>6. CASE RewriteItem(d)
    BY <2>6 DEF TypeOK, RewriteItem
  <2>7. CASE EndDrain(d)
    BY <2>7 DEF EndDrain
  <2> QED BY <1>4, <2>1, <2>2, <2>3, <2>4, <2>5, <2>6, <2>7 DEF DrainStep
<1>5. ASSUME NEW d \in Drainers, Crash(d) PROVE Traced'
  BY <1>5 DEF TypeOK, Crash
<1>6. CASE UNCHANGED vars
  BY <1>6 DEF vars
<1> QED BY <1>1, <1>2, <1>3, <1>4, <1>5, <1>6 DEF Next

\* No host result disappears from the queue without being delivered or
\* counted as abandoned, whatever drains, discards and callbacks overlap.
THEOREM ResultsAreTraced == Spec => []NothingVanishes
<1>1. Traced => NothingVanishes
  BY DEF Traced, NothingVanishes
<1> QED BY <1>1, TypeCorrect, TracedInit, TracedStep, PTL DEF Spec

-----------------------------------------------------------------------------
(* An incomplete entry has a writer. *)

BareIsBeingFilled ==
  \A r \in Results \ torn : entry[r] = "bare" => live[r] = "copying"

Written == TornHasAWriter /\ BareIsBeingFilled

LEMMA WrittenInit == Init => Written
BY DEF Init, Written, TornHasAWriter, BareIsBeingFilled, Incomplete

LEMMA WrittenStep == TypeOK /\ Written /\ [Next]_vars => Written'
<1> SUFFICES ASSUME TypeOK, Written, [Next]_vars PROVE Written'
  OBVIOUS
<1> USE DEF Written, TornHasAWriter, BareIsBeingFilled, Incomplete, Enqueueing, Rewriting,
            liveVars, diskVars, histVars
<1>1. ASSUME NEW r \in Results, Callback(r) PROVE Written'
  <2>1. CASE SubmitLive(r)
    BY <2>1 DEF TypeOK, SubmitLive, Return
  <2>2. CASE MakeEntry(r)
    BY <2>2 DEF TypeOK, MakeEntry, Return
  <2>3. CASE CreateItem(r)
    BY <2>3 DEF TypeOK, CreateItem, Return, RemovePartial, Remove
  <2>4. CASE WriteItem(r)
    BY <2>4 DEF TypeOK, WriteItem, FillItem, Return, RemovePartial, Remove
  <2>5. CASE PublishPending(r)
    BY <2>5 DEF TypeOK, PublishPending, Return
  <2> QED BY <1>1, <2>1, <2>2, <2>3, <2>4, <2>5 DEF Callback
<1>2. ASSUME NEW r \in Results, Discard(r) PROVE Written'
  BY <1>2 DEF TypeOK, Discard, Remove
<1>3. ASSUME NEW r \in Results, Expire(r) PROVE Written'
  BY <1>3 DEF Expire
<1>4. ASSUME NEW d \in Drainers, DrainStep(d) PROVE Written'
  <2>d. drain[d] \in DrainStates
    BY DEF TypeOK
  <2>1. CASE StartDrain(d)
    BY <2>1, DrainRecords DEF TypeOK, StartDrain
  <2>2. ASSUME NEW r \in Results, ReadItem(d, r) PROVE Written'
    BY <2>2 DEF TypeOK, ReadItem
  <2>3. ASSUME NEW r \in Results, DropEntry(d, r) PROVE Written'
    BY <2>3 DEF TypeOK, DropEntry, Remove
  <2>4. CASE Resubmit(d)
    BY <2>4 DEF TypeOK, Resubmit, RemoveDelivered, Remove, NextEntry
  <2>5. CASE RetryFails(d)
    <3> DEFINE r == drain[d].cur
    <3>1. CASE Remove(r) /\ NextEntry(d, 0)
      BY <2>5, <3>1 DEF TypeOK, RetryFails, Remove, NextEntry
    <3>2. CASE /\ entry' = [entry EXCEPT ![r] = IF @ = "none" THEN @ ELSE "torn"]
               /\ drain' = [drain EXCEPT ![d].pc = "rewriting"]
      <4>1. drain'[d].pc = "rewriting" /\ drain'[d].cur = r
        BY <2>d, <3>2 DEF TypeOK, DrainStates
      <4>2. \A c \in Drainers \ {d} : drain'[c] = drain[c]
        BY <3>2 DEF TypeOK
      <4>3. drain[d].pc = "submitting" /\ UNCHANGED <<live, torn>>
        BY <2>5 DEF RetryFails
      <4>4. \A q \in Results : entry'[q] = IF q = r /\ entry[q] # "none" THEN "torn" ELSE entry[q]
        BY <3>2 DEF TypeOK
      <4> QED BY <4>1, <4>2, <4>3, <4>4
    <3> QED BY <2>5, <3>1, <3>2 DEF RetryFails
  <2>6. CASE RewriteItem(d)
    BY <2>6 DEF TypeOK, RewriteItem, NextEntry
  <2>7. CASE EndDrain(d)
    BY <2>7 DEF TypeOK, EndDrain
  <2> QED BY <1>4, <2>1, <2>2, <2>3, <2>4, <2>5, <2>6, <2>7 DEF DrainStep
<1>5. ASSUME NEW d \in Drainers, Crash(d) PROVE Written'
  BY <1>5 DEF TypeOK, Crash
<1>6. CASE UNCHANGED vars
  BY <1>6 DEF vars
<1> QED BY <1>1, <1>2, <1>3, <1>4, <1>5, <1>6 DEF Next

\* An unreadable entry is one somebody is still writing, or one a crash cut
\* short.
THEOREM TornMeansUnfinished == Spec => []TornHasAWriter
<1>1. Written => TornHasAWriter
  BY DEF Written
<1> QED BY <1>1, TypeCorrect, WrittenInit, WrittenStep, PTL DEF Spec

-----------------------------------------------------------------------------
(* Attempts are never counted too high: what an entry says, and what a     *)
(* drain has read of it, is at most what was really tried.                 *)

Counted ==
  /\ GaveUpHonestly
  /\ \A r \in Results : attempts[r] <= tried[r]
  /\ \A d \in Drainers :
       /\ drain[d].pc = "submitting" => drain[d].seen <= tried[drain[d].cur]
       /\ drain[d].pc = "rewriting" => drain[d].seen + 1 <= tried[drain[d].cur]

LEMMA CountedInit == Init => Counted
BY DEF Init, Counted, GaveUpHonestly, IdleDrain

LEMMA CountedStep == TypeOK /\ Counted /\ [Next]_vars => Counted'
<1> SUFFICES ASSUME TypeOK, Counted, [Next]_vars PROVE Counted'
  OBVIOUS
<1> USE DEF Counted, GaveUpHonestly, liveVars, diskVars, histVars
<1>1. ASSUME NEW r \in Results, Callback(r) PROVE Counted'
  BY <1>1 DEF TypeOK, Callback, SubmitLive, MakeEntry, CreateItem, WriteItem, PublishPending, Abandon
<1>2. ASSUME NEW r \in Results, Discard(r) PROVE Counted'
  BY <1>2 DEF TypeOK, Discard, Abandon
<1>3. ASSUME NEW r \in Results, Expire(r) PROVE Counted'
  BY <1>3 DEF TypeOK, Expire
<1>4. ASSUME NEW d \in Drainers, DrainStep(d) PROVE Counted'
  <2>d. drain[d] \in DrainStates
    BY DEF TypeOK
  <2>1. CASE StartDrain(d)
    BY <2>1 DEF TypeOK, StartDrain, Snapshot
  <2>2. ASSUME NEW r \in Results, ReadItem(d, r) PROVE Counted'
    BY <2>2 DEF TypeOK, ReadItem
  <2>3. ASSUME NEW r \in Results, DropEntry(d, r) PROVE Counted'
    BY <2>3 DEF TypeOK, DropEntry, Abandon
  <2>4. CASE Resubmit(d)
    BY <2>4 DEF TypeOK, Resubmit, RemoveDelivered, NextEntry, Abandon
  <2>5. CASE RetryFails(d)
    <3>1. drain[d].cur \in Results /\ drain[d].seen \in Nat
      BY <2>5, <2>d, DrainFields DEF RetryFails
    <3>2. \A c \in Drainers : drain[c].pc \in {"submitting", "rewriting"} =>
            drain[c].cur \in Results /\ drain[c].seen \in Nat
      BY DrainFields DEF TypeOK
    <3> DEFINE r == drain[d].cur
    <3>3. /\ \A q \in Results : tried'[q] = IF q = r THEN tried[q] + 1 ELSE tried[q]
          /\ \A q \in Results : tried[q] \in Nat
      BY <2>5 DEF TypeOK, RetryFails
    <3>4. drain[d].seen <= tried[r] /\ UNCHANGED <<attempts, expired>>
      BY <2>5 DEF RetryFails
    <3>5. \A q \in Results : attempts'[q] <= tried'[q]
      BY <3>3, <3>4 DEF TypeOK
    <3>6. \A c \in Drainers \ {d} : drain'[c] = drain[c]
      BY <2>5 DEF TypeOK, RetryFails, NextEntry
    <3>7. \/ drain'[d].pc = "loop"
          \/ drain'[d].pc = "rewriting" /\ drain'[d].cur = r /\ drain'[d].seen = drain[d].seen
      BY <2>5, <2>d DEF TypeOK, RetryFails, NextEntry, DrainStates
    <3>8. \A q \in Results : "gaveUp" \in fate'[q] =>
            \/ "gaveUp" \in fate[q]
            \/ q = r /\ LastAttempt(d)
      BY <2>5 DEF TypeOK, RetryFails, Abandon
    <3>9. GaveUpHonestly'
      BY <3>1, <3>3, <3>4, <3>8, SubmitQueueAssumption DEF LastAttempt
    <3>10. \A c \in Drainers \ {d} :
            /\ drain[c].pc = "submitting" => drain[c].seen <= tried'[drain[c].cur]
            /\ drain[c].pc = "rewriting" => drain[c].seen + 1 <= tried'[drain[c].cur]
      BY <3>2, <3>3
    <3>11. drain[d].seen + 1 <= tried'[r]
      BY <3>1, <3>3, <3>4
    <3>12. \A c \in Drainers :
            /\ drain'[c].pc = "submitting" => drain'[c].seen <= tried'[drain'[c].cur]
            /\ drain'[c].pc = "rewriting" => drain'[c].seen + 1 <= tried'[drain'[c].cur]
      <4>1. ASSUME NEW c \in Drainers, c = d
            PROVE  /\ drain'[c].pc = "submitting" => drain'[c].seen <= tried'[drain'[c].cur]
                   /\ drain'[c].pc = "rewriting" => drain'[c].seen + 1 <= tried'[drain'[c].cur]
        BY <3>7, <3>11, <4>1
      <4>2. ASSUME NEW c \in Drainers, c # d
            PROVE  /\ drain'[c].pc = "submitting" => drain'[c].seen <= tried'[drain'[c].cur]
                   /\ drain'[c].pc = "rewriting" => drain'[c].seen + 1 <= tried'[drain'[c].cur]
        BY <3>6, <3>10, <4>2
      <4> QED BY <4>1, <4>2
    <3> QED BY <3>5, <3>9, <3>12
  <2>6. CASE RewriteItem(d)
    <3>1. drain[d].cur \in Results /\ drain[d].seen \in Nat
      BY <2>6, <2>d, DrainFields DEF RewriteItem
    <3> QED BY <2>6, <3>1 DEF TypeOK, RewriteItem, NextEntry, StoreAttempts
  <2>7. CASE EndDrain(d)
    BY <2>7, DrainRecords DEF TypeOK, EndDrain
  <2> QED BY <1>4, <2>1, <2>2, <2>3, <2>4, <2>5, <2>6, <2>7 DEF DrainStep
<1>5. ASSUME NEW d \in Drainers, Crash(d) PROVE Counted'
  BY <1>5, DrainRecords DEF TypeOK, Crash
<1>6. CASE UNCHANGED vars
  BY <1>6 DEF vars
<1> QED BY <1>1, <1>2, <1>3, <1>4, <1>5, <1>6 DEF Next

\* An entry is given up only after MaxAttempts retries really failed, or
\* when it is too old, although overlapping drains lose each other's counts.
THEOREM GivingUpIsHonest == Spec => []GaveUpHonestly
<1>1. Counted => GaveUpHonestly
  BY DEF Counted
<1> QED BY <1>1, TypeCorrect, CountedInit, CountedStep, PTL DEF Spec

-----------------------------------------------------------------------------
\* The queue on disk stays sound, for any number of results and processes.
THEOREM QueueStaysSound == Spec => []QueueIsSound
<1>1. TypeOK /\ TornHasAWriter /\ GaveUpHonestly => QueueIsSound
  BY DEF QueueIsSound
<1> QED BY <1>1, TypeCorrect, TornMeansUnfinished, GivingUpIsHonest, PTL
=============================================================================
