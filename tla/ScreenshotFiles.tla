---------------------------- MODULE ScreenshotFiles ----------------------------
(***************************************************************************)
(* The image files behind the rows of screenshots and rdp_screenshots, and *)
(* their previews (ingest/routes.ts, screenshots/files.ts and thumbs.ts,   *)
(* retention.ts, the deletion of a host in search/routes.ts). A capture    *)
(* writes its file and then inserts its row; a host takes its rows along   *)
(* when it is deleted, and the files are unlinked after that; old rows go  *)
(* first and their files after them. What falls between is left to the     *)
(* sweep, which unlinks old files no row names.                            *)
(*                                                                         *)
(* All captures are of one host, which may be deleted and found again. A   *)
(* file is past the grace period of an hour only when its request is over. *)
(***************************************************************************)
EXTENDS Naturals, FiniteSets

CONSTANTS
    Shots,          \* captures in one behaviour
    Deleters,       \* deletions that may be under way at once: a user's, the sweep's
    MaxHosts,       \* how often the host is found
    MaxShotFaults   \* restarts and failing statements

ASSUME ShotAssumption == MaxHosts \in Nat /\ MaxShotFaults \in Nat

VARIABLES
    hostId,     \* hosts.id, 0: the row is gone
    hostCount,  \* host rows there have been
    capture,    \* the ingest requests
    rows,       \* captures with a row
    outdated,   \* rows whose captured_at is past the retention window
    files,      \* captures with a file: "none", "young", "old"
    thumbs,     \* their previews
    preview,    \* previews that are being made
    deletion,   \* of the host, or of outdated rows: the files that go after the rows
    orphans,    \* the sweep: what it has listed
    shotFaults

shotVars == <<hostId, hostCount, capture, rows, outdated, files, thumbs, preview, deletion, orphans, shotFaults>>
hostRow == <<hostId, hostCount>>

FileAge == {"none", "young", "old"}
Gone(S, what) == [s \in Shots |-> IF s \in S THEN "none" ELSE what[s]]

ShotTypeOK ==
    /\ hostId \in 0 .. MaxHosts /\ hostCount \in 0 .. MaxHosts
    /\ capture \in [Shots -> [pc : {"none", "write", "insert", "done"}, host : 0 .. MaxHosts]]
    /\ rows \in SUBSET Shots /\ outdated \in SUBSET rows
    /\ files \in [Shots -> FileAge] /\ thumbs \in [Shots -> FileAge]
    /\ preview \in SUBSET Shots
    /\ deletion \in [Deleters -> [pc : {"idle", "rows", "unlink"}, host : 0 .. MaxHosts, paths : SUBSET Shots]]
    /\ orphans \in [pc : {"idle", "query"}, listed : SUBSET Shots]
    /\ shotFaults \in 0 .. MaxShotFaults
    /\ hostId = 0 => rows = {}

NoDeletion == [pc |-> "idle", host |-> 0, paths |-> {}]
NoSweep == [pc |-> "idle", listed |-> {}]

ShotInit ==
    /\ hostId = 0 /\ hostCount = 0
    /\ capture = [s \in Shots |-> [pc |-> "none", host |-> 0]]
    /\ rows = {} /\ outdated = {}
    /\ files = [s \in Shots |-> "none"]
    /\ thumbs = [s \in Shots |-> "none"]
    /\ preview = {}
    /\ deletion = [d \in Deleters |-> NoDeletion]
    /\ orphans = NoSweep
    /\ shotFaults = 0

HostFound ==
    /\ hostId = 0
    /\ hostCount < MaxHosts
    /\ hostCount' = hostCount + 1
    /\ hostId' = hostCount'
    /\ UNCHANGED <<capture, rows, outdated, files, thumbs, preview, deletion, orphans, shotFaults>>

(***************************************************************************)
(* A capture.                                                              *)
(***************************************************************************)

LookUpHost(s) ==
    /\ capture[s].pc = "none"
    /\ hostId # 0
    /\ capture' = [capture EXCEPT ![s] = [pc |-> "write", host |-> hostId]]
    /\ UNCHANGED <<hostRow, rows, outdated, files, thumbs, preview, deletion, orphans, shotFaults>>

WriteFile(s) ==
    /\ capture[s].pc = "write"
    /\ files' = [files EXCEPT ![s] = "young"]
    /\ capture' = [capture EXCEPT ![s].pc = "insert"]
    /\ UNCHANGED <<hostRow, rows, outdated, thumbs, preview, deletion, orphans, shotFaults>>

\* Not the code: the row does not refer to its host.
InsertRowAnyway(s) ==
    /\ capture[s].pc = "insert"
    /\ capture' = [capture EXCEPT ![s].pc = "done"]
    /\ rows' = rows \cup {s}
    /\ UNCHANGED <<hostRow, outdated, files, thumbs, preview, deletion, orphans, shotFaults>>

\* It refers to the host, and fails once that is gone.
InsertRow(s) ==
    /\ capture[s].pc = "insert"
    /\ capture' = [capture EXCEPT ![s].pc = "done"]
    /\ rows' = IF capture[s].host = hostId THEN rows \cup {s} ELSE rows
    /\ UNCHANGED <<hostRow, outdated, files, thumbs, preview, deletion, orphans, shotFaults>>

(***************************************************************************)
(* Previews.                                                               *)
(***************************************************************************)

\* A tile is shown: its row is read, and the preview made of the file.
StartPreview(s) ==
    /\ s \in rows
    /\ s \notin preview
    /\ thumbs[s] = "none" /\ files[s] # "none"
    /\ preview' = preview \cup {s}
    /\ UNCHANGED <<hostRow, capture, rows, outdated, files, thumbs, deletion, orphans, shotFaults>>

\* The rename, under a name of the original's.
RenamePreview(s) ==
    /\ s \in preview
    /\ preview' = preview \ {s}
    /\ thumbs' = [thumbs EXCEPT ![s] = "young"]
    /\ UNCHANGED <<hostRow, capture, rows, outdated, files, deletion, orphans, shotFaults>>

(***************************************************************************)
(* Deletion.                                                               *)
(***************************************************************************)

\* screenshotPathsForHosts, before the host is deleted.
CollectPaths(d) ==
    /\ deletion[d].pc = "idle"
    /\ hostId # 0
    /\ deletion' = [deletion EXCEPT ![d] = [pc |-> "rows", host |-> hostId, paths |-> rows]]
    /\ UNCHANGED <<hostRow, capture, rows, outdated, files, thumbs, preview, orphans, shotFaults>>

\* ON DELETE CASCADE. Where it is gone already, the sweep goes on, and a user
\* is told so.
DeleteHost(d) ==
    /\ deletion[d].pc = "rows"
    /\ \/ /\ deletion[d].host = hostId
          /\ hostId' = 0 /\ rows' = {} /\ outdated' = {}
          /\ deletion' = [deletion EXCEPT ![d].pc = "unlink"]
       \/ /\ deletion[d].host # hostId
          /\ UNCHANGED <<hostId, rows, outdated>>
          /\ \/ deletion' = [deletion EXCEPT ![d].pc = "unlink"]
             \/ deletion' = [deletion EXCEPT ![d] = NoDeletion]
    /\ UNCHANGED <<hostCount, capture, files, thumbs, preview, orphans, shotFaults>>

\* purgeOldScreenshots: DELETE ... RETURNING image_path.
PurgeOldRows(d) ==
    /\ deletion[d].pc = "idle"
    /\ outdated # {}
    /\ rows' = rows \ outdated
    /\ outdated' = {}
    /\ deletion' = [deletion EXCEPT ![d] = [pc |-> "unlink", host |-> 0, paths |-> outdated]]
    /\ UNCHANGED <<hostRow, capture, files, thumbs, preview, orphans, shotFaults>>

\* deleteScreenshotFiles: the preview and the file.
DeleteFiles(d) ==
    /\ deletion[d].pc = "unlink"
    /\ files' = Gone(deletion[d].paths, files)
    /\ thumbs' = Gone(deletion[d].paths, thumbs)
    /\ deletion' = [deletion EXCEPT ![d] = NoDeletion]
    /\ UNCHANGED <<hostRow, capture, rows, outdated, preview, orphans, shotFaults>>

(***************************************************************************)
(* purgeOrphanedScreenshotFiles.                                           *)
(***************************************************************************)

\* Not the code: previews are left alone.
ListFilesOnly ==
    /\ orphans.pc = "idle"
    /\ orphans' = LET listed == {s \in Shots : files[s] # "none"}
                  IN  IF listed = {} THEN NoSweep ELSE [pc |-> "query", listed |-> listed]
    /\ UNCHANGED <<hostRow, capture, rows, outdated, files, thumbs, preview, deletion, shotFaults>>

\* Previews first; then the directory is listed.
ListFiles ==
    /\ orphans.pc = "idle"
    /\ thumbs' = Gone({s \in Shots : thumbs[s] = "old" /\ files[s] = "none"}, thumbs)
    /\ orphans' = LET listed == {s \in Shots : files[s] # "none"}
                  IN  IF listed = {} THEN NoSweep ELSE [pc |-> "query", listed |-> listed]
    /\ UNCHANGED <<hostRow, capture, rows, outdated, files, preview, deletion, shotFaults>>

\* Not the code: there is no grace period.
UnlinkOrphansAtOnce ==
    /\ orphans.pc = "query"
    /\ files' = Gone(orphans.listed \ rows, files)
    /\ thumbs' = Gone(orphans.listed \ rows, thumbs)
    /\ orphans' = NoSweep
    /\ UNCHANGED <<hostRow, capture, rows, outdated, preview, deletion, shotFaults>>

\* The rows are read after the listing; a file is unlinked if none names it and
\* it is old.
UnlinkOrphans ==
    LET unlinked == {s \in orphans.listed \ rows : files[s] = "old"}
    IN  /\ orphans.pc = "query"
        /\ files' = Gone(unlinked, files)
        /\ thumbs' = Gone(unlinked, thumbs)
        /\ orphans' = NoSweep
        /\ UNCHANGED <<hostRow, capture, rows, outdated, preview, deletion, shotFaults>>

(***************************************************************************)
(* Time, and the process.                                                  *)
(***************************************************************************)

\* ORPHAN_GRACE_MS is "far longer than that window".
FileAges(s) ==
    /\ files[s] = "young"
    /\ capture[s].pc = "done"
    /\ files' = [files EXCEPT ![s] = "old"]
    /\ UNCHANGED <<hostRow, capture, rows, outdated, thumbs, preview, deletion, orphans, shotFaults>>

ThumbAges(s) ==
    /\ thumbs[s] = "young"
    /\ thumbs' = [thumbs EXCEPT ![s] = "old"]
    /\ UNCHANGED <<hostRow, capture, rows, outdated, files, preview, deletion, orphans, shotFaults>>

RowAges(s) ==
    /\ s \in rows \ outdated
    /\ outdated' = outdated \cup {s}
    /\ UNCHANGED <<hostRow, capture, rows, files, thumbs, preview, deletion, orphans, shotFaults>>

\* A statement fails: what comes after it is left out.
ShotFault ==
    /\ shotFaults < MaxShotFaults
    /\ shotFaults' = shotFaults + 1
    /\ \/ \E s \in Shots : /\ capture[s].pc \in {"write", "insert"}
                           /\ capture' = [capture EXCEPT ![s].pc = "done"]
          /\ UNCHANGED <<deletion, orphans, preview>>
       \/ /\ \E d \in Deleters : /\ deletion[d].pc = "rows"
                              /\ deletion' = [deletion EXCEPT ![d] = NoDeletion]
          /\ UNCHANGED <<capture, orphans, preview>>
       \/ /\ capture' = [s \in Shots |-> IF capture[s].pc = "none" THEN capture[s]
                                         ELSE [capture[s] EXCEPT !.pc = "done"]]
          /\ deletion' = [d \in Deleters |-> NoDeletion]
          /\ orphans' = NoSweep
          /\ preview' = {}
    /\ UNCHANGED <<hostRow, rows, outdated, files, thumbs>>

ShotNext ==
    \/ HostFound
    \/ \E s \in Shots : \/ LookUpHost(s) \/ WriteFile(s) \/ InsertRow(s)
                        \/ StartPreview(s) \/ RenamePreview(s)
                        \/ FileAges(s) \/ ThumbAges(s) \/ RowAges(s)
    \/ \E d \in Deleters : CollectPaths(d) \/ DeleteHost(d) \/ PurgeOldRows(d) \/ DeleteFiles(d)
    \/ ListFiles \/ UnlinkOrphans
    \/ ShotFault

\* The hourly sweep runs, requests and time go on.
ShotFairness ==
    /\ \A s \in Shots : /\ WF_shotVars(WriteFile(s)) /\ WF_shotVars(InsertRow(s))
                        /\ WF_shotVars(FileAges(s)) /\ WF_shotVars(ThumbAges(s))
    /\ \A d \in Deleters : WF_shotVars(DeleteHost(d)) /\ WF_shotVars(DeleteFiles(d))
    /\ WF_shotVars(ListFiles) /\ WF_shotVars(UnlinkOrphans)

ShotSpec == ShotInit /\ [][ShotNext]_shotVars /\ ShotFairness

(***************************************************************************)
(* Properties.                                                             *)
(***************************************************************************)

\* The file of every row is there: no sweep and no deletion takes one from
\* under a row, whatever they meet (files.ts:81-91).
RowsHaveFiles == \A s \in rows : files[s] # "none"

\* No file is leaked: one without a row goes in the end, and so does a preview
\* without its file.
FilesAreReclaimed ==
    \A s \in Shots :
        /\ files[s] # "none" /\ s \notin rows ~> files[s] = "none" \/ s \in rows
        /\ thumbs[s] # "none" /\ files[s] = "none" ~> thumbs[s] = "none"

\* No row without its file, and no row without its host.
RowsAreWhole == ShotTypeOK /\ RowsHaveFiles

=============================================================================
