------------------------------- MODULE Restores -------------------------------
(***************************************************************************)
(* Backup archives and what a restore makes of the webserver's data        *)
(* (backup/archive.ts, backup/restore.ts, backup/routes.ts). An archive is *)
(* a dump of the database and, taken after it, the screenshot directory. A *)
(* restore dumps the present database, loads the archive's into it, puts   *)
(* the dump back when that fails, then swaps the files and ends the        *)
(* process. The webserver goes on meanwhile: captures write a file and     *)
(* then a row, deletions take rows and then files, the sweep unlinks what  *)
(* no row names, and a second restore may be started.                      *)
(*                                                                         *)
(* Of the data only captures are kept, which lie in both places. psql      *)
(* drops, makes and fills one table after the other, each statement by     *)
(* itself: until it ends the database is neither old nor new (not whole),  *)
(* and a query may fail, or find a table that is still empty. Left out:    *)
(* the deletion of rows that a load has just brought.                      *)
(***************************************************************************)
EXTENDS Naturals, FiniteSets

CONSTANTS
    Captures,       \* rows and files there may be
    Uploads,        \* restores in one behaviour
    MaxRestoreFaults\* failing steps and restarts

ASSUME RestoreAssumption == MaxRestoreFaults \in Nat

VARIABLES
    whole,          \* the database is complete
    dbRows,         \* captures with a row
    disk,           \* captures with a file
    taking,         \* captures whose file is written and whose row is not
    leaving,        \* captures whose row is deleted and whose file is not
    listed,         \* the sweep: the files it has listed, or none
    archive,        \* the last backup, while it is taken and after
    restore,        \* the restores
    expected,       \* history: what the last restore says is there now
    moved,          \* history: captures taken, deleted or swept since it saved the
                    \* database, or under way then
    twoMet,         \* history: two restores were under way at once
    lost,           \* history: a restart, or a second failure, met a load; or what was
                    \* loaded was not whole
    restoreFaults

restoreVars == <<whole, dbRows, disk, taking, leaving, listed, archive, restore,
                 expected, moved, twoMet, lost, restoreFaults>>
traffic == <<taking, leaving, listed>>
verdicts == <<expected, twoMet, lost>>

NoArchive == [pc |-> "none", whole |-> TRUE, rows |-> {}, files |-> {}, bare |-> {}]
NoRestore == [pc |-> "none", whole |-> TRUE, rows |-> {}, files |-> {},
              saved |-> [whole |-> TRUE, rows |-> {}], staged |-> {}]
Nothing == [known |-> FALSE, rows |-> {}, files |-> {}]

RestoreTypeOK ==
    /\ whole \in BOOLEAN /\ dbRows \in SUBSET Captures /\ disk \in SUBSET Captures
    /\ taking \in SUBSET Captures /\ leaving \in SUBSET Captures /\ listed \in SUBSET Captures
    /\ archive \in [pc : {"none", "files", "done"}, whole : BOOLEAN, rows : SUBSET Captures,
                    files : SUBSET Captures, bare : SUBSET Captures]
    /\ restore \in [Uploads -> [pc : {"none", "save", "load", "loading", "rolling", "files",
                                        "swap", "exit", "over"},
                                whole : BOOLEAN, rows : SUBSET Captures, files : SUBSET Captures,
                                saved : [whole : BOOLEAN, rows : SUBSET Captures], staged : SUBSET Captures]]
    /\ expected \in [known : BOOLEAN, rows : SUBSET Captures, files : SUBSET Captures]
    /\ moved \in SUBSET Captures
    /\ twoMet \in BOOLEAN /\ lost \in BOOLEAN
    /\ restoreFaults \in 0 .. MaxRestoreFaults

RestoreInit ==
    /\ whole = TRUE
    /\ dbRows \in SUBSET Captures /\ disk = dbRows
    /\ taking = {} /\ leaving = {} /\ listed = {}
    /\ archive = NoArchive
    /\ restore = [r \in Uploads |-> NoRestore]
    /\ expected = Nothing
    /\ moved = Captures /\ twoMet = FALSE /\ lost = FALSE
    /\ restoreFaults = 0

(***************************************************************************)
(* What the webserver does at the same time.                               *)
(***************************************************************************)

WriteCapture(c) ==
    /\ c \notin dbRows \cup disk \cup taking \cup leaving
    /\ disk' = disk \cup {c}
    /\ taking' = taking \cup {c}
    /\ moved' = moved \cup {c}
    /\ UNCHANGED <<whole, dbRows, leaving, listed, archive, restore, verdicts, restoreFaults>>

\* Fails while its table is gone, or once its host is.
InsertCapture(c) ==
    /\ c \in taking
    /\ taking' = taking \ {c}
    /\ dbRows' = dbRows \cup {c} \/ UNCHANGED dbRows
    /\ UNCHANGED <<whole, disk, leaving, listed, archive, restore, moved, verdicts, restoreFaults>>

DeleteCapture(c) ==
    /\ whole /\ c \in dbRows
    /\ dbRows' = dbRows \ {c}
    /\ leaving' = leaving \cup {c}
    /\ moved' = moved \cup {c}
    /\ UNCHANGED <<whole, disk, taking, listed, archive, restore, verdicts, restoreFaults>>

\* A backup that is being taken will not find the files that have gone.
Unlink(S) ==
    /\ disk' = disk \ S
    /\ archive' = IF archive.pc = "files" THEN [archive EXCEPT !.bare = @ \cup S] ELSE archive
    /\ moved' = moved \cup S

UnlinkCapture(c) ==
    /\ c \in leaving
    /\ leaving' = leaving \ {c}
    /\ Unlink({c})
    /\ UNCHANGED <<whole, dbRows, taking, listed, restore, verdicts, restoreFaults>>

\* purgeOrphanedScreenshotFiles: listed, and unlinked if no row names it and it
\* is old, which a file is not whose row is still to come. During a load it
\* fails, or finds no rows yet and takes every old file.
SweepList ==
    /\ listed = {}
    /\ listed' = disk
    /\ UNCHANGED <<whole, dbRows, disk, taking, leaving, archive, restore, moved, verdicts, restoreFaults>>

SweepUnlink ==
    /\ listed # {}
    /\ listed' = {}
    /\ \/ Unlink(listed \ (dbRows \cup taking))
       \/ ~whole /\ UNCHANGED <<disk, archive, moved>>
    /\ UNCHANGED <<whole, dbRows, taking, leaving, restore, verdicts, restoreFaults>>

(***************************************************************************)
(* createBackupArchive.                                                    *)
(***************************************************************************)

DumpDatabase ==
    /\ archive.pc # "files"
    /\ archive' = [pc |-> "files", whole |-> whole, rows |-> dbRows, files |-> {}, bare |-> dbRows \ disk]
    /\ UNCHANGED <<whole, dbRows, disk, traffic, restore, moved, verdicts, restoreFaults>>

\* Not the code: the files are taken before the dump.
TarFilesFirst ==
    /\ archive.pc = "files"
    /\ archive' = [archive EXCEPT !.pc = "done", !.rows = dbRows, !.files = archive.rows \ archive.bare]
    /\ UNCHANGED <<whole, dbRows, disk, traffic, restore, moved, verdicts, restoreFaults>>

TarFiles ==
    /\ archive.pc = "files"
    /\ archive' = [archive EXCEPT !.pc = "done", !.files = disk]
    /\ UNCHANGED <<whole, dbRows, disk, traffic, restore, moved, verdicts, restoreFaults>>

\* A file that goes while tar reads it, or no space: there is no archive.
TarFails ==
    /\ archive.pc = "files"
    /\ archive' = NoArchive
    /\ UNCHANGED <<whole, dbRows, disk, traffic, restore, moved, verdicts, restoreFaults>>

(***************************************************************************)
(* restoreFromArchive.                                                     *)
(***************************************************************************)

IsAt(r, pc) == restore[r].pc = pc
To(r, pc) == [restore EXCEPT ![r].pc = pc]
\* A restore that is over, or has nothing left to do.
Ends(r, pc) == [restore EXCEPT ![r] = [NoRestore EXCEPT !.pc = pc]]
\* Another restore's psql is at work.
Beside(r) == \E q \in Uploads \ {r} : restore[q].pc \in {"loading", "rolling"}

\* The archive is uploaded, and checked.
StartRestore(r) ==
    /\ IsAt(r, "none")
    /\ archive.pc = "done"
    /\ restore' = [restore EXCEPT ![r] = [NoRestore EXCEPT !.pc = "save", !.whole = archive.whole,
                                                      !.rows = archive.rows, !.files = archive.files]]
    /\ twoMet' = (twoMet \/ \E q \in Uploads \ {r} : restore[q].pc \notin {"none", "over"})
    /\ UNCHANGED <<whole, dbRows, disk, traffic, archive, expected, moved, lost, restoreFaults>>

SaveDatabase(r) ==
    /\ IsAt(r, "save")
    /\ restore' = [restore EXCEPT ![r].pc = "load", ![r].saved = [whole |-> whole, rows |-> dbRows]]
    /\ moved' = taking \cup leaving \cup listed
    /\ expected' = Nothing
    /\ UNCHANGED <<whole, dbRows, disk, traffic, archive, twoMet, lost, restoreFaults>>

BeginLoad(r) ==
    /\ IsAt(r, "load")
    /\ restore' = To(r, "loading")
    /\ whole' = FALSE /\ dbRows' = {}
    /\ UNCHANGED <<disk, traffic, archive, moved, verdicts, restoreFaults>>

\* What a psql leaves that has come to its end: its dump, and of what was
\* inserted meanwhile what it did not drop; unless another is at work on the
\* same tables.
Leaves(r, dump) ==
    /\ whole' = (dump.whole /\ ~Beside(r))
    /\ \E late \in SUBSET dbRows :
          dbRows' = IF Beside(r) THEN late ELSE dump.rows \cup late
    /\ lost' = (lost \/ ~dump.whole)

EndLoad(r) ==
    /\ IsAt(r, "loading")
    /\ restore' = To(r, "files")
    /\ Leaves(r, restore[r])
    /\ UNCHANGED <<disk, traffic, archive, expected, moved, twoMet, restoreFaults>>

\* psql stops at the first error: a lock it waited for too long, a table another
\* restore has made or dropped.
LoadFails(r) ==
    /\ IsAt(r, "loading")
    /\ restoreFaults < MaxRestoreFaults \/ twoMet
    /\ restoreFaults' = IF twoMet THEN restoreFaults ELSE restoreFaults + 1
    /\ restore' = To(r, "rolling")
    /\ UNCHANGED <<whole, dbRows, disk, traffic, archive, moved, verdicts>>

\* Not the code: what was dumped before is not put back.
RollBackNot(r) ==
    /\ IsAt(r, "rolling")
    /\ restore' = Ends(r, "over")
    /\ UNCHANGED <<whole, dbRows, disk, traffic, archive, expected, moved, twoMet, lost, restoreFaults>>

\* The previous contents are put back, and the files were not touched.
RollBack(r) ==
    /\ IsAt(r, "rolling")
    /\ restore' = Ends(r, "over")
    /\ Leaves(r, restore[r].saved)
    /\ expected' = [known |-> TRUE, rows |-> restore[r].saved.rows, files |-> disk]
    /\ UNCHANGED <<disk, traffic, archive, moved, twoMet, restoreFaults>>

RollBackFails(r) ==
    /\ IsAt(r, "rolling")
    /\ restoreFaults < MaxRestoreFaults \/ twoMet
    /\ restoreFaults' = IF twoMet THEN restoreFaults ELSE restoreFaults + 1
    /\ restore' = Ends(r, "over")
    /\ lost' = TRUE
    /\ UNCHANGED <<whole, dbRows, disk, traffic, archive, expected, moved, twoMet>>

\* The files are unpacked beside the old ones.
StageFiles(r) ==
    /\ IsAt(r, "files")
    /\ restore' = [restore EXCEPT ![r].pc = "swap", ![r].staged = restore[r].files]
    /\ UNCHANGED <<whole, dbRows, disk, traffic, archive, moved, verdicts, restoreFaults>>

\* Some of them do not come out of the archive, or none.
StageFails(r) ==
    /\ IsAt(r, "files")
    /\ restoreFaults < MaxRestoreFaults
    /\ restoreFaults' = restoreFaults + 1
    /\ \E some \in SUBSET restore[r].files \ {restore[r].files} :
          restore' = [restore EXCEPT ![r].pc = "swap", ![r].staged = some]
    /\ UNCHANGED <<whole, dbRows, disk, traffic, archive, moved, verdicts>>

\* Not the code: the old files stay.
SwapFilesOver(r) ==
    /\ IsAt(r, "swap")
    /\ disk' = disk \cup restore[r].staged
    /\ restore' = Ends(r, "exit")
    /\ expected' = [known |-> TRUE, rows |-> restore[r].rows, files |-> restore[r].staged]
    /\ UNCHANGED <<whole, dbRows, traffic, archive, moved, twoMet, lost, restoreFaults>>

\* The directory is cleared, what another restore has staged in it included, and
\* the staged files are renamed into it, without an await between. When nothing
\* came out of an archive that holds files, the old ones stay.
SwapFiles(r) ==
    LET keeps == restore[r].staged = {} /\ restore[r].files # {}
        files == IF keeps THEN disk ELSE restore[r].staged
    IN  /\ IsAt(r, "swap")
        /\ disk' = files
        /\ archive' = IF archive.pc = "files" THEN [archive EXCEPT !.bare = @ \cup (disk \ files)] ELSE archive
        /\ restore' = [q \in Uploads |-> IF q = r THEN [NoRestore EXCEPT !.pc = "exit"]
                                         ELSE [restore[q] EXCEPT !.staged = IF keeps THEN @ ELSE {}]]
        /\ expected' = [known |-> TRUE, rows |-> restore[r].rows, files |-> files]
        /\ UNCHANGED <<whole, dbRows, traffic, moved, twoMet, lost, restoreFaults>>

\* An error on the way, as of a file that another restore has taken: the restore
\* is answered with it and promises nothing, and the process goes on, with the
\* archive's rows and some of the old files or some of the staged ones.
SwapFails(r) ==
    /\ IsAt(r, "swap")
    /\ restoreFaults < MaxRestoreFaults \/ twoMet
    /\ restoreFaults' = IF twoMet THEN restoreFaults ELSE restoreFaults + 1
    /\ \E files \in (SUBSET disk) \cup (SUBSET restore[r].staged), clears \in BOOLEAN :
          /\ disk' = files
          /\ archive' = IF archive.pc = "files" THEN [archive EXCEPT !.bare = @ \cup (disk \ files)] ELSE archive
          /\ restore' = [q \in Uploads |-> IF q = r THEN [NoRestore EXCEPT !.pc = "over"]
                                           ELSE [restore[q] EXCEPT !.staged = IF clears THEN {} ELSE @]]
    /\ UNCHANGED <<whole, dbRows, traffic, moved, verdicts>>

(***************************************************************************)
(* The process ends, and begins again.                                     *)
(***************************************************************************)

\* A psql whose input ends stops where it is.
ProcessEnds ==
    /\ taking' = {} /\ leaving' = {} /\ listed' = {}
    /\ archive' = IF archive.pc = "files" THEN NoArchive ELSE archive
    /\ restore' = [r \in Uploads |-> IF IsAt(r, "none") THEN restore[r]
                                   ELSE [NoRestore EXCEPT !.pc = "over"]]
    /\ lost' = (lost \/ \E r \in Uploads : restore[r].pc \in {"loading", "rolling"})
    /\ UNCHANGED <<whole, dbRows, disk, moved, twoMet>>

\* Half a second after its answer a restore ends the process.
ExitAfterRestore(r) ==
    /\ IsAt(r, "exit")
    /\ ProcessEnds
    /\ UNCHANGED <<expected, restoreFaults>>

RestoreCrash ==
    /\ restoreFaults < MaxRestoreFaults
    /\ restoreFaults' = restoreFaults + 1
    /\ ProcessEnds
    /\ UNCHANGED expected

RestoreNext ==
    \/ \E c \in Captures : WriteCapture(c) \/ InsertCapture(c) \/ DeleteCapture(c) \/ UnlinkCapture(c)
    \/ SweepList \/ SweepUnlink
    \/ DumpDatabase \/ TarFiles \/ TarFails
    \/ \E r \in Uploads : \/ StartRestore(r) \/ SaveDatabase(r) \/ BeginLoad(r) \/ EndLoad(r) \/ LoadFails(r)
                          \/ RollBack(r) \/ RollBackFails(r) \/ StageFiles(r) \/ StageFails(r)
                          \/ SwapFiles(r) \/ SwapFails(r) \/ ExitAfterRestore(r)
    \/ RestoreCrash

RestoreSpec == RestoreInit /\ [][RestoreNext]_restoreVars

(***************************************************************************)
(* Properties.                                                             *)
(***************************************************************************)

\* A restore leaves the database complete, the archive's or, when it fails, the
\* previous one (restore.ts:239-243): unless the process ends in a load, the
\* dump cannot be put back, the archive was not whole, or two restores met.
DatabaseIsWhole ==
    whole \/ lost \/ twoMet \/ \E r \in Uploads : restore[r].pc \in {"loading", "rolling"}

\* After a restore there is exactly what it said it restored, of the captures
\* nobody has touched since, or was touching.
RestoredIsThere ==
    expected.known /\ ~twoMet /\ ~lost =>
        \A c \in Captures \ moved :
            (c \in dbRows <=> c \in expected.rows) /\ (c \in disk <=> c \in expected.files)

\* A row of an archive without its file had none before, or lost it while the
\* archive was taken: what is captured meanwhile comes with its file.
ArchiveIsConsistent == archive.pc = "done" => archive.rows \ archive.files \subseteq archive.bare

\* What is backed up and restored is complete and consistent.
RestoresAreSound == RestoreTypeOK /\ DatabaseIsWhole /\ RestoredIsThere /\ ArchiveIsConsistent

=============================================================================
