------------------------------ MODULE BackupRuns ------------------------------
(***************************************************************************)
(* Scheduled backups (backup/schedule.ts). A ticker claims the day within  *)
(* the configured hour and makes a run; an administrator may ask for a run *)
(* at any time. A flag of the process lets one run work at a time, which   *)
(* reads the settings, builds an archive, delivers it, prunes the target   *)
(* and records what came of it; a failure is recorded and alerted.         *)
(*                                                                         *)
(* Archives are numbered in the order of their names, which tell the time. *)
(* Left out: what an archive holds (module Restores), the two kinds of     *)
(* targets but for the partial file a directory may be left with.          *)
(***************************************************************************)
EXTENDS Naturals, FiniteSets

CONSTANTS
    MaxDay,
    MaxArchives,    \* archives built in one behaviour
    Keeps,          \* values of backup_keep
    MaxBackupFaults \* restarts and failing steps

ASSUME BackupAssumption ==
    /\ MaxDay \in Nat \ {0} /\ MaxArchives \in Nat /\ MaxBackupFaults \in Nat
    /\ Keeps \subseteq Nat \ {0}

Days == 1 .. MaxDay
Archives == 1 .. MaxArchives

VARIABLES
    day,
    inHour,         \* the configured hour
    schedule,       \* backup_schedule_enabled, backup_keep
    claimed,        \* backup_last_date
    tickReads,      \* a tick that has read the settings
    running,        \* the flag of the process
    backup,         \* the run that has passed it
    built,          \* archives built so far
    shelf,          \* those at the target, under their name
    partial,        \* those left there under a temporary name
    lastRun,        \* backup_last_status and backup_last_location
    delivered,      \* history: archives that got to the target
    over,           \* history: days whose run has returned or was cut off
    recorded,       \* history: days whose outcome is recorded, a failure alerted
    unheard,        \* history: days whose run met a fault its handler cannot tell,
                    \* or another run
    jammed,         \* history: the settings could not be read in a run
    backupFaults

backupVars == <<day, inHour, schedule, claimed, tickReads, running, backup, built, shelf, partial,
                lastRun, delivered, over, recorded, unheard, jammed, backupFaults>>
clock == <<day, inHour>>
target == <<built, shelf, partial, delivered>>
ends == <<over, recorded, unheard>>

Phases == {"none", "settings", "build", "copy", "rename", "list", "prune", "succeed", "fail"}
NoBackup == [pc |-> "none", due |-> 0, keep |-> 1, archive |-> 0, doomed |-> {}]
\* A run's day is 0 where an administrator asked for it.
DaysOf(b) == IF b.due = 0 THEN {} ELSE {b.due}

BackupTypeOK ==
    /\ day \in Days /\ inHour \in BOOLEAN
    /\ schedule \in [enabled : BOOLEAN, keep : Keeps]
    /\ claimed \in 0 .. MaxDay
    /\ tickReads \in BOOLEAN /\ running \in BOOLEAN
    /\ backup \in [pc : Phases, due : 0 .. MaxDay, keep : Keeps \cup {1},
                   archive : 0 .. MaxArchives, doomed : SUBSET Archives]
    /\ built \in 0 .. MaxArchives
    /\ shelf \in SUBSET Archives /\ partial \in SUBSET Archives /\ delivered \in SUBSET Archives
    /\ lastRun \in [status : {"none", "succeeded", "failed"}, archive : 0 .. MaxArchives]
    /\ over \in SUBSET Days /\ recorded \in SUBSET Days /\ unheard \in SUBSET Days
    /\ jammed \in BOOLEAN /\ backupFaults \in 0 .. MaxBackupFaults

BackupInit ==
    /\ day = 1 /\ inHour = FALSE
    /\ schedule \in [enabled : {TRUE}, keep : Keeps]
    /\ claimed = 0 /\ tickReads = FALSE /\ running = FALSE
    /\ backup = NoBackup
    /\ built = 0 /\ shelf = {} /\ partial = {} /\ delivered = {}
    /\ lastRun = [status |-> "none", archive |-> 0]
    /\ over = {} /\ recorded = {} /\ unheard = {}
    /\ jammed = FALSE /\ backupFaults = 0

(***************************************************************************)
(* The ticker, and the administrator.                                      *)
(***************************************************************************)

\* The ticker fires every five minutes: the hour does not go by without it.
TimePasses ==
    /\ ~tickReads
    /\ inHour => ~schedule.enabled \/ claimed = day
    /\ \/ ~inHour /\ inHour' = TRUE /\ UNCHANGED day
       \/ inHour /\ inHour' = FALSE /\ day < MaxDay /\ day' = day + 1
    /\ UNCHANGED <<schedule, claimed, tickReads, running, backup, target, lastRun, ends,
                   jammed, backupFaults>>

ReadClock ==
    /\ ~tickReads
    /\ schedule.enabled /\ inHour /\ claimed # day
    /\ tickReads' = TRUE
    /\ UNCHANGED <<clock, schedule, claimed, running, backup, target, lastRun, ends, jammed, backupFaults>>

\* Not the code: runs are not kept apart.
EnterAnyway(due) ==
    /\ running' = TRUE
    /\ backup' = [NoBackup EXCEPT !.pc = "settings", !.due = IF due = {} THEN 0 ELSE day]
    /\ UNCHANGED ends

\* The flag turns a run away without a record.
Enter(due) ==
    IF running
    THEN /\ over' = over \cup due
         /\ unheard' = unheard \cup due
         /\ UNCHANGED <<running, backup, recorded>>
    ELSE /\ running' = TRUE
         /\ backup' = [NoBackup EXCEPT !.pc = "settings", !.due = IF due = {} THEN 0 ELSE day]
         /\ UNCHANGED ends

\* The UPDATE is guarded, and the run begins with its answer.
ClaimDay ==
    /\ tickReads
    /\ tickReads' = FALSE
    /\ IF claimed = day
       THEN UNCHANGED <<claimed, running, backup, ends>>
       ELSE /\ claimed' = day
            /\ Enter({day})
    /\ UNCHANGED <<clock, schedule, target, lastRun, jammed, backupFaults>>

RunNow ==
    /\ Enter({})
    /\ UNCHANGED <<clock, schedule, claimed, tickReads, target, lastRun, jammed, backupFaults>>

SetBackupSchedule(enabled, keep) ==
    /\ schedule' = [enabled |-> enabled, keep |-> keep]
    /\ schedule' # schedule
    /\ UNCHANGED <<clock, claimed, tickReads, running, backup, target, lastRun, ends, jammed, backupFaults>>

(***************************************************************************)
(* A run.                                                                  *)
(***************************************************************************)

\* Nothing else of a run is in the way of one of its steps.
Only(what) ==
    /\ backup' = what
    /\ UNCHANGED <<clock, schedule, claimed, tickReads, running, lastRun, ends, jammed, backupFaults>>

GetBackupSchedule ==
    /\ backup.pc = "settings"
    /\ Only([backup EXCEPT !.pc = "build", !.keep = schedule.keep])
    /\ UNCHANGED target

BuildArchive ==
    /\ backup.pc = "build"
    /\ built < MaxArchives
    /\ built' = built + 1
    /\ Only([backup EXCEPT !.pc = "copy", !.archive = built'])
    /\ UNCHANGED <<shelf, partial, delivered>>

\* Not enough space, or pg_dump or tar fails: the handler tells.
BuildFails ==
    /\ backup.pc = "build"
    /\ Only([backup EXCEPT !.pc = "fail"])
    /\ UNCHANGED target

CopyPartial ==
    /\ backup.pc = "copy"
    /\ partial' = partial \cup {backup.archive}
    /\ \/ Only([backup EXCEPT !.pc = "rename"])
       \/ Only([backup EXCEPT !.pc = "fail"])
    /\ UNCHANGED <<built, shelf, delivered>>

Rename ==
    /\ backup.pc = "rename"
    /\ partial' = partial \ {backup.archive}
    /\ shelf' = shelf \cup {backup.archive}
    /\ delivered' = delivered \cup {backup.archive}
    /\ Only([backup EXCEPT !.pc = "list"])
    /\ UNCHANGED built

\* Not the code: one too few is kept.
ArchivesToPruneMore(names, keep) == {n \in names : Cardinality({m \in names : m > n}) >= keep - 1}

ArchivesToPrune(names, keep) == {n \in names : Cardinality({m \in names : m > n}) >= keep}

ListShelf ==
    /\ backup.pc = "list"
    /\ Only([backup EXCEPT !.pc = "prune", !.doomed = ArchivesToPrune(shelf, backup.keep)])
    /\ UNCHANGED target

\* One after the other, the oldest first.
PruneOne ==
    /\ backup.pc = "prune" /\ backup.doomed # {}
    /\ \E n \in backup.doomed :
          /\ \A m \in backup.doomed : n <= m
          /\ shelf' = shelf \ {n}
          /\ Only([backup EXCEPT !.doomed = @ \ {n}])
    /\ UNCHANGED <<built, partial, delivered>>

PruneDone ==
    /\ backup.pc = "prune" /\ backup.doomed = {}
    /\ Only([backup EXCEPT !.pc = "succeed"])
    /\ UNCHANGED target

\* A step between the archive and the record fails, the record of a success
\* included: an archive that got there is then said to have failed.
StepFails ==
    /\ backup.pc \in {"rename", "list", "prune", "succeed"}
    /\ backupFaults < MaxBackupFaults
    /\ backupFaults' = backupFaults + 1
    /\ backup' = [backup EXCEPT !.pc = "fail"]
    /\ UNCHANGED <<clock, schedule, claimed, tickReads, running, target, lastRun, ends, jammed>>

\* Not the code: the flag is cleared by a success only.
LeaveFlag ==
    /\ backup' = NoBackup
    /\ running' = (backup.pc # "succeed")
    /\ over' = over \cup DaysOf(backup)

\* The finally block, and the answer.
Leave ==
    /\ backup' = NoBackup
    /\ running' = FALSE
    /\ over' = over \cup DaysOf(backup)

\* Not the code: a failure is not alerted, and not recorded.
RecordOutcomeOfSuccess ==
    /\ backup.pc \in {"succeed", "fail"}
    /\ IF backup.pc = "succeed"
       THEN /\ lastRun' = [status |-> "succeeded", archive |-> backup.archive]
            /\ recorded' = recorded \cup DaysOf(backup)
       ELSE UNCHANGED <<lastRun, recorded>>
    /\ Leave
    /\ UNCHANGED <<clock, schedule, claimed, tickReads, target, unheard, jammed, backupFaults>>

\* A failed run does not change which archive the last success names.
RecordOutcome ==
    /\ backup.pc \in {"succeed", "fail"}
    /\ lastRun' = IF backup.pc = "succeed"
                 THEN [status |-> "succeeded", archive |-> backup.archive]
                 ELSE [lastRun EXCEPT !.status = "failed"]
    /\ recorded' = recorded \cup DaysOf(backup)
    /\ Leave
    /\ UNCHANGED <<clock, schedule, claimed, tickReads, target, unheard, jammed, backupFaults>>

(***************************************************************************)
(* What no handler tells.                                                  *)
(***************************************************************************)

\* The settings are read after the flag is set and before the try block: the
\* error ends the run and leaves the flag.
SettingsFail ==
    /\ backup.pc = "settings"
    /\ backupFaults < MaxBackupFaults
    /\ backupFaults' = backupFaults + 1
    /\ backup' = NoBackup
    /\ over' = over \cup DaysOf(backup)
    /\ unheard' = unheard \cup DaysOf(backup)
    /\ jammed' = TRUE
    /\ UNCHANGED <<clock, schedule, claimed, tickReads, running, target, lastRun, recorded>>

\* The record of a failure fails, or what follows it: the alert.
RecordFails ==
    /\ backup.pc = "fail"
    /\ backupFaults < MaxBackupFaults
    /\ backupFaults' = backupFaults + 1
    /\ Leave
    /\ unheard' = unheard \cup DaysOf(backup)
    /\ UNCHANGED lastRun \/ lastRun' = [lastRun EXCEPT !.status = "failed"]
    /\ UNCHANGED <<clock, schedule, claimed, tickReads, target, recorded, jammed>>

BackupRestart ==
    /\ backupFaults < MaxBackupFaults
    /\ backupFaults' = backupFaults + 1
    /\ backup' = NoBackup
    /\ running' = FALSE /\ tickReads' = FALSE /\ jammed' = FALSE
    /\ over' = over \cup DaysOf(backup)
    /\ unheard' = unheard \cup DaysOf(backup)
    /\ UNCHANGED <<clock, schedule, claimed, target, lastRun, recorded>>

BackupStep ==
    \/ GetBackupSchedule \/ BuildArchive \/ BuildFails \/ CopyPartial \/ Rename
    \/ ListShelf \/ PruneOne \/ PruneDone \/ RecordOutcome

BackupNext ==
    \/ TimePasses \/ ReadClock \/ ClaimDay \/ RunNow
    \/ \E enabled \in BOOLEAN, keep \in Keeps : SetBackupSchedule(enabled, keep)
    \/ BackupStep \/ StepFails
    \/ SettingsFail \/ RecordFails \/ BackupRestart

\* The ticker, and the steps of a run. Days and administrators are owed nothing.
BackupFairness == WF_backupVars(ClaimDay) /\ WF_backupVars(ReadClock) /\ WF_backupVars(BackupStep)

BackupSpec == BackupInit /\ [][BackupNext]_backupVars /\ BackupFairness

(***************************************************************************)
(* Properties.                                                             *)
(***************************************************************************)

\* An archive leaves the target only for as many newer ones as are to be kept,
\* and more than those stay only until the run has pruned.
TargetIsTended ==
    /\ \A n \in delivered \ shelf :
          \E keep \in Keeps : Cardinality({m \in delivered : m > n}) >= keep
    /\ backup.pc = "succeed" => Cardinality(shelf) <= backup.keep

\* What is recorded as the last success has got to the target, whole.
RecordIsTrue ==
    /\ lastRun.status = "succeeded" => lastRun.archive \in delivered
    /\ shelf \subseteq delivered /\ partial \cap shelf = {}

\* No backup fails silently (schedule.ts:185-187), unless it met another run, a
\* restart, or a failure of the very statements that would tell; and, against
\* that comment, unless a run before it could not read the settings.
FailuresAreTold == over \ recorded \subseteq unheard /\ (running /\ backup = NoBackup => jammed)

\* A scheduled backup is made, kept and told.
BackupsAreSound == BackupTypeOK /\ TargetIsTended /\ RecordIsTrue /\ FailuresAreTold

\* A day in which backups are switched on has its run, and the run comes to an
\* end and lets others in, but for a flag that was left behind.
BackupsGoOn ==
    /\ \A d \in Days :
          day = d /\ inHour /\ schedule.enabled ~> d \in over \/ ~schedule.enabled
    /\ running ~> ~running \/ jammed

=============================================================================
