------------------------------ MODULE SettlesMC ------------------------------
(* Small instances, for TLC, of everything that has to come to an end while *)
(* the programs run. The parts share no state that their liveness depends   *)
(* on, and a behaviour is one of one of them; the others stay as they       *)
(* start. Each has the fairness its module states.                          *)
(*   queue:  the scan queue of ScanQueueMC, one scanner, two jobs;          *)
(*   feed:   rows on their way to the collector;                            *)
(*   hooks:  alerts on their way to a channel, one of them bundled;         *)
(*   checks: the periodic checks;                                           *)
(*   shots:  the files of screenshots;                                      *)
(*   backups: scheduled backups.                                            *)
EXTENDS ScanQueueMC, HecForwarder, Webhooks, AlertChecks, ScreenshotFiles, BackupRuns

CONSTANTS Parts

VARIABLE part

SettlesInit ==
    /\ part \in Parts
    /\ Init
    /\ HecInit
    /\ WebInit
    /\ AlertInit
    /\ part = "checks" \/ check = Kev
    /\ ShotInit
    /\ BackupInit

SettlesNext ==
    /\ UNCHANGED part
    /\ \/ part = "queue" /\ Next /\ UNCHANGED <<hecVars, hookVars, alertVars, shotVars, backupVars>>
       \/ part = "feed" /\ HecNext /\ UNCHANGED <<vars, hookVars, alertVars, shotVars, backupVars>>
       \/ part = "hooks" /\ WebNext /\ UNCHANGED <<vars, hecVars, alertVars, shotVars, backupVars>>
       \/ part = "checks" /\ AlertNext /\ UNCHANGED <<vars, hecVars, hookVars, shotVars, backupVars>>
       \/ part = "shots" /\ ShotNext /\ UNCHANGED <<vars, hecVars, hookVars, alertVars, backupVars>>
       \/ part = "backups" /\ BackupNext /\ UNCHANGED <<vars, hecVars, hookVars, alertVars, shotVars>>

\* FairSpec, HecFairness, WebFairness, AlertFairness, ShotFairness and
\* BackupFairness, of the part that runs.
SettlesFairness ==
    /\ \A a \in Agents : WF_vars(part = "queue" /\ PollStep(a))
    /\ \A j \in Jobs \ Hanging : WF_vars(part = "queue" /\ RunStep(j))
    /\ \A j \in Jobs : WF_vars(part = "queue" /\ StopStep(j)) /\ WF_vars(part = "queue" /\ NoticeCancel(j))
    /\ \A p \in Passes : /\ WF_hecVars(part = "feed" /\ StartPass(p))
                         /\ WF_hecVars(part = "feed" /\ PassStep(p))
    /\ WF_hookVars(part = "hooks" /\ FlushClaim)
    /\ \A c \in Parcels : /\ WF_hookVars(part = "hooks" /\ FlightStep(c))
                          /\ WF_hookVars(part = "hooks" /\ ComesDue(c))
    /\ \A d \in Drains : /\ WF_hookVars(part = "hooks" /\ DrainStart(d))
                         /\ WF_hookVars(part = "hooks" /\ DrainStep(d))
    /\ WF_alertVars(part = "checks" /\ \E r \in Rounds : StartCheck(r))
    /\ \A r \in Rounds : WF_alertVars(part = "checks" /\ CheckStep(r))
    /\ \A s \in Shots : /\ WF_shotVars(part = "shots" /\ WriteFile(s))
                        /\ WF_shotVars(part = "shots" /\ InsertRow(s))
                        /\ WF_shotVars(part = "shots" /\ FileAges(s))
                        /\ WF_shotVars(part = "shots" /\ ThumbAges(s))
    /\ \A d \in Deleters : /\ WF_shotVars(part = "shots" /\ DeleteHost(d))
                           /\ WF_shotVars(part = "shots" /\ DeleteFiles(d))
    /\ WF_shotVars(part = "shots" /\ ListFiles)
    /\ WF_shotVars(part = "shots" /\ UnlinkOrphans)
    /\ WF_backupVars(part = "backups" /\ ClaimDay)
    /\ WF_backupVars(part = "backups" /\ ReadClock)
    /\ WF_backupVars(part = "backups" /\ BackupStep)

SettlesSpec ==
    /\ SettlesInit
    /\ [][SettlesNext]_<<part, vars, hecVars, hookVars, alertVars, shotVars, backupVars>>
    /\ SettlesFairness
=============================================================================
