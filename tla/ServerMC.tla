------------------------------- MODULE ServerMC -------------------------------
(* Small instances, for TLC, of the webserver's parts that share no state,  *)
(* and of the arithmetic of ports and targets. A behaviour is one of one    *)
(* part; the others stay as they start. Three parts are looked at from two  *)
(* sides, each of which leaves the other's abundance out: alerts that are   *)
(* drained ("drains") or bundled ("bundles"), results of one host that      *)
(* overlap ("overlaps") or come in turn, one more of them ("turns"), a      *)
(* restore while the webserver goes on ("restores") or two at once          *)
(* ("loads").                                                               *)
EXTENDS HecForwarder, Webhooks, AlertChecks, HostIngest, Uptime, ScreenshotFiles,
        TickOverlap, LoginLimiter, PortSpecs, TargetRanges, BackupRuns, Restores, TLC

CONSTANTS Parts, m1, m2, e1, e2, x2

VARIABLE part

Rng(a, b) == [lo |-> a, hi |-> b]
MCRanges == {Rng(0, 15), Rng(2, 9), Rng(6, 6), Rng(8, 15)}
MCPatterns == {<<Rng(0, 3), Rng(1, 1)>>, <<Rng(0, 2), Rng(2, 3)>>, <<Rng(2, 3)>>}
MCSplitSizes == <<2, 8>>

\* Stands for the hash of a block's address: neither alternating nor constant.
MCOwner ==
    [b \in ({2, 8} \X (0 .. 15)) \cup {<<0, 0>>} |->
        IF ((b[2] * 5) \div 7 + b[1]) % 3 = 1 THEN "n1" ELSE "n2"]

\* A second check may overlap the first, in an episode that is not the last, or
\* be cut off; not both.
CheckBound ==
    (\A r \in Rounds : round'[r] # Quiet) =>
        checkFaults' = 0 /\ (episode < MaxEpisodes \/ \A r \in Rounds : round[r] # Quiet)

\* The drains deliver the first alert by itself; the bundles need one drain.
DrainsBound == fate'[m2] = "none"
BundlesBound == drain'[e2] = NoDrain

\* The last result never begins, no port is excluded, and a fault, a sweep and
\* a finding are looked at one at a time.
OverlapsNext ==
    /\ ResultBegins(1 .. MaxResults - 1, {{}}) \/ HostSteps
    /\ (IF hostFaults' = 0 THEN 0 ELSE 1) + (IF sweep' = 0 THEN 0 ELSE 1)
         + (IF \A t \in Results : ~res'[t].finds THEN 0 ELSE 1) < 2

\* One more result, two of them at once; each covers all ports and none finds
\* anything; a host that is there stays, and nothing fails.
TurnsNext ==
    /\ HostNext
    /\ hostFaults' = 0 /\ sweep' = 0
    /\ host # 0 => host' = host
    /\ \A t \in Results : res'[t].pc # "none" => res'[t].covers = Ports /\ ~res'[t].finds
    /\ Cardinality({t \in Results : res'[t].pc \notin {"none", "done"}}) < 3

\* Two results wait only before the last two units of time.
UptimeBound == now' > MaxTime - 2 => Cardinality(waiting') < 2

\* A backup fails, or is cut off, where one archive is kept.
BackupsBound == schedule'.keep > 1 => backupFaults' = 0

\* One restore, of an archive that is not replaced once it is whole; captures
\* come, or go, or are swept while nothing fails, one of these at a time.
RestoresBound ==
    /\ restore'[x2] = NoRestore
    /\ archive'.pc = "files" => archive.pc # "done"
    /\ ~(taking' # {} /\ leaving' # {})
    /\ listed' # {} => taking' \cup leaving' = {} /\ restoreFaults' = 0

\* Two restores, and nothing comes or goes.
LoadsBound == taking' = {} /\ leaving' = {} /\ listed' = {}

ServerInit ==
    /\ part \in Parts
    /\ HecInit /\ WebInit /\ AlertInit /\ HostInit /\ UptimeInit /\ ShotInit
    /\ TickInit /\ LoginInit /\ PortInit /\ TargetInit /\ BackupInit /\ RestoreInit
    /\ part = "checks" \/ check = Kev
    /\ part = "ticks" \/ once
    /\ part = "backups" \/ schedule.keep = 1
    /\ part \in {"restores", "loads"} \/ dbRows = {}

Is(p) == part = p /\ UNCHANGED part

ServerNext ==
    \/ Is("feed") /\ HecNext
       /\ UNCHANGED <<hookVars, alertVars, hostVars, uptimeVars, shotVars,
                      tickVars, loginVars, portVars, targetVars, backupVars, restoreVars>>
    \/ (Is("drains") \/ Is("bundles")) /\ WebNext /\ (IF part = "drains" THEN DrainsBound ELSE BundlesBound)
       /\ UNCHANGED <<hecVars, alertVars, hostVars, uptimeVars, shotVars,
                      tickVars, loginVars, portVars, targetVars, backupVars, restoreVars>>
    \/ Is("checks") /\ AlertNext /\ CheckBound
       /\ UNCHANGED <<hecVars, hookVars, hostVars, uptimeVars, shotVars,
                      tickVars, loginVars, portVars, targetVars, backupVars, restoreVars>>
    \/ ((Is("overlaps") /\ OverlapsNext) \/ (Is("turns") /\ TurnsNext))
       /\ UNCHANGED <<hecVars, hookVars, alertVars, uptimeVars, shotVars,
                      tickVars, loginVars, portVars, targetVars, backupVars, restoreVars>>
    \/ Is("uptime") /\ UptimeNext /\ UptimeBound
       /\ UNCHANGED <<hecVars, hookVars, alertVars, hostVars, shotVars,
                      tickVars, loginVars, portVars, targetVars, backupVars, restoreVars>>
    \/ Is("shots") /\ ShotNext
       /\ UNCHANGED <<hecVars, hookVars, alertVars,
                      hostVars, uptimeVars, tickVars, loginVars, portVars, targetVars, backupVars, restoreVars>>
    \/ Is("ticks") /\ TickNext
       /\ UNCHANGED <<hecVars, hookVars, alertVars, hostVars, uptimeVars, shotVars,
                      loginVars, portVars, targetVars, backupVars, restoreVars>>
    \/ Is("logins") /\ LoginNext
       /\ UNCHANGED <<hecVars, hookVars, alertVars, hostVars, uptimeVars, shotVars,
                      tickVars, portVars, targetVars, backupVars, restoreVars>>
    \/ Is("ports") /\ PortNext
       /\ UNCHANGED <<hecVars, hookVars, alertVars, hostVars, uptimeVars, shotVars,
                      tickVars, loginVars, targetVars, backupVars, restoreVars>>
    \/ Is("targets") /\ TargetNext
       /\ UNCHANGED <<hecVars, hookVars, alertVars, hostVars, uptimeVars, shotVars,
                      tickVars, loginVars, portVars, backupVars, restoreVars>>
    \/ Is("backups") /\ BackupNext /\ BackupsBound
       /\ UNCHANGED <<hecVars, hookVars, alertVars, hostVars, uptimeVars, shotVars,
                      tickVars, loginVars, portVars, targetVars, restoreVars>>
    \/ (Is("restores") \/ Is("loads")) /\ RestoreNext /\ (IF part = "restores" THEN RestoresBound ELSE LoadsBound)
       /\ UNCHANGED <<hecVars, hookVars, alertVars, hostVars, uptimeVars, shotVars,
                      tickVars, loginVars, portVars, targetVars, backupVars>>

serverVars == <<part, hecVars, hookVars, alertVars, hostVars, uptimeVars, shotVars,
                tickVars, loginVars, portVars, targetVars, backupVars, restoreVars>>

ServerSpec == ServerInit /\ [][ServerNext]_serverVars
=============================================================================
