---------------------------- MODULE SelfUpdate ----------------------------
(* How scanners come to a new release. The webserver knows the latest one  *)
(* (scannerUpdate/githubSync.ts) and flags a scanner to take it, because   *)
(* an administrator asked or by itself, canaries first                     *)
(* (scannerUpdate/autoUpdate.ts). The scanner's watcher polls the flag,    *)
(* waits until it is idle, downloads what is the latest release by then,   *)
(* replaces its binary and executes it (updater/updater.go), while its     *)
(* polling loop goes on claiming scans. Every call carries the version the *)
(* process runs, from which the webserver also learns that an update it    *)
(* still waits for is there (ingest/apiKeyAuth.ts).                        *)
(*                                                                         *)
(* A call and the statements of its handler are one step. A release is     *)
(* known from the start (the first sync is at start-up), scanners are not  *)
(* revoked, and one-shot commands beside the service, which report the     *)
(* version on disk, are left out.                                          *)
EXTENDS Integers

CONSTANTS
  Agents,
  AutoUpdated,  \* scanners whose auto-update setting is on
  MaxAttempts,  \* MAX_UPDATE_ATTEMPTS, 3 in the code
  MaxVersion,   \* bounds releases
  MaxScans,     \* bounds, per scanner, the scans of one process
  MaxEvents     \* bounds requests and marks of administrators, withdrawn
                \* releases, lost reports, failing execs and restarts

ASSUME UpdateAssumption ==
  /\ AutoUpdated \subseteq Agents
  /\ MaxAttempts \in Nat \ {0}
  /\ MaxVersion \in Nat \ {0}
  /\ MaxScans \in [Agents -> Nat]
  /\ MaxEvents \in Nat

VARIABLES
  latest,   \* scanner_release_cache
  canary,   \* scanners marked update_canary
  row,      \* scanner_agents: version (0 is unknown), request, status,
            \* attempts, and whether a scan begun since the version
            \* changed has been completed
  tick,     \* the tick of auto-update under way
  running,  \* the version of the scanner's process
  disk,     \* the version of its binary
  watch,    \* the update watcher and the release it fetches
  scan,     \* the scan of the process; fresh if it began on row's version
  scans,    \* bound, see MaxScans
  events,   \* bound, see MaxEvents
  proof,    \* history: versions on which a scanner completed a scan
  killed    \* history: scanners whose running scan died by an update

vars == <<latest, canary, row, tick, running, disk, watch, scan, scans, events, proof, killed>>
server == <<latest, canary, tick>>

NoScan == [pc |-> "none", fresh |-> FALSE]
IdleWatch == [pc |-> "idle", target |-> 0]
IdleTick == [pc |-> "idle", latest |-> 0, gate |-> "none", todo |-> {}]

Init ==
  /\ latest = 1
  /\ canary \in SUBSET Agents
  /\ row = [a \in Agents |-> [version |-> 0, requested |-> FALSE, status |-> "none", attempts |-> 0, proven |-> FALSE]]
  /\ tick = IdleTick
  /\ running = [a \in Agents |-> 1]
  /\ disk = [a \in Agents |-> 1]
  /\ watch = [a \in Agents |-> IdleWatch]
  /\ scan = [a \in Agents |-> NoScan]
  /\ scans = [a \in Agents |-> 0]
  /\ events = 0
  /\ proof = [a \in Agents |-> {}]
  /\ killed = {}

Happens == events < MaxEvents /\ events' = events + 1

-----------------------------------------------------------------------------
\* Every call of a scanner

Cleared(r) == [r EXCEPT !.requested = FALSE, !.status = "none", !.attempts = 0]

\* Not the code: a new version keeps the evidence of the old one.
SeenKeepingProof(r, v) == [r EXCEPT !.version = v]

\* version_changed_at moves with the version: older scans prove nothing.
Seen(r, v) == [r EXCEPT !.version = v, !.proven = r.proven /\ r.version = v]

\* apiKeyAuth: an update that is still waited for may be there already.
Heard(a) ==
  LET r == Seen(row[a], running[a]) IN
  IF r.status # "none" /\ latest <= running[a] THEN Cleared(r) ELSE r

StillFresh(a) == scan[a].fresh /\ row[a].version = running[a]

\* What a call of a leaves in its row, besides ageing the scan under way.
Calls(a, r) ==
  /\ row' = [row EXCEPT ![a] = r]
  /\ scan' = [scan EXCEPT ![a].fresh = StillFresh(a)]

Beat(a) ==
  /\ Heard(a) # row[a]
  /\ Calls(a, Heard(a))
  /\ UNCHANGED <<server, running, disk, watch, scans, events, proof, killed>>
-----------------------------------------------------------------------------
\* The update watcher of a scanner

To(a, pc) == watch' = [watch EXCEPT ![a].pc = pc]

Check(a) ==
  /\ watch[a].pc = "idle"
  /\ Calls(a, Heard(a))
  /\ To(a, IF Heard(a).requested THEN "asked" ELSE "idle")
  /\ UNCHANGED <<server, running, disk, scans, events, proof, killed>>

\* A scan that is claimed but has not come to its pipeline does not count.
IsScanning(a) == scan[a].pc = "busy"

BusyCheck(a) ==
  /\ watch[a].pc = "asked"
  /\ To(a, IF IsScanning(a) THEN "idle" ELSE "fetch")
  /\ UNCHANGED <<server, row, running, disk, scan, scans, events, proof, killed>>

\* Not the code: whatever the release, it is downloaded.
NextStepAlways(a) == "download"

NextStep(a) == IF latest <= running[a] THEN "satisfied" ELSE "download"

Fetch(a) ==
  /\ watch[a].pc = "fetch"
  /\ Calls(a, Heard(a))
  /\ watch' = [watch EXCEPT ![a] = [pc |-> NextStep(a), target |-> latest]]
  /\ UNCHANGED <<server, running, disk, scans, events, proof, killed>>

\* The binary is not writable, or a request, the download, its checksum or
\* the replacement fails.
Fail(a) ==
  /\ watch[a].pc \in {"fetch", "download"}
  /\ To(a, "failing")
  /\ UNCHANGED <<server, row, running, disk, scan, scans, events, proof, killed>>

Install(a) ==
  /\ watch[a].pc = "download"
  /\ disk' = [disk EXCEPT ![a] = watch[a].target]
  /\ To(a, "installed")
  /\ UNCHANGED <<server, row, running, scan, scans, events, proof, killed>>

AfterReport(a) == To(a, IF watch[a].pc = "installed" THEN "exec" ELSE "idle")

ReportSuccess(a) ==
  /\ watch[a].pc \in {"satisfied", "installed"}
  /\ Calls(a, Cleared(Heard(a)))
  /\ AfterReport(a)
  /\ UNCHANGED <<server, running, disk, scans, events, proof, killed>>

\* Not the code: one attempt too many.
FailedOnceMore(r) ==
  IF r.attempts >= MaxAttempts
  THEN [r EXCEPT !.requested = FALSE, !.status = "failed", !.attempts = r.attempts + 1]
  ELSE [r EXCEPT !.status = "pending", !.attempts = r.attempts + 1]

\* Not the code: a request given up is not withdrawn.
FailedStillAsked(r) ==
  [r EXCEPT !.status = IF r.attempts + 1 >= MaxAttempts THEN "failed" ELSE "pending", !.attempts = r.attempts + 1]

\* Not the code: every failure is the first.
FailedForgetful(r) ==
  IF 1 >= MaxAttempts THEN [r EXCEPT !.requested = FALSE, !.status = "failed", !.attempts = 1]
  ELSE [r EXCEPT !.status = "pending", !.attempts = 1]

\* update-outcome: the third failure ends the request.
Failed(r) ==
  IF r.attempts + 1 >= MaxAttempts
  THEN [r EXCEPT !.requested = FALSE, !.status = "failed", !.attempts = r.attempts + 1]
  ELSE [r EXCEPT !.status = "pending", !.attempts = r.attempts + 1]

ReportFailure(a) ==
  /\ watch[a].pc = "failing"
  /\ Calls(a, Failed(Heard(a)))
  /\ To(a, "idle")
  /\ UNCHANGED <<server, running, disk, scans, events, proof, killed>>

\* Nobody repeats a report that does not arrive.
LoseReport(a) ==
  /\ watch[a].pc \in {"satisfied", "installed", "failing"}
  /\ Happens
  /\ AfterReport(a)
  /\ UNCHANGED <<server, row, running, disk, scan, scans, proof, killed>>

\* The new binary starts in place of the old process: its scan is gone.
Exec(a) ==
  /\ watch[a].pc = "exec"
  /\ running' = [running EXCEPT ![a] = disk[a]]
  /\ scan' = [scan EXCEPT ![a] = NoScan]
  /\ scans' = [scans EXCEPT ![a] = 0]
  /\ killed' = IF IsScanning(a) THEN killed \cup {a} ELSE killed
  /\ To(a, "idle")
  /\ UNCHANGED <<server, row, disk, events, proof>>

\* The old process goes on beside the new binary.
ExecFails(a) ==
  /\ watch[a].pc = "exec"
  /\ Happens
  /\ To(a, "idle")
  /\ UNCHANGED <<server, row, running, disk, scan, scans, proof, killed>>

Restart(a) ==
  /\ Happens
  /\ running' = [running EXCEPT ![a] = disk[a]]
  /\ scan' = [scan EXCEPT ![a] = NoScan]
  /\ watch' = [watch EXCEPT ![a] = IdleWatch]
  /\ UNCHANGED <<server, row, disk, scans, proof, killed>>
-----------------------------------------------------------------------------
\* Scans of the same process

\* claimAndRun: the job is created, which is when it is said to have started.
Claim(a) ==
  /\ scan[a].pc = "none"
  /\ scans[a] < MaxScans[a]
  /\ row' = [row EXCEPT ![a] = Heard(a)]
  /\ scan' = [scan EXCEPT ![a] = [pc |-> "claimed", fresh |-> TRUE]]
  /\ scans' = [scans EXCEPT ![a] = @ + 1]
  /\ UNCHANGED <<server, running, disk, watch, events, proof, killed>>

\* The excludes and hostnames are there and the pipeline begins ...
Begin(a) ==
  /\ scan[a].pc = "claimed"
  /\ scan' = [scan EXCEPT ![a].pc = "busy"]
  /\ UNCHANGED <<server, row, running, disk, watch, scans, events, proof, killed>>

\* ... and ends.
Complete(a) ==
  /\ scan[a].pc = "busy"
  /\ row' = [row EXCEPT ![a] = [Heard(a) EXCEPT !.proven = @ \/ StillFresh(a)]]
  /\ scan' = [scan EXCEPT ![a] = NoScan]
  /\ proof' = [proof EXCEPT ![a] = @ \cup {running[a]}]
  /\ UNCHANGED <<server, running, disk, watch, scans, events, killed>>

\* A scan that failed or was stopped proves nothing.
EndOtherwise(a) ==
  /\ scan[a].pc \in {"claimed", "busy"}
  /\ row' = [row EXCEPT ![a] = Heard(a)]
  /\ scan' = [scan EXCEPT ![a] = NoScan]
  /\ UNCHANGED <<server, running, disk, watch, scans, events, proof, killed>>
-----------------------------------------------------------------------------
\* The webserver

\* syncScannerRelease finds a new release, ...
Release ==
  /\ latest < MaxVersion
  /\ latest' = latest + 1
  /\ UNCHANGED <<canary, row, tick, running, disk, watch, scan, scans, events, proof, killed>>

\* ... whose list no longer has the release at the top.
Withdraw ==
  /\ latest > 1
  /\ Happens
  /\ latest' = latest - 1
  /\ UNCHANGED <<canary, row, tick, running, disk, watch, scan, scans, proof, killed>>

\* requestScannerUpdate
Requested(r) == [r EXCEPT !.requested = TRUE, !.status = "pending", !.attempts = 0]
Ask(a) ==
  /\ ~row[a].requested
  /\ Happens
  /\ row' = [row EXCEPT ![a] = Requested(@)]
  /\ UNCHANGED <<server, running, disk, watch, scan, scans, proof, killed>>

Mark(a) ==
  /\ Happens
  /\ canary' = IF a \in canary THEN canary \ {a} ELSE canary \cup {a}
  /\ UNCHANGED <<latest, row, tick, running, disk, watch, scan, scans, proof, killed>>

\* runScannerAutoUpdate reads the release, ...
TickStart ==
  /\ tick.pc = "idle"
  /\ tick' = [IdleTick EXCEPT !.pc = "gate", !.latest = latest]
  /\ UNCHANGED <<latest, canary, row, running, disk, watch, scan, scans, events, proof, killed>>

\* ... asks whether a canary has proven it, ...
ProvenOn(a, version) == row[a].version >= version /\ row[a].proven
Gate(version) ==
  IF canary = {} THEN "none" ELSE IF \E a \in canary : ProvenOn(a, version) THEN "open" ELSE "waiting"
TickGate ==
  /\ tick.pc = "gate"
  /\ tick' = [tick EXCEPT !.pc = "list", !.gate = Gate(tick.latest)]
  /\ UNCHANGED <<latest, canary, row, running, disk, watch, scan, scans, events, proof, killed>>

\* ... lists the scanners that are behind and without any update state ...
Behind(a) == row[a].version # 0 /\ row[a].version < tick.latest
\* Not the code: canaries wait as well.
CandidatesTogether ==
  {a \in AutoUpdated : row[a].status = "none" /\ ~row[a].requested /\ Behind(a) /\ tick.gate # "waiting"}
Candidates ==
  {a \in AutoUpdated :
     /\ row[a].status = "none" /\ ~row[a].requested
     /\ Behind(a)
     /\ tick.gate = "waiting" => a \in canary}
TickList ==
  /\ tick.pc = "list"
  /\ tick' = IF Candidates = {} THEN IdleTick ELSE [tick EXCEPT !.pc = "ask", !.todo = Candidates]
  /\ UNCHANGED <<latest, canary, row, running, disk, watch, scan, scans, events, proof, killed>>

\* ... and asks each of them, unless somebody was first.
TickAsk(a) ==
  /\ tick.pc = "ask"
  /\ a \in tick.todo
  /\ row' = IF row[a].requested THEN row ELSE [row EXCEPT ![a] = Requested(@)]
  /\ tick' = IF tick.todo = {a} THEN IdleTick ELSE [tick EXCEPT !.todo = @ \ {a}]
  /\ UNCHANGED <<latest, canary, running, disk, watch, scan, scans, events, proof, killed>>
-----------------------------------------------------------------------------
Watcher(a) ==
  \/ Check(a) \/ BusyCheck(a) \/ Fetch(a) \/ Fail(a) \/ Install(a)
  \/ ReportSuccess(a) \/ ReportFailure(a) \/ LoseReport(a) \/ Exec(a) \/ ExecFails(a)
EndScan(a) == Begin(a) \/ Complete(a) \/ EndOtherwise(a)
AutoUpdate == TickStart \/ TickGate \/ TickList \/ \E a \in Agents : TickAsk(a)
Next ==
  \/ \E a \in Agents : Watcher(a) \/ Beat(a) \/ Restart(a) \/ Claim(a) \/ EndScan(a) \/ Ask(a) \/ Mark(a)
  \/ AutoUpdate
  \/ Release \/ Withdraw

Spec == Init /\ [][Next]_vars
Fairness ==
  /\ \A a \in Agents : WF_vars(Watcher(a)) /\ WF_vars(EndScan(a))
  /\ WF_vars(AutoUpdate)
-----------------------------------------------------------------------------
\* Properties

\* Every field keeps its type, and no release is on its way that the
\* watcher has not asked about.
TypeOK ==
  /\ latest \in 1..MaxVersion
  /\ canary \subseteq Agents
  /\ row \in [Agents -> [version : 0..MaxVersion, requested : BOOLEAN, status : {"none", "pending", "failed"},
                         attempts : 0..MaxAttempts, proven : BOOLEAN]]
  /\ tick \in [pc : {"idle", "gate", "list", "ask"}, latest : 0..MaxVersion,
               gate : {"none", "open", "waiting"}, todo : SUBSET AutoUpdated]
  /\ running \in [Agents -> 1..MaxVersion]
  /\ disk \in [Agents -> 1..MaxVersion]
  /\ watch \in [Agents -> [pc : {"idle", "asked", "fetch", "download", "satisfied", "installed", "failing", "exec"},
                           target : 0..MaxVersion]]
  /\ scan \in [Agents -> [pc : {"none", "claimed", "busy"}, fresh : BOOLEAN]]
  /\ scans \in [Agents -> Nat]
  /\ events \in 0..MaxEvents
  /\ proof \in [Agents -> SUBSET (1..MaxVersion)]
  /\ killed \subseteq Agents

\* The gate opens for a release only after a scan was completed on it, or
\* on a later one, by a process that ran it from the scan's first moment:
\* what the webserver infers from version_changed_at and the start of the
\* job is true (autoUpdate.ts:56-64).
GateIsHonest == tick.gate = "open" => \E a \in Agents : \E v \in proof[a] : v >= tick.latest

\* A scanner is never taken back to an older release and never replaced by
\* the one it runs, also when the release it was asked to take has been
\* withdrawn meanwhile: what is on its way is newer than the process, and so
\* is the binary unless they are the same (updater.go:129-139).
OnlyForward ==
  \A a \in Agents :
    /\ disk[a] >= running[a]
    /\ watch[a].pc \in {"download", "installed", "exec"} => watch[a].target > running[a]

\* A request is tried three times at most, then given up for good, and only
\* a new request starts over (ingest/routes.ts:390-396).
ThreeTries ==
  \A a \in Agents :
    /\ row[a].attempts <= MaxAttempts
    /\ row[a].status = "failed" => row[a].attempts = MaxAttempts /\ ~row[a].requested

\* No request stays open: it is carried out or given up.
RequestsEnd == \A a \in Agents : row[a].requested ~> ~row[a].requested

\* A scanner that updates by itself, and need not wait for another to prove
\* the release, comes to run the latest one, or is marked as failed
\* (autoUpdate.ts:94-108). Left out is the scanner whose failure is reported
\* after its request was cleared: it stays "pending" although nothing is
\* requested (ingest/routes.ts:446-450), and auto-update passes it over.
Lags(a) ==
  /\ a \in AutoUpdated
  /\ running[a] < latest
  /\ canary = {} \/ a \in canary
  /\ row[a].status = "none" \/ row[a].requested
ComesUpToDate == \A a \in Agents : Lags(a) ~> ~Lags(a)

\* An update waits until the scanner is idle and never interrupts a running
\* scan (autoUpdate.ts:96-98, updater.go:39-45). The code does not keep
\* this; see the finding.
ScansAreSpared == killed = {}

\* An update is never a step back, is tried three times at most, and the gate
\* opens for it only after a scan was completed on it.
UpdatesAreSound == TypeOK /\ GateIsHonest /\ OnlyForward /\ ThreeTries
=============================================================================
