# PortTorch in TLA+

PortTorch is a network scanner in two parts that share no memory. A **webserver**
(`server/`, TypeScript over PostgreSQL) holds the requests, jobs, hosts, schedules
and alerts, and serves the dashboard. One or more **scanners** (`scanner/`, Go) run
next to the networks they scan, ask the webserver for work over HTTP, run masscan,
nmap and a dozen other tools, and send back what they find. The webserver can never
call a scanner: everything it wants of one waits in a table until the scanner asks.

This directory holds specifications of the parts of that system where something can
go wrong between steps, the TLC configurations that check them, and proofs that
TLAPS checks. Every definition is translated from the source; `PROJECT.json` (`map`)
names the lines each stands for.

## The system and its hard parts

| Component | State it keeps | Who touches it | What makes it correct |
| --- | --- | --- | --- |
| Scan queue and scan execution | `scan_requests`, `scan_jobs`; per scanner the slot counter, the cancel functions and one goroutine per scan | dashboard handlers, scheduler, polling loop, cancel watcher, scan goroutines | a request runs at most once, on its scanner; "completed" is true; rows move forward; slots neither leak nor go short; stops take effect; a remainder is queued once, after the scan it comes from has ended |
| Submit queue of the scanner | one directory per undelivered host result, with its attempt count; the pending count of the header; the audit log | the scan's callback, the retry watcher, `queue flush`, `queue discard`, other scanner processes | no result disappears untraced; nothing is given up early; everything queued is done with at last |
| Scan pipeline and coverage | in one `RunScan`: bounded channels, worker pools, the host tracker, the retry list, `ScanCoverage` | producer, nmap workers, eight pools of sub-task workers, cancellation | a stopped scan's remainder is exactly what is left; a host is handed on once; no goroutine waits for ever |
| Self-update | the latest release, per scanner the reported version, request and attempts; process, binary and watcher | every call of a scanner, the auto-update tick, admins | no running scan is killed; a broken release is not retried for ever; a canary goes first |
| Scheduler | `schedules.next_run_at`, skipped runs, queued requests | a timer without overlap guard, the form, the queue | each due run is queued once or counted as skipped; `once` fires once |
| Targets and ports | none: what is typed, and the exclude lists | the form and the ingest of the webserver, the planner of the scanner, each with code of its own | both read the same; what is excluded is left alone; blocks, shares and remainders are exact |
| Ingest of host results | the row of a host, observations, the ports shown of it, findings, boot time | overlapping, late and repeated results of one host, the retention sweep, users | the record is what the latest result said; alerts tell what the record shows; a reboot is told from a wrap |
| HEC forwarder | one cursor per feed in `hec_state` | a timer without overlap guard, the collector, writers of every table | nothing is skipped; only what was in flight is repeated |
| Webhooks | bundle items, retry rows with attempts, parcels in memory | dispatchers, the flush and the drain, neither with a guard, admins, restarts | an alert waits in one place or has come to an end that is told truly |
| Periodic checks | a condition read from the tables, a flag per subject | twenty timers without overlap guard | one alert per episode, and none silenced by an old flag |
| Screenshots | image files, their rows and previews | captures, deletions of hosts, the age purge, two sweeps | no row without its file; no file is leaked |
| Authentication | counters of failed logins in memory | logins under way together | the overrun of the limit is bounded; a lock is told once |
| Backup and restore | the claimed day, the flag of a run, archives at the target; a database and a directory that are replaced | a timer, admins, everything the webserver does meanwhile | a day has its backup or its failure is told; a restore leaves all of the archive, or what was there |
| Search, reports, administration, dashboard, tools | – | – | queries, rendering, parsing and command lines, without steps of their own to interleave |

They interact in a few places. The **queue** turns a request into a job and a goroutine;
the goroutine runs the **pipeline**; the pipeline's callback submits each host, and
falls back to the **submit queue**; and what the pipeline says of its coverage becomes
the remainder the **queue** lets an operator resume. The **scheduler** puts the parts of
its runs into the same queue, and a **self-update** replaces the process in which all of
the scanner's goroutines live. On the webserver a host's result goes through the
**ingest**, which raises alerts; the **checks** raise others; both leave through
**webhooks** and, as rows, through the **forwarder**. The hard behaviours are those of
two processes that meet only through HTTP and a database: answers that are lost after
they took effect, processes that die between two calls, handlers that read a row,
decide, and write it later, timers that fire while their last run is still busy,
files another process deletes between create and write.

## The modules

`M.tla` is the model of a component, `MMC.tla` gives its instances for TLC and
`MProofs.tla` holds its theorems. Definitions named "... Not the code" are plausible
bugs; `PROJECT.json` (`mutants`) says which definition each replaces and which property
then fails.

### `ScanQueue` – the life of a scan request

State: the columns of `scan_requests` (`reqStatus`, `reqJob`, `createdAt`) and
`scan_jobs` (`jobStatus`, `jobAgent`, `jobCancel`, `jobRemaining`, `resumedAs`); what
each dashboard handler has read and is about to write (`web`); and of each scanner its
slot counter (`slots`, `Server.runningScans`), polling loop (`poll`), scan goroutines
(`run`, `jobReq`), cancelled contexts (`ctxDone`) and the true end of each scan
(`result`). `reported` and `orphaned` are history.

Each action is one SQL statement or transaction, or one step of a scanner goroutine up
to and including its HTTP call. A call ends `ok`, `lost` (applied, answer lost) or
`dropped` (never applied). A handler that reads, decides and writes (dismiss, cancel a
queued request) is two actions; `resume` locks the row, so it is decided and written in
one transaction (`CommitResume`) after a read that may be stale. `Crash` kills a scanner
with all its goroutines. Queueing covers the ad-hoc form, schedules and a host's Rescan
button, which insert the same row.

`ScanLifecycle` says what the dashboard promises of one request, with two variables;
`ScanQueueRefinement` maps `ScanQueue` to it. TLC checks the refinement as the property
`RefinesLifecycle`, and `ScanQueueProofs` proves it.

### `SubmitQueue` – results that could not be delivered

State: the callback of each result (`live`), its directory in the queue (`entry`: `bare`
without `item.json`, `torn` with half of one, `whole`), the stored attempt count, what
each drainer is doing (`drain`), the count of the header (`pending`), the audit line;
`arrived`, `tried`, `fate`, `torn` are history. `Enqueue` and the rewrite of `Drain` are
taken apart into the file system operations they consist of, because other processes
drain the same directory: `MakeEntry`, `CreateItem`, `FillItem`, `RemovePartial` and
`StoreAttempts` (truncates), `RewriteItem`. `Drain` works from one listing, so its
per-entry steps meet entries another drain has already removed.

### `ScanPipeline` – one scan inside the scanner

State: how far `RunScan` has got (`stage`), the goroutine that feeds the nmap pool
(`feeder`), whether the target was planned as one block or several (`blocks`), where
every address (`host`) and sub-task (`task`) is, the tracker's count per host (`left`),
the coverage (`swept`, `pending`, `discovered`, `processed`), the counters the verdict
is made of, and what `runScan` reported (`outcome`). A worker pool is the number of
hosts or sub-tasks in its working state, a channel the number queued, so workers have no
identities. Sub-tasks of one kind share a bounded channel and a pool; the kinds of the
source (screenshot, nuclei, RDP, TLS, SNMP, IPMI, DNS, UPnP) have the same code, so the
instance uses two. The order in which a dispatcher queues the sub-tasks of a host is
left open. A tool fails or succeeds at will; one started after the cancellation fails at
once, as `exec.CommandContext` does, and the tools of `Hanging` end only when they are
killed. Panics are bounded by `MaxPanics` and happen in the producer, in an nmap worker,
or in the tracker's callback before it records anything; a panic inside a sub-task is
its normal completion, because the worker's handler completes it.

`Remaining` is `ScanCoverage.Remaining`. Early returns before planning leave no
remainder. Composition with `ScanQueue`: `outcome` and `Remaining` are what that module
takes as the result of a scan (`whole`, `cut`, `error`) and the remainder of its report.

### `Scheduler` – repeated scans, shared among scanners

State: `scan_schedules` as state, team and the minutes to `next_run_at` (`schedule`),
the pending requests of schedules (`waiting`), the tick under way with the rows it read
(`tick`), an edit between its read and its write (`edit`), the scanners (`agent`), the
minute of the day (`clock`), the timer (`ticked`), and what the last due run came to
(`outcome`); `owed` and `last` are history. A tick is taken apart at its awaits: read
the due rows, then for each defer it to its time window, or look for a predecessor that
still waits and count a skipped run, or filter the live scanners, or queue the parts in
one transaction. Every other process may come in between. `ScanSplit` is the rendezvous
hashing of blocks to scanners (`lib/scanSplit.ts`); scores are any numbers, ties are
broken by rank as the code compares ids. Which size the blocks have is worked out for each
team: the smallest at which every part's text is short enough (`Fitting`, `BlockSize`), so
that a team may share out larger blocks than another, or none (`Splits`). A target
therefore consists of pieces that stay whole at every size, and `BlockOf` says which
block of each size a piece lies in.

### `SelfUpdate` – how scanners come to a new release

State: the latest release the webserver knows (`latest`), the row of each scanner
(`row`: reported version, request, status, attempts, and whether a scan begun since the
version changed was completed), canaries, the auto-update tick between its queries
(`tick`), and of each scanner the version of its process (`running`) and of its binary
(`disk`), the watcher (`watch`) and the scan under way (`scan`). Every call a scanner
makes goes through `apiKeyAuth`, so every action that contains one brings the row up to
date first (`Heard`); what the handler then does follows in the same step. The request
names no version: `Fetch` takes what is latest by then.

### The webserver's timers and handlers

The modules below share no state with each other that their properties depend on. Each
takes a handler apart at its awaits, one SQL statement or transaction per action, and
lets as many of it work at once as the code does: no `setInterval` of the webserver waits
for its last callback.

`HecForwarder` – the SIEM feeds. State: of every key whether its row is uncommitted,
seen or gone (`row`), cursors, enabled feeds, the passes under way (`pass`) with what
they have read and posted, and what the collector took (`received`). A pass reads a
cursor, then rows, posts slices, and writes the cursor; keys are given out before their
rows commit, hosts and scan logs move to new keys. `late`, `again` and `cause` are
history.

`Webhooks` – the way of an alert to one channel. State: the channel, stored bundle
`items`, parcels in memory (`flight`), retry rows (`attempts`, `due`) and the drains
under way. The target takes a parcel, refuses it, fails, or takes it and the answer is
lost; channels are switched and deleted under way. `fate` says what became of an alert.

`AlertChecks` – the twenty checks that raise an alert once. They are one state machine
whose parameters are a record per check: the order in which it reads flag and condition,
when it clears the flag, whether the flag grows with the level, names an episode, is set
first (a claim), or is set for what does not concern the fleet. State: which check it is,
the condition's level, the flag, and the rounds under way with what they have read.

`HostIngest` – results for one address, overlapping. State: the host's row and its lock,
the ports shown (`view`), the finding, the results with the point they have reached and
what they read before they took the lock, and the retention sweep between its read and
its delete. What the alerts told (`told`), and why they may be wrong, are history.

`Uptime` – reboots told from uptimes. State: when the device booted, readings on their
way (kept in the scanner's queue, overtaking each other), the boot time on record and its
source. `sysUpTime` wraps, the SNMPv3 engine counts its boots.

`ScreenshotFiles` – files, rows and previews of captures under deletions, the age purge
and both sweeps; `TickOverlap` – two ticks of the scheduler on one schedule (`Scheduler`
takes a tick to end within its minute; this module looks at those that do not);
`LoginLimiter` – the counters of failed logins, with logins between question and count.

`BackupRuns` – scheduled backups. State: the day and whether its hour has come, the
settings, the claimed day, the ticker between its read and its claim, the flag that lets
one run work at a time, that run's step, the archives built and those at the target, and
the outcome on record. A step may fail, the settings may be unreadable, the process may
restart.

`Restores` – archives and what a restore makes of the data: the database, complete or
half loaded, the screenshot directory, captures and deletions between their two writes,
the sweep between its two reads, the archive between dump and tar, and each restore with
the dump it saved and the files it staged. Two restores may meet; the first to finish
ends the process, while an error on the way, even when the files are put in place
(`SwapFails`), is answered and the process goes on.

`PortSpecs` and `TargetRanges` – pure functions, of which both sides have their own:
parsing a spec, taking excluded ports out and writing the rest down, probes and counts;
expanding patterns, merging, subtracting, cutting into blocks, writing down a remainder,
sharing out, and coverage. A loop of the code is a recursive function on its turns
(`AddRange`, `CutRange` and `Fill` are one turn each). The parts of a port spec have a
form, because the two parsers convert numbers differently: `AtoiReads` is the scanner's
`strconv.Atoi`, `NumberReads` the webserver's `Number`, which also reads 80.0, 1e3, 0x50
and a blank after a prefix; an empty part is skipped by both. How masscan and nmap take a
prefix is outside the repository, and it says two things of that (see below), so both
readings are defined: `ProtoPortSet`, a prefix for its part only, and `ToolPorts`
(external), a prefix that holds until the next. Their only action types one more part, so that TLC goes
through all inputs of a small grammar; the properties compare each function with the set
it stands for.

`ServerMC` and `SettlesMC` put the parts side by side for TLC: a behaviour is one of one
part, the others stay as they start.

## The runs

| Run | Question | Instance |
| --- | --- | --- |
| `ScanQueueSafety` | Is a request run at most once and on its scanner only, is `completed` true, do slots add up, is a remainder queued once and after its scan has ended, and is the detailed protocol one of the promised life cycles? | 2 scanners of 1 slot, one of them owning both requests, 2 jobs or a job and one of the local endpoint, 2 operators, 1 fault |
| `SubmitQueueSafety` | Can a result vanish untraced or stay half written, whoever drains; is nothing given up early, and everything done with at last? | 2 results, one invalid, watcher and operator, 2 attempts, 4 outages, 1 crash |
| `ScanPipelineSafety` | Is the remainder of a stopped scan exactly what is left, are hosts handed on once, does `completed` mean swept, does every scan end? | 3 addresses in 1 or 2 blocks, 3 sub-tasks of 2 kinds, 2 nmap workers, a hanging host and sub-task, 1 panic, a cancellation at any moment |
| `SchedulerSafety` | Do due runs neither pile up nor get lost, does `once` run once, does every run share out its whole target? | 3 scanners, 5 pieces in blocks of 2 sizes, a sweep with a time window and a `once` scan, 2 events of an administrator |
| `SelfUpdateSafety` | Does the canary gate tell the truth, do updates only go forward, are requests tried three times and ended? | a canary that scans and a scanner that waits, 2 releases, 3 attempts, 1 event |
| `ServerSafety` | What do overlapping passes, drains, checks, results, ticks, logins, sweeps, backups and restores never do; and do both sides read ports and targets as the sets they stand for? | by part, below |
| `Settles` | Does everything come to an end: requests and jobs, rows on their way to the collector, alerts, checks, files, backups? | queue: 1 slot, 2 requests, 2 jobs, one of them hanging, 1 fault; one pass, one drain, one check, one deletion at a time, 1 fault each |

The parts of `ServerSafety`, each with one fault (or two) in a behaviour:

| Part | Instance | Property |
| --- | --- | --- |
| feed | a feed whose rows move, 3 keys, 2 passes, slices of 1 | `FeedIsExact` |
| drains, bundles | 2 alerts, 3 attempts; two drains of one alert, or one drain of two that are bundled | `AlertsAccounted` |
| checks | all 20 checks, 2 rounds, 2 episodes | `AlertedOnce` |
| overlaps, turns | 2 results that overlap with a sweep, a finding or a fault; or 3, two at once | `RecordIsLatest`, `AlertsAreTrue` |
| uptime | 2 boots, a counter that wraps after 5 units, 2 results kept for up to 2, 12 units of time | `RebootsAreTold` |
| shots | 1 capture, 2 deletions, 2 host rows, 2 faults | `RowsAreWhole` |
| ticks | 2 ticks, due 3 times | `TicksAgree` |
| logins | 2 logins, 1 address, 2 users, limit 2 | `LockIsSound` |
| ports | all specs of 2 parts over 3 ports in 4 forms, all exclude lists | `PortsAgree` |
| targets | 16 addresses of 2 digits, 4 ranges and 3 patterns, 2 tokens and 3 entries with the exclude list, 2 scanners | `PlanIsExact` |
| backups | 2 days, 3 archives of which 1 or 2 are kept | `BackupsAreSound` |
| restores, loads | 1 restore beside captures, deletions and the sweep of 2 captures; or 2 restores at once | `RestoresAreSound` |

Some properties join several that belong together: `RunsAreOrderly` (types,
`RunsOnItsAgent`, `SlotsAccounted`, `QueueRunsWithinLimit`), `ScansSettle`
(`RequestsSettle`, `JobsSettle`, `CancelStops`), and likewise `QueueIsSound`,
`WorkIsOrderly`, `ScansComeToAnEnd`, `RunsAreAsScheduled` and `UpdatesAreSound`; the
parts are stated one by one in their modules.

Five runs expect a violation, each of a sentence in a comment that the code does not
keep; `findings` in `PROJECT.json` quotes the sentence and tells the story of the trace:

| Run | What the code does |
| --- | --- |
| `ScanQueueDismissRace` | Dismissing a job overwrites a report that arrives between the handler's read and its write. |
| `SubmitQueueEnqueueRace` | A drain removes an entry that is still being written, and the writer reports success. |
| `ScanPipelinePanic` | A panic in the tracker's callback on a host's last sub-task ends the process. |
| `SchedulerRevoked` | A revoked scanner's pending part stops all later runs of its team. |
| `SelfUpdateKills` | The exec of an update kills a scan that was claimed after the busy check. |

**Bounds.** `MaxFaults`, `MaxOutages`, `MaxPanics`, `MaxEvents` and the `Max...Faults` of
the webserver's modules bound what goes wrong or is done by hand in one behaviour. One
fault suffices to separate each pair of calls (the hazards are single losses); runs about
counters take two. Two requests and two jobs are the least that can be confused with each
other; two sessions, drainers, passes, rounds, ticks, logins or restores the least that
race; of four outages the third and fourth come only without a crash and while the other
result is through (`OutageBound`): one fails the submission that enqueues, and the others
are enough for two drains to lose one of their counts and for an entry to reach the
attempt limit after that; three addresses the least for which the "three or more failed" rule of the retry
pass can fire; three scanners the least for which a block can change hands between two
that both stay, and five pieces in two sizes of blocks for a piece to do so because the
blocks grew, and for a team that splits at neither size; two releases the least for which evidence can be stale; three keys the
least for which a row lies between a cursor and a row that was sent; two episodes the
least for which a flag can be left over; two archives more than are kept, or one, show
what pruning takes. Attempt counts reach their limit (`MaxAttempts`), slots theirs
(`MaxScans`), channels theirs (capacity one), texts and patterns theirs (`MaxText`,
`Limit`), and blocks too many to deal out (`MaxBlocks`). `ServerMC` bounds further what some parts may do at once, because the questions
are asked one at a time: `CheckBound` (a second check overlaps the first, or is cut off),
`DrainsBound` and `BundlesBound`, `OverlapsNext` and `TurnsNext`, `UptimeBound` (two results
wait only before the last two units of time), `BackupsBound` (a fault where one archive is
kept), `RestoresBound` (one archive, one restore, and captures that come, go or are swept,
one of these at a time) and `LoadsBound` (nothing else comes or goes).
`ScanQueueMC` does the same: `FaultBound` (the scanner for which there is nothing to claim
asks only before the fault; after it one operator clicks at a time), `LocalBound` (a job
of the local endpoint is looked at with the two ad-hoc requests that may resume it, and
without a fault; the others have a host's rescan and an ad-hoc request) and `BesideLocal`
(beside it one queued job runs, or operators click).
Symmetry is used for interchangeable jobs in a run without liveness properties that
could suffer from it; `SafetyView` hides history no action reads. `FilledInit` and
`CanaryInit` choose among the initial states those in which the interesting case can
happen: a schedule exists, a canary is marked.

**Deadlock** is not checked for the pipeline, where the end of the scan is the end, nor
for `ServerSafety` and `Settles`, whose parts have used up their rows, days and inputs at
some point; that nothing waits for ever is what the liveness properties say.

**Fairness.** Scanner goroutines and tickers are scheduled by the Go runtime for as long
as the process lives, and the webserver's timers and promises by Node, so their steps are
weakly fair: a pass, flush, drain, check, sweep or backup that is due begins, and one that
has begun takes its next step (calls of the webserver time out). Operators, captures,
commits, conditions, crashes, faults and panics are owed nothing. Tools and jobs of
`Hanging` end only once their context is cancelled, which `exec.CommandContext` and the
SIGTERM to nmap's process group with `WaitDelay` as a backstop (`nmapcmd.go`) justify;
all others end. A drain an operator starts is not fair: it may stop halfway. In
`Scheduler` a tick's steps, the minute and each scanner's claims are fair, and a tick
ends within its minute. In `SelfUpdate` the watcher, the end of a scan and the
auto-update tick are fair; a process runs a bounded number of scans, so that it is idle
at some check: a scanner whose slots are never all free at a check would put an update
off for ever, which is what the code does on purpose. In `BackupRuns` the ticker fires
many times within its hour, so the hour does not pass without it; whether a next day
comes is left open.

## What is proved

All proofs hold for every value of the constants under the modules' named assumptions
(finite sets, distinct null values, positive limits). That the split of a target has an
owner for every block (`OneBeatsAll` in `SchedulerProofs`), which would want induction over
the set of scanners, is proved from the well-foundedness of strict inclusion instead: a
scanner with the fewest others above it has none. What the loops of `AddressProofs` compute
is proved from the well-foundedness of the natural numbers in the same way.

`ScanQueueProofs`: type correctness (`TypeCorrect`), then invariants that build on each
other. `Ownership` relates requests, jobs, polling loops and goroutines: a request that
somebody holds is neither free nor held twice, and a job that was never started is
blank. From it `RunsAreOwned`. `Honest` adds what each goroutine knows of the end of its
scan (`RunResults`), without which a report could not be related to what happened; from
it `CompletionIsHonest`. `Accounts` counts: the slot counter is the number of goroutines
plus the reservation of the polling loop, with lemmas on how a run that starts or ends
changes the cardinality; from it `SlotsNeverLeak` and `QueueKeepsToItsSlots`.
`Remainders` says when a remainder exists, and gives `ResumedOnlyAfterTheEnd`. The
action properties `RowsMoveForward` and `RemainderQueuedOnce` follow from the types and
the guards alone.

`ProtocolRefinesLifecycle` is the refinement of `ScanLifecycle`, step by step. Its
invariant `RefinesInv` joins types, `Ownership`, `Honest` and `RowsRead` (a handler that
will write a row has read it, so the row is there). `WorkIs` reads a request's work off
its one job. Each step then moves the word for one request (`StateMoves`), the work on
one (`WorkMoves`), or nothing the dashboard sees (`Stutters`); only a crash moves many
(`CrashInterrupts`), and the end of a scan (`ResultEnds`) is the one at which `RunResults`
is needed: the cases of `WorkOf` exclude each other only because a scan at work has no
result yet. What `ScanLifecycle` promises an operator, `WorkIsExplained` and
`ExecutedOnce`, is proved of it alone, and carried over by the refinement
(`PromisesAreKept`).

`ScanPipelineProofs`: `Sound` is the inductive invariant about where hosts and sub-tasks
are and what the tracker counts of them; `Covered` adds what the coverage knows, and
gives `NothingIsForgotten` and `NothingIsScannedTwice`; `Staged` says what is over by
the time each stage is reached, and gives `CompletedMeansSwept`. `HandedOnOnlyOnce`
needs that a host whose count is zero has left the tracker. `Tally` says what the two
counters of the progress bar count, hosts that are known and hosts that are settled, so
that they can only differ at the end by hosts that are neither, which `Staged` excludes;
it gives `ProgressKeepsAddingUp`.

`SchedulerProofs`: `Typed` includes what a tick and an edit know of what they are about.
`Single` (the pending requests of a schedule are of its last run, and none exist once
the tick has looked) gives `NoPileUp`; `Promised` (what a `once` schedule is owed covers
its row and the tick's copy of it) gives `NeverTwice`; `Shared` (the last run's parts are
the split over its scanners) gives `EveryBlockOnce` and, with the lemmas on rendezvous
hashing, `BlocksKeepTheirScanner`: between two runs with blocks of one size a piece
changes hands only with its scanner or the new one, for any texts, lengths and sizes;
runs whose blocks differ in size are its one exception (`OtherBlocks`). `BlocksStayPut`
states what is behind it: the owner of a block, of any size, in one set of scanners owns
it in every other set that contains both owners.

`SelfUpdateProofs`: `UpdatesInv` joins types, `Tries` (a request given up has no attempts
left and no watcher at work on it) and `OnlyForward`, which need each other: attempts
stay in range because a failure is only reported for a request still open, and a binary
has a version because what is downloaded is newer than one. It gives `TriedThreeTimes`
and `GoesForward`. `Evidence` (a row that counts as proven names a version a scan was
completed on) gives `GateTellsTheTruth`.

`DeliveryProofs` holds `HecForwarder` and `Webhooks`. Of the forwarder there are two
invariants. `NothingSkipped` follows the rows: what lies behind a cursor, or behind the
point a pass has read to, was received or is late, and what a pass holds is what it will
post; it gives `NoRowIsSkipped`. `NoRepeats` follows the passes: as long as a feed has no
cause, one pass at most is in it, and its cursor is not behind what was received; with it
`FeedStaysExact`. The lemma `FirstIsAPrefix` says what reading the next rows, up to a
limit, returns.

Of the webhooks, `WebInv` says that the parcels that wait (`Waiting`: stored items,
parcels in memory, retry rows) divide the open alerts (`Divides`; the lemmas
`DividesMoves`, `DividesEnds` and `DividesAdds` are all that happens to them), from which
`InOnePlace` follows. A drain acts on rows it has read, so `HoldsSound` says that such a
row is still there as long as its alerts are open, and that rows of two drains are the
same or disjoint: else a drain could end alerts that wait elsewhere. `TriesCounted`
bounds a row's count, wherever a copy of it is, by the attempts made, which makes giving
up honest; `RepeatsKnown` says of every place what the target may have taken already:
nothing of what was never sent, and otherwise only alerts with an excuse or whose drain
has still to write that it was taken. It gives `AlertsStayAccounted`.

`StorageProofs` holds what deals with files: `SubmitQueue`, `ScreenshotFiles`, `BackupRuns`
and `Restores`. Of the submit queue, `Traced` (every removal is preceded by a delivery or a
recorded fate, whoever removes) gives `ResultsAreTraced`; `Written` (a torn entry has a
writer, and a bare one is being filled by its own callback) gives `TornMeansUnfinished`;
`Counted` (no stored or remembered attempt count exceeds the failures that happened) gives
`GivingUpIsHonest`. Of the screenshots, `FilesInv` joins
`CaptureSound` (a file whose row is still to come is young) and `DeletionSound` (what a
deletion or a sweep holds has no row and will get none), and gives `RowsStayWhole`.
`BackupInv`: the flag is held by a run or has jammed (`FlagHeld`); what has left the
target has enough newer archives (`Shelved`); and what a run knows at each step is still
so (`RunKnows`), above all that after pruning what it has listed no more are left than
are to be kept. That rests on `KeptAreFew`: among finitely many archives, those with
fewer than k newer ones are at most k. Its proof takes the least of them, which exists
because the archives are numbered (`LeastOne`). `RestoreInv`: unless restores have met,
one at most is past its start (`OneAtATime`), and while it works no earlier promise
stands; unless one was lost, what is loaded is what its archive holds, but for captures
and deletions the webserver has touched (`LoadsAreTrue`, `TrafficIsKnown`).

`ServerProofs` holds `TickOverlap`, `LoginLimiter`, `AlertChecks`, `HostIngest` and
`Uptime`. `TickInv` (ticks that are alone, and what they have read of `skipped_runs`)
gives `TicksKeepAgreeing`. `LoginInv` counts: the excess of a counter over its limit is
paid for by logins that had asked before (`CountersBounded`, with lemmas on
cardinalities), which gives `LockStaysSound`. `AlertInv` relates the flag to the rounds:
`RoundSound` (what a round knows was true), `ChecksAlone`, `ClaimsExclude` (a claim is won
once), `CleanEpisode` (in an episode that began clean a flag has an alert behind it); for
every check in the table it gives `AlertsStayOnce`. `HostInv` follows results that
overlap: `SightOf` says of every port who decides what is shown, the result that holds the
lock or the latest that is through; `RacesAreKnown`, that a result overtaken by a later
one has marked the ports it opens as raced; `ResultsAlone`, what holds as long as results
have not overlapped: the one at work has read what is shown, and what it has still to tell
is the difference. They give `RecordStaysLatest` and `AlertsStayTrue`. `BootsTold` says
that a reading is the time since its boot less some number of wraps, and that the boot
time on record lies some number of wraps, and the delay of its result, after its boot;
`MovesByWraps` and `LaterBootMoves` are the two comparisons `RebootsStayTold` comes down
to.

`AddressProofs` holds `PortSpecs` and `TargetRanges`, whose invariants speak of what loops
make of a text of any length. An operator cannot be handed to an induction theorem here, so
a loop is a function on its turns, `Recursion` says that the function exists, and
`AlongRecursion` that what holds before the first turn and is kept by each holds after the
last; both come from `Climb`: a set of natural numbers that has 0, and n + 1 with every n,
is all of them, for otherwise the least number outside would have a predecessor. The
invariants of the behaviours are weak (`Typed`, `Entered`: the parts typed are of the
grammar), because the properties hold of every text; the work is in the loops:

- Ports: `ParsersMeet` compares the two parsers part by part: where Atoi reads, Number
  does, and where only Number does, the form shows it. `ReadingsMeet` says that the two
  readings of a prefix come to the same where the prefix for UDP stands only at the last
  part. `RunsAreExact` says that writing a set of ports as runs loses and adds none,
  `ToolReads` that a tool reads back what the planner wrote, `RestIsExact` that this is
  what was asked for less what is excluded, and `EstimateOfParts` that a sum over the
  parts is no less than the size of their union, and equal to it when they are disjoint.
- Ranges: `MergeHolds` (merged ranges cover the same addresses, in order, none touching
  the next) and `SubtractHolds` (what is left is exactly the difference, in order) hold
  for all ranges whatever; the counterpart for patterns is `PatternRangesHold`, by the
  digits of an address.
- Blocks: `BlocksHold`. Its invariant `Filled`, which a turn keeps (`FillHolds`), says
  that the blocks laid so far, the one being filled and what the loop has yet to take are,
  in this order, the ranges it was given, and that a finished block has exactly the
  addresses it should; the loop ends because every turn takes at least one.
- Shares: `PiecesHold` (every address to be split is in one piece, and has the owner of
  its block) and `ShareHolds`; a remainder and the coverage of a network are merges of the
  above.

They give `PortsStayAgreed` and `PlanStaysExact`: for every width of an address, every
target, exclude list, speed, block size and point at which a scan stops, not for the small
ones that TLC goes through.

The joined properties have their theorems too (`RunsStayOrderly`, `QueueStaysSound`,
`WorkStaysOrderly`, `RunsStayAsScheduled`, `UpdatesStaySound`).

**Model-checked only:** liveness under fairness (`ScansSettle`, `EveryResultSettles`,
`ScansComeToAnEnd`, `DueIsAnswered`, `KeepsRunning`, `RequestsEnd`, `ComesUpToDate`,
`RowsArrive`, `AlertsSettle`, `AlertsKeepUp`, `FilesAreReclaimed`, `BackupsGoOn`), which
is out of the prover's reach. Every invariant and every action property of the passing runs
has its theorem.
## What the code does, against what it says

Beside the five findings, the models carry cases in which the code departs from a comment
or from what a reader would expect. The properties name them as exceptions, so that
everything else is still checked:

- `hec/forwarder.ts:134-139` promises to repeat one slice at worst and to skip nothing. A
  row whose transaction commits after a pass has read past its key is skipped, and a
  failed slice, or a second pass, repeats a whole tick (`late`, `cause`).
- A port that is excluded from a scan still counts as covered by it, so an open one is
  told as closed (`ingest/routes.ts:813-818, 1000`, `orchestrator.go:360`); `port.opened`
  goes by the port's number, so TCP 53 hides UDP 53 (874, 962) (`unfounded`, `masked`).
- `cve/kevSync.ts:132-134` expects a new row when a CVE comes to affect the fleet later;
  the sync's upsert makes none, and the alert never comes (`marks`).
- `backup/schedule.ts:185-187` calls a silent failure the one that matters most. A run
  that cannot read the settings (191) keeps the flag it has just set; from then on every
  run of the process is turned away without a word (`jammed`).
- Two restores may run at once, and the first to finish ends the process in the other's
  load (`backup/routes.ts:163`). During a load the screenshot sweep may find an empty
  table and unlink every old file; a rollback does not bring them back, although "they
  are never touched on this path" (`backup/restore.ts:274-276`).
- A boot time cannot be told from another that is within the tolerance, kept in a queue,
  or on either side of a wrap (`lib/snmpUptime.ts:84`).

- `lib/scanSplit.ts:12-15` has only those blocks move that a scanner which joins or leaves
  wins or held, and 21-26 that a target's blocks are larger only than those of a smaller
  target. But their size follows from the longest text among the parts (133-166), which
  depends on the team: one that shrinks may get larger blocks for the same target, and
  addresses move between scanners that both stay (`OtherBlocks`).
- `portSpec.ts:48-51` and `excludes.go:209-212` say that
  masscan and nmap take a prefix for its part only, while `serializeProtoPortSet`
  (`excludes.go:261-283`), `nmapPortSpec` (`nmap.go:344-368`) and their tests
  (`excludes_test.go:112-117`) write `T:80,443,U:53,161`. Both cannot be right: if a prefix is of its part only, UDP 161
  is not scanned and TCP 161 is; if it holds on, masscan does not read `U:53,80` as the
  comments have it. `EffectiveIsTheRest` says what is scanned on either reading: what was
  asked for if the prefix holds on, and otherwise only if one run of UDP ports is left.
  `CountPorts` (`preview.go:173`), given what was written
  (`orchestrator.go:436`), counts the later runs of UDP ports as TCP.
- A spec that only the webserver reads (80.0, 1e3, 0x50, `U: 53`) is accepted
  (`schedules/routes.ts:136` asks for one character) and counted in the estimate; the scan
  fails at `subtractPorts`. So its coverage is never used, and `ParsersAgree` names the forms.
- An error while a restore puts the files in place (`backup/restore.ts:129-198`) comes after
  the new database was loaded, which is not rolled back: the process goes on with the
  archive's rows and some of its files, or none (`SwapFails`). `RestoresAreSound` promises
  files only of a restore that succeeds.

## What could come next

IPv6 targets; the path of one result from
the submit queue through ingest and webhooks as one module.

## Not modelled

The contents of results, what the tools find, SQL queries that only read, forms that
validate and write single rows, rendering and parsing, migrations, the wire protocols of
S3, SMTP and OIDC. `PROJECT.json` lists every component left out with its reason. The
webserver is one process over one PostgreSQL database; its statements are atomic and its
transactions isolated as the code asks for. HTTP calls time out, so a lost answer looks
like an error to the caller.
