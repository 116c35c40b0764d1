---------------------------- MODULE ScanPipeline ----------------------------
(***************************************************************************)
(* One scan inside the scanner: RunScan's goroutines, the coverage it      *)
(* keeps for a resume, and how runScan reports the result.                 *)
(*                                                                         *)
(* A producer sweeps the target block by block with masscan and hands      *)
(* every host it finds to a pool of nmap workers; a worker registers the   *)
(* host with the tracker and queues its sub-tasks (screenshots, TLS, SNMP, *)
(* ...) on one bounded channel per kind; the last sub-task to end hands    *)
(* the host on.  Hosts nmap failed for get one retry at the end.  The scan *)
(* may be cancelled at any moment, tools may fail, and code that handles   *)
(* their output may panic.                                                 *)
(*                                                                         *)
(* One action is what one goroutine does between two channel operations    *)
(* or tool calls; shared counters are only touched under their mutexes.    *)
(***************************************************************************)
EXTENDS Integers, FiniteSets

CONSTANTS
  Addrs,        \* addresses of the target that no exclude covers
  Blocks,       \* how many discovery blocks a large target is planned as
  BlockOf,      \* the block of an address
  Tasks,        \* sub-tasks the open ports of all hosts may call for
  TaskHost,     \* the host of a sub-task
  TaskKind,     \* its kind, which decides channel and worker pool
  Kinds,
  Concurrency,  \* nmap workers, and the capacity of nmapJobs
  KindWorkers,  \* workers of a kind, and the capacity of its channel
  Hanging,      \* hosts and sub-tasks whose tool ends only when it is killed
  MaxPanics     \* bound on panics of one behaviour

ASSUME ScanPipelineAssumption ==
  /\ IsFiniteSet(Addrs) /\ IsFiniteSet(Tasks)
  /\ Blocks \in Nat \ {0}
  /\ BlockOf \in [Addrs -> 1..Blocks]
  /\ TaskHost \in [Tasks -> Addrs]
  /\ TaskKind \in [Tasks -> Kinds]
  /\ Concurrency \in Nat \ {0}
  /\ KindWorkers \in [Kinds -> Nat \ {0}]
  /\ Hanging \subseteq Addrs \cup Tasks
  /\ MaxPanics \in Nat

VARIABLES
  stage,        \* how far RunScan, and runScan around it, has got
  ctxDone,      \* the scan's context has been cancelled
  feeder,       \* the goroutine that feeds the nmap pool
  blocks,       \* len(ScanCoverage.blocks): a target that is not large is one block
  swept,        \* ScanCoverage.blocksDone: blocks 1..swept are done
  host,         \* where each address is
  task,         \* where each sub-task is
  left,         \* hostTracker.remaining
  pending,      \* ScanCoverage.pending
  discovered,   \* ScanCoverage.discovered
  processed,    \* ScanCoverage.processed
  nmapOK,       \* nmap calls that succeeded
  nmapFailed,   \* hosts given up on
  failed,       \* RunScan returned an error (discoveryErr once it is set)
  outcome,      \* what runScan reported
  handed,       \* history: how often onHostComplete was called for a host
  early,        \* history: hosts handed on before the cancellation
  cut,          \* history: hosts with a sub-task the cancellation may have cut
  panics        \* history: panics so far

coverVars == <<blocks, swept, pending, discovered, processed>>
nmapVars  == <<nmapOK, nmapFailed>>
histVars  == <<handed, early, cut>>
vars == <<stage, ctxDone, feeder, host, task, left, coverVars, nmapVars,
          failed, outcome, histVars, panics>>

-----------------------------------------------------------------------------
Stages     == {"start", "pool", "retry", "draining", "returned", "reported", "crashed"}
Feeders    == {"between", "sweeping", "sending", "resending", "closed"}
HostStates == {"unknown", "found", "queued", "probing", "doomed", "retry",
               "tracked", "handed", "failed", "lost"}
TaskStates == {"none", "due", "queued", "running", "done"}
Outcomes   == {"none", "completed", "failed", "cancelled"}

In(s)        == {a \in Addrs : host[a] = s}
TasksOf(a)   == {t \in Tasks : TaskHost[t] = a}
Open(a)      == {t \in TasksOf(a) : task[t] \in {"due", "queued", "running"}}
OfKind(k, s) == {t \in Tasks : TaskKind[t] = k /\ task[t] = s}
Dispatching(a) == \E t \in TasksOf(a) : task[t] = "due"

\* Hosts a worker of the nmap pool is busy with.
Busy == In("probing") \cup In("doomed") \cup {a \in Addrs : Dispatching(a)}

BlockIn(a) == IF blocks = 1 THEN 1 ELSE BlockOf[a]

Swept == {a \in Addrs : BlockIn(a) <= swept}

\* ScanCoverage.Remaining, once discovery has been planned.  A target of one
\* block is given back as it was typed.
Remaining ==
  IF blocks = 1 /\ swept = 0 THEN Addrs ELSE (Addrs \ Swept) \cup pending

Panic == panics < MaxPanics /\ panics' = panics + 1

Init ==
  /\ stage      = "start"
  /\ ctxDone    = FALSE
  /\ feeder     = "between"
  /\ blocks     = 1
  /\ swept      = 0
  /\ host       = [a \in Addrs |-> "unknown"]
  /\ task       = [t \in Tasks |-> "none"]
  /\ left       = [a \in Addrs |-> 0]
  /\ pending    = {}
  /\ discovered = 0
  /\ processed  = 0
  /\ nmapOK     = 0
  /\ nmapFailed = 0
  /\ failed     = FALSE
  /\ outcome    = "none"
  /\ handed     = [a \in Addrs |-> 0]
  /\ early      = {}
  /\ cut        = {}
  /\ panics     = 0

-----------------------------------------------------------------------------
(* Before the pools start. *)

\* Every port or address is excluded, or a host name does not resolve.
ReturnUnplanned ==
  /\ stage = "start"
  /\ stage' = "returned"
  /\ failed' \in BOOLEAN
  /\ UNCHANGED <<ctxDone, feeder, host, task, left, coverVars, nmapVars, outcome, histVars, panics>>

\* planIPv4Chunks declines IPv6 and short sweeps: one block.
Plan ==
  /\ stage = "start"
  /\ stage' = "pool"
  /\ blocks' \in {1, Blocks}
  /\ UNCHANGED <<ctxDone, feeder, host, task, left, swept, pending, discovered, processed, nmapVars, failed, outcome, histVars, panics>>

-----------------------------------------------------------------------------
(* The producer of nmapJobs. *)

Running == stage \in {"pool", "retry", "draining"}

StartSweep ==
  /\ stage = "pool"
  /\ feeder = "between" /\ swept < blocks /\ ~ctxDone
  /\ feeder' = "sweeping"
  /\ UNCHANGED <<stage, ctxDone, host, task, left, coverVars, nmapVars, failed, outcome, histVars, panics>>

\* coverage.blockDiscovered
Cover(found) == pending' = pending \cup found

\* masscan has finished the block: every host it found is pending before the
\* first of them is handed to nmap.
SweepEnds ==
  /\ stage = "pool"
  /\ feeder = "sweeping"
  /\ \E found \in SUBSET {a \in Addrs : BlockIn(a) = swept + 1} :
       /\ Cover(found)
       /\ host'       = [a \in Addrs |-> IF a \in found THEN "found" ELSE host[a]]
       /\ discovered' = discovered + Cardinality(found)
  /\ swept'  = swept + 1
  /\ feeder' = "sending"
  /\ UNCHANGED <<stage, ctxDone, task, left, blocks, processed, nmapVars, failed, outcome, histVars, panics>>

\* masscan failed, or was killed by the cancellation: discoveryErr.
SweepFails ==
  /\ stage = "pool"
  /\ feeder = "sweeping"
  /\ failed' = TRUE
  /\ feeder' = "closed"
  /\ UNCHANGED <<stage, ctxDone, host, task, left, coverVars, nmapVars, outcome, histVars, panics>>

\* The producer runs outside recoverJob.
SweepPanics ==
  /\ stage = "pool"
  /\ feeder = "sweeping"
  /\ Panic
  /\ stage' = "crashed"
  /\ UNCHANGED <<ctxDone, feeder, host, task, left, coverVars, nmapVars, failed, outcome, histVars>>

\* nmapJobs <- nmapJob{...}
Send(a) ==
  /\ stage = "pool"
  /\ feeder = "sending"
  /\ host[a] = "found"
  /\ Cardinality(In("queued")) < Concurrency
  /\ host' = [host EXCEPT ![a] = "queued"]
  /\ UNCHANGED <<stage, ctxDone, feeder, task, left, coverVars, nmapVars, failed, outcome, histVars, panics>>

BlockSent ==
  /\ stage = "pool"
  /\ feeder = "sending"
  /\ In("found") = {}
  /\ feeder' = "between"
  /\ UNCHANGED <<stage, ctxDone, host, task, left, coverVars, nmapVars, failed, outcome, histVars, panics>>

\* The last block is done, or the producer sees the cancellation.
CloseFeed ==
  /\ stage = "pool"
  /\ \/ feeder = "between" /\ (swept = blocks \/ ctxDone)
     \/ feeder = "sending" /\ ctxDone /\ In("found") # {}
  /\ feeder' = "closed"
  /\ UNCHANGED <<stage, ctxDone, host, task, left, coverVars, nmapVars, failed, outcome, histVars, panics>>

-----------------------------------------------------------------------------
(* The tracker. *)

HostDoneAlways(a) == pending' = pending \ {a}
HostDoneNever(a)  == UNCHANGED pending
\* coverage.hostDone: a host completing after the cancellation may be a
\* partial record, and stays pending.
HostDone(a) == pending' = IF ctxDone THEN pending ELSE pending \ {a}

\* The tracker's callback: coverage, progress, onHostComplete.
HandOn(a) ==
  /\ host'      = [host EXCEPT ![a] = "handed"]
  /\ handed'    = [handed EXCEPT ![a] = @ + 1]
  /\ early'     = IF ctxDone THEN early ELSE early \cup {a}
  /\ HostDone(a)
  /\ processed' = processed + 1

StillWorking == UNCHANGED <<host, handed, early, pending, processed>>

CompleteOffByOne(a) ==
  /\ left' = [left EXCEPT ![a] = @ - 1]
  /\ IF left[a] <= 2 THEN HandOn(a) ELSE StillWorking

CompleteTwice(a) ==
  /\ left' = [left EXCEPT ![a] = @ - 2]
  /\ IF left[a] <= 2 THEN HandOn(a) ELSE StillWorking

\* hostTracker.complete: the last sub-task hands the host on.
Complete(a) ==
  /\ left' = [left EXCEPT ![a] = @ - 1]
  /\ IF left[a] <= 1 THEN HandOn(a) ELSE StillWorking

-----------------------------------------------------------------------------
(* The nmap pool: processHost. *)

\* A tool that is started after the cancellation fails at once.
Begin(a) == host' = [host EXCEPT ![a] = IF ctxDone THEN "doomed" ELSE "probing"]

TakeJob(a) ==
  /\ stage = "pool"
  /\ host[a] = "queued"
  /\ Cardinality(Busy) < Concurrency
  /\ Begin(a)
  /\ UNCHANGED <<stage, ctxDone, feeder, task, left, coverVars, nmapVars, failed, outcome, histVars, panics>>

\* The channel of the retry pass is unbuffered.
TakeRetry(a) ==
  /\ stage = "retry"
  /\ feeder = "resending"
  /\ host[a] = "retry"
  /\ Cardinality(Busy) < Concurrency
  /\ Begin(a)
  /\ UNCHANGED <<stage, ctxDone, feeder, task, left, coverVars, nmapVars, failed, outcome, histVars, panics>>

GiveUpSilently(gone) ==
  /\ host'       = [a \in Addrs |-> IF a \in gone THEN "failed" ELSE host[a]]
  /\ nmapFailed' = nmapFailed + Cardinality(gone)
  /\ UNCHANGED processed
\* A host nmap failed for counts as dealt with, but stays pending.
GiveUp(gone) ==
  /\ host'       = [a \in Addrs |-> IF a \in gone THEN "failed" ELSE host[a]]
  /\ nmapFailed' = nmapFailed + Cardinality(gone)
  /\ processed'  = processed + Cardinality(gone)

NmapFails(a) ==
  /\ Running
  /\ host[a] \in {"probing", "doomed"}
  /\ IF stage = "pool" /\ ~ctxDone
     THEN host' = [host EXCEPT ![a] = "retry"] /\ UNCHANGED <<nmapFailed, processed>>
     ELSE GiveUp({a})
  /\ UNCHANGED <<stage, ctxDone, feeder, task, left, blocks, swept, pending, discovered, nmapOK,
                 failed, outcome, histVars, panics>>

\* The host is registered with its sub-tasks before the first is queued; a
\* host without any is handed on at once.
NmapSucceeds(a) ==
  /\ Running
  /\ host[a] = "probing"
  /\ nmapOK' = nmapOK + 1
  /\ \E due \in SUBSET TasksOf(a) :
       /\ task' = [t \in Tasks |-> IF t \in due THEN "due" ELSE task[t]]
       /\ left' = [left EXCEPT ![a] = Cardinality(due)]
       /\ IF due = {}
          THEN HandOn(a)
          ELSE host' = [host EXCEPT ![a] = "tracked"] /\ UNCHANGED <<handed, early, pending, processed>>
  /\ UNCHANGED <<stage, ctxDone, feeder, blocks, swept, discovered, nmapFailed, failed, outcome, cut, panics>>

\* select { case jobs <- job: }
QueueTask(t) ==
  /\ Running
  /\ task[t] = "due"
  /\ Cardinality(OfKind(TaskKind[t], "queued")) < KindWorkers[TaskKind[t]]
  /\ task' = [task EXCEPT ![t] = "queued"]
  /\ UNCHANGED <<stage, ctxDone, feeder, host, left, coverVars, nmapVars, failed, outcome, histVars, panics>>

\* select { case <-ctx.Done(): }: the sub-task is dropped, but completed.
DropTask(t) ==
  /\ Running
  /\ task[t] = "due"
  /\ ctxDone
  /\ task' = [task EXCEPT ![t] = "done"]
  /\ cut'  = cut \cup {TaskHost[t]}
  /\ Complete(TaskHost[t])
  /\ UNCHANGED <<stage, ctxDone, feeder, blocks, swept, discovered, nmapVars, failed, outcome, panics>>

\* recoverJob in processHost: the result of this host is lost.
ProbePanics(a) ==
  /\ Running
  /\ \/ host[a] \in {"probing", "doomed"}
     \/ host[a] = "tracked" /\ Dispatching(a)
  /\ Panic
  /\ host' = [host EXCEPT ![a] = "lost"]
  /\ task' = [t \in Tasks |-> IF TaskHost[t] = a /\ task[t] = "due" THEN "none" ELSE task[t]]
  /\ UNCHANGED <<stage, ctxDone, feeder, left, coverVars, nmapVars, failed, outcome, histVars>>

\* The tracker's callback panics, before it has recorded anything, in the
\* nmap worker that completes the host: recoverJob loses this host too.
CallbackPanics(a) ==
  /\ Running
  /\ \/ host[a] = "probing" /\ nmapOK' = nmapOK + 1 /\ UNCHANGED <<task, left, cut>>
     \/ /\ ctxDone /\ left[a] = 1
        /\ \E t \in TasksOf(a) :
             /\ task[t] = "due"
             /\ task' = [task EXCEPT ![t] = "done"]
        /\ left' = [left EXCEPT ![a] = 0]
        /\ cut'  = cut \cup {a}
        /\ UNCHANGED nmapOK
  /\ Panic
  /\ host' = [host EXCEPT ![a] = "lost"]
  /\ UNCHANGED <<stage, ctxDone, feeder, coverVars, nmapFailed, failed, outcome, handed, early>>

-----------------------------------------------------------------------------
(* The worker pools of the sub-tasks. *)

TakeTaskOneFewer(t) ==
  /\ Running
  /\ task[t] = "queued"
  /\ Cardinality(OfKind(TaskKind[t], "running")) < KindWorkers[TaskKind[t]] - 1
  /\ task' = [task EXCEPT ![t] = "running"]
  /\ UNCHANGED <<stage, ctxDone, feeder, host, left, coverVars, nmapVars, failed, outcome, histVars, panics>>

\* A worker of the kind's pool receives the next sub-task.
TakeTask(t) ==
  /\ Running
  /\ task[t] = "queued"
  /\ Cardinality(OfKind(TaskKind[t], "running")) < KindWorkers[TaskKind[t]]
  /\ task' = [task EXCEPT ![t] = "running"]
  /\ UNCHANGED <<stage, ctxDone, feeder, host, left, coverVars, nmapVars, failed, outcome, histVars, panics>>

\* The tool is done, has failed or was killed, or its worker panicked and
\* recovered: each of these completes the sub-task.
TaskEnds(t) ==
  /\ Running
  /\ task[t] = "running"
  /\ task' = [task EXCEPT ![t] = "done"]
  /\ cut'  = IF ctxDone THEN cut \cup {TaskHost[t]} ELSE cut
  /\ Complete(TaskHost[t])
  /\ UNCHANGED <<stage, ctxDone, feeder, blocks, swept, discovered, nmapVars, failed, outcome, panics>>

\* The callback itself panics on the last sub-task: the worker's handler
\* completes the host a second time, which the tracker no longer knows.
HandOnPanics(t) ==
  /\ Running
  /\ task[t] = "running"
  /\ left[TaskHost[t]] = 1
  /\ Panic
  /\ stage' = "crashed"
  /\ UNCHANGED <<ctxDone, feeder, host, task, left, coverVars, nmapVars, failed, outcome, histVars>>

-----------------------------------------------------------------------------
(* The main goroutine of RunScan, and the end of runScan. *)

PoolEnded ==
  /\ stage = "pool"
  /\ feeder = "closed"
  /\ In("queued") = {} /\ Busy = {}

Systemic == nmapOK = 0 /\ Cardinality(In("retry")) >= 3

\* Not retried after a cancellation, nor when nmap itself seems broken.
EndPool ==
  /\ PoolEnded
  /\ IF In("retry") = {} \/ ctxDone \/ Systemic
     THEN stage' = "draining" /\ GiveUp(In("retry")) /\ UNCHANGED feeder
     ELSE stage' = "retry" /\ feeder' = "resending" /\ UNCHANGED <<host, nmapFailed, processed>>
  /\ UNCHANGED <<ctxDone, task, left, blocks, swept, pending, discovered, nmapOK, failed, outcome, histVars, panics>>

\* The retry's feeder stops at the cancellation; what it did not send is
\* neither failed nor processed.
StopRetry ==
  /\ stage = "retry"
  /\ feeder = "resending" /\ ctxDone
  /\ feeder' = "closed"
  /\ UNCHANGED <<stage, ctxDone, host, task, left, coverVars, nmapVars, failed, outcome, histVars, panics>>

EndRetryUnclosed ==
  /\ stage = "retry"
  /\ In("retry") = {} /\ Busy = {}
  /\ stage' = "draining"
  /\ UNCHANGED <<ctxDone, feeder, host, task, left, coverVars, nmapVars, failed, outcome, histVars, panics>>

\* runPool(jobs, true) returns when the channel is closed and drained.
EndRetry ==
  /\ stage = "retry"
  /\ feeder = "closed" \/ In("retry") = {}
  /\ Busy = {}
  /\ stage' = "draining"
  /\ UNCHANGED <<ctxDone, feeder, host, task, left, coverVars, nmapVars, failed, outcome, histVars, panics>>

VerdictOfNmap == failed' = (nmapOK = 0 /\ nmapFailed > 0)
\* A discovery error, or nmap failed for every host.
Verdict == failed' = (failed \/ (nmapOK = 0 /\ nmapFailed > 0))

\* The channels are closed and subWG has been waited for.
Return ==
  /\ stage = "draining"
  /\ \A t \in Tasks : task[t] \notin {"queued", "running"}
  /\ Verdict
  /\ stage' = "returned"
  /\ UNCHANGED <<ctxDone, feeder, host, task, left, coverVars, nmapVars, outcome, histVars, panics>>

\* runScan after RunScan: the cancellation is looked at first.
Report ==
  /\ stage = "returned"
  /\ stage' = "reported"
  /\ outcome' = IF ctxDone THEN "cancelled" ELSE IF failed THEN "failed" ELSE "completed"
  /\ UNCHANGED <<ctxDone, feeder, host, task, left, coverVars, nmapVars, failed, histVars, panics>>

\* cancelScan, called by the cancel watcher.
Cancel ==
  /\ stage \notin {"reported", "crashed"}
  /\ ~ctxDone
  /\ ctxDone' = TRUE
  /\ UNCHANGED <<stage, feeder, host, task, left, coverVars, nmapVars, failed, outcome, histVars, panics>>

-----------------------------------------------------------------------------
Produce ==
  \/ StartSweep \/ SweepEnds \/ SweepFails \/ BlockSent \/ CloseFeed
  \/ \E a \in Addrs : Send(a)

Probe(a) == TakeJob(a) \/ TakeRetry(a) \/ NmapFails(a) \/ NmapSucceeds(a)
Work(t)  == QueueTask(t) \/ DropTask(t) \/ TakeTask(t) \/ TaskEnds(t)
Proceed  == EndPool \/ StopRetry \/ EndRetry \/ Return \/ Report

Next ==
  \/ ReturnUnplanned \/ Plan \/ Cancel \/ SweepPanics
  \/ Produce \/ Proceed
  \/ \E a \in Addrs : Probe(a) \/ ProbePanics(a) \/ CallbackPanics(a)
  \/ \E t \in Tasks : Work(t) \/ HandOnPanics(t)

Spec == Init /\ [][Next]_vars

\* The goroutines run, and a tool ends by itself unless it hangs; then only
\* the cancellation ends it, because every tool runs under the context.
MayEnd(x) == x \notin Hanging \/ ctxDone

FairSpec ==
  /\ Spec
  /\ WF_vars(Plan) /\ WF_vars(Produce) /\ WF_vars(Proceed)
  /\ \A a \in Addrs : /\ WF_vars(TakeJob(a) \/ TakeRetry(a))
                       /\ WF_vars(MayEnd(a) /\ (NmapFails(a) \/ NmapSucceeds(a)))
  /\ \A t \in Tasks : /\ WF_vars(QueueTask(t) \/ DropTask(t) \/ TakeTask(t))
                       /\ WF_vars(MayEnd(t) /\ TaskEnds(t))

-----------------------------------------------------------------------------
(* Type invariant. *)

\* TypeOK: every variable has its type; ScanPipeline's one type invariant,
\* for the state RunScan (orchestrator.go) and ScanCoverage (chunks.go) keep.
TypeOK ==
  /\ stage \in Stages
  /\ ctxDone \in BOOLEAN
  /\ feeder \in Feeders
  /\ blocks \in {1, Blocks} /\ swept \in 0..blocks
  /\ host \in [Addrs -> HostStates]
  /\ task \in [Tasks -> TaskStates]
  /\ left \in [Addrs -> Nat]
  /\ pending \subseteq Addrs
  /\ discovered \in Nat
  /\ processed \in Nat
  /\ nmapOK \in Nat
  /\ nmapFailed \in Nat
  /\ failed \in BOOLEAN
  /\ outcome \in Outcomes
  /\ handed \in [Addrs -> Nat]
  /\ early \subseteq Addrs
  /\ cut \subseteq Addrs
  /\ panics \in 0..MaxPanics

-----------------------------------------------------------------------------
(* Safety. *)

\* RunScan got as far as coverage.plan.
Planned == stage # "start" /\ (stage \in {"returned", "reported"} => feeder # "between")

\* The block was swept and the address has no open port.
Silent(a) == a \in Swept /\ host[a] = "unknown"

\* NothingForgotten: whenever discovery is planned, every address the sweep
\* has not found silent is still in what a resume would scan, unless its
\* host was handed on whole, with no sub-task the cancellation may have cut
\* (chunks.go: ScanCoverage; orchestrator.go: blockDiscovered before the
\* hosts are sent, and hostDone only while the scan is live).
NothingForgotten ==
  Planned => \A a \in Addrs : a \in Remaining \/ Silent(a) \/ (handed[a] = 1 /\ a \notin cut)

\* NothingTwice: what a resume would scan holds no host that was handed on
\* before the cancellation, and no address swept and found silent
\* (chunks.go: hostDone, Remaining).
NothingTwice ==
  Planned => Remaining \cap (early \cup {a \in Addrs : Silent(a)}) = {}

\* HandedOnOnce: the tracker hands a host on at most once, and when RunScan
\* returns every host nmap answered for has been handed on, unless a panic
\* lost it (orchestrator.go: hostTracker's register and complete).
HandedOnOnce ==
  /\ \A a \in Addrs : handed[a] <= 1
  /\ stage \in {"returned", "reported"} => \A a \in Addrs : host[a] # "tracked"

\* ProgressAddsUp: the progress bar never counts more hosts as dealt with
\* than were discovered, and a scan that was neither cancelled nor lost a
\* host to a panic ends with all of them dealt with (chunks.go: ScanCounts).
ProgressAddsUp ==
  /\ processed <= discovered
  /\ stage = "reported" /\ ~ctxDone /\ panics = 0 => processed = discovered

\* CompletedIsSwept: a scan is reported as completed only when every block
\* was swept and every host found went through nmap and, where nmap
\* answered, to the end of its sub-tasks (orchestrator.go: the order of
\* close, Wait and the error checks; server.go: the order runScan reports in).
CompletedIsSwept ==
  outcome = "completed" /\ Planned =>
    /\ swept = blocks
    /\ \A a \in Addrs : host[a] \in {"unknown", "handed", "failed", "lost"}

-----------------------------------------------------------------------------
(* Liveness. *)

Over == stage \in {"reported", "crashed"}

\* A tool that hangs is at work.
Hangs == \E x \in Hanging : x \in In("probing") \/ x \in {t \in Tasks : task[t] = "running"}

\* ScanEnds: no goroutine waits for another for ever: every scan reports, or
\* a tool is running that never ends (bounded channels, worker pools and
\* their closing).
ScanEnds == <>(Over \/ Hangs)

\* StopEnds: a cancelled scan ends even if its tools would run for ever
\* (every select that could block also waits for ctx.Done).
StopEnds == ctxDone ~> Over

-----------------------------------------------------------------------------
(* What comments say and the code does not do. *)

\* PanicsAreContained: a panic while the results of one host are handled
\* never takes the process down; only one in the producer may, while it
\* sweeps (the comment of recoverJob in orchestrator.go).
PanicsAreContained == stage = "crashed" => feeder = "sweeping"

\* No work is done twice, handed on twice or left undone by a scan that says it
\* is complete.
WorkIsOrderly == TypeOK /\ NothingTwice /\ HandedOnOnce /\ CompletedIsSwept

\* A scan comes to an end, by itself or when it is told to.
ScansComeToAnEnd == ScanEnds /\ StopEnds
=============================================================================
