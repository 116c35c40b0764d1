----------------------------- MODULE ScanQueue -----------------------------
(***************************************************************************)
(* The life of a scan request, from the row an operator queues to the      *)
(* outcome a scanner reports.  Two sides share no memory: the webserver    *)
(* owns the tables scan_requests and scan_jobs, and every scanner polls    *)
(* it over HTTP, claims a request, creates a job, runs it in a goroutine   *)
(* of its own and reports job and request separately.                      *)
(*                                                                         *)
(* One action is one database statement (or transaction) of the webserver, *)
(* or one step of a scanner goroutine up to and including its HTTP call.   *)
(* Dashboard handlers that read a row, decide, and then write it are two   *)
(* actions, because nothing holds the row in between.                      *)
(***************************************************************************)
EXTENDS Naturals, FiniteSets

CONSTANTS
  Agents,       \* scanner agents, each one long-running "serve" process
  Requests,     \* ids of scan_requests rows
  Jobs,         \* ids of scan_jobs rows
  Sessions,     \* concurrently served dashboard requests
  AgentOf,      \* scan_requests.scanner_agent_id
  PriorityOf,   \* scanPriorityOrder of scan_requests.priority, 0 is highest
  HostOf,       \* scan_requests.host_id, NoHost unless a host's Rescan made it
  LocalJobs,    \* bound: the ids jobs of the local REST endpoint may take
  Hanging,      \* jobs with a tool that ends only when it is killed
  MaxScans,     \* slots of a scanner (config.MaxConcurrentScans)
  MaxFaults,    \* bound on lost calls, crashes and outages of one behaviour
  NoRequest, NoJob, NoAgent, NoHost

ASSUME ScanQueueAssumption ==
  /\ IsFiniteSet(Requests) /\ IsFiniteSet(Jobs)
  /\ AgentOf \in [Requests -> Agents]
  /\ PriorityOf \in [Requests -> Nat]
  /\ DOMAIN HostOf = Requests
  /\ LocalJobs \subseteq Jobs
  /\ Hanging \subseteq Jobs
  /\ MaxScans \in Nat \ {0}
  /\ MaxFaults \in Nat
  /\ NoRequest \notin Requests /\ NoJob \notin Jobs /\ NoAgent \notin Agents
  /\ Requests \cap Jobs = {}

VARIABLES
  reqStatus,    \* scan_requests.status; "none" is a row not inserted yet
  reqJob,       \* scan_requests.scan_job_id
  createdAt,    \* scan_requests.created_at, as a rank of insertion
  jobStatus,    \* scan_jobs.status
  jobAgent,     \* scan_jobs.scanner_agent_id
  jobCancel,    \* jobs with cancel_requested_at set
  jobRemaining, \* jobs with remaining_target_spec set
  resumedAs,    \* scan_jobs.resumed_at and resumed_scan_request_id
  web,          \* what each dashboard handler has read and is about to write
  slots,        \* Server.runningScans of each scanner
  poll,         \* where the polling loop of each scanner is
  run,          \* the goroutine of a job: where it is, and at the end its outcome
  jobReq,       \* the request captured by that goroutine
  ctxDone,      \* jobs whose scanCtx has been cancelled
  result,       \* what pipeline.RunScan really did
  reported,     \* history: jobs and requests whose report the webserver applied
  orphaned,     \* history: jobs and requests a fault cut off from their scanner
  faults        \* faults so far

reqVars     == <<reqStatus, reqJob, createdAt>>
jobVars     == <<jobStatus, jobAgent, jobCancel, jobRemaining, resumedAs>>
scannerVars == <<slots, poll, run, jobReq, ctxDone, result>>
histVars    == <<reported, orphaned>>
vars        == <<reqVars, jobVars, web, scannerVars, histVars, faults>>

-----------------------------------------------------------------------------
Outcomes  == {"completed", "failed", "cancelled"}
ReqStates == {"none", "pending", "claimed"} \cup Outcomes
JobStates == {"none", "running"} \cup Outcomes
RunStates == {"none", "started", "scanning", "returned"} \cup Outcomes
Results   == {"none", "whole", "cut", "error"}

\* How an HTTP call of a scanner ends: answered, applied with the answer
\* lost (or an error after the update), or never applied.
Delivery == {"ok", "lost", "dropped"}

IdlePoll == [pc |-> "idle", req |-> NoRequest]
IdleWeb  == [op |-> "idle", on |-> NoRequest]

PollStates ==
  {IdlePoll} \cup [pc : {"asking"}, req : {NoRequest}] \cup [pc : {"creating"}, req : Requests]

WebStates ==
  {IdleWeb} \cup [op : {"cancelQueued", "dismissRequest"}, on : Requests]
            \cup [op : {"dismissJob", "resume"}, on : Jobs]

Live(j)     == run[j] # "none"
Scanning(j) == run[j] \in {"started", "scanning"}
RunsOf(a)   == {j \in Jobs : Live(j) /\ jobAgent[j] = a}
QueueRuns(a) == {j \in RunsOf(a) : jobReq[j] # NoRequest}
Reserved(a) == IF poll[a].pc = "idle" THEN 0 ELSE 1
Rows        == {r \in Requests : reqStatus[r] # "none"}

\* s.cancels has an entry for the job while runScan is around RunScan.
RegisteredLate(j) == run[j] = "returned"
Registered(j)     == run[j] \in {"scanning", "returned"}

Call(d) ==
  /\ d = "ok" \/ faults < MaxFaults
  /\ faults' = IF d = "ok" THEN faults ELSE faults + 1

Fault == faults < MaxFaults /\ faults' = faults + 1

Init ==
  /\ reqStatus    = [r \in Requests |-> "none"]
  /\ reqJob       = [r \in Requests |-> NoJob]
  /\ createdAt    = [r \in Requests |-> 0]
  /\ jobStatus    = [j \in Jobs |-> "none"]
  /\ jobAgent     = [j \in Jobs |-> NoAgent]
  /\ jobCancel    = {}
  /\ jobRemaining = {}
  /\ resumedAs    = [j \in Jobs |-> NoRequest]
  /\ web          = [s \in Sessions |-> IdleWeb]
  /\ slots        = [a \in Agents |-> 0]
  /\ poll         = [a \in Agents |-> IdlePoll]
  /\ run          = [j \in Jobs |-> "none"]
  /\ jobReq       = [j \in Jobs |-> NoRequest]
  /\ ctxDone      = {}
  /\ result       = [j \in Jobs |-> "none"]
  /\ reported     = {}
  /\ orphaned     = {}
  /\ faults       = 0

-----------------------------------------------------------------------------
(* Queueing: the ad-hoc form, a schedule, or a host's Rescan button. *)

InsertRequest(r) ==
  /\ reqStatus[r] = "none"
  /\ reqStatus' = [reqStatus EXCEPT ![r] = "pending"]
  /\ createdAt' = [createdAt EXCEPT ![r] = Cardinality(Rows) + 1]
  /\ UNCHANGED reqJob

QueueRequest(r) ==
  /\ InsertRequest(r)
  /\ UNCHANGED <<jobVars, web, scannerVars, histVars, faults>>

-----------------------------------------------------------------------------
(* The polling loop of a scanner: pollOnce, one step per HTTP call. *)

HasFreeSlotOffByOne(a) == slots[a] <= MaxScans
HasFreeSlot(a)         == slots[a] < MaxScans

\* tryAcquireScanSlot: the slot is reserved before the queue is asked.
AcquireSlot(a) ==
  /\ poll[a].pc = "idle"
  /\ HasFreeSlot(a)
  /\ slots' = [slots EXCEPT ![a] = @ + 1]
  /\ poll'  = [poll EXCEPT ![a] = [pc |-> "asking", req |-> NoRequest]]
  /\ UNCHANGED <<reqVars, jobVars, web, run, jobReq, ctxDone, result, histVars, faults>>

ReleasePollLeaky(a) ==
  /\ poll' = [poll EXCEPT ![a] = IdlePoll]
  /\ UNCHANGED slots

\* Every path of pollOnce that starts no scan gives its slot back.
ReleasePoll(a) ==
  /\ slots' = [slots EXCEPT ![a] = IF @ > 0 THEN @ - 1 ELSE @]
  /\ poll'  = [poll EXCEPT ![a] = IdlePoll]

PendingReclaimed(a) == {r \in Requests : reqStatus[r] \in {"pending", "claimed"} /\ AgentOf[r] = a}
PendingUnfiltered(a) == {r \in Rows : AgentOf[r] = a}
PendingOfHosts(a)   == {r \in Requests : reqStatus[r] = "pending" /\ AgentOf[r] = a /\ HostOf[r] # NoHost}
PendingOfAnyone(a)  == {r \in Requests : reqStatus[r] = "pending"}

\* The rows of the scanner's own queue nobody has claimed.
Pending(a) == {r \in Requests : reqStatus[r] = "pending" /\ AgentOf[r] = a}

Before(r1, r2) ==
  \/ PriorityOf[r1] < PriorityOf[r2]
  \/ PriorityOf[r1] = PriorityOf[r2] /\ createdAt[r1] < createdAt[r2]

\* The row GET /scan-requests/next picks: highest priority, then oldest.
Claimable(a, r) ==
  /\ r \in Pending(a)
  /\ ~ \E r2 \in Pending(a) : Before(r2, r)

\* The queue is empty (204), or the poll failed before it claimed anything.
PollNothing(a) ==
  /\ poll[a].pc = "asking"
  /\ \/ Pending(a) = {} /\ UNCHANGED faults
     \/ Fault
  /\ ReleasePoll(a)
  /\ UNCHANGED <<reqVars, jobVars, web, run, jobReq, ctxDone, result, histVars>>

MarkClaimedMissing(r) == UNCHANGED reqStatus
MarkClaimed(r)        == reqStatus' = [reqStatus EXCEPT ![r] = "claimed"]

\* The claim; a lost answer leaves the row claimed by nobody.
ClaimNext(a, r, d) ==
  /\ poll[a].pc = "asking"
  /\ d # "dropped"
  /\ Claimable(a, r)
  /\ MarkClaimed(r)
  /\ \/ /\ d = "ok"
        /\ poll' = [poll EXCEPT ![a] = [pc |-> "creating", req |-> r]]
        /\ UNCHANGED <<slots, orphaned>>
     \/ /\ d = "lost"
        /\ ReleasePoll(a)
        /\ orphaned' = orphaned \cup {r}
  /\ Call(d)
  /\ UNCHANGED <<reqJob, createdAt, jobVars, web, run, jobReq, ctxDone, result, reported>>

\* POST /scan-jobs: the job row, owned by the scanner that sent it.
InsertJob(a, j) ==
  /\ jobStatus[j] = "none"
  /\ jobStatus' = [jobStatus EXCEPT ![j] = "running"]
  /\ jobAgent'  = [jobAgent EXCEPT ![j] = a]
  /\ UNCHANGED <<jobCancel, jobRemaining, resumedAs>>

\* POST /scan-jobs, second statement: only a request this scanner holds,
\* still claimed and not linked yet.
LinkRequest(a, r, j) ==
  reqJob' = IF /\ AgentOf[r] = a
               /\ reqStatus[r] = "claimed"
               /\ reqJob[r] = NoJob
            THEN [reqJob EXCEPT ![r] = j] ELSE reqJob

StartRun(j, r) ==
  /\ run'    = [run EXCEPT ![j] = "started"]
  /\ jobReq' = [jobReq EXCEPT ![j] = r]

\* The job exists and the scan is handed the slot in its own goroutine.
CreateJob(a, j) ==
  /\ poll[a].pc = "creating"
  /\ j \notin LocalJobs
  /\ InsertJob(a, j)
  /\ LinkRequest(a, poll[a].req, j)
  /\ StartRun(j, poll[a].req)
  /\ poll' = [poll EXCEPT ![a] = IdlePoll]
  /\ UNCHANGED <<reqStatus, createdAt, web, slots, ctxDone, result, histVars, faults>>

\* Bound: an instance has only so many job ids; then POST /scan-jobs fails.
JobIdsSpent == \A j \in Jobs \ LocalJobs : jobStatus[j] # "none"

\* Creating the job failed: pollOnce gives up and the request stays claimed.
\* The row may be there all the same, linked or not.
CreateJobFails(a) ==
  /\ poll[a].pc = "creating"
  /\ Fault \/ (JobIdsSpent /\ UNCHANGED faults)
  /\ \/ UNCHANGED <<jobVars, reqJob>> /\ orphaned' = orphaned \cup {poll[a].req}
     \/ \E j \in Jobs \ LocalJobs :
          /\ InsertJob(a, j)
          /\ LinkRequest(a, poll[a].req, j) \/ UNCHANGED reqJob
          /\ orphaned' = orphaned \cup {poll[a].req, j}
  /\ ReleasePoll(a)
  /\ UNCHANGED <<reqStatus, createdAt, web, run, jobReq, ctxDone, result, reported>>

\* handleCreateScan: a scan asked for on the scanner's own host, never
\* refused, that takes a slot whatever the limit says.
StartLocalScan(a, j) ==
  /\ j \in LocalJobs
  /\ InsertJob(a, j)
  /\ \/ /\ StartRun(j, NoRequest)
        /\ slots' = [slots EXCEPT ![a] = @ + 1]
        /\ UNCHANGED <<orphaned, faults>>
     \/ /\ Fault
        /\ orphaned' = orphaned \cup {j}
        /\ UNCHANGED <<run, jobReq, slots>>
  /\ UNCHANGED <<reqVars, web, poll, ctxDone, result, reported>>

-----------------------------------------------------------------------------
(* The goroutine of one job: runScan, then CompleteScanRequest. *)

ApplyJobReportUnlessFailed(j, status, rem) ==
  /\ jobStatus' = IF status = "failed" THEN jobStatus ELSE [jobStatus EXCEPT ![j] = status]
  /\ jobRemaining' = IF rem THEN jobRemaining \cup {j} ELSE jobRemaining
  /\ reported' = reported \cup {j}
  /\ UNCHANGED orphaned

\* PATCH /scan-jobs/:id as the webserver applies it: no status precondition.
ApplyJobReport(j, status, rem) ==
  /\ jobStatus' = [jobStatus EXCEPT ![j] = status]
  /\ jobRemaining' = IF rem /\ status # "completed" THEN jobRemaining \cup {j} ELSE jobRemaining
  /\ reported' = reported \cup {j}
  /\ UNCHANGED orphaned

\* runScan reports its job and returns: the goroutine is left with the
\* scanState.Status its request will get.  An error of the call matters only
\* to "completed".
SendJobReport(j, status, rem, d) ==
  /\ \/ d # "dropped" /\ ApplyJobReport(j, status, rem)
     \/ /\ d = "dropped"
        /\ orphaned' = orphaned \cup {j}
        /\ UNCHANGED <<jobStatus, jobRemaining, reported>>
  /\ Call(d)
  /\ run' = [run EXCEPT ![j] = IF status = "completed" /\ d # "ok" THEN "failed" ELSE status]
  /\ ctxDone' = ctxDone \ {j}
  /\ UNCHANGED <<jobAgent, jobCancel, resumedAs>>

\* Excludes or probe hostnames could not be fetched: fail closed.
FetchFails(j, d) ==
  /\ run[j] = "started"
  /\ result' = [result EXCEPT ![j] = "error"]
  /\ SendJobReport(j, "failed", FALSE, d)
  /\ UNCHANGED <<reqVars, web, slots, poll, jobReq>>

\* s.cancels[jobID] is set: from here on the scan can be stopped.
RegisterCancel(j) ==
  /\ run[j] = "started"
  /\ run' = [run EXCEPT ![j] = "scanning"]
  /\ UNCHANGED <<reqVars, jobVars, web, slots, poll, jobReq, ctxDone, result, histVars, faults>>

\* checkCancellations found cancel_requested_at on a registered job.
NoticeCancel(j) ==
  /\ Registered(j)
  /\ j \in jobCancel
  /\ j \notin ctxDone
  /\ ctxDone' = ctxDone \cup {j}
  /\ UNCHANGED <<reqVars, jobVars, web, slots, poll, run, jobReq, result, histVars, faults>>

\* pipeline.RunScan returns.  "cut": no error, but the cancelled context
\* kept hosts from being scanned.
ScanReturns(j, res) ==
  /\ run[j] = "scanning"
  /\ res \in {"whole", "cut", "error"}
  /\ res = "cut" => j \in ctxDone
  /\ result' = [result EXCEPT ![j] = res]
  /\ run' = [run EXCEPT ![j] = "returned"]
  /\ UNCHANGED <<reqVars, jobVars, web, slots, poll, jobReq, ctxDone, histVars, faults>>

ReportedOutcomeErrorFirst(j) ==
  CASE result[j] # "error" -> "completed"
    [] j \in ctxDone       -> "cancelled"
    [] OTHER               -> "failed"
ReportedOutcomeStopped(j) ==
  IF j \in ctxDone THEN "stopped" ELSE IF result[j] = "error" THEN "failed" ELSE "completed"

\* The context is looked at before the error of RunScan.
ReportedOutcome(j) ==
  CASE j \in ctxDone           -> "cancelled"
    [] result[j] = "error"     -> "failed"
    [] OTHER                   -> "completed"

\* rem: ScanCoverage.Remaining is not empty.
ReportJob(j, rem, d) ==
  /\ run[j] = "returned"
  /\ rem => result[j] # "whole"
  /\ SendJobReport(j, ReportedOutcome(j), rem, d)
  /\ UNCHANGED <<reqVars, web, slots, poll, jobReq, result>>

\* The deferred releaseScanSlot of the goroutine.
EndRun(j) ==
  /\ run'   = [run EXCEPT ![j] = "none"]
  /\ slots' = [slots EXCEPT ![jobAgent[j]] = IF @ > 0 THEN @ - 1 ELSE @]

\* PATCH /scan-requests/:id, again without a status precondition; a failed
\* call is logged and not retried.  Then the slot is released.
CloseRequest(j, d) ==
  /\ run[j] \in Outcomes
  /\ LET r == jobReq[j] IN
     \/ /\ r # NoRequest
        /\ d # "dropped"
        /\ reqStatus' = [reqStatus EXCEPT ![r] = run[j]]
        /\ reqJob'    = [reqJob EXCEPT ![r] = j]
        /\ reported'  = reported \cup {r}
        /\ UNCHANGED orphaned
     \/ /\ r # NoRequest
        /\ d = "dropped"
        /\ orphaned' = orphaned \cup {r}
        /\ UNCHANGED <<reqStatus, reqJob, reported>>
     \/ /\ r = NoRequest
        /\ d = "ok"
        /\ UNCHANGED <<reqStatus, reqJob, histVars>>
  /\ Call(d)
  /\ EndRun(j)
  /\ UNCHANGED <<createdAt, jobVars, web, poll, jobReq, ctxDone, result>>

RequestsHeldBy(a) == {jobReq[j] : j \in RunsOf(a)} \cup {poll[a].req}

\* The process dies or is replaced (a restart, an update's exec): every
\* goroutine is gone and nobody tells the webserver.
Crash(a) ==
  /\ Fault
  /\ orphaned' = orphaned \cup RunsOf(a) \cup (RequestsHeldBy(a) \ {NoRequest})
  /\ run'     = [j \in Jobs |-> IF jobAgent[j] = a THEN "none" ELSE run[j]]
  /\ slots'   = [slots EXCEPT ![a] = 0]
  /\ poll'    = [poll EXCEPT ![a] = IdlePoll]
  /\ ctxDone' = {j \in ctxDone : jobAgent[j] # a}
  /\ UNCHANGED <<reqVars, jobVars, web, jobReq, result, reported>>

-----------------------------------------------------------------------------
(* The dashboard.  A handler reads a row, decides, and writes later. *)

Read(s, op, id) ==
  /\ web[s].op = "idle"
  /\ web' = [web EXCEPT ![s] = [op |-> op, on |-> id]]
  /\ UNCHANGED <<reqVars, jobVars, scannerVars, histVars>>

Write(s, op) ==
  /\ web[s].op = op
  /\ web' = [web EXCEPT ![s] = IdleWeb]
  /\ UNCHANGED <<scannerVars, histVars, faults>>

\* POST /queue/:id/cancel
ReadQueued(s, r) ==
  /\ reqStatus[r] = "pending"
  /\ Read(s, "cancelQueued", r)
  /\ UNCHANGED faults

WriteQueueCancel(s) ==
  /\ Write(s, "cancelQueued")
  /\ reqStatus' = [reqStatus EXCEPT ![web[s].on] = "cancelled"]
  /\ UNCHANGED <<reqJob, createdAt, jobVars>>

\* POST /:id/dismiss: a running job whose last progress push is too old.
\* A live scan pushes every few seconds, so it looks stale only after an
\* outage that outlasted the threshold.
ReadStaleJob(s, j) ==
  /\ jobStatus[j] = "running"
  /\ IF Live(j) THEN Fault ELSE UNCHANGED faults
  /\ Read(s, "dismissJob", j)

WriteJobDismiss(s) ==
  /\ Write(s, "dismissJob")
  /\ jobStatus' = [jobStatus EXCEPT ![web[s].on] = "failed"]
  /\ UNCHANGED <<reqVars, jobAgent, jobCancel, jobRemaining, resumedAs>>

\* POST /hosts/:id/rescan/dismiss: the newest request of the host, once it
\* was created or claimed longer ago than the threshold.
ReadStaleRequest(s, r) ==
  /\ HostOf[r] # NoHost
  /\ reqStatus[r] \in {"pending", "claimed"}
  /\ \A r2 \in Rows : HostOf[r2] = HostOf[r] => createdAt[r2] <= createdAt[r]
  /\ Read(s, "dismissRequest", r)
  /\ UNCHANGED faults

WriteRequestDismiss(s) ==
  /\ Write(s, "dismissRequest")
  /\ reqStatus' = [reqStatus EXCEPT ![web[s].on] = "failed"]
  /\ UNCHANGED <<reqJob, createdAt, jobVars>>

\* requestScanCancel: one conditional update.  Jobs of a serve process are
\* all cancellable.
RequestScanCancel(j) ==
  /\ jobStatus[j] = "running"
  /\ j \notin jobCancel
  /\ jobCancel' = jobCancel \cup {j}
  /\ UNCHANGED <<reqVars, jobStatus, jobAgent, jobRemaining, resumedAs, web, scannerVars, histVars, faults>>

ResumableWhateverRemains(j) == jobStatus[j] \in {"failed", "cancelled"} /\ resumedAs[j] = NoRequest

Resumable(j) ==
  /\ jobStatus[j] \in {"failed", "cancelled"}
  /\ j \in jobRemaining
  /\ resumedAs[j] = NoRequest

\* resumeScanJob: the checks, then the compare-and-set and the insert in
\* one transaction.
ReadResumable(s, j) ==
  /\ Resumable(j)
  /\ Read(s, "resume", j)
  /\ UNCHANGED faults

\* What the remainder carries over from the newest request of the job.
Origin(j) ==
  {r \in Rows : /\ reqJob[r] = j
                /\ \A r2 \in Rows : reqJob[r2] = j => createdAt[r2] <= createdAt[r]}

NormalPriority == 1

CarriesOver(r, j) ==
  /\ AgentOf[r] = jobAgent[j]
  /\ HostOf[r] = NoHost
  /\ \A o \in Origin(j) : PriorityOf[r] = PriorityOf[o]
  /\ Origin(j) = {} => PriorityOf[r] = NormalPriority

ResumeFreeUnchecked(j) == TRUE
ResumeFree(j)          == resumedAs[j] = NoRequest

CommitResume(s, r) ==
  /\ Write(s, "resume")
  /\ ResumeFree(web[s].on)
  /\ CarriesOver(r, web[s].on)
  /\ InsertRequest(r)
  /\ resumedAs' = [resumedAs EXCEPT ![web[s].on] = r]
  /\ UNCHANGED <<jobStatus, jobAgent, jobCancel, jobRemaining>>

RefuseResume(s) ==
  /\ Write(s, "resume")
  /\ ~ResumeFree(web[s].on)
  /\ UNCHANGED <<reqVars, jobVars>>

-----------------------------------------------------------------------------
PollStep(a) ==
  \/ AcquireSlot(a)
  \/ PollNothing(a)
  \/ \E r \in Requests, d \in Delivery : ClaimNext(a, r, d)
  \/ \E j \in Jobs : CreateJob(a, j)
  \/ CreateJobFails(a)

ReportStep(j) ==
  \/ \E rem \in BOOLEAN, d \in Delivery : ReportJob(j, rem, d)
  \/ \E d \in Delivery : CloseRequest(j, d)

RunStep(j) ==
  \/ RegisterCancel(j)
  \/ \E d \in Delivery : FetchFails(j, d)
  \/ \E res \in {"whole", "cut", "error"} : ScanReturns(j, res)
  \/ ReportStep(j)

Operator(s) ==
  \/ \E r \in Requests : ReadQueued(s, r) \/ ReadStaleRequest(s, r) \/ CommitResume(s, r)
  \/ \E j \in Jobs : ReadStaleJob(s, j) \/ ReadResumable(s, j)
  \/ WriteQueueCancel(s) \/ WriteJobDismiss(s) \/ WriteRequestDismiss(s)
  \/ RefuseResume(s)

Next ==
  \/ \E r \in Requests : QueueRequest(r)
  \/ \E a \in Agents : PollStep(a) \/ Crash(a)
  \/ \E a \in Agents, j \in Jobs : StartLocalScan(a, j)
  \/ \E j \in Jobs : RunStep(j) \/ NoticeCancel(j) \/ RequestScanCancel(j)
  \/ \E s \in Sessions : Operator(s)

Spec == Init /\ [][Next]_vars

-----------------------------------------------------------------------------
(* Fairness.  Goroutines are scheduled and tickers fire, so a scanner's    *)
(* own steps are weakly fair; operators owe nothing.  Faults are bounded,  *)
(* so a call that is repeated is eventually answered.                      *)

\* A tool of a hanging job ends only once its context was cancelled.
StopStep(j) ==
  \/ RegisterCancel(j)
  \/ j \in ctxDone /\ \E res \in {"whole", "cut", "error"} : ScanReturns(j, res)
  \/ ReportStep(j)

FairSpec ==
  /\ Spec
  /\ \A a \in Agents : WF_vars(PollStep(a))
  /\ \A j \in Jobs \ Hanging : WF_vars(RunStep(j))
  /\ \A j \in Jobs : WF_vars(StopStep(j)) /\ WF_vars(NoticeCancel(j))

-----------------------------------------------------------------------------
\* Every variable keeps its type.
TypeOK ==
  /\ reqStatus \in [Requests -> ReqStates]
  /\ reqJob \in [Requests -> Jobs \cup {NoJob}]
  /\ createdAt \in [Requests -> Nat]
  /\ jobStatus \in [Jobs -> JobStates]
  /\ jobAgent \in [Jobs -> Agents \cup {NoAgent}]
  /\ jobCancel \subseteq Jobs
  /\ jobRemaining \subseteq Jobs
  /\ resumedAs \in [Jobs -> Requests \cup {NoRequest}]
  /\ web \in [Sessions -> WebStates]
  /\ slots \in [Agents -> Nat]
  /\ poll \in [Agents -> PollStates]
  /\ run \in [Jobs -> RunStates]
  /\ jobReq \in [Jobs -> Requests \cup {NoRequest}]
  /\ ctxDone \subseteq Jobs
  /\ result \in [Jobs -> Results]
  /\ reported \subseteq Requests \cup Jobs
  /\ orphaned \subseteq Requests \cup Jobs
  /\ faults \in Nat

\* A request is run at most once, whatever calls are lost and whichever
\* process restarts: GET /scan-requests/next hands a row out only once.
OneRunPerRequest ==
  \A j1, j2 \in Jobs :
    jobReq[j1] = jobReq[j2] /\ jobReq[j1] # NoRequest => j1 = j2

\* A request is run by the scanner it was queued for, under a job of that
\* scanner's own.
RunsOnItsAgent ==
  \A j \in Jobs : jobReq[j] # NoRequest => jobAgent[j] = AgentOf[jobReq[j]]

\* No slot leaks and none is given back twice: runningScans counts exactly
\* the goroutines in flight and the reservation of the polling loop.
SlotsAccounted ==
  \A a \in Agents :
    slots[a] = Cardinality(RunsOf(a)) + Reserved(a)

\* The queue never has more scans in flight than the scanner has slots,
\* even while local scans push runningScans above the limit.
QueueRunsWithinLimit ==
  \A a \in Agents :
    Cardinality(QueueRuns(a)) <= MaxScans

\* "completed" is only ever said of a scan that ran to its end, both on the
\* job and on its request, however reports are lost or overtaken.
HonestCompletion ==
  /\ \A j \in Jobs : jobStatus[j] = "completed" => result[j] = "whole"
  /\ \A r \in Requests : reqStatus[r] = "completed" =>
       reqJob[r] \in Jobs /\ result[reqJob[r]] = "whole"

\* The rest of a scan is queued only after that scan has stopped working on
\* it, even if the dashboard had already given the job up as stale.
ResumeAfterScanEnds ==
  \A j \in Jobs : resumedAs[j] # NoRequest => ~Scanning(j)

Rank(status) ==
  CASE status = "none" -> 0
    [] status \in {"pending", "running"} -> 1
    [] status = "claimed" -> 2
    [] OTHER -> 3

MovesForward ==
  /\ \A r \in Requests : Rank(reqStatus[r]) <= Rank(reqStatus'[r])
  /\ \A j \in Jobs : Rank(jobStatus[j]) <= Rank(jobStatus'[j])

\* No row goes back: a settled job never runs again, a claimed request never
\* returns to the queue, and a settled one is never claimed.
LifecycleForward == [][MovesForward]_vars

KeepsResumes == \A j \in Jobs : resumedAs[j] # NoRequest => resumedAs'[j] = resumedAs[j]

\* The remainder of a job is queued once, also when two operators click at
\* the same time: the link to the request that resumed it never changes.
ResumedOnce == [][KeepsResumes]_vars

Settled(status) == status \in Outcomes

\* Every queued request gets an outcome unless a fault hit the claim, the
\* creation of its job, its process or its own last report, or a scan that
\* hangs holds a slot; a lost report of the JOB alone does not keep the
\* request from settling.
RequestsSettle ==
  \A r \in Requests :
    reqStatus[r] = "pending" ~>
      Settled(reqStatus[r]) \/ r \in orphaned \/ \E j \in Hanging : Live(j)

\* Every job gets an outcome unless a fault cut it off or its tools hang.
JobsSettle ==
  \A j \in Jobs \ Hanging : jobStatus[j] = "running" ~> Settled(jobStatus[j]) \/ j \in orphaned

\* A stop an operator asked for takes effect although the tools of the scan
\* would run for ever, and although the request came before the scan had
\* registered its cancel function.
CancelStops ==
  \A j \in Jobs : j \in jobCancel /\ Live(j) ~> ~Live(j)

\* Whatever is queued or runs on a scanner comes to an end.
ScansSettle == RequestsSettle /\ JobsSettle /\ CancelStops

Dismisses(s, op, id) == web[s] = [op |-> op, on |-> id] /\ web'[s] = IdleWeb

\* scanJobs/routes.ts: "the scanner's own report of what actually happened
\* should always win over an admin's guess that it was stuck".
JobReportWins ==
  [][ \A j \in reported \cap Jobs, s \in Sessions :
        Dismisses(s, "dismissJob", j) => jobStatus'[j] = jobStatus[j] ]_vars

\* What runs, runs where it should: under a job of the scanner it was queued
\* for, in a slot that is counted, and never above the limit of the queue.
RunsAreOrderly == TypeOK /\ RunsOnItsAgent /\ SlotsAccounted /\ QueueRunsWithinLimit
=============================================================================
