-------------------------- MODULE ScanQueueProofs --------------------------
(* Theorems about ScanQueue for every set of scanners, requests and jobs,  *)
(* every number of slots and any bound on the faults.                      *)
EXTENDS ScanQueueRefinement, FiniteSetTheorems, TLAPS

LEMMA RowsAreCounted == Cardinality(Rows) \in Nat
<1>1. Rows \subseteq Requests BY DEF Rows
<1>2. IsFiniteSet(Rows) BY <1>1, ScanQueueAssumption, FS_Subset
<1> QED BY <1>2, FS_CardinalityType

\* What the proofs need to know of the records in poll and web.
LEMMA PollRecords ==
  /\ IdlePoll \in PollStates /\ IdlePoll.pc = "idle" /\ IdlePoll.req = NoRequest
  /\ [pc |-> "asking", req |-> NoRequest] \in PollStates
  /\ \A r \in Requests : [pc |-> "creating", req |-> r] \in PollStates
  /\ \A p \in PollStates : p.pc = "creating" => p.req \in Requests
  /\ \A p \in PollStates : p.req \in Requests \cup {NoRequest}
BY DEF PollStates, IdlePoll

LEMMA WebRecords ==
  /\ IdleWeb \in WebStates /\ IdleWeb.op = "idle"
  /\ \A r \in Requests, op \in {"cancelQueued", "dismissRequest"} : [op |-> op, on |-> r] \in WebStates
  /\ \A j \in Jobs, op \in {"dismissJob", "resume"} : [op |-> op, on |-> j] \in WebStates
  /\ \A w \in WebStates : w.op \in {"cancelQueued", "dismissRequest"} => w.on \in Requests
  /\ \A w \in WebStates : w.op \in {"dismissJob", "resume"} => w.on \in Jobs
BY DEF WebStates, IdleWeb

LEMMA CallType ==
  ASSUME TypeOK, NEW d, Call(d) \/ Fault PROVE faults' \in Nat
BY DEF TypeOK, Call, Fault

LEMMA ReleasePollType ==
  ASSUME TypeOK, NEW a \in Agents, ReleasePoll(a)
  PROVE  slots' \in [Agents -> Nat] /\ poll' \in [Agents -> PollStates]
<1> \A n \in Nat : (IF n > 0 THEN n - 1 ELSE n) \in Nat
  OBVIOUS
<1> QED BY PollRecords DEF TypeOK, ReleasePoll

LEMMA InsertRequestType ==
  ASSUME TypeOK, NEW r \in Requests, InsertRequest(r)
  PROVE  /\ reqStatus' \in [Requests -> ReqStates]
         /\ createdAt' \in [Requests -> Nat]
         /\ reqJob' = reqJob
BY RowsAreCounted DEF TypeOK, InsertRequest, ReqStates

LEMMA InsertJobType ==
  ASSUME TypeOK, NEW a \in Agents, NEW j \in Jobs, InsertJob(a, j)
  PROVE  /\ jobStatus' \in [Jobs -> JobStates]
         /\ jobAgent' \in [Jobs -> Agents \cup {NoAgent}]
         /\ UNCHANGED <<jobCancel, jobRemaining, resumedAs>>
BY DEF TypeOK, InsertJob, JobStates

LEMMA LinkRequestType ==
  ASSUME TypeOK, NEW a, NEW r, NEW j \in Jobs, LinkRequest(a, r, j) \/ UNCHANGED reqJob
  PROVE  reqJob' \in [Requests -> Jobs \cup {NoJob}]
BY DEF TypeOK, LinkRequest

LEMMA SendJobReportType ==
  ASSUME TypeOK, NEW j \in Jobs, NEW status \in Outcomes, NEW rem, NEW d,
         SendJobReport(j, status, rem, d)
  PROVE  /\ jobStatus' \in [Jobs -> JobStates]
         /\ run' \in [Jobs -> RunStates]
         /\ jobRemaining' \subseteq Jobs /\ ctxDone' \subseteq Jobs
         /\ reported' \subseteq Requests \cup Jobs /\ orphaned' \subseteq Requests \cup Jobs
         /\ faults' \in Nat
         /\ UNCHANGED <<jobAgent, jobCancel, resumedAs>>
<1>1. status \in JobStates /\ status \in RunStates /\ "failed" \in RunStates
  BY DEF JobStates, RunStates, Outcomes
<1>2. faults' \in Nat
  BY CallType DEF SendJobReport
<1>3. run' \in [Jobs -> RunStates]
  BY <1>1 DEF TypeOK, SendJobReport
<1> QED BY <1>1, <1>2, <1>3 DEF TypeOK, SendJobReport, ApplyJobReport

LEMMA ReportedOutcomeType == \A j : ReportedOutcome(j) \in Outcomes
BY DEF ReportedOutcome, Outcomes

LEMMA ReadType ==
  ASSUME TypeOK, NEW s \in Sessions, NEW op, NEW id, [op |-> op, on |-> id] \in WebStates,
         Read(s, op, id), faults' \in Nat
  PROVE  TypeOK'
BY DEF TypeOK, Read, reqVars, jobVars, scannerVars, histVars

LEMMA WriteType ==
  ASSUME TypeOK, NEW s \in Sessions, NEW op, Write(s, op)
  PROVE  /\ web' \in [Sessions -> WebStates]
         /\ op \in {"cancelQueued", "dismissRequest"} => web[s].on \in Requests
         /\ op \in {"dismissJob", "resume"} => web[s].on \in Jobs
         /\ UNCHANGED <<scannerVars, histVars, faults>>
<1>1. web[s] \in WebStates
  BY DEF TypeOK
<1>2. web' \in [Sessions -> WebStates]
  BY WebRecords DEF TypeOK, Write
<1> QED BY <1>1, <1>2, WebRecords DEF Write

LEMMA TypeStep == TypeOK /\ [Next]_vars => TypeOK'
<1> SUFFICES ASSUME TypeOK, [Next]_vars PROVE TypeOK'
  OBVIOUS
<1>1. ASSUME NEW r \in Requests, QueueRequest(r) PROVE TypeOK'
  BY <1>1, InsertRequestType DEF TypeOK, QueueRequest, jobVars, scannerVars, histVars
<1>2. ASSUME NEW a \in Agents, PollStep(a) PROVE TypeOK'
  <2>1. CASE AcquireSlot(a)
    BY <2>1, PollRecords DEF TypeOK, AcquireSlot, reqVars, jobVars, histVars
  <2>2. CASE PollNothing(a)
    BY <2>2, ReleasePollType, CallType DEF TypeOK, PollNothing, reqVars, jobVars, histVars
  <2>3. ASSUME NEW r \in Requests, NEW d \in Delivery, ClaimNext(a, r, d) PROVE TypeOK'
    <3>1. faults' \in Nat
      BY <2>3, CallType DEF ClaimNext
    <3>2. reqStatus' \in [Requests -> ReqStates]
      BY <2>3 DEF TypeOK, ClaimNext, MarkClaimed, ReqStates
    <3>3. slots' \in [Agents -> Nat] /\ poll' \in [Agents -> PollStates] /\ orphaned' \subseteq Requests \cup Jobs
      BY <2>3, ReleasePollType, PollRecords DEF TypeOK, ClaimNext
    <3> QED BY <2>3, <3>1, <3>2, <3>3 DEF TypeOK, ClaimNext, jobVars
  <2>4. ASSUME NEW j \in Jobs, CreateJob(a, j) PROVE TypeOK'
    <3>1. poll[a].req \in Requests
      BY <2>4, PollRecords DEF TypeOK, CreateJob
    <3>2. run' \in [Jobs -> RunStates] /\ jobReq' \in [Jobs -> Requests \cup {NoRequest}]
      BY <2>4, <3>1 DEF TypeOK, CreateJob, StartRun, RunStates
    <3> QED BY <2>4, <3>2, InsertJobType, LinkRequestType, PollRecords DEF TypeOK, CreateJob, histVars
  <2>5. CASE CreateJobFails(a)
    <3>1. poll[a].req \in Requests
      BY <2>5, PollRecords DEF TypeOK, CreateJobFails
    <3>2. faults' \in Nat /\ slots' \in [Agents -> Nat] /\ poll' \in [Agents -> PollStates]
      BY <2>5, ReleasePollType, CallType DEF CreateJobFails, TypeOK
    <3>3. CASE UNCHANGED <<jobVars, reqJob>> /\ orphaned' = orphaned \cup {poll[a].req}
      BY <2>5, <3>1, <3>2, <3>3 DEF TypeOK, CreateJobFails, jobVars
    <3>4. ASSUME NEW j \in Jobs \ LocalJobs, InsertJob(a, j),
                 LinkRequest(a, poll[a].req, j) \/ UNCHANGED reqJob,
                 orphaned' = orphaned \cup {poll[a].req, j}
          PROVE TypeOK'
      BY <2>5, <3>1, <3>2, <3>4, InsertJobType, LinkRequestType DEF TypeOK, CreateJobFails
    <3> QED BY <2>5, <3>3, <3>4 DEF CreateJobFails
  <2> QED BY <1>2, <2>1, <2>2, <2>3, <2>4, <2>5 DEF PollStep
<1>3. ASSUME NEW a \in Agents, Crash(a) PROVE TypeOK'
  <2>1. faults' \in Nat
    BY <1>3, CallType DEF Crash
  <2>2. run' \in [Jobs -> RunStates]
    BY <1>3 DEF TypeOK, Crash, RunStates
  <2>3. RequestsHeldBy(a) \subseteq Requests \cup {NoRequest}
    BY PollRecords DEF TypeOK, RequestsHeldBy, RunsOf
  <2>4. RunsOf(a) \subseteq Jobs
    BY DEF RunsOf
  <2> QED BY <1>3, <2>1, <2>2, <2>3, <2>4, PollRecords DEF TypeOK, Crash, reqVars, jobVars
<1>4. ASSUME NEW a \in Agents, NEW j \in Jobs, StartLocalScan(a, j) PROVE TypeOK'
  <2>1. CASE UNCHANGED <<orphaned, faults>> /\ StartRun(j, NoRequest) /\ slots' = [slots EXCEPT ![a] = @ + 1]
    BY <1>4, <2>1, InsertJobType DEF TypeOK, StartLocalScan, StartRun, RunStates, reqVars
  <2>2. CASE Fault /\ orphaned' = orphaned \cup {j} /\ UNCHANGED <<run, jobReq, slots>>
    BY <1>4, <2>2, InsertJobType, CallType DEF TypeOK, StartLocalScan, reqVars
  <2> QED BY <1>4, <2>1, <2>2 DEF StartLocalScan
<1>5. ASSUME NEW j \in Jobs, RunStep(j) PROVE TypeOK'
  <2>1. CASE RegisterCancel(j)
    BY <2>1 DEF TypeOK, RegisterCancel, RunStates, reqVars, jobVars, histVars
  <2>2. ASSUME NEW d \in Delivery, FetchFails(j, d) PROVE TypeOK'
    BY <2>2, SendJobReportType DEF TypeOK, FetchFails, Outcomes, Results, reqVars
  <2>3. ASSUME NEW res \in {"whole", "cut", "error"}, ScanReturns(j, res) PROVE TypeOK'
    BY <2>3 DEF TypeOK, ScanReturns, Results, RunStates, reqVars, jobVars, histVars
  <2>4. ASSUME NEW rem \in BOOLEAN, NEW d \in Delivery, ReportJob(j, rem, d) PROVE TypeOK'
    BY <2>4, SendJobReportType, ReportedOutcomeType DEF TypeOK, ReportJob, reqVars
  <2>5. ASSUME NEW d \in Delivery, CloseRequest(j, d) PROVE TypeOK'
    <3>1. faults' \in Nat
      BY <2>5, CallType DEF CloseRequest
    <3>2. run' \in [Jobs -> RunStates]
      BY <2>5 DEF TypeOK, CloseRequest, EndRun, RunStates
    <3>3. slots' \in [Agents -> Nat]
      <4>1. \A b \in Agents : (IF slots[b] > 0 THEN slots[b] - 1 ELSE slots[b]) \in Nat
        BY DEF TypeOK
      <4> QED BY <2>5, <4>1 DEF TypeOK, CloseRequest, EndRun
    <3>4. /\ reqStatus' \in [Requests -> ReqStates]
          /\ reqJob' \in [Requests -> Jobs \cup {NoJob}]
          /\ reported' \subseteq Requests \cup Jobs
          /\ orphaned' \subseteq Requests \cup Jobs
      BY <2>5 DEF TypeOK, CloseRequest, histVars, ReqStates
    <3> QED BY <2>5, <3>1, <3>2, <3>3, <3>4 DEF TypeOK, CloseRequest, jobVars
  <2> QED BY <1>5, <2>1, <2>2, <2>3, <2>4, <2>5 DEF RunStep, ReportStep
<1>6. ASSUME NEW j \in Jobs, NoticeCancel(j) \/ RequestScanCancel(j) PROVE TypeOK'
  BY <1>6 DEF TypeOK, NoticeCancel, RequestScanCancel, reqVars, jobVars, scannerVars, histVars
<1>7. ASSUME NEW s \in Sessions, Operator(s) PROVE TypeOK'
  <2>1. ASSUME NEW r \in Requests, ReadQueued(s, r) \/ ReadStaleRequest(s, r) PROVE TypeOK'
    BY <2>1, ReadType, WebRecords DEF TypeOK, ReadQueued, ReadStaleRequest
  <2>2. ASSUME NEW j \in Jobs, ReadStaleJob(s, j) \/ ReadResumable(s, j) PROVE TypeOK'
    <3>1. faults' \in Nat
      BY <2>2, CallType DEF TypeOK, ReadStaleJob, ReadResumable
    <3> QED BY <2>2, <3>1, ReadType, WebRecords DEF ReadStaleJob, ReadResumable
  <2>3. ASSUME NEW r \in Requests, CommitResume(s, r) PROVE TypeOK'
    <3>1. web[s].on \in Jobs /\ web' \in [Sessions -> WebStates]
      BY <2>3, WriteType DEF CommitResume
    <3> QED BY <2>3, <3>1, InsertRequestType, WriteType
            DEF TypeOK, CommitResume, scannerVars, histVars
  <2>4. CASE WriteQueueCancel(s)
    BY <2>4, WriteType DEF TypeOK, WriteQueueCancel, ReqStates, Outcomes, jobVars, scannerVars, histVars
  <2>5. CASE WriteRequestDismiss(s)
    BY <2>5, WriteType DEF TypeOK, WriteRequestDismiss, ReqStates, Outcomes, jobVars, scannerVars, histVars
  <2>6. CASE WriteJobDismiss(s)
    BY <2>6, WriteType DEF TypeOK, WriteJobDismiss, JobStates, Outcomes, reqVars, scannerVars, histVars
  <2>7. CASE RefuseResume(s)
    BY <2>7, WriteType DEF TypeOK, RefuseResume, reqVars, jobVars, scannerVars, histVars
  <2> QED BY <1>7, <2>1, <2>2, <2>3, <2>4, <2>5, <2>6, <2>7 DEF Operator
<1>8. CASE UNCHANGED vars
  BY <1>8 DEF TypeOK, vars, reqVars, jobVars, scannerVars, histVars
<1> QED BY <1>1, <1>2, <1>3, <1>4, <1>5, <1>6, <1>7, <1>8 DEF Next

LEMMA TypeInit == Init => TypeOK
BY PollRecords, WebRecords DEF Init, TypeOK, ReqStates, JobStates, RunStates, Results

\* Every variable of the queue protocol keeps its type.
THEOREM TypeCorrect == Spec => []TypeOK
BY TypeInit, TypeStep, PTL DEF Spec

-----------------------------------------------------------------------------
(* Who holds a request.  OneRunPerRequest is not inductive: it needs that  *)
(* the polling loop of a scanner holds only a row it claimed from its own  *)
(* queue and that no goroutine has yet, and that rows never go back.       *)

Taken(r) == reqStatus[r] \notin {"none", "pending"}

PollHolds ==
  \A a \in Agents : poll[a].pc = "creating" =>
    /\ Taken(poll[a].req)
    /\ AgentOf[poll[a].req] = a
    /\ \A j \in Jobs : jobReq[j] # poll[a].req

JobsHold ==
  \A j \in Jobs : jobReq[j] # NoRequest =>
    /\ Taken(jobReq[j])
    /\ jobAgent[j] = AgentOf[jobReq[j]]

FreshJobs ==
  \A j \in Jobs : jobStatus[j] = "none" =>
    run[j] = "none" /\ jobReq[j] = NoRequest /\ result[j] = "none"

Ownership == FreshJobs /\ PollHolds /\ JobsHold /\ OneRunPerRequest

LEMMA OwnershipInit == Init => Ownership
BY DEF Init, Ownership, FreshJobs, PollHolds, JobsHold, OneRunPerRequest, IdlePoll

LEMMA FreshStep == TypeOK /\ FreshJobs /\ [Next]_vars => FreshJobs'
<1> SUFFICES ASSUME TypeOK, FreshJobs, [Next]_vars PROVE FreshJobs'
  OBVIOUS
<1> USE DEF FreshJobs
<1>1. ASSUME NEW r \in Requests, QueueRequest(r) PROVE FreshJobs'
  BY <1>1 DEF QueueRequest, jobVars, scannerVars
<1>2. ASSUME NEW a \in Agents, PollStep(a) PROVE FreshJobs'
  <2>1. CASE AcquireSlot(a) \/ PollNothing(a)
    BY <2>1 DEF AcquireSlot, PollNothing, jobVars
  <2>2. ASSUME NEW r \in Requests, NEW d \in Delivery, ClaimNext(a, r, d) PROVE FreshJobs'
    BY <2>2 DEF ClaimNext, jobVars
  <2>3. ASSUME NEW j \in Jobs, CreateJob(a, j) PROVE FreshJobs'
    BY <2>3 DEF CreateJob, InsertJob, StartRun, TypeOK
  <2>4. CASE CreateJobFails(a)
    BY <2>4 DEF CreateJobFails, InsertJob, jobVars, TypeOK
  <2> QED BY <1>2, <2>1, <2>2, <2>3, <2>4 DEF PollStep
<1>3. ASSUME NEW a \in Agents, Crash(a) PROVE FreshJobs'
  BY <1>3 DEF Crash, jobVars
<1>4. ASSUME NEW a \in Agents, NEW j \in Jobs, StartLocalScan(a, j) PROVE FreshJobs'
  BY <1>4 DEF StartLocalScan, InsertJob, StartRun, TypeOK
<1>5. ASSUME NEW j \in Jobs, RunStep(j) PROVE FreshJobs'
  <2>1. CASE RegisterCancel(j)
    BY <2>1 DEF RegisterCancel, jobVars, TypeOK
  <2>2. ASSUME NEW d \in Delivery, FetchFails(j, d) PROVE FreshJobs'
    BY <2>2 DEF FetchFails, SendJobReport, ApplyJobReport, TypeOK
  <2>3. ASSUME NEW res \in {"whole", "cut", "error"}, ScanReturns(j, res) PROVE FreshJobs'
    BY <2>3 DEF ScanReturns, jobVars, TypeOK
  <2>4. ASSUME NEW rem \in BOOLEAN, NEW d \in Delivery, ReportJob(j, rem, d) PROVE FreshJobs'
    BY <2>4, ReportedOutcomeType DEF ReportJob, SendJobReport, ApplyJobReport, TypeOK, Outcomes
  <2>5. ASSUME NEW d \in Delivery, CloseRequest(j, d) PROVE FreshJobs'
    BY <2>5 DEF CloseRequest, EndRun, jobVars, TypeOK
  <2> QED BY <1>5, <2>1, <2>2, <2>3, <2>4, <2>5 DEF RunStep, ReportStep
<1>6. ASSUME NEW j \in Jobs, NoticeCancel(j) \/ RequestScanCancel(j) PROVE FreshJobs'
  BY <1>6 DEF NoticeCancel, RequestScanCancel, jobVars, scannerVars
<1>7. ASSUME NEW s \in Sessions, Operator(s) PROVE FreshJobs'
  BY <1>7 DEF Operator, ReadQueued, ReadStaleRequest, ReadStaleJob, ReadResumable, CommitResume,
              WriteQueueCancel, WriteRequestDismiss, WriteJobDismiss, RefuseResume,
              Read, Write, jobVars, scannerVars, TypeOK
<1>8. CASE UNCHANGED vars
  BY <1>8 DEF vars, jobVars, scannerVars
<1> QED BY <1>1, <1>2, <1>3, <1>4, <1>5, <1>6, <1>7, <1>8 DEF Next

LEMMA Ranks ==
  /\ \A status : Rank(status) \in 0 .. 3
  /\ Rank("none") = 0 /\ Rank("pending") = 1 /\ Rank("running") = 1 /\ Rank("claimed") = 2
  /\ \A status \in Outcomes : Rank(status) = 3
BY DEF Rank, Outcomes

LEMMA ForwardStep == TypeOK /\ [Next]_vars => MovesForward
<1> SUFFICES ASSUME TypeOK, [Next]_vars PROVE MovesForward
  OBVIOUS
<1> USE Ranks DEF MovesForward, Outcomes
<1>1. ASSUME NEW r \in Requests, QueueRequest(r) PROVE MovesForward
  BY <1>1 DEF QueueRequest, InsertRequest, jobVars, TypeOK
<1>2. ASSUME NEW a \in Agents, PollStep(a) PROVE MovesForward
  <2>1. CASE AcquireSlot(a) \/ PollNothing(a)
    BY <2>1 DEF AcquireSlot, PollNothing, reqVars, jobVars
  <2>2. ASSUME NEW r \in Requests, NEW d \in Delivery, ClaimNext(a, r, d) PROVE MovesForward
    BY <2>2 DEF ClaimNext, Claimable, Pending, MarkClaimed, jobVars, TypeOK
  <2>3. ASSUME NEW j \in Jobs, CreateJob(a, j) PROVE MovesForward
    BY <2>3 DEF CreateJob, InsertJob, TypeOK
  <2>4. CASE CreateJobFails(a)
    BY <2>4 DEF CreateJobFails, InsertJob, jobVars, TypeOK
  <2> QED BY <1>2, <2>1, <2>2, <2>3, <2>4 DEF PollStep
<1>3. ASSUME NEW a \in Agents, Crash(a) PROVE MovesForward
  BY <1>3 DEF Crash, reqVars, jobVars
<1>4. ASSUME NEW a \in Agents, NEW j \in Jobs, StartLocalScan(a, j) PROVE MovesForward
  BY <1>4 DEF StartLocalScan, InsertJob, reqVars, TypeOK
<1>5. ASSUME NEW j \in Jobs, RunStep(j) PROVE MovesForward
  <2>1. CASE RegisterCancel(j)
    BY <2>1 DEF RegisterCancel, reqVars, jobVars
  <2>2. ASSUME NEW d \in Delivery, FetchFails(j, d) PROVE MovesForward
    BY <2>2 DEF FetchFails, SendJobReport, ApplyJobReport, reqVars, TypeOK
  <2>3. ASSUME NEW res \in {"whole", "cut", "error"}, ScanReturns(j, res) PROVE MovesForward
    BY <2>3 DEF ScanReturns, reqVars, jobVars
  <2>4. ASSUME NEW rem \in BOOLEAN, NEW d \in Delivery, ReportJob(j, rem, d) PROVE MovesForward
    BY <2>4, ReportedOutcomeType DEF ReportJob, SendJobReport, ApplyJobReport, reqVars, TypeOK
  <2>5. ASSUME NEW d \in Delivery, CloseRequest(j, d) PROVE MovesForward
    BY <2>5 DEF CloseRequest, jobVars, TypeOK
  <2> QED BY <1>5, <2>1, <2>2, <2>3, <2>4, <2>5 DEF RunStep, ReportStep
<1>6. ASSUME NEW j \in Jobs, NoticeCancel(j) \/ RequestScanCancel(j) PROVE MovesForward
  BY <1>6 DEF NoticeCancel, RequestScanCancel, reqVars, jobVars
<1>7. ASSUME NEW s \in Sessions, Operator(s) PROVE MovesForward
  BY <1>7 DEF Operator, ReadQueued, ReadStaleRequest, ReadStaleJob, ReadResumable, CommitResume,
              WriteQueueCancel, WriteRequestDismiss, WriteJobDismiss, RefuseResume,
              Read, Write, InsertRequest, reqVars, jobVars, TypeOK
<1>8. CASE UNCHANGED vars
  BY <1>8 DEF vars, reqVars, jobVars
<1> QED BY <1>1, <1>2, <1>3, <1>4, <1>5, <1>6, <1>7, <1>8 DEF Next

\* No step of the webserver or of a scanner takes a row back.
THEOREM RowsMoveForward == Spec => LifecycleForward
<1>1. TypeOK /\ [Next]_vars => [MovesForward]_vars
  BY ForwardStep
<1> QED BY <1>1, TypeCorrect, PTL DEF Spec, LifecycleForward

LEMMA TakenStays ==
  ASSUME TypeOK, [Next]_vars, NEW r \in Requests, Taken(r)
  PROVE  Taken(r)'
BY ForwardStep, Ranks, TypeStep DEF MovesForward, Taken, Rank, TypeOK, ReqStates, Outcomes

\* Nothing but binding a job to a request, or handing a polling loop a new
\* one, can disturb the ownership.
LEMMA OwnershipFrame ==
  ASSUME TypeOK, Ownership, [Next]_vars,
         jobReq' = jobReq,
         \A a \in Agents : poll'[a] = poll[a] \/ poll'[a].pc # "creating",
         \A j \in Jobs : jobReq[j] # NoRequest => jobAgent'[j] = jobAgent[j]
  PROVE  Ownership'
<1>1. \A a \in Agents : poll[a].pc = "creating" => poll[a].req \in Requests
  BY PollRecords DEF TypeOK
<1>2. \A r \in Requests : Taken(r) => Taken(r)'
  BY TakenStays
<1>3. PollHolds'
  BY <1>1, <1>2 DEF Ownership, PollHolds
<1>4. JobsHold'
  BY <1>2 DEF Ownership, JobsHold, TypeOK
<1>5. OneRunPerRequest'
  BY DEF Ownership, OneRunPerRequest
<1> QED BY <1>3, <1>4, <1>5, FreshStep DEF Ownership

LEMMA OwnershipStep == TypeOK /\ Ownership /\ [Next]_vars => Ownership'
<1> SUFFICES ASSUME TypeOK, Ownership, [Next]_vars PROVE Ownership'
  OBVIOUS
<1>1. ASSUME NEW r \in Requests, QueueRequest(r) PROVE Ownership'
  BY <1>1, OwnershipFrame DEF QueueRequest, jobVars, scannerVars
<1>2. ASSUME NEW a \in Agents, PollStep(a) PROVE Ownership'
  <2>1. CASE AcquireSlot(a) \/ PollNothing(a)
    <3>1. \A b \in Agents : poll'[b] = poll[b] \/ poll'[b].pc # "creating"
      BY <2>1 DEF AcquireSlot, PollNothing, ReleasePoll, IdlePoll, TypeOK
    <3> QED BY <2>1, <3>1, OwnershipFrame DEF AcquireSlot, PollNothing, jobVars
  <2>2. ASSUME NEW r \in Requests, NEW d \in Delivery, ClaimNext(a, r, d) PROVE Ownership'
    <3>1. ~Taken(r) /\ Taken(r)' /\ AgentOf[r] = a
      BY <2>2 DEF ClaimNext, Claimable, Pending, MarkClaimed, Taken, TypeOK
    <3>2. UNCHANGED <<jobReq, jobAgent>> /\ \A j \in Jobs : jobReq[j] # r
      BY <2>2, <3>1, ScanQueueAssumption DEF ClaimNext, jobVars, Ownership, JobsHold
    <3>3. \A b \in Agents : \/ poll'[b] = poll[b]
                            \/ poll'[b].pc # "creating"
                            \/ b = a /\ poll'[b].req = r
      BY <2>2 DEF ClaimNext, ReleasePoll, IdlePoll, TypeOK
    <3>4. \A b \in Agents : poll[b].pc = "creating" => poll[b].req \in Requests
      BY PollRecords DEF TypeOK
    <3>5. PollHolds'
      <4> SUFFICES ASSUME NEW b \in Agents, poll'[b].pc = "creating"
                   PROVE  /\ reqStatus'[poll'[b].req] \notin {"none", "pending"}
                          /\ AgentOf[poll'[b].req] = b
                          /\ \A j \in Jobs : jobReq'[j] # poll'[b].req
        BY DEF PollHolds, Taken
      <4>1. CASE poll'[b] = poll[b]
        BY <3>2, <3>4, <4>1, TakenStays DEF Ownership, PollHolds, Taken
      <4>2. CASE b = a /\ poll'[b].req = r
        BY <3>1, <3>2, <4>2 DEF Taken
      <4> QED BY <3>3, <4>1, <4>2
    <3>6. JobsHold' /\ OneRunPerRequest'
      BY <3>2, TakenStays DEF JobsHold, OneRunPerRequest, Ownership, TypeOK
    <3> QED BY <3>5, <3>6, FreshStep DEF Ownership
  <2>3. ASSUME NEW j \in Jobs, CreateJob(a, j) PROVE Ownership'
    <3>1. PICK r \in Requests : r = poll[a].req /\ Taken(r) /\ AgentOf[r] = a
      BY <2>3, PollRecords DEF CreateJob, Ownership, PollHolds, TypeOK
    <3>2. /\ jobReq' = [jobReq EXCEPT ![j] = r]
          /\ jobAgent' = [jobAgent EXCEPT ![j] = a]
          /\ poll' = [poll EXCEPT ![a] = IdlePoll]
          /\ jobReq[j] = NoRequest
      BY <2>3, <3>1 DEF CreateJob, InsertJob, StartRun, Ownership, FreshJobs
    <3>3. \A k \in Jobs : jobReq[k] # r
      BY <2>3, <3>1 DEF CreateJob, Ownership, PollHolds
    <3>4. PollHolds'
      <4>1. \A b \in Agents : poll[b].pc = "creating" => poll[b].req \in Requests
        BY PollRecords DEF TypeOK
      <4> QED BY <3>1, <3>2, <4>1, TakenStays DEF PollHolds, Ownership, IdlePoll, TypeOK
    <3>5. JobsHold'
      BY <3>1, <3>2, TakenStays DEF JobsHold, Ownership, TypeOK
    <3>6. OneRunPerRequest'
      BY <3>1, <3>2, <3>3 DEF OneRunPerRequest, Ownership, TypeOK
    <3> QED BY <3>4, <3>5, <3>6, FreshStep DEF Ownership
  <2>4. CASE CreateJobFails(a)
    <3>1. \A b \in Agents : poll'[b] = poll[b] \/ poll'[b].pc # "creating"
      BY <2>4 DEF CreateJobFails, ReleasePoll, IdlePoll, TypeOK
    <3>2. \A j \in Jobs : jobReq[j] # NoRequest => jobAgent'[j] = jobAgent[j]
      BY <2>4 DEF CreateJobFails, InsertJob, jobVars, Ownership, FreshJobs, TypeOK
    <3> QED BY <2>4, <3>1, <3>2, OwnershipFrame DEF CreateJobFails
  <2> QED BY <1>2, <2>1, <2>2, <2>3, <2>4 DEF PollStep
<1>3. ASSUME NEW a \in Agents, Crash(a) PROVE Ownership'
  <2>1. \A b \in Agents : poll'[b] = poll[b] \/ poll'[b].pc # "creating"
    BY <1>3 DEF Crash, IdlePoll, TypeOK
  <2> QED BY <1>3, <2>1, OwnershipFrame DEF Crash, jobVars
<1>4. ASSUME NEW a \in Agents, NEW j \in Jobs, StartLocalScan(a, j) PROVE Ownership'
  <2>1. jobReq[j] = NoRequest
    BY <1>4 DEF StartLocalScan, InsertJob, Ownership, FreshJobs
  <2>2. jobReq' = jobReq
    BY <1>4, <2>1 DEF StartLocalScan, StartRun, TypeOK
  <2>3. \A k \in Jobs : jobReq[k] # NoRequest => jobAgent'[k] = jobAgent[k]
    BY <1>4, <2>1 DEF StartLocalScan, InsertJob, TypeOK
  <2> QED BY <1>4, <2>2, <2>3, OwnershipFrame DEF StartLocalScan
<1>5. ASSUME NEW j \in Jobs, RunStep(j) PROVE Ownership'
  BY <1>5, OwnershipFrame
     DEF RunStep, ReportStep, RegisterCancel, FetchFails, ScanReturns, ReportJob, CloseRequest,
         SendJobReport, jobVars
<1>6. ASSUME NEW j \in Jobs, NoticeCancel(j) \/ RequestScanCancel(j) PROVE Ownership'
  BY <1>6, OwnershipFrame DEF NoticeCancel, RequestScanCancel, jobVars, scannerVars
<1>7. ASSUME NEW s \in Sessions, Operator(s) PROVE Ownership'
  BY <1>7, OwnershipFrame
     DEF Operator, ReadQueued, ReadStaleRequest, ReadStaleJob, ReadResumable, CommitResume,
         WriteQueueCancel, WriteRequestDismiss, WriteJobDismiss, RefuseResume,
         Read, Write, jobVars, scannerVars
<1>8. CASE UNCHANGED vars
  BY <1>8, OwnershipFrame DEF vars, jobVars, scannerVars
<1> QED BY <1>1, <1>2, <1>3, <1>4, <1>5, <1>6, <1>7, <1>8 DEF Next

\* A request is run at most once, however many calls are lost and processes
\* restarted, and only by the scanner it was queued for.
THEOREM RunsAreOwned == Spec => [](OneRunPerRequest /\ RunsOnItsAgent)
<1>1. Ownership => OneRunPerRequest /\ RunsOnItsAgent
  BY DEF Ownership, JobsHold, RunsOnItsAgent
<1> QED BY <1>1, OwnershipInit, OwnershipStep, TypeCorrect, PTL DEF Spec

-----------------------------------------------------------------------------
(* What "completed" means.  The goroutine decides on it from the context   *)
(* and the error of RunScan, so the invariant ties both to what the scan   *)
(* really did, from its start to its report.                               *)

RunResults ==
  \A j \in Jobs :
    /\ Scanning(j) => result[j] = "none"
    /\ run[j] = "returned" =>
         result[j] # "none" /\ (result[j] = "cut" => j \in ctxDone)
    /\ run[j] = "completed" => result[j] = "whole"

Honest == RunResults /\ HonestCompletion

LEMMA HonestInit == Init => Honest
BY DEF Init, Honest, RunResults, HonestCompletion, Scanning

\* What every step does that is not a goroutine's own result or report.
Undisturbed ==
  /\ result' = result
  /\ \A j \in Jobs : \/ run'[j] = "none"
                     \/ run'[j] = run[j] /\ (j \in ctxDone => j \in ctxDone')
                     \/ run'[j] = "scanning" /\ run[j] = "started"
                     \/ run'[j] = "started" /\ result[j] = "none"
  /\ \A j \in Jobs : jobStatus'[j] = "completed" => jobStatus[j] = "completed"
  /\ \A r \in Requests : reqStatus'[r] = "completed" =>
                         reqStatus[r] = "completed" /\ reqJob'[r] = reqJob[r]

LEMMA HonestFrame == Honest /\ Undisturbed => Honest'
<1> SUFFICES ASSUME Honest, Undisturbed PROVE Honest'
  OBVIOUS
<1>1. RunResults'
  BY DEF Undisturbed, Honest, RunResults, Scanning
<1>2. HonestCompletion'
  BY DEF Undisturbed, Honest, HonestCompletion
<1> QED BY <1>1, <1>2 DEF Honest

\* A job is reported "completed" only if its scan is known to be whole.
LEMMA HonestReport ==
  ASSUME TypeOK, Honest, NEW j \in Jobs, NEW status \in Outcomes, NEW rem, NEW d,
         SendJobReport(j, status, rem, d), UNCHANGED reqVars,
         \A k \in Jobs : k # j => result'[k] = result[k],
         jobStatus[j] = "completed" => result'[j] = "whole",
         \A r \in Requests : reqJob[r] = j /\ reqStatus[r] = "completed" => result'[j] = "whole",
         status = "completed" => result'[j] = "whole"
  PROVE  Honest'
<1>1. /\ run'[j] \in Outcomes
      /\ run'[j] = "completed" => result'[j] = "whole"
      /\ \A k \in Jobs : k # j => run'[k] = run[k] /\ (k \in ctxDone' <=> k \in ctxDone)
      /\ jobStatus'[j] = "completed" => result'[j] = "whole"
      /\ \A k \in Jobs : k # j => jobStatus'[k] = jobStatus[k]
  BY DEF SendJobReport, ApplyJobReport, TypeOK, Outcomes
<1>2. RunResults'
  BY <1>1 DEF Honest, RunResults, Scanning, Outcomes
<1>3. HonestCompletion'
  BY <1>1 DEF Honest, HonestCompletion, reqVars
<1> QED BY <1>2, <1>3 DEF Honest

LEMMA HonestStep == TypeOK /\ Ownership /\ Honest /\ [Next]_vars => Honest'
<1> SUFFICES ASSUME TypeOK, Ownership, Honest, [Next]_vars PROVE Honest'
  OBVIOUS
<1>1. ASSUME NEW r \in Requests, QueueRequest(r) PROVE Honest'
  <2>1. Undisturbed
    BY <1>1 DEF Undisturbed, QueueRequest, InsertRequest, jobVars, scannerVars, TypeOK
  <2> QED BY <2>1, HonestFrame
<1>2. ASSUME NEW a \in Agents, PollStep(a) PROVE Honest'
  <2>1. CASE AcquireSlot(a) \/ PollNothing(a)
    <3>1. Undisturbed
      BY <2>1 DEF Undisturbed, AcquireSlot, PollNothing, reqVars, jobVars
    <3> QED BY <3>1, HonestFrame
  <2>2. ASSUME NEW r \in Requests, NEW d \in Delivery, ClaimNext(a, r, d) PROVE Honest'
    <3>1. Undisturbed
      BY <2>2 DEF Undisturbed, ClaimNext, MarkClaimed, jobVars, TypeOK
    <3> QED BY <3>1, HonestFrame
  <2>3. ASSUME NEW j \in Jobs, CreateJob(a, j) PROVE Honest'
    <3>1. result[j] = "none"
      BY <2>3 DEF CreateJob, InsertJob, Ownership, FreshJobs
    <3>2. \A k \in Jobs : run'[k] = run[k] \/ (run'[k] = "started" /\ result[k] = "none")
      BY <2>3, <3>1 DEF CreateJob, StartRun, TypeOK
    <3>3. \A k \in Jobs : jobStatus'[k] = "completed" => jobStatus[k] = "completed"
      BY <2>3 DEF CreateJob, InsertJob, TypeOK
    <3>4. \A r \in Requests : reqStatus'[r] = "completed" =>
                            reqStatus[r] = "completed" /\ reqJob'[r] = reqJob[r]
      BY <2>3 DEF CreateJob, LinkRequest, TypeOK
    <3>5. Undisturbed
      BY <2>3, <3>2, <3>3, <3>4 DEF Undisturbed, CreateJob
    <3> QED BY <3>5, HonestFrame
  <2>4. CASE CreateJobFails(a)
    <3>1. \A k \in Jobs : jobStatus'[k] = "completed" => jobStatus[k] = "completed"
      BY <2>4 DEF CreateJobFails, InsertJob, jobVars, TypeOK
    <3>2. \A r \in Requests : reqStatus'[r] = "completed" =>
                            reqStatus[r] = "completed" /\ reqJob'[r] = reqJob[r]
      BY <2>4 DEF CreateJobFails, LinkRequest, TypeOK
    <3>5. Undisturbed
      BY <2>4, <3>1, <3>2 DEF Undisturbed, CreateJobFails
    <3> QED BY <3>5, HonestFrame
  <2> QED BY <1>2, <2>1, <2>2, <2>3, <2>4 DEF PollStep
<1>3. ASSUME NEW a \in Agents, Crash(a) PROVE Honest'
  <2>1. Undisturbed
    BY <1>3 DEF Undisturbed, Crash, reqVars, jobVars
  <2> QED BY <2>1, HonestFrame
<1>4. ASSUME NEW a \in Agents, NEW j \in Jobs, StartLocalScan(a, j) PROVE Honest'
  <2>1. result[j] = "none" /\ UNCHANGED reqVars
    BY <1>4 DEF StartLocalScan, InsertJob, Ownership, FreshJobs
  <2>2. \A k \in Jobs : run'[k] = run[k] \/ (run'[k] = "started" /\ result[k] = "none")
    BY <1>4, <2>1 DEF StartLocalScan, StartRun, TypeOK
  <2>3. \A k \in Jobs : jobStatus'[k] = "completed" => jobStatus[k] = "completed"
    BY <1>4 DEF StartLocalScan, InsertJob, TypeOK
  <2>5. Undisturbed
    BY <1>4, <2>1, <2>2, <2>3 DEF Undisturbed, StartLocalScan, reqVars
  <2> QED BY <2>5, HonestFrame
<1>5. ASSUME NEW j \in Jobs, RunStep(j) PROVE Honest'
  <2>1. CASE RegisterCancel(j)
    <3>1. Undisturbed
      BY <2>1 DEF Undisturbed, RegisterCancel, reqVars, jobVars, TypeOK
    <3> QED BY <3>1, HonestFrame
  <2>2. ASSUME NEW d \in Delivery, FetchFails(j, d) PROVE Honest'
    <3>1. result[j] = "none"
      BY <2>2 DEF FetchFails, Honest, RunResults, Scanning
    <3>2. jobStatus[j] # "completed"
      BY <3>1 DEF Honest, HonestCompletion
    <3>3. \A r \in Requests : ~(reqJob[r] = j /\ reqStatus[r] = "completed")
      BY <3>1 DEF Honest, HonestCompletion
    <3> QED BY <2>2, <3>2, <3>3, HonestReport DEF FetchFails, Outcomes, reqVars, TypeOK
  <2>3. ASSUME NEW res \in {"whole", "cut", "error"}, ScanReturns(j, res) PROVE Honest'
    <3>1. result[j] = "none"
      BY <2>3 DEF ScanReturns, Honest, RunResults, Scanning
    <3>2. RunResults'
      BY <2>3 DEF ScanReturns, Honest, RunResults, Scanning, TypeOK
    <3>3. HonestCompletion'
      BY <2>3, <3>1 DEF ScanReturns, Honest, HonestCompletion, reqVars, jobVars, TypeOK
    <3> QED BY <3>2, <3>3 DEF Honest
  <2>4. ASSUME NEW rem \in BOOLEAN, NEW d \in Delivery, ReportJob(j, rem, d) PROVE Honest'
    <3>1. ReportedOutcome(j) = "completed" => result[j] = "whole"
      BY <2>4 DEF ReportJob, ReportedOutcome, Honest, RunResults, TypeOK, Results
    <3>2. jobStatus[j] = "completed" => result[j] = "whole"
      BY DEF Honest, HonestCompletion
    <3>3. \A r \in Requests : reqJob[r] = j /\ reqStatus[r] = "completed" => result[j] = "whole"
      BY DEF Honest, HonestCompletion
    <3> QED BY <2>4, <3>1, <3>2, <3>3, HonestReport, ReportedOutcomeType DEF ReportJob
  <2>5. ASSUME NEW d \in Delivery, CloseRequest(j, d) PROVE Honest'
    <3>1. run[j] = "completed" => result[j] = "whole"
      BY DEF Honest, RunResults
    <3>2. RunResults'
      BY <2>5 DEF CloseRequest, EndRun, Honest, RunResults, Scanning, TypeOK
    <3>3. HonestCompletion'
      BY <2>5, <3>1 DEF CloseRequest, Honest, HonestCompletion, jobVars, TypeOK
    <3> QED BY <3>2, <3>3 DEF Honest
  <2> QED BY <1>5, <2>1, <2>2, <2>3, <2>4, <2>5 DEF RunStep, ReportStep
<1>6. ASSUME NEW j \in Jobs, NoticeCancel(j) \/ RequestScanCancel(j) PROVE Honest'
  <2>1. Undisturbed
    BY <1>6 DEF Undisturbed, NoticeCancel, RequestScanCancel, reqVars, jobVars, scannerVars
  <2> QED BY <2>1, HonestFrame
<1>7. ASSUME NEW s \in Sessions, Operator(s) PROVE Honest'
  <2>1. Undisturbed
    BY <1>7
     DEF Undisturbed, Operator, ReadQueued, ReadStaleRequest, ReadStaleJob, ReadResumable, CommitResume,
         WriteQueueCancel, WriteRequestDismiss, WriteJobDismiss, RefuseResume,
         Read, Write, InsertRequest, reqVars, jobVars, scannerVars, TypeOK
  <2> QED BY <2>1, HonestFrame
<1>8. CASE UNCHANGED vars
  <2>1. Undisturbed
    BY <1>8 DEF Undisturbed, vars, reqVars, jobVars, scannerVars
  <2> QED BY <2>1, HonestFrame
<1> QED BY <1>1, <1>2, <1>3, <1>4, <1>5, <1>6, <1>7, <1>8 DEF Next

\* "completed" is said only of a scan that ran to its end.
THEOREM CompletionIsHonest == Spec => []HonestCompletion
<1>1. Honest => HonestCompletion
  BY DEF Honest
<1> QED BY <1>1, TypeInit, TypeStep, OwnershipInit, OwnershipStep, HonestInit, HonestStep, PTL DEF Spec

-----------------------------------------------------------------------------
(* Slots.  The limit on the scans of the queue follows only once the slot  *)
(* the polling loop has reserved is counted with them.                     *)

LiveOwned == \A j \in Jobs : Live(j) => jobAgent[j] \in Agents

QueueSlotsWithinLimit ==
  \A a \in Agents : Cardinality(QueueRuns(a)) + Reserved(a) <= MaxScans

Accounts == LiveOwned /\ SlotsAccounted /\ QueueSlotsWithinLimit

LEMMA RunsAreFinite ==
  ASSUME NEW a
  PROVE  /\ IsFiniteSet(RunsOf(a)) /\ Cardinality(RunsOf(a)) \in Nat
         /\ IsFiniteSet(QueueRuns(a)) /\ Cardinality(QueueRuns(a)) \in Nat
         /\ Cardinality(QueueRuns(a)) <= Cardinality(RunsOf(a))
<1>1. RunsOf(a) \subseteq Jobs /\ QueueRuns(a) \subseteq RunsOf(a)
  BY DEF RunsOf, QueueRuns
<1>2. IsFiniteSet(RunsOf(a))
  BY <1>1, ScanQueueAssumption, FS_Subset
<1>3. IsFiniteSet(QueueRuns(a)) /\ Cardinality(QueueRuns(a)) <= Cardinality(RunsOf(a))
  BY <1>1, <1>2, FS_Subset
<1> QED BY <1>2, <1>3, FS_CardinalityType

LEMMA AccountsInit == Init => Accounts
<1> SUFFICES ASSUME Init PROVE Accounts
  OBVIOUS
<1>1. \A a \in Agents : RunsOf(a) = {} /\ QueueRuns(a) = {}
  BY DEF Init, RunsOf, QueueRuns, Live
<1>2. \A a \in Agents : Reserved(a) = 0
  BY DEF Init, Reserved, IdlePoll
<1>3. LiveOwned
  BY DEF Init, LiveOwned, Live
<1>4. \A a \in Agents : slots[a] = 0
  BY DEF Init
<1> QED BY <1>1, <1>2, <1>3, <1>4, FS_EmptySet, ScanQueueAssumption, SMTT(30)
        DEF Accounts, SlotsAccounted, QueueSlotsWithinLimit

\* A step that starts and ends no goroutine.
LEMMA SameRuns ==
  ASSUME LiveOwned,
         \A j \in Jobs : (run'[j] = "none") = (run[j] = "none"),
         \A j \in Jobs : Live(j) => jobAgent'[j] = jobAgent[j] /\ jobReq'[j] = jobReq[j]
  PROVE  LiveOwned' /\ \A a : RunsOf(a)' = RunsOf(a) /\ QueueRuns(a)' = QueueRuns(a)
BY DEF LiveOwned, RunsOf, QueueRuns, Live

LEMMA AccountsFrame ==
  ASSUME Accounts,
         \A j \in Jobs : (run'[j] = "none") = (run[j] = "none"),
         \A j \in Jobs : Live(j) => jobAgent'[j] = jobAgent[j] /\ jobReq'[j] = jobReq[j],
         UNCHANGED <<slots, poll>>
  PROVE  Accounts'
<1>1. \A a \in Agents : Reserved(a)' = Reserved(a)
  BY DEF Reserved
<1> QED BY <1>1, SameRuns DEF Accounts, SlotsAccounted, QueueSlotsWithinLimit

\* The polling loop of one scanner takes or gives back its reservation.
LEMMA AccountsPoll ==
  ASSUME TypeOK, Accounts, NEW a \in Agents,
         \A b \in Agents : RunsOf(b)' = RunsOf(b) /\ QueueRuns(b)' = QueueRuns(b),
         LiveOwned',
         \A b \in Agents \ {a} : slots'[b] = slots[b] /\ poll'[b] = poll[b],
         \/ slots'[a] = slots[a] /\ poll[a].pc # "idle" /\ poll'[a].pc # "idle"
         \/ slots'[a] = slots[a] + 1 /\ slots[a] < MaxScans /\ poll[a].pc = "idle" /\ poll'[a].pc # "idle"
         \/ ReleasePoll(a) /\ poll[a].pc # "idle"
  PROVE  Accounts'
<1>1. \A b \in Agents \ {a} : Reserved(b)' = Reserved(b)
  BY DEF Reserved
<1>2. /\ slots[a] = Cardinality(RunsOf(a)) + Reserved(a)
      /\ Cardinality(QueueRuns(a)) + Reserved(a) <= MaxScans
      /\ Cardinality(RunsOf(a)) \in Nat /\ Cardinality(QueueRuns(a)) \in Nat
      /\ Cardinality(QueueRuns(a)) <= Cardinality(RunsOf(a))
      /\ MaxScans \in Nat
  BY RunsAreFinite, ScanQueueAssumption DEF Accounts, SlotsAccounted, QueueSlotsWithinLimit
<1>3. /\ slots'[a] = Cardinality(RunsOf(a)) + Reserved(a)'
      /\ Cardinality(QueueRuns(a)) + Reserved(a)' <= MaxScans
  <2>1. CASE slots'[a] = slots[a] /\ poll[a].pc # "idle" /\ poll'[a].pc # "idle"
    BY <1>2, <2>1 DEF Reserved
  <2>2. CASE slots'[a] = slots[a] + 1 /\ slots[a] < MaxScans /\ poll[a].pc = "idle" /\ poll'[a].pc # "idle"
    BY <1>2, <2>2 DEF Reserved
  <2>3. CASE ReleasePoll(a) /\ poll[a].pc # "idle"
    BY <1>2, <2>3 DEF Reserved, ReleasePoll, IdlePoll, TypeOK
  <2> QED BY <2>1, <2>2, <2>3
<1> QED BY <1>1, <1>2, <1>3 DEF Accounts, SlotsAccounted, QueueSlotsWithinLimit

\* A goroutine starts in the slot reserved for it, or as a local scan in a
\* slot of its own.
LEMMA StartedRuns ==
  ASSUME TypeOK, LiveOwned, NEW a \in Agents, NEW j \in Jobs, NEW r \in Requests \cup {NoRequest}, ~Live(j),
         run' = [run EXCEPT ![j] = "started"], jobReq' = [jobReq EXCEPT ![j] = r],
         jobAgent' = [jobAgent EXCEPT ![j] = a]
  PROVE  /\ LiveOwned'
         /\ \A b \in Agents \ {a} : RunsOf(b)' = RunsOf(b) /\ QueueRuns(b)' = QueueRuns(b)
         /\ Cardinality(RunsOf(a)') = Cardinality(RunsOf(a)) + 1
         /\ r # NoRequest => Cardinality(QueueRuns(a)') = Cardinality(QueueRuns(a)) + 1
         /\ r = NoRequest => QueueRuns(a)' = QueueRuns(a)
<1>1. LiveOwned'
  BY DEF TypeOK, LiveOwned, Live
<1>2. \A b \in Agents \ {a} : RunsOf(b)' = RunsOf(b) /\ QueueRuns(b)' = QueueRuns(b)
  BY DEF TypeOK, RunsOf, QueueRuns, Live
<1>3. RunsOf(a)' = RunsOf(a) \cup {j} /\ j \notin RunsOf(a)
  BY DEF TypeOK, RunsOf, Live
<1>4. j \notin QueueRuns(a)
  BY DEF RunsOf, QueueRuns
<1>5. QueueRuns(a)' = IF r = NoRequest THEN QueueRuns(a) ELSE QueueRuns(a) \cup {j}
  BY <1>3 DEF TypeOK, RunsOf, QueueRuns, Live
<1> QED BY <1>1, <1>2, <1>3, <1>4, <1>5, RunsAreFinite, FS_AddElement, ZenonT(60)

\* A goroutine ends and gives its slot back.
LEMMA EndedRuns ==
  ASSUME TypeOK, Accounts, NEW j \in Jobs, Live(j), EndRun(j), UNCHANGED <<jobAgent, jobReq, poll>>
  PROVE  Accounts'
<1> DEFINE a == jobAgent[j]
<1>1. a \in Agents /\ j \in RunsOf(a)
  BY DEF Accounts, LiveOwned, RunsOf
<1>2. \A b \in Agents : /\ RunsOf(b)' = RunsOf(b) \ {j}
                       /\ QueueRuns(b)' = QueueRuns(b) \ {j}
                       /\ Reserved(b)' = Reserved(b)
  BY DEF TypeOK, EndRun, RunsOf, QueueRuns, Live, Reserved
<1>3. \A b \in Agents : b # a => j \notin RunsOf(b) /\ j \notin QueueRuns(b)
  BY DEF RunsOf, QueueRuns
<1>4. ASSUME NEW b \in Agents
      PROVE  /\ Cardinality(RunsOf(b)') = IF b = a THEN Cardinality(RunsOf(b)) - 1
                                                   ELSE Cardinality(RunsOf(b))
             /\ Cardinality(QueueRuns(b)') <= Cardinality(QueueRuns(b))
             /\ Cardinality(QueueRuns(b)') \in Nat
  <2>1. Cardinality(RunsOf(b) \ {j}) = IF j \in RunsOf(b) THEN Cardinality(RunsOf(b)) - 1
                                                           ELSE Cardinality(RunsOf(b))
    BY RunsAreFinite, FS_RemoveElement
  <2>2. /\ Cardinality(QueueRuns(b) \ {j}) <= Cardinality(QueueRuns(b))
        /\ Cardinality(QueueRuns(b) \ {j}) \in Nat
    <3>1. QueueRuns(b) \ {j} \subseteq QueueRuns(b)
      OBVIOUS
    <3> QED BY <3>1, RunsAreFinite, FS_Subset, FS_CardinalityType
  <2> QED BY <1>1, <1>2, <1>3, <2>1, <2>2
<1>5. \A b \in Agents : /\ slots[b] = Cardinality(RunsOf(b)) + Reserved(b)
                       /\ Cardinality(RunsOf(b)) \in Nat
                       /\ Reserved(b) \in {0, 1}
  BY RunsAreFinite DEF Accounts, SlotsAccounted, Reserved
<1>6. Cardinality(RunsOf(a)) > 0
  BY <1>1, RunsAreFinite, FS_EmptySet
<1>7. \A b \in Agents : slots'[b] = IF b = a THEN slots[b] - 1 ELSE slots[b]
  BY <1>1, <1>5, <1>6 DEF EndRun, TypeOK
<1>8. SlotsAccounted'
  BY <1>2, <1>4, <1>5, <1>7 DEF SlotsAccounted
<1>9. QueueSlotsWithinLimit'
  BY <1>2, <1>4, <1>5, RunsAreFinite, ScanQueueAssumption DEF Accounts, QueueSlotsWithinLimit
<1>10. LiveOwned'
  BY DEF TypeOK, EndRun, Accounts, LiveOwned, Live
<1> QED BY <1>8, <1>9, <1>10 DEF Accounts

LEMMA AccountsStep == TypeOK /\ Ownership /\ Accounts /\ [Next]_vars => Accounts'
<1> SUFFICES ASSUME TypeOK, Ownership, Accounts, [Next]_vars PROVE Accounts'
  OBVIOUS
<1>1. ASSUME NEW r \in Requests, QueueRequest(r) PROVE Accounts'
  BY <1>1, AccountsFrame DEF QueueRequest, jobVars, scannerVars
<1>2. ASSUME NEW a \in Agents, PollStep(a) PROVE Accounts'
  <2>1. CASE AcquireSlot(a)
    <3>1. LiveOwned' /\ \A b : RunsOf(b)' = RunsOf(b) /\ QueueRuns(b)' = QueueRuns(b)
      BY <2>1, SameRuns DEF AcquireSlot, Accounts, jobVars
    <3>2. /\ slots'[a] = slots[a] + 1 /\ slots[a] < MaxScans
          /\ poll[a].pc = "idle" /\ poll'[a].pc # "idle"
          /\ \A b \in Agents \ {a} : slots'[b] = slots[b] /\ poll'[b] = poll[b]
      BY <2>1 DEF AcquireSlot, HasFreeSlot, TypeOK
    <3> QED BY <3>1, <3>2, AccountsPoll
  <2>2. CASE PollNothing(a)
    <3>1. LiveOwned' /\ \A b : RunsOf(b)' = RunsOf(b) /\ QueueRuns(b)' = QueueRuns(b)
      BY <2>2, SameRuns DEF PollNothing, Accounts, jobVars
    <3>2. /\ ReleasePoll(a) /\ poll[a].pc # "idle"
          /\ \A b \in Agents \ {a} : slots'[b] = slots[b] /\ poll'[b] = poll[b]
      BY <2>2 DEF PollNothing, ReleasePoll, TypeOK
    <3> QED BY <3>1, <3>2, AccountsPoll
  <2>3. ASSUME NEW r \in Requests, NEW d \in Delivery, ClaimNext(a, r, d) PROVE Accounts'
    <3>1. LiveOwned' /\ \A b : RunsOf(b)' = RunsOf(b) /\ QueueRuns(b)' = QueueRuns(b)
      BY <2>3, SameRuns DEF ClaimNext, Accounts, jobVars
    <3>2. \A b \in Agents \ {a} : slots'[b] = slots[b] /\ poll'[b] = poll[b]
      BY <2>3 DEF ClaimNext, ReleasePoll, TypeOK
    <3>3. \/ slots'[a] = slots[a] /\ poll[a].pc # "idle" /\ poll'[a].pc # "idle"
          \/ ReleasePoll(a) /\ poll[a].pc # "idle"
      BY <2>3 DEF ClaimNext, TypeOK
    <3> QED BY <3>1, <3>2, <3>3, AccountsPoll
  <2>4. ASSUME NEW j \in Jobs, CreateJob(a, j) PROVE Accounts'
    <3>1. PICK r \in Requests : r = poll[a].req
      BY <2>4, PollRecords DEF CreateJob, TypeOK
    <3>2. /\ ~Live(j) /\ r # NoRequest
          /\ run' = [run EXCEPT ![j] = "started"] /\ jobReq' = [jobReq EXCEPT ![j] = r]
          /\ jobAgent' = [jobAgent EXCEPT ![j] = a]
      BY <2>4, <3>1, ScanQueueAssumption DEF CreateJob, StartRun, InsertJob, Live, Ownership, FreshJobs
    <3>3. /\ LiveOwned'
          /\ \A b \in Agents \ {a} : RunsOf(b)' = RunsOf(b) /\ QueueRuns(b)' = QueueRuns(b)
          /\ Cardinality(RunsOf(a)') = Cardinality(RunsOf(a)) + 1
          /\ Cardinality(QueueRuns(a)') = Cardinality(QueueRuns(a)) + 1
      <4>1. LiveOwned
        BY DEF Accounts
      <4> r \in Requests \cup {NoRequest}
        OBVIOUS
      <4>2. LiveOwned'
        BY <3>2, <4>1, StartedRuns
      <4>3. \A b \in Agents \ {a} : RunsOf(b)' = RunsOf(b) /\ QueueRuns(b)' = QueueRuns(b)
        BY <3>2, <4>1, StartedRuns
      <4>4. Cardinality(RunsOf(a)') = Cardinality(RunsOf(a)) + 1
        BY <3>2, <4>1, StartedRuns
      <4>5. r # NoRequest => Cardinality(QueueRuns(a)') = Cardinality(QueueRuns(a)) + 1
        BY <3>2, <4>1, StartedRuns
      <4> QED BY <3>2, <4>2, <4>3, <4>4, <4>5
    <3>4. /\ slots' = slots
          /\ Reserved(a) = 1 /\ Reserved(a)' = 0
          /\ \A b \in Agents \ {a} : Reserved(b)' = Reserved(b)
      BY <2>4 DEF CreateJob, Reserved, IdlePoll, TypeOK
    <3>5. SlotsAccounted'
      BY <3>3, <3>4, RunsAreFinite DEF Accounts, SlotsAccounted
    <3>6. QueueSlotsWithinLimit'
      BY <3>3, <3>4, RunsAreFinite DEF Accounts, QueueSlotsWithinLimit
    <3> QED BY <3>3, <3>5, <3>6 DEF Accounts
  <2>5. CASE CreateJobFails(a)
    <3>1. \A j \in Jobs : Live(j) => jobAgent'[j] = jobAgent[j]
      BY <2>5 DEF CreateJobFails, InsertJob, jobVars, Live, Ownership, FreshJobs, TypeOK
    <3>2. LiveOwned' /\ \A b : RunsOf(b)' = RunsOf(b) /\ QueueRuns(b)' = QueueRuns(b)
      BY <2>5, <3>1, SameRuns DEF CreateJobFails, Accounts
    <3>3. /\ ReleasePoll(a) /\ poll[a].pc # "idle"
          /\ \A b \in Agents \ {a} : slots'[b] = slots[b] /\ poll'[b] = poll[b]
      BY <2>5 DEF CreateJobFails, ReleasePoll, TypeOK
    <3> QED BY <3>2, <3>3, AccountsPoll
  <2> QED BY <1>2, <2>1, <2>2, <2>3, <2>4, <2>5 DEF PollStep
<1>3. ASSUME NEW a \in Agents, Crash(a) PROVE Accounts'
  <2>1. RunsOf(a)' = {} /\ QueueRuns(a)' = {}
    BY <1>3 DEF Crash, RunsOf, QueueRuns, Live, jobVars
  <2>2. \A b \in Agents \ {a} : RunsOf(b)' = RunsOf(b) /\ QueueRuns(b)' = QueueRuns(b)
    BY <1>3 DEF Crash, RunsOf, QueueRuns, Live, jobVars, TypeOK
  <2>3. LiveOwned'
    BY <1>3 DEF Crash, Accounts, LiveOwned, Live, jobVars
  <2>4. /\ slots'[a] = 0 /\ Reserved(a)' = 0
        /\ \A b \in Agents \ {a} : slots'[b] = slots[b] /\ Reserved(b)' = Reserved(b)
    BY <1>3 DEF Crash, Reserved, IdlePoll, TypeOK
  <2>5. SlotsAccounted'
    BY <2>1, <2>2, <2>4, FS_EmptySet DEF Accounts, SlotsAccounted
  <2>6. QueueSlotsWithinLimit'
    <3>1. Cardinality(QueueRuns(a)') + Reserved(a)' <= MaxScans
      BY <2>1, <2>4, FS_EmptySet, ScanQueueAssumption
    <3> QED BY <2>2, <2>4, <3>1 DEF Accounts, QueueSlotsWithinLimit
  <2> QED BY <2>3, <2>5, <2>6 DEF Accounts
<1>4. ASSUME NEW a \in Agents, NEW j \in Jobs, StartLocalScan(a, j) PROVE Accounts'
  <2>1. ~Live(j) /\ jobAgent' = [jobAgent EXCEPT ![j] = a] /\ UNCHANGED poll
    BY <1>4 DEF StartLocalScan, InsertJob, Live, Ownership, FreshJobs
  <2>2. CASE StartRun(j, NoRequest) /\ slots' = [slots EXCEPT ![a] = @ + 1]
    <3>1. /\ LiveOwned'
          /\ \A b \in Agents \ {a} : RunsOf(b)' = RunsOf(b) /\ QueueRuns(b)' = QueueRuns(b)
          /\ Cardinality(RunsOf(a)') = Cardinality(RunsOf(a)) + 1
          /\ QueueRuns(a)' = QueueRuns(a)
      BY <2>1, <2>2, StartedRuns DEF Accounts, StartRun
    <3>2. \A b \in Agents : Reserved(b)' = Reserved(b) /\ Reserved(b) \in {0, 1}
      BY <2>1 DEF Reserved
    <3>3. slots'[a] = slots[a] + 1 /\ \A b \in Agents \ {a} : slots'[b] = slots[b]
      BY <2>2 DEF TypeOK
    <3>4. SlotsAccounted'
      BY <3>1, <3>2, <3>3, RunsAreFinite DEF Accounts, SlotsAccounted
    <3>5. QueueSlotsWithinLimit'
      BY <3>1, <3>2 DEF Accounts, QueueSlotsWithinLimit
    <3> QED BY <3>1, <3>4, <3>5 DEF Accounts
  <2>3. CASE UNCHANGED <<run, jobReq, slots>>
    <3>1. \A k \in Jobs : Live(k) => jobAgent'[k] = jobAgent[k]
      BY <2>1 DEF TypeOK
    <3> QED BY <2>1, <2>3, <3>1, AccountsFrame
  <2> QED BY <1>4, <2>2, <2>3 DEF StartLocalScan
<1>5. ASSUME NEW j \in Jobs, RunStep(j) PROVE Accounts'
  <2>1. CASE RegisterCancel(j)
    BY <2>1, AccountsFrame DEF RegisterCancel, jobVars, TypeOK
  <2>2. ASSUME NEW d \in Delivery, FetchFails(j, d) PROVE Accounts'
    BY <2>2, AccountsFrame DEF FetchFails, SendJobReport, TypeOK
  <2>3. ASSUME NEW res \in {"whole", "cut", "error"}, ScanReturns(j, res) PROVE Accounts'
    BY <2>3, AccountsFrame DEF ScanReturns, jobVars, TypeOK
  <2>4. ASSUME NEW rem \in BOOLEAN, NEW d \in Delivery, ReportJob(j, rem, d) PROVE Accounts'
    BY <2>4, ReportedOutcomeType, AccountsFrame DEF ReportJob, SendJobReport, TypeOK, Outcomes
  <2>5. ASSUME NEW d \in Delivery, CloseRequest(j, d) PROVE Accounts'
    <3>1. Live(j) /\ EndRun(j) /\ UNCHANGED <<jobAgent, jobReq, poll>>
      BY <2>5 DEF CloseRequest, Live, Outcomes, jobVars
    <3> QED BY <3>1, EndedRuns
  <2> QED BY <1>5, <2>1, <2>2, <2>3, <2>4, <2>5 DEF RunStep, ReportStep
<1>6. ASSUME NEW j \in Jobs, NoticeCancel(j) \/ RequestScanCancel(j) PROVE Accounts'
  BY <1>6, AccountsFrame DEF NoticeCancel, RequestScanCancel, jobVars, scannerVars
<1>7. ASSUME NEW s \in Sessions, Operator(s) PROVE Accounts'
  BY <1>7, AccountsFrame
     DEF Operator, ReadQueued, ReadStaleRequest, ReadStaleJob, ReadResumable, CommitResume,
         WriteQueueCancel, WriteRequestDismiss, WriteJobDismiss, RefuseResume,
         Read, Write, jobVars, scannerVars
<1>8. CASE UNCHANGED vars
  BY <1>8, AccountsFrame DEF vars, jobVars, scannerVars
<1> QED BY <1>1, <1>2, <1>3, <1>4, <1>5, <1>6, <1>7, <1>8 DEF Next

\* No slot leaks and none is given back twice.
THEOREM SlotsNeverLeak == Spec => []SlotsAccounted
<1>1. Accounts => SlotsAccounted
  BY DEF Accounts
<1> QED BY <1>1, TypeInit, TypeStep, OwnershipInit, OwnershipStep, AccountsInit, AccountsStep, PTL DEF Spec

\* The queue never has more scans in flight than the scanner has slots.
THEOREM QueueKeepsToItsSlots == Spec => []QueueRunsWithinLimit
<1>1. Accounts => QueueRunsWithinLimit
  BY RunsAreFinite, ScanQueueAssumption
     DEF Accounts, QueueSlotsWithinLimit, QueueRunsWithinLimit, Reserved
<1> QED BY <1>1, TypeInit, TypeStep, OwnershipInit, OwnershipStep, AccountsInit, AccountsStep, PTL DEF Spec

-----------------------------------------------------------------------------
(* Resuming.  A remainder exists only once the scan has ended, and a scan  *)
(* that has ended never works again; the rest follows from the handler's   *)
(* checks, however late it writes.                                         *)

Ended(j) == jobStatus[j] # "none" /\ ~Scanning(j)

Remainders ==
  /\ \A j \in jobRemaining : Ended(j)
  /\ \A s \in Sessions, j \in Jobs : web[s].op = "resume" /\ web[s].on = j => Ended(j)
  /\ \A j \in Jobs : resumedAs[j] # NoRequest => Ended(j)

LEMMA RemaindersInit == Init => Remainders
BY DEF Init, Remainders, IdleWeb

LEMMA EndedStays ==
  ASSUME TypeOK, [Next]_vars, NEW j \in Jobs, Ended(j)
  PROVE  Ended(j)'
<1>1. jobStatus'[j] # "none"
  BY ForwardStep, Ranks DEF MovesForward, Ended, Rank
<1>2. ~Scanning(j)'
  <2> USE DEF Ended, Scanning
  <2>1. ASSUME NEW a \in Agents, NEW k \in Jobs, CreateJob(a, k) \/ StartLocalScan(a, k)
        PROVE ~Scanning(j)'
    BY <2>1 DEF CreateJob, StartLocalScan, InsertJob, StartRun, TypeOK
  <2>2. ASSUME NEW k \in Jobs, RunStep(k) PROVE ~Scanning(j)'
    <3>1. CASE RegisterCancel(k)
      BY <3>1 DEF RegisterCancel, TypeOK
    <3>2. ASSUME NEW d \in Delivery, FetchFails(k, d) PROVE ~Scanning(j)'
      BY <3>2 DEF FetchFails, SendJobReport, TypeOK
    <3>3. ASSUME NEW res \in {"whole", "cut", "error"}, ScanReturns(k, res) PROVE ~Scanning(j)'
      BY <3>3 DEF ScanReturns, TypeOK
    <3>4. ASSUME NEW rem \in BOOLEAN, NEW d \in Delivery, ReportJob(k, rem, d) PROVE ~Scanning(j)'
      BY <3>4, ReportedOutcomeType DEF ReportJob, SendJobReport, TypeOK, Outcomes
    <3>5. ASSUME NEW d \in Delivery, CloseRequest(k, d) PROVE ~Scanning(j)'
      BY <3>5 DEF CloseRequest, EndRun, TypeOK
    <3> QED BY <2>2, <3>1, <3>2, <3>3, <3>4, <3>5 DEF RunStep, ReportStep
  <2>3. ASSUME NEW a \in Agents, Crash(a) PROVE ~Scanning(j)'
    BY <2>3 DEF Crash, TypeOK
  <2>4. CASE UNCHANGED run
    BY <2>4
  <2>5. ASSUME NEW a \in Agents, PollStep(a) PROVE UNCHANGED run \/ \E k \in Jobs : CreateJob(a, k)
    BY <2>5 DEF PollStep, AcquireSlot, PollNothing, ClaimNext, CreateJobFails
  <2>6. ASSUME NEW s \in Sessions, Operator(s) PROVE UNCHANGED run
    BY <2>6 DEF Operator, ReadQueued, ReadStaleRequest, ReadStaleJob, ReadResumable, CommitResume,
                WriteQueueCancel, WriteRequestDismiss, WriteJobDismiss, RefuseResume,
                Read, Write, scannerVars
  <2>7. ASSUME NEW k \in Jobs, NoticeCancel(k) \/ RequestScanCancel(k) PROVE UNCHANGED run
    BY <2>7 DEF NoticeCancel, RequestScanCancel, scannerVars
  <2>8. ASSUME NEW r \in Requests, QueueRequest(r) PROVE UNCHANGED run
    BY <2>8 DEF QueueRequest, scannerVars
  <2>9. CASE UNCHANGED vars
    BY <2>9 DEF vars, scannerVars
  <2> QED BY <2>1, <2>2, <2>3, <2>4, <2>5, <2>6, <2>7, <2>8, <2>9 DEF Next
<1> QED BY <1>1, <1>2 DEF Ended

\* A job gets a remainder only from the report that ends its scan.
LEMMA NewRemainder ==
  ASSUME TypeOK, Ownership, NEW j \in Jobs, RunStep(j)
  PROVE  /\ \A k \in jobRemaining' : k \in jobRemaining \/ Ended(k)'
         /\ UNCHANGED <<web, resumedAs>>
<1>0. run[j] # "none" => jobStatus[j] # "none"
  BY DEF Ownership, FreshJobs
<1>1. CASE RegisterCancel(j)
  BY <1>1 DEF RegisterCancel, jobVars
<1>2. ASSUME NEW d \in Delivery, FetchFails(j, d)
      PROVE  (\A k \in jobRemaining' : k \in jobRemaining) /\ UNCHANGED <<web, resumedAs>>
  BY <1>2 DEF FetchFails, SendJobReport, ApplyJobReport
<1>3. ASSUME NEW res \in {"whole", "cut", "error"}, ScanReturns(j, res)
      PROVE  jobRemaining' = jobRemaining /\ UNCHANGED <<web, resumedAs>>
  BY <1>3 DEF ScanReturns, jobVars
<1>4. ASSUME NEW rem \in BOOLEAN, NEW d \in Delivery, ReportJob(j, rem, d)
      PROVE  /\ \A k \in jobRemaining' : k \in jobRemaining \/ (k = j /\ Ended(j)')
             /\ UNCHANGED <<web, resumedAs>>
  <2>1. /\ run'[j] \in Outcomes
        /\ jobStatus'[j] # "none"
        /\ \A k \in jobRemaining' : k \in jobRemaining \/ k = j
        /\ UNCHANGED <<web, resumedAs>>
    BY <1>0, <1>4, ReportedOutcomeType DEF ReportJob, SendJobReport, ApplyJobReport, TypeOK, Outcomes
  <2> QED BY <2>1 DEF Ended, Scanning, Outcomes
<1>5. ASSUME NEW d \in Delivery, CloseRequest(j, d)
      PROVE  jobRemaining' = jobRemaining /\ UNCHANGED <<web, resumedAs>>
  BY <1>5 DEF CloseRequest, jobVars
<1> QED BY <1>1, <1>2, <1>3, <1>4, <1>5 DEF RunStep, ReportStep

LEMMA RemaindersStep == TypeOK /\ Ownership /\ Remainders /\ [Next]_vars => Remainders'
<1> SUFFICES ASSUME TypeOK, Ownership, Remainders, [Next]_vars PROVE Remainders'
  OBVIOUS
<1>1. \A j \in Jobs : Ended(j) => Ended(j)'
  BY EndedStays
<1>2. \A s \in Sessions : web[s].op = "resume" => web[s].on \in Jobs
  BY WebRecords DEF TypeOK
<1>3. \A k \in Jobs : resumedAs[k] # NoRequest => Ended(k)'
  BY <1>1 DEF Remainders
<1>4. ASSUME UNCHANGED <<web, resumedAs>>,
             \A k \in jobRemaining' : k \in jobRemaining \/ Ended(k)'
      PROVE  Remainders'
  <2>1. \A s \in Sessions, j \in Jobs : web'[s].op = "resume" /\ web'[s].on = j => Ended(j)'
    BY <1>1, <1>4 DEF Remainders
  <2>2. \A k \in jobRemaining' : Ended(k)'
    BY <1>1, <1>4 DEF Remainders, TypeOK
  <2> QED BY <1>3, <1>4, <2>1, <2>2 DEF Remainders
<1>5. ASSUME UNCHANGED <<jobRemaining, web, resumedAs>> PROVE Remainders'
  BY <1>4, <1>5
<1>6. ASSUME NEW r \in Requests, QueueRequest(r) PROVE Remainders'
  BY <1>5, <1>6 DEF QueueRequest, jobVars
<1>7. ASSUME NEW a \in Agents, PollStep(a) PROVE Remainders'
  BY <1>5, <1>7 DEF PollStep, AcquireSlot, PollNothing, ClaimNext, CreateJob, CreateJobFails,
                    InsertJob, jobVars
<1>8. ASSUME NEW a \in Agents, Crash(a) PROVE Remainders'
  BY <1>5, <1>8 DEF Crash, jobVars
<1>9. ASSUME NEW a \in Agents, NEW j \in Jobs, StartLocalScan(a, j) PROVE Remainders'
  BY <1>5, <1>9 DEF StartLocalScan, InsertJob
<1>10. ASSUME NEW j \in Jobs, RunStep(j) PROVE Remainders'
  BY <1>4, <1>10, NewRemainder
<1>11. ASSUME NEW j \in Jobs, NoticeCancel(j) \/ RequestScanCancel(j) PROVE Remainders'
  BY <1>5, <1>11 DEF NoticeCancel, RequestScanCancel, jobVars
<1>12. ASSUME NEW s \in Sessions, Operator(s) PROVE Remainders'
  <2>1. \A k \in jobRemaining' : Ended(k)'
    <3>1. jobRemaining' = jobRemaining
      BY <1>12 DEF Operator, ReadQueued, ReadStaleRequest, ReadStaleJob, ReadResumable, CommitResume,
                   WriteQueueCancel, WriteRequestDismiss, WriteJobDismiss, RefuseResume,
                   Read, Write, jobVars
    <3> QED BY <1>1, <3>1 DEF Remainders, TypeOK
  <2>2. \A k \in Jobs : resumedAs'[k] # NoRequest =>
          resumedAs[k] # NoRequest \/ (web[s].op = "resume" /\ k = web[s].on)
    BY <1>12 DEF Operator, ReadQueued, ReadStaleRequest, ReadStaleJob, ReadResumable, CommitResume,
                 WriteQueueCancel, WriteRequestDismiss, WriteJobDismiss, RefuseResume,
                 Read, Write, jobVars, TypeOK
  <2>3. \A k \in Jobs : resumedAs'[k] # NoRequest => Ended(k)'
    BY <1>1, <1>2, <1>3, <2>2 DEF Remainders
  <2>4. \A t \in Sessions \ {s} : web'[t] = web[t]
    BY <1>12 DEF Operator, ReadQueued, ReadStaleRequest, ReadStaleJob, ReadResumable, CommitResume,
                 WriteQueueCancel, WriteRequestDismiss, WriteJobDismiss, RefuseResume,
                 Read, Write, TypeOK
  <2>5. web'[s].op = "resume" => web'[s].on \in Jobs /\ Ended(web'[s].on)
    <3>1. ASSUME NEW j \in Jobs, ReadResumable(s, j)
          PROVE  Ended(j) /\ web'[s] = [op |-> "resume", on |-> j]
      BY <3>1 DEF ReadResumable, Resumable, Read, Remainders, TypeOK
    <3>2. ASSUME NEW r \in Requests, ReadQueued(s, r) \/ ReadStaleRequest(s, r) PROVE web'[s].op # "resume"
      BY <3>2 DEF ReadQueued, ReadStaleRequest, Read, TypeOK
    <3>3. ASSUME NEW j \in Jobs, ReadStaleJob(s, j) PROVE web'[s].op # "resume"
      BY <3>3 DEF ReadStaleJob, Read, TypeOK
    <3>4. ASSUME NEW op, Write(s, op) PROVE web'[s].op # "resume"
      BY <3>4, WebRecords DEF Write, TypeOK
    <3>5. \/ \E j \in Jobs : ReadResumable(s, j) \/ ReadStaleJob(s, j)
          \/ \E r \in Requests : ReadQueued(s, r) \/ ReadStaleRequest(s, r)
          \/ \E op : Write(s, op)
      BY <1>12 DEF Operator, WriteQueueCancel, WriteRequestDismiss, WriteJobDismiss,
                   CommitResume, RefuseResume
    <3>6. ASSUME NEW j \in Jobs, web'[s] = [op |-> "resume", on |-> j], Ended(j)
          PROVE  web'[s].on \in Jobs /\ Ended(web'[s].on)
      BY <3>6
    <3> QED BY <3>1, <3>2, <3>3, <3>4, <3>5, <3>6
  <2>6. \A t \in Sessions, j \in Jobs : web'[t].op = "resume" /\ web'[t].on = j => Ended(j)'
    BY <1>1, <2>4, <2>5 DEF Remainders
  <2> QED BY <2>1, <2>3, <2>6 DEF Remainders
<1>13. CASE UNCHANGED vars
  BY <1>5, <1>13 DEF vars, jobVars
<1> QED BY <1>6, <1>7, <1>8, <1>9, <1>10, <1>11, <1>12, <1>13 DEF Next

LEMMA ResumeStep == TypeOK /\ [Next]_vars => [KeepsResumes]_vars
<1> SUFFICES ASSUME TypeOK, [Next]_vars PROVE KeepsResumes
  OBVIOUS
<1>1. ASSUME UNCHANGED resumedAs PROVE KeepsResumes
  BY <1>1 DEF KeepsResumes
<1>2. ASSUME NEW s \in Sessions, NEW r \in Requests, CommitResume(s, r) PROVE KeepsResumes
  BY <1>2 DEF CommitResume, ResumeFree, KeepsResumes, TypeOK
<1>3. UNCHANGED resumedAs \/ \E s \in Sessions, r \in Requests : CommitResume(s, r)
  BY ZenonT(60) DEF Next, QueueRequest, PollStep, AcquireSlot, PollNothing, ClaimNext, CreateJob, CreateJobFails,
         Crash, StartLocalScan, RunStep, ReportStep, RegisterCancel, FetchFails, ScanReturns, ReportJob,
         CloseRequest, SendJobReport, InsertJob, NoticeCancel, RequestScanCancel, Operator, ReadQueued,
         ReadStaleRequest, ReadStaleJob, ReadResumable, WriteQueueCancel, WriteRequestDismiss,
         WriteJobDismiss, RefuseResume, Read, Write, vars, jobVars
<1> QED BY <1>1, <1>2, <1>3

\* The remainder of a job is queued once: the link never changes.
THEOREM RemainderQueuedOnce == Spec => ResumedOnce
BY ResumeStep, TypeCorrect, PTL DEF Spec, ResumedOnce

\* The rest of a scan is queued only after that scan has stopped.
THEOREM ResumedOnlyAfterTheEnd == Spec => []ResumeAfterScanEnds
<1>1. Remainders => ResumeAfterScanEnds
  BY DEF Remainders, Ended, ResumeAfterScanEnds
<1> QED BY <1>1, TypeInit, TypeStep, OwnershipInit, OwnershipStep, RemaindersInit, RemaindersStep, PTL DEF Spec

-----------------------------------------------------------------------------
\* What runs, runs where it should, for any number of scanners and slots.
THEOREM RunsStayOrderly == Spec => []RunsAreOrderly
<1>1. (TypeOK /\ (OneRunPerRequest /\ RunsOnItsAgent) /\ SlotsAccounted /\ QueueRunsWithinLimit) => RunsAreOrderly
  BY DEF RunsAreOrderly
<1> QED BY <1>1, TypeCorrect, RunsAreOwned, SlotsNeverLeak, QueueKeepsToItsSlots, PTL

-----------------------------------------------------------------------------
(* The protocol implements ScanLifecycle. The state of a request moves     *)
(* with its row, its work with the goroutine of its one job, and a step    *)
(* moves one of them at most, but for a crash, which interrupts many.      *)

\* A handler that will write a row has read it, so it is there.
RowsRead ==
  \A s \in Sessions : web[s].op \in {"cancelQueued", "dismissRequest"} => reqStatus[web[s].on] # "none"

LEMMA RowsReadInit == Init => RowsRead
BY DEF Init, RowsRead, IdleWeb

LEMMA RowsReadStep == TypeOK /\ RowsRead /\ [Next]_vars => RowsRead'
<1> SUFFICES ASSUME TypeOK, RowsRead, [Next]_vars PROVE RowsRead'
  OBVIOUS
<1>1. \A r \in Requests : reqStatus[r] # "none" => reqStatus'[r] # "none"
  BY ForwardStep, Ranks DEF MovesForward, Rank
<1>2. \A s \in Sessions : web[s].op \in {"cancelQueued", "dismissRequest"} => web[s].on \in Requests
  BY WebRecords DEF TypeOK
<1>3. ASSUME UNCHANGED web PROVE RowsRead'
  BY <1>1, <1>2, <1>3 DEF RowsRead
<1>4. ASSUME NEW s \in Sessions, Operator(s) PROVE RowsRead'
  <2>1. \A t \in Sessions \ {s} : web'[t] = web[t]
    BY <1>4 DEF Operator, ReadQueued, ReadStaleRequest, ReadStaleJob, ReadResumable, CommitResume,
                WriteQueueCancel, WriteRequestDismiss, WriteJobDismiss, RefuseResume,
                Read, Write, TypeOK
  <2>2. ASSUME NEW r \in Requests, ReadQueued(s, r) \/ ReadStaleRequest(s, r)
        PROVE  web'[s].on = r /\ r \in Requests /\ reqStatus[r] # "none"
    BY <2>2 DEF ReadQueued, ReadStaleRequest, Read, TypeOK
  <2>3. ASSUME NEW j \in Jobs, ReadStaleJob(s, j) \/ ReadResumable(s, j)
        PROVE  web'[s].op \notin {"cancelQueued", "dismissRequest"}
    BY <2>3 DEF ReadStaleJob, ReadResumable, Read, TypeOK
  <2>4. ASSUME NEW op, Write(s, op) PROVE web'[s].op \notin {"cancelQueued", "dismissRequest"}
    BY <2>4, WebRecords DEF Write, TypeOK
  <2>5. \/ \E j \in Jobs : ReadResumable(s, j) \/ ReadStaleJob(s, j)
        \/ \E r \in Requests : ReadQueued(s, r) \/ ReadStaleRequest(s, r)
        \/ \E op : Write(s, op)
    BY <1>4 DEF Operator, WriteQueueCancel, WriteRequestDismiss, WriteJobDismiss,
                CommitResume, RefuseResume
  <2>6. web'[s].op \in {"cancelQueued", "dismissRequest"} => reqStatus'[web'[s].on] # "none"
    BY <1>1, <2>2, <2>3, <2>4, <2>5
  <2> QED BY <1>1, <1>2, <2>1, <2>6 DEF RowsRead
<1>5. UNCHANGED web \/ \E s \in Sessions : Operator(s)
  BY ZenonT(60) DEF Next, QueueRequest, PollStep, AcquireSlot, PollNothing, ClaimNext, CreateJob, CreateJobFails,
         Crash, StartLocalScan, RunStep, ReportStep, RegisterCancel, FetchFails, ScanReturns, ReportJob,
         CloseRequest, NoticeCancel, RequestScanCancel, vars
<1> QED BY <1>3, <1>4, <1>5

\* The work of a request is that of its job, if it has one. That the arms of
\* WorkOf exclude each other needs that a scan at work has no result.
LEMMA WorkIs ==
  ASSUME OneRunPerRequest, RunResults, NEW r \in Requests
  PROVE  /\ \A j \in Jobs : jobReq[j] = r =>
              WorkOf(r) = IF Scanning(j) THEN "busy" ELSE IF result[j] = "whole" THEN "whole" ELSE "partial"
         /\ (\A j \in Jobs : jobReq[j] # r) => WorkOf(r) = "none"
<1>1. ASSUME NEW j \in Jobs, jobReq[j] = r
      PROVE  WorkOf(r) = IF Scanning(j) THEN "busy" ELSE IF result[j] = "whole" THEN "whole" ELSE "partial"
  <2>1. {k \in Jobs : jobReq[k] = r} = {j} BY <1>1, ScanQueueAssumption DEF OneRunPerRequest
  <2>2. CASE Scanning(j)
    <3>1. {j} # {} /\ (\E k \in {j} : Scanning(k)) /\ ~(\E k \in {j} : result[k] = "whole")
      BY <2>2 DEF RunResults
    <3>2. WorkOf(r) = "busy" BY <2>1, <3>1, Zenon DEF WorkOf
    <3> QED BY <2>2, <3>2
  <2>3. CASE ~Scanning(j) /\ result[j] = "whole"
    <3>1. {j} # {} /\ ~(\E k \in {j} : Scanning(k)) /\ \E k \in {j} : result[k] = "whole" BY <2>3
    <3>2. WorkOf(r) = "whole" BY <2>1, <3>1, Zenon DEF WorkOf
    <3> QED BY <2>3, <3>2
  <2>4. CASE ~Scanning(j) /\ result[j] # "whole"
    <3>1. {j} # {} /\ ~(\E k \in {j} : Scanning(k)) /\ ~(\E k \in {j} : result[k] = "whole") BY <2>4
    <3>2. WorkOf(r) = "partial" BY <2>1, <3>1, Zenon DEF WorkOf
    <3> QED BY <2>4, <3>2
  <2> QED BY <2>2, <2>3, <2>4
<1>2. ASSUME \A j \in Jobs : jobReq[j] # r PROVE WorkOf(r) = "none"
  <2>1. {k \in Jobs : jobReq[k] = r} = {} BY <1>2
  <2> QED BY <2>1 DEF WorkOf
<1> QED BY <1>1, <1>2

LEMMA WorkWillBe ==
  ASSUME OneRunPerRequest', RunResults', NEW r \in Requests
  PROVE  /\ \A j \in Jobs : jobReq'[j] = r =>
              WorkOf(r)' = IF Scanning(j)' THEN "busy" ELSE IF result'[j] = "whole" THEN "whole" ELSE "partial"
         /\ (\A j \in Jobs : jobReq'[j] # r) => WorkOf(r)' = "none"
<1>1. ASSUME NEW j \in Jobs, jobReq'[j] = r
      PROVE  WorkOf(r)' = IF Scanning(j)' THEN "busy" ELSE IF result'[j] = "whole" THEN "whole" ELSE "partial"
  <2>1. {k \in Jobs : jobReq'[k] = r} = {j} BY <1>1, ScanQueueAssumption DEF OneRunPerRequest
  <2>2. CASE Scanning(j)'
    <3>1. {j} # {} /\ (\E k \in {j} : Scanning(k)') /\ ~(\E k \in {j} : result'[k] = "whole")
      BY <2>2 DEF RunResults
    <3>2. WorkOf(r)' = "busy" BY <2>1, <3>1, Zenon DEF WorkOf
    <3> QED BY <2>2, <3>2
  <2>3. CASE ~Scanning(j)' /\ result'[j] = "whole"
    <3>1. {j} # {} /\ ~(\E k \in {j} : Scanning(k)') /\ \E k \in {j} : result'[k] = "whole" BY <2>3
    <3>2. WorkOf(r)' = "whole" BY <2>1, <3>1, Zenon DEF WorkOf
    <3> QED BY <2>3, <3>2
  <2>4. CASE ~Scanning(j)' /\ result'[j] # "whole"
    <3>1. {j} # {} /\ ~(\E k \in {j} : Scanning(k)') /\ ~(\E k \in {j} : result'[k] = "whole") BY <2>4
    <3>2. WorkOf(r)' = "partial" BY <2>1, <3>1, Zenon DEF WorkOf
    <3> QED BY <2>4, <3>2
  <2> QED BY <2>2, <2>3, <2>4
<1>2. ASSUME \A j \in Jobs : jobReq'[j] # r PROVE WorkOf(r)' = "none"
  <2>1. {k \in Jobs : jobReq'[k] = r} = {} BY <1>2
  <2> QED BY <2>1 DEF WorkOf
<1> QED BY <1>1, <1>2

StatesStay == \A r \in Requests : StateOf(r)' = StateOf(r)
WorkStays  == \A r \in Requests : WorkOf(r)' = WorkOf(r)

LEMMA Stutters ==
  ASSUME StatesStay, WorkStays
  PROVE  [Lifecycle!Next]_(Lifecycle!vars)
BY DEF StatesStay, WorkStays, Lifecycle!vars

\* A row moves: it is queued, claimed, withdrawn, or gets an outcome.
LEMMA StateMoves ==
  ASSUME NEW r \in Requests, NEW s, WorkStays,
         \A q \in Requests : StateOf(q)' = IF q = r THEN s ELSE StateOf(q),
         \/ StateOf(r) = "absent" /\ s = "queued"
         \/ StateOf(r) = "queued" /\ s \in {"running", "cancelled", "failed"}
         \/ /\ StateOf(r) \notin {"absent", "queued"}
            /\ s \in Outcomes /\ (s = "completed" => WorkOf(r) = "whole")
  PROVE  [Lifecycle!Next]_(Lifecycle!vars)
<1> DEFINE state == [q \in Requests |-> StateOf(q)]
           work == [q \in Requests |-> WorkOf(q)]
<1>1. state' = [state EXCEPT ![r] = s] /\ work' = work
  BY DEF WorkStays
<1>2. state[r] = StateOf(r) /\ work[r] = WorkOf(r)
  OBVIOUS
<1>3. CASE StateOf(r) = "absent" /\ s = "queued"
  <2>1. Lifecycle!Queue(r) BY <1>1, <1>2, <1>3 DEF Lifecycle!Queue
  <2> QED BY <2>1 DEF Lifecycle!Next
<1>4. CASE StateOf(r) = "queued" /\ s = "running"
  <2>1. Lifecycle!Claim(r) BY <1>1, <1>2, <1>4 DEF Lifecycle!Claim
  <2> QED BY <2>1 DEF Lifecycle!Next
<1>5. CASE StateOf(r) = "queued" /\ s \in {"cancelled", "failed"}
  <2>1. Lifecycle!Withdraw(r) BY <1>1, <1>2, <1>5 DEF Lifecycle!Withdraw
  <2> QED BY <2>1 DEF Lifecycle!Next
<1>6. CASE /\ StateOf(r) \notin {"absent", "queued"}
           /\ s \in Outcomes /\ (s = "completed" => WorkOf(r) = "whole")
  <2>1. Lifecycle!Settle(r, s) BY <1>1, <1>2, <1>6 DEF Lifecycle!Settle
  <2>2. s \in Lifecycle!Outcomes BY <1>6 DEF Outcomes, Lifecycle!Outcomes
  <2> QED BY <2>1, <2>2 DEF Lifecycle!Next
<1> QED BY <1>3, <1>4, <1>5, <1>6

\* The work of one request begins or ends.
LEMMA WorkMoves ==
  ASSUME NEW r \in Requests, NEW w, StatesStay,
         \A q \in Requests : WorkOf(q)' = IF q = r THEN w ELSE WorkOf(q),
         \/ StateOf(r) \notin {"absent", "queued"} /\ WorkOf(r) = "none" /\ w = "busy"
         \/ WorkOf(r) = "busy" /\ w \in {"whole", "partial"}
  PROVE  [Lifecycle!Next]_(Lifecycle!vars)
<1> DEFINE state == [q \in Requests |-> StateOf(q)]
           work == [q \in Requests |-> WorkOf(q)]
<1>1. work' = [work EXCEPT ![r] = w] /\ state' = state
  BY DEF StatesStay
<1>2. state[r] = StateOf(r) /\ work[r] = WorkOf(r)
  OBVIOUS
<1>3. CASE StateOf(r) \notin {"absent", "queued"} /\ WorkOf(r) = "none" /\ w = "busy"
  <2>1. Lifecycle!Begin(r) BY <1>1, <1>2, <1>3 DEF Lifecycle!Begin
  <2> QED BY <2>1 DEF Lifecycle!Next
<1>4. CASE WorkOf(r) = "busy" /\ w \in {"whole", "partial"}
  <2>1. Lifecycle!Finish(r) BY <1>1, <1>2, <1>4 DEF Lifecycle!Finish
  <2> QED BY <2>1 DEF Lifecycle!Next
<1> QED BY <1>3, <1>4

\* A step that changes no row leaves the states, and one that binds no job,
\* starts or ends no scan, and gives no result leaves the work.
LEMMA RowsKept ==
  ASSUME UNCHANGED reqStatus PROVE StatesStay
BY DEF StatesStay, StateOf

LEMMA WorkKept ==
  ASSUME UNCHANGED <<jobReq, result>>,
         \A j \in Jobs : jobReq[j] \in Requests => (Scanning(j)' <=> Scanning(j))
  PROVE  WorkStays
<1> SUFFICES ASSUME NEW r \in Requests PROVE WorkOf(r)' = WorkOf(r) BY DEF WorkStays
<1>1. {j \in Jobs : jobReq'[j] = r} = {j \in Jobs : jobReq[j] = r} OBVIOUS
<1> DEFINE J == {j \in Jobs : jobReq[j] = r}
<1>2. (\E j \in J : Scanning(j)') <=> (\E j \in J : Scanning(j)) OBVIOUS
<1>3. (\E j \in J : result'[j] = "whole") <=> (\E j \in J : result[j] = "whole") OBVIOUS
<1> QED BY <1>1, <1>2, <1>3, Zenon DEF WorkOf

\* One row is written.
LEMMA RowMoves ==
  ASSUME TypeOK, NEW r \in Requests, NEW x, reqStatus' = [reqStatus EXCEPT ![r] = x]
  PROVE  \A q \in Requests : StateOf(q)' = IF q = r THEN StateOf(r)' ELSE StateOf(q)
BY DEF StateOf, TypeOK

\* What a row says.
LEMMA States ==
  ASSUME TypeOK, NEW r \in Requests
  PROVE  /\ StateOf(r) = "absent" <=> reqStatus[r] = "none"
         /\ StateOf(r) = "queued" <=> reqStatus[r] = "pending"
         /\ \A x \in Outcomes : reqStatus[r] = x => StateOf(r) = x
BY DEF StateOf, TypeOK, ReqStates, Outcomes

LEMMA StatesWillBe ==
  ASSUME NEW r \in Requests
  PROVE  /\ reqStatus'[r] = "pending" => StateOf(r)' = "queued"
         /\ reqStatus'[r] = "claimed" => StateOf(r)' = "running"
         /\ \A x \in Outcomes : reqStatus'[r] = x => StateOf(r)' = x
BY DEF StateOf, Outcomes

LEMMA InsertQueues ==
  ASSUME TypeOK, NEW r \in Requests, InsertRequest(r), UNCHANGED <<run, jobReq, result>>
  PROVE  [Lifecycle!Next]_(Lifecycle!vars)
<1>1. reqStatus[r] = "none" /\ reqStatus' = [reqStatus EXCEPT ![r] = "pending"] BY DEF InsertRequest
<1>2. reqStatus'[r] = "pending" BY <1>1 DEF TypeOK
<1>3. StateOf(r) = "absent" /\ StateOf(r)' = "queued" BY <1>1, <1>2, States, StatesWillBe
<1>4. \A q \in Requests : StateOf(q)' = IF q = r THEN "queued" ELSE StateOf(q) BY <1>1, <1>3, RowMoves
<1>5. WorkStays BY WorkKept DEF Scanning
<1> QED BY <1>3, <1>4, <1>5, StateMoves

\* An operator settles a row that was read, whatever has become of it.
LEMMA OperatorSettles ==
  ASSUME TypeOK, RowsRead, NEW s \in Sessions, NEW op \in {"cancelQueued", "dismissRequest"}, Write(s, op),
         NEW x \in {"cancelled", "failed"}, reqStatus' = [reqStatus EXCEPT ![web[s].on] = x]
  PROVE  [Lifecycle!Next]_(Lifecycle!vars)
<1>1. PICK r \in Requests : r = web[s].on /\ reqStatus[r] # "none" BY WriteType DEF Write, RowsRead
<1>2. reqStatus' = [reqStatus EXCEPT ![r] = x] BY <1>1
<1>3. x \in Outcomes /\ reqStatus'[r] = x BY <1>2 DEF TypeOK, Outcomes
<1>4. StateOf(r) # "absent" /\ StateOf(r)' = x BY <1>1, <1>3, States, StatesWillBe
<1>5. \A q \in Requests : StateOf(q)' = IF q = r THEN x ELSE StateOf(q) BY <1>2, <1>4, RowMoves
<1>6. WorkStays BY WorkKept DEF Write, scannerVars, Scanning
<1>7. CASE StateOf(r) = "queued" BY <1>5, <1>6, <1>7, StateMoves
<1>8. CASE StateOf(r) # "queued" BY <1>3, <1>4, <1>5, <1>6, <1>8, StateMoves
<1> QED BY <1>7, <1>8

\* The result of a scan ends the work of its request, if it has one.
LEMMA ResultEnds ==
  ASSUME TypeOK, Ownership, Honest, Ownership', Honest', NEW j \in Jobs, Scanning(j),
         UNCHANGED <<reqStatus, jobReq>>, NEW x, NEW w, x # "none", w \notin {"started", "scanning"},
         result' = [result EXCEPT ![j] = x], run' = [run EXCEPT ![j] = w]
  PROVE  [Lifecycle!Next]_(Lifecycle!vars)
<1>1. ~Scanning(j)' /\ \A k \in Jobs \ {j} : (Scanning(k)' <=> Scanning(k)) /\ result'[k] = result[k]
  BY DEF Scanning, TypeOK
<1>2. StatesStay BY RowsKept
<1>3. /\ OneRunPerRequest /\ RunResults /\ OneRunPerRequest' /\ RunResults' BY DEF Ownership, Honest
<1>4. \A q \in Requests : q # jobReq[j] => WorkOf(q)' = WorkOf(q)
  <2> SUFFICES ASSUME NEW q \in Requests, q # jobReq[j] PROVE WorkOf(q)' = WorkOf(q) OBVIOUS
  <2>1. CASE \E k \in Jobs : jobReq[k] = q
    <3>1. PICK k \in Jobs : jobReq[k] = q BY <2>1
    <3>2. k # j /\ jobReq'[k] = q BY <3>1
    <3> QED BY <1>1, <1>3, <3>1, <3>2, WorkIs, WorkWillBe
  <2>2. CASE \A k \in Jobs : jobReq[k] # q
    BY <1>3, <2>2, WorkIs, WorkWillBe
  <2> QED BY <2>1, <2>2
<1>5. CASE jobReq[j] \in Requests
  <2>1. PICK r \in Requests : r = jobReq[j] BY <1>5
  <2>2. WorkOf(r) = "busy" BY <1>3, <2>1, WorkIs
  <2>3. WorkOf(r)' \in {"whole", "partial"} BY <1>1, <1>3, <2>1, WorkWillBe
  <2> QED BY <1>2, <1>4, <2>1, <2>2, <2>3, WorkMoves
<1>6. CASE jobReq[j] \notin Requests
  <2>1. WorkStays BY <1>4, <1>6 DEF WorkStays
  <2> QED BY <1>2, <2>1, Stutters
<1> QED BY <1>5, <1>6

RefinesInv == TypeOK /\ Ownership /\ Honest /\ RowsRead

LEMMA RefinesInvInit == Init => RefinesInv
BY TypeInit, OwnershipInit, HonestInit, RowsReadInit DEF RefinesInv

LEMMA RefinesInvStep == RefinesInv /\ [Next]_vars => RefinesInv'
BY TypeStep, OwnershipStep, HonestStep, RowsReadStep DEF RefinesInv

LEMMA LifecycleInit == Init => Lifecycle!Init
<1> SUFFICES ASSUME Init PROVE Lifecycle!Init OBVIOUS
<1>1. ASSUME NEW r \in Requests PROVE StateOf(r) = "absent"
  BY DEF Init, StateOf
<1>2. ASSUME NEW r \in Requests PROVE WorkOf(r) = "none"
  <2>1. ASSUME NEW j \in Jobs PROVE jobReq[j] # r
    BY ScanQueueAssumption DEF Init
  <2>2. {j \in Jobs : jobReq[j] = r} = {} BY <2>1
  <2> QED BY <2>2, Zenon DEF WorkOf
<1>3. [r \in Requests |-> StateOf(r)] = [r \in Requests |-> "absent"] BY <1>1, Zenon
<1>4. [r \in Requests |-> WorkOf(r)] = [r \in Requests |-> "none"] BY <1>2, Zenon
<1> QED BY <1>3, <1>4, Zenon DEF Lifecycle!Init

LEMMA CrashInterrupts ==
  ASSUME RefinesInv, RefinesInv', NEW a \in Agents, Crash(a)
  PROVE  [Lifecycle!Next]_(Lifecycle!vars)
<1>1. /\ UNCHANGED <<reqStatus, jobReq, result>>
      /\ \A j \in Jobs : run'[j] \in {"none", run[j]}
  BY DEF Crash, reqVars
<1>2. StatesStay BY <1>1, RowsKept
<1>3. /\ OneRunPerRequest /\ RunResults /\ OneRunPerRequest' /\ RunResults'
  BY DEF RefinesInv, Ownership, Honest
<1>4. ASSUME NEW q \in Requests
      PROVE  /\ WorkOf(q)' \in {"none", "busy", "whole", "partial"}
             /\ WorkOf(q)' = WorkOf(q) \/ (WorkOf(q) = "busy" /\ WorkOf(q)' = "partial")
  <2>1. CASE \E j \in Jobs : jobReq[j] = q
    <3>1. PICK j \in Jobs : jobReq[j] = q BY <2>1
    <3>2. jobReq'[j] = q /\ result'[j] = result[j] BY <1>1, <3>1
    <3>3. Scanning(j)' => Scanning(j) BY <1>1 DEF Scanning
    <3>4. Scanning(j) => result[j] # "whole" BY <1>3 DEF RunResults
    <3> QED BY <1>3, <3>1, <3>2, <3>3, <3>4, WorkIs, WorkWillBe
  <2>2. CASE \A j \in Jobs : jobReq[j] # q
    BY <1>1, <1>3, <2>2, WorkIs, WorkWillBe
  <2> QED BY <2>1, <2>2
<1>5. Lifecycle!Interrupt BY <1>2, <1>4 DEF Lifecycle!Interrupt, StatesStay
<1> QED BY <1>5 DEF Lifecycle!Next

LEMMA CreatingBegins ==
  ASSUME RefinesInv, RefinesInv', NEW a \in Agents, NEW j \in Jobs, CreateJob(a, j)
  PROVE  [Lifecycle!Next]_(Lifecycle!vars)
<1>1. PICK r \in Requests : /\ r = poll[a].req /\ Taken(r) /\ \A k \in Jobs : jobReq[k] # r
  BY PollRecords DEF RefinesInv, CreateJob, Ownership, PollHolds, TypeOK
<1>2. /\ jobReq[j] = NoRequest
      /\ run' = [run EXCEPT ![j] = "started"] /\ jobReq' = [jobReq EXCEPT ![j] = r]
      /\ UNCHANGED <<reqStatus, result>>
  BY <1>1 DEF RefinesInv, CreateJob, InsertJob, StartRun, Ownership, FreshJobs
<1>3. /\ OneRunPerRequest /\ RunResults /\ OneRunPerRequest' /\ RunResults' /\ TypeOK
  BY DEF RefinesInv, Ownership, Honest
<1>4. jobReq'[j] = r /\ Scanning(j)' BY <1>2, <1>3 DEF TypeOK, Scanning
<1>5. WorkOf(r) = "none" /\ WorkOf(r)' = "busy" BY <1>1, <1>3, <1>4, WorkIs, WorkWillBe
<1>6. ASSUME NEW q \in Requests, q # r PROVE WorkOf(q)' = WorkOf(q)
  <2>1. CASE \E k \in Jobs : jobReq[k] = q
    <3>1. PICK k \in Jobs : jobReq[k] = q BY <2>1
    <3>2. k # j BY <1>2, <3>1, ScanQueueAssumption
    <3>3. jobReq'[k] = q /\ result'[k] = result[k] /\ (Scanning(k)' <=> Scanning(k))
      BY <1>2, <1>3, <3>1, <3>2 DEF TypeOK, Scanning
    <3> QED BY <1>3, <3>1, <3>3, WorkIs, WorkWillBe
  <2>2. CASE \A k \in Jobs : jobReq[k] # q
    <3>1. \A k \in Jobs : jobReq'[k] # q BY <1>2, <1>3, <1>6, <2>2 DEF TypeOK
    <3> QED BY <1>3, <2>2, <3>1, WorkIs, WorkWillBe
  <2> QED BY <2>1, <2>2
<1>7. StateOf(r) \notin {"absent", "queued"} BY <1>1, <1>3, States DEF Taken
<1>8. StatesStay BY <1>2, RowsKept
<1> QED BY <1>5, <1>6, <1>7, <1>8, WorkMoves

\* The goroutine's own report: "completed" only of a request whose work is whole.
LEMMA ClosingSettles ==
  ASSUME RefinesInv, RefinesInv', NEW j \in Jobs, NEW d \in Delivery, CloseRequest(j, d)
  PROVE  [Lifecycle!Next]_(Lifecycle!vars)
<1>1. /\ run[j] \in Outcomes /\ run' = [run EXCEPT ![j] = "none"] /\ UNCHANGED <<jobReq, result>>
      /\ TypeOK /\ OneRunPerRequest /\ RunResults
  BY DEF RefinesInv, CloseRequest, EndRun, Ownership, Honest
<1>2. WorkStays
  <2>1. \A k \in Jobs : Scanning(k)' <=> Scanning(k) BY <1>1 DEF Scanning, TypeOK, Outcomes
  <2> QED BY <1>1, <2>1, WorkKept
<1>3. CASE UNCHANGED reqStatus BY <1>2, <1>3, RowsKept, Stutters
<1>4. CASE jobReq[j] # NoRequest /\ reqStatus' = [reqStatus EXCEPT ![jobReq[j]] = run[j]]
  <2>1. PICK r \in Requests : r = jobReq[j] BY <1>1, <1>4 DEF TypeOK
  <2>2. PICK x \in Outcomes : x = run[j] BY <1>1
  <2>3. reqStatus' = [reqStatus EXCEPT ![r] = x] /\ reqStatus'[r] = x BY <1>1, <1>4, <2>1, <2>2 DEF TypeOK
  <2>4. StateOf(r)' = x BY <2>2, <2>3, StatesWillBe
  <2>5. \A q \in Requests : StateOf(q)' = IF q = r THEN x ELSE StateOf(q) BY <1>1, <2>3, <2>4, RowMoves
  <2>6. Taken(r) BY <1>4, <2>1 DEF RefinesInv, Ownership, JobsHold
  <2>7. StateOf(r) \notin {"absent", "queued"} BY <1>1, <2>6, States DEF Taken
  <2>8. x = "completed" => WorkOf(r) = "whole"
    <3>1. ~Scanning(j) BY <1>1 DEF Scanning, Outcomes
    <3>2. x = "completed" => result[j] = "whole" BY <1>1, <2>2 DEF RunResults
    <3> QED BY <1>1, <2>1, <3>1, <3>2, WorkIs
  <2> QED BY <1>2, <2>2, <2>5, <2>7, <2>8, StateMoves
<1> QED BY <1>3, <1>4 DEF CloseRequest

LEMMA RunStepRefines ==
  ASSUME RefinesInv, RefinesInv', NEW j \in Jobs, RunStep(j)
  PROVE  [Lifecycle!Next]_(Lifecycle!vars)
<1>0. TypeOK /\ Ownership /\ Honest /\ Ownership' /\ Honest' BY DEF RefinesInv
<1>1. CASE RegisterCancel(j)
  <2>1. /\ run[j] = "started" /\ run' = [run EXCEPT ![j] = "scanning"] /\ UNCHANGED <<reqStatus, jobReq, result>>
    BY <1>1 DEF RegisterCancel, reqVars
  <2>2. \A k \in Jobs : Scanning(k)' <=> Scanning(k) BY <1>0, <2>1 DEF Scanning, TypeOK
  <2> QED BY <2>1, <2>2, RowsKept, WorkKept, Stutters
<1>2. ASSUME NEW d \in Delivery, FetchFails(j, d) PROVE [Lifecycle!Next]_(Lifecycle!vars)
  <2>1. /\ Scanning(j) /\ UNCHANGED <<reqStatus, jobReq>>
        /\ result' = [result EXCEPT ![j] = "error"] /\ run' = [run EXCEPT ![j] = "failed"]
    BY <1>2 DEF FetchFails, SendJobReport, reqVars, Scanning
  <2> QED BY <1>0, <2>1, ResultEnds
<1>3. ASSUME NEW res \in {"whole", "cut", "error"}, ScanReturns(j, res) PROVE [Lifecycle!Next]_(Lifecycle!vars)
  <2>1. /\ Scanning(j) /\ UNCHANGED <<reqStatus, jobReq>> /\ res # "none"
        /\ result' = [result EXCEPT ![j] = res] /\ run' = [run EXCEPT ![j] = "returned"]
    BY <1>3 DEF ScanReturns, reqVars, Scanning
  <2> QED BY <1>0, <2>1, ResultEnds
<1>4. ASSUME NEW rem \in BOOLEAN, NEW d \in Delivery, ReportJob(j, rem, d) PROVE [Lifecycle!Next]_(Lifecycle!vars)
  <2>1. PICK w \in Outcomes : run' = [run EXCEPT ![j] = w]
    BY <1>4, ReportedOutcomeType DEF ReportJob, SendJobReport, Outcomes
  <2>2. run[j] = "returned" /\ UNCHANGED <<reqStatus, jobReq, result>> BY <1>4 DEF ReportJob, reqVars
  <2>3. \A k \in Jobs : Scanning(k)' <=> Scanning(k) BY <1>0, <2>1, <2>2 DEF Scanning, TypeOK, Outcomes
  <2> QED BY <2>2, <2>3, RowsKept, WorkKept, Stutters
<1>5. ASSUME NEW d \in Delivery, CloseRequest(j, d) PROVE [Lifecycle!Next]_(Lifecycle!vars)
  BY <1>5, ClosingSettles
<1> QED BY <1>1, <1>2, <1>3, <1>4, <1>5 DEF RunStep, ReportStep

LEMMA PollStepRefines ==
  ASSUME RefinesInv, RefinesInv', NEW a \in Agents, PollStep(a)
  PROVE  [Lifecycle!Next]_(Lifecycle!vars)
<1>0. TypeOK BY DEF RefinesInv
<1>1. CASE AcquireSlot(a) \/ PollNothing(a) \/ CreateJobFails(a)
  <2>1. UNCHANGED <<reqStatus, run, jobReq, result>>
    BY <1>1 DEF AcquireSlot, PollNothing, CreateJobFails, reqVars
  <2> QED BY <2>1, RowsKept, WorkKept, Stutters DEF Scanning
<1>2. ASSUME NEW r \in Requests, NEW d \in Delivery, ClaimNext(a, r, d) PROVE [Lifecycle!Next]_(Lifecycle!vars)
  <2>1. /\ reqStatus[r] = "pending" /\ reqStatus' = [reqStatus EXCEPT ![r] = "claimed"]
        /\ UNCHANGED <<run, jobReq, result>>
    BY <1>2 DEF ClaimNext, Claimable, Pending, MarkClaimed
  <2>2. reqStatus'[r] = "claimed" BY <1>0, <2>1 DEF TypeOK
  <2>3. StateOf(r) = "queued" /\ StateOf(r)' = "running" BY <1>0, <2>1, <2>2, States, StatesWillBe
  <2>4. \A q \in Requests : StateOf(q)' = IF q = r THEN "running" ELSE StateOf(q) BY <1>0, <2>1, <2>3, RowMoves
  <2>5. WorkStays BY <2>1, WorkKept DEF Scanning
  <2> QED BY <2>3, <2>4, <2>5, StateMoves
<1>3. ASSUME NEW j \in Jobs, CreateJob(a, j) PROVE [Lifecycle!Next]_(Lifecycle!vars)
  BY <1>3, CreatingBegins
<1> QED BY <1>1, <1>2, <1>3 DEF PollStep

LEMMA OperatorRefines ==
  ASSUME RefinesInv, NEW s \in Sessions, Operator(s)
  PROVE  [Lifecycle!Next]_(Lifecycle!vars)
<1>0. TypeOK /\ RowsRead BY DEF RefinesInv
<1>1. ASSUME NEW r \in Requests, ReadQueued(s, r) \/ ReadStaleRequest(s, r) PROVE [Lifecycle!Next]_(Lifecycle!vars)
  <2>1. UNCHANGED <<reqStatus, run, jobReq, result>>
    BY <1>1 DEF ReadQueued, ReadStaleRequest, Read, reqVars, scannerVars
  <2> QED BY <2>1, RowsKept, WorkKept, Stutters DEF Scanning
<1>2. ASSUME NEW j \in Jobs, ReadStaleJob(s, j) \/ ReadResumable(s, j) PROVE [Lifecycle!Next]_(Lifecycle!vars)
  <2>1. UNCHANGED <<reqStatus, run, jobReq, result>>
    BY <1>2 DEF ReadStaleJob, ReadResumable, Read, reqVars, scannerVars
  <2> QED BY <2>1, RowsKept, WorkKept, Stutters DEF Scanning
<1>3. ASSUME NEW r \in Requests, CommitResume(s, r) PROVE [Lifecycle!Next]_(Lifecycle!vars)
  BY <1>0, <1>3, InsertQueues DEF CommitResume, Write, scannerVars
<1>4. CASE WriteQueueCancel(s) BY <1>0, <1>4, OperatorSettles DEF WriteQueueCancel
<1>5. CASE WriteRequestDismiss(s) BY <1>0, <1>5, OperatorSettles DEF WriteRequestDismiss
<1>6. CASE WriteJobDismiss(s) \/ RefuseResume(s)
  <2>1. UNCHANGED <<reqStatus, run, jobReq, result>>
    BY <1>6 DEF WriteJobDismiss, RefuseResume, Write, reqVars, scannerVars
  <2> QED BY <2>1, RowsKept, WorkKept, Stutters DEF Scanning
<1> QED BY <1>1, <1>2, <1>3, <1>4, <1>5, <1>6 DEF Operator

LEMMA StepRefines == RefinesInv /\ RefinesInv' /\ [Next]_vars => [Lifecycle!Next]_(Lifecycle!vars)
<1> SUFFICES ASSUME RefinesInv, RefinesInv', [Next]_vars PROVE [Lifecycle!Next]_(Lifecycle!vars)
  OBVIOUS
<1>0. TypeOK BY DEF RefinesInv
<1>1. ASSUME NEW r \in Requests, QueueRequest(r) PROVE [Lifecycle!Next]_(Lifecycle!vars)
  BY <1>0, <1>1, InsertQueues DEF QueueRequest, scannerVars
<1>2. ASSUME NEW a \in Agents, PollStep(a) PROVE [Lifecycle!Next]_(Lifecycle!vars) BY <1>2, PollStepRefines
<1>3. ASSUME NEW a \in Agents, Crash(a) PROVE [Lifecycle!Next]_(Lifecycle!vars) BY <1>3, CrashInterrupts
\* A local scan works for no request.
<1>4. ASSUME NEW a \in Agents, NEW j \in Jobs, StartLocalScan(a, j) PROVE [Lifecycle!Next]_(Lifecycle!vars)
  <2>1. jobReq[j] = NoRequest
    BY <1>4 DEF StartLocalScan, InsertJob, RefinesInv, Ownership, FreshJobs
  <2>2. UNCHANGED <<reqStatus, jobReq, result>> /\ \A k \in Jobs \ {j} : run'[k] = run[k]
    BY <1>0, <1>4, <2>1 DEF StartLocalScan, StartRun, TypeOK, reqVars
  <2>3. \A k \in Jobs : jobReq[k] \in Requests => (Scanning(k)' <=> Scanning(k))
    BY <2>1, <2>2, ScanQueueAssumption DEF Scanning
  <2> QED BY <2>2, <2>3, RowsKept, WorkKept, Stutters
<1>5. ASSUME NEW j \in Jobs, RunStep(j) PROVE [Lifecycle!Next]_(Lifecycle!vars) BY <1>5, RunStepRefines
<1>6. ASSUME NEW j \in Jobs, NoticeCancel(j) \/ RequestScanCancel(j) PROVE [Lifecycle!Next]_(Lifecycle!vars)
  <2>1. UNCHANGED <<reqStatus, run, jobReq, result>>
    BY <1>6 DEF NoticeCancel, RequestScanCancel, reqVars, scannerVars
  <2> QED BY <2>1, RowsKept, WorkKept, Stutters DEF Scanning
<1>7. ASSUME NEW s \in Sessions, Operator(s) PROVE [Lifecycle!Next]_(Lifecycle!vars) BY <1>7, OperatorRefines
<1>8. CASE UNCHANGED vars
  <2>1. UNCHANGED <<reqStatus, run, jobReq, result>> BY <1>8 DEF vars, reqVars, scannerVars
  <2> QED BY <2>1, RowsKept, WorkKept, Stutters DEF Scanning
<1> QED BY <1>1, <1>2, <1>3, <1>4, <1>5, <1>6, <1>7, <1>8 DEF Next

\* The queue protocol, with lost calls, crashes and racing operators, does
\* nothing the dashboard's life cycle (scanGroups/routes.ts) does not allow:
\* no request is executed before it is claimed or executed twice, and
\* "completed" is said only of one that was executed to its end.
THEOREM ProtocolRefinesLifecycle == Spec => RefinesLifecycle
BY RefinesInvInit, RefinesInvStep, LifecycleInit, StepRefines, PTL DEF Spec, RefinesLifecycle, Lifecycle!Spec

-----------------------------------------------------------------------------
(* What the life cycle promises holds of the protocol that implements it.  *)

LEMMA LifecycleExplains ==
  /\ Lifecycle!Init => Lifecycle!WorkIsExplained
  /\ Lifecycle!WorkIsExplained /\ [Lifecycle!Next]_(Lifecycle!vars) => Lifecycle!WorkIsExplained'
<1>1. Lifecycle!Init => Lifecycle!WorkIsExplained
  BY DEF Lifecycle!Init, Lifecycle!WorkIsExplained
<1>2. ASSUME Lifecycle!WorkIsExplained, Lifecycle!Next PROVE Lifecycle!WorkIsExplained'
  BY <1>2 DEF Lifecycle!Next, Lifecycle!WorkIsExplained, Lifecycle!Interrupt, Lifecycle!Queue, Lifecycle!Claim,
              Lifecycle!Withdraw, Lifecycle!Begin, Lifecycle!Finish, Lifecycle!Settle, Lifecycle!Outcomes
<1>3. ASSUME Lifecycle!WorkIsExplained, UNCHANGED Lifecycle!vars PROVE Lifecycle!WorkIsExplained'
  BY <1>3 DEF Lifecycle!vars, Lifecycle!WorkIsExplained
<1> QED BY <1>1, <1>2, <1>3

LEMMA WorkGoesForward == [Lifecycle!Next]_(Lifecycle!vars) => [Lifecycle!WorkStands]_(Lifecycle!vars)
<1>1. Lifecycle!Next => Lifecycle!WorkStands
  BY DEF Lifecycle!Next, Lifecycle!Interrupt, Lifecycle!Queue, Lifecycle!Claim, Lifecycle!Withdraw,
         Lifecycle!Begin, Lifecycle!Finish, Lifecycle!Settle, Lifecycle!WorkStands
<1> QED BY <1>1

\* Work is only done on a request that was claimed, "completed" is said only
\* of work done to its end, and no request is worked on twice: the promises
\* of the life cycle, which the queue protocol keeps because it refines it.
THEOREM PromisesAreKept == Spec => []Lifecycle!WorkIsExplained /\ Lifecycle!ExecutedOnce
<1>1. Spec => Lifecycle!Init /\ [][Lifecycle!Next]_(Lifecycle!vars)
  BY ProtocolRefinesLifecycle, PTL DEF RefinesLifecycle, Lifecycle!Spec
<1>2. Lifecycle!Init /\ [][Lifecycle!Next]_(Lifecycle!vars) => []Lifecycle!WorkIsExplained
  BY LifecycleExplains, PTL
<1>3. [][Lifecycle!Next]_(Lifecycle!vars) => Lifecycle!ExecutedOnce
  BY WorkGoesForward, PTL DEF Lifecycle!ExecutedOnce
<1> QED BY <1>1, <1>2, <1>3, PTL
=============================================================================
