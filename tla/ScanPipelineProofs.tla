------------------------- MODULE ScanPipelineProofs -------------------------
(***************************************************************************)
(* Proofs about ScanPipeline, for any target, any sub-tasks and any sizes  *)
(* of pools and channels.  Three inductive invariants build on each other: *)
(* Sound (types, places, and the tracker's counts), Covered (what the      *)
(* coverage says of each address) and Staged (what is over at each stage). *)
(***************************************************************************)
EXTENDS ScanPipeline, FiniteSetTheorems, TLAPS

-----------------------------------------------------------------------------
(* Counting. *)

LEMMA AddrsAreCounted == \A S \in SUBSET Addrs : IsFiniteSet(S) /\ Cardinality(S) \in Nat
BY ScanPipelineAssumption, FS_Subset, FS_CardinalityType

LEMMA TasksAreCounted == \A S \in SUBSET Tasks : IsFiniteSet(S) /\ Cardinality(S) \in Nat
BY ScanPipelineAssumption, FS_Subset, FS_CardinalityType

LEMMA OpenIsCounted ==
  ASSUME NEW a \in Addrs
  PROVE  Open(a) \subseteq Tasks /\ IsFiniteSet(Open(a)) /\ Cardinality(Open(a)) \in Nat
BY TasksAreCounted DEF Open, TasksOf

-----------------------------------------------------------------------------
(* Sound: the base of the other invariants. *)

\* A found host lies in a block that was swept, and a sweep in progress has
\* a block left.
Placed ==
  /\ stage = "start" => swept = 0 /\ feeder = "between" /\ \A a \in Addrs : host[a] = "unknown"
  /\ feeder = "sweeping" => swept < blocks
  /\ \A a \in Addrs : host[a] # "unknown" => BlockIn(a) <= swept

\* The tracker waits for exactly the open sub-tasks of a host; for one it
\* lost while they were being queued it waits for more than will ever end.
CountedAt(a) ==
  /\ host[a] = "tracked" => left[a] = Cardinality(Open(a)) /\ Open(a) # {}
  /\ host[a] = "lost" => ~Dispatching(a) /\ (Open(a) = {} \/ left[a] > Cardinality(Open(a)))
  /\ host[a] \notin {"tracked", "lost"} => Open(a) = {}

Counted == \A a \in Addrs : CountedAt(a)

Sound == TypeOK /\ Placed /\ Counted

\* A sub-task that is not done keeps its host with the tracker and its count
\* positive; a lost host is never counted down to the last one.
LEMMA OpenMeansLeft ==
  ASSUME TypeOK, Counted, NEW t \in Tasks, task[t] \in {"due", "queued", "running"}
  PROVE  /\ TaskHost[t] \in Addrs
         /\ t \in Open(TaskHost[t])
         /\ host[TaskHost[t]] \in {"tracked", "lost"}
         /\ left[TaskHost[t]] \in Nat /\ left[TaskHost[t]] >= 1
         /\ host[TaskHost[t]] = "tracked" => left[TaskHost[t]] = Cardinality(Open(TaskHost[t]))
         /\ host[TaskHost[t]] = "lost" =>
              task[t] # "due" /\ left[TaskHost[t]] > Cardinality(Open(TaskHost[t])) /\ left[TaskHost[t]] >= 2
<1> DEFINE a == TaskHost[t]
<1>1. a \in Addrs BY ScanPipelineAssumption
<1>2. t \in Open(a) BY DEF Open, TasksOf
<1>3. IsFiniteSet(Open(a)) /\ Cardinality(Open(a)) \in Nat BY <1>1, OpenIsCounted
<1>4. Cardinality(Open(a)) # 0 BY <1>2, <1>3, FS_EmptySet
<1>5. left[a] \in Nat BY <1>1 DEF TypeOK
<1>6. host[a] \in {"tracked", "lost"} BY <1>1, <1>2 DEF Counted, CountedAt
<1>7. /\ host[a] = "tracked" => left[a] = Cardinality(Open(a))
      /\ host[a] = "lost" => left[a] > Cardinality(Open(a))
  BY <1>1, <1>2, <1>6 DEF Counted, CountedAt
<1>8. host[a] = "lost" => task[t] # "due"
  BY <1>1 DEF Counted, CountedAt, Dispatching, TasksOf
<1> HIDE DEF a
<1>9. left[a] >= 1 /\ (host[a] = "lost" => left[a] >= 2) BY <1>3, <1>4, <1>5, <1>6, <1>7
<1> QED BY <1>1, <1>2, <1>5, <1>6, <1>7, <1>8, <1>9 DEF a

LEMMA HandOnType ==
  ASSUME TypeOK, NEW a \in Addrs, HandOn(a)
  PROVE  /\ host' \in [Addrs -> HostStates] /\ handed' \in [Addrs -> Nat]
         /\ early' \subseteq Addrs /\ pending' \subseteq Addrs /\ processed' \in Nat
<1>1. host' \in [Addrs -> HostStates] BY DEF TypeOK, HandOn, HostStates
<1>2. handed' \in [Addrs -> Nat] BY DEF TypeOK, HandOn
<1>3. early' \subseteq Addrs /\ pending' \subseteq Addrs /\ processed' \in Nat
  BY DEF TypeOK, HandOn, HostDone
<1> QED BY <1>1, <1>2, <1>3

LEMMA CompleteType ==
  ASSUME TypeOK, NEW a \in Addrs, left[a] >= 1, Complete(a)
  PROVE  /\ host' \in [Addrs -> HostStates] /\ handed' \in [Addrs -> Nat]
         /\ early' \subseteq Addrs /\ pending' \subseteq Addrs /\ processed' \in Nat
         /\ left' \in [Addrs -> Nat]
<1>1. left' \in [Addrs -> Nat]
  <2>1. left[a] \in Nat /\ left[a] - 1 \in Nat BY DEF TypeOK
  <2> QED BY <2>1 DEF Complete, TypeOK
<1>2. CASE left[a] <= 1 BY <1>1, <1>2, HandOnType DEF Complete
<1>3. CASE ~(left[a] <= 1) BY <1>1, <1>3 DEF Complete, StillWorking, TypeOK
<1> QED BY <1>2, <1>3

LEMMA GiveUpType ==
  ASSUME TypeOK, NEW gone \in SUBSET Addrs, GiveUp(gone)
  PROVE  host' \in [Addrs -> HostStates] /\ nmapFailed' \in Nat /\ processed' \in Nat
<1>1. Cardinality(gone) \in Nat BY AddrsAreCounted
<1>2. host' \in [Addrs -> HostStates] BY DEF TypeOK, GiveUp, HostStates
<1> QED BY <1>1, <1>2 DEF TypeOK, GiveUp

LEMMA PanicType == TypeOK /\ Panic => panics' \in 0..MaxPanics
BY ScanPipelineAssumption DEF TypeOK, Panic

LEMMA ProduceType == Sound /\ Produce => TypeOK'
<1> SUFFICES ASSUME Sound, Produce PROVE TypeOK' OBVIOUS
<1> USE ScanPipelineAssumption DEF Sound, TypeOK, Stages, Feeders, coverVars, nmapVars, histVars
<1>1. CASE StartSweep BY <1>1 DEF StartSweep
<1>2. CASE SweepEnds
  <2> PICK found \in SUBSET {a \in Addrs : BlockIn(a) = swept + 1} :
        /\ Cover(found)
        /\ host'       = [a \in Addrs |-> IF a \in found THEN "found" ELSE host[a]]
        /\ discovered' = discovered + Cardinality(found)
    BY <1>2 DEF SweepEnds
  <2>1. Cardinality(found) \in Nat BY AddrsAreCounted
  <2>2. host' \in [Addrs -> HostStates] BY DEF HostStates
  <2>3. discovered' \in Nat BY <2>1
  <2>4. pending' \subseteq Addrs BY DEF Cover
  <2>5. swept' \in 0..blocks /\ blocks \in Nat BY <1>2 DEF SweepEnds, Placed
  <2> QED BY <1>2, <2>2, <2>3, <2>4, <2>5 DEF SweepEnds
<1>3. CASE SweepFails BY <1>3 DEF SweepFails
<1>4. CASE BlockSent BY <1>4 DEF BlockSent
<1>5. CASE CloseFeed BY <1>5 DEF CloseFeed
<1>6. CASE \E a \in Addrs : Send(a)
  <2> PICK a \in Addrs : Send(a) BY <1>6
  <2>1. host' \in [Addrs -> HostStates] BY DEF Send, HostStates
  <2> QED BY <2>1 DEF Send
<1> QED BY <1>1, <1>2, <1>3, <1>4, <1>5, <1>6 DEF Produce

LEMMA ProbeType == \A a \in Addrs : Sound /\ (Probe(a) \/ ProbePanics(a) \/ CallbackPanics(a)) => TypeOK'
<1> SUFFICES ASSUME NEW a \in Addrs, Sound, Probe(a) \/ ProbePanics(a) \/ CallbackPanics(a)
             PROVE TypeOK'
  OBVIOUS
<1> USE DEF coverVars, nmapVars, histVars
<1>1. CASE TakeJob(a) \/ TakeRetry(a)
  <2>1. host' \in [Addrs -> HostStates]
    BY <1>1 DEF Sound, TypeOK, TakeJob, TakeRetry, Begin, HostStates
  <2> QED BY <1>1, <2>1 DEF Sound, TypeOK, TakeJob, TakeRetry
<1>2. CASE NmapFails(a)
  <2>1. CASE stage = "pool" /\ ~ctxDone
    BY <1>2, <2>1 DEF Sound, TypeOK, NmapFails, HostStates
  <2>2. CASE ~(stage = "pool" /\ ~ctxDone)
    <3>1. GiveUp({a}) BY <1>2, <2>2 DEF NmapFails
    <3>2. host' \in [Addrs -> HostStates] /\ nmapFailed' \in Nat /\ processed' \in Nat
      BY <3>1, GiveUpType DEF Sound
    <3> QED BY <1>2, <3>2 DEF Sound, TypeOK, NmapFails
  <2> QED BY <2>1, <2>2
<1>3. CASE NmapSucceeds(a)
  <2> PICK due \in SUBSET TasksOf(a) :
        /\ task' = [t \in Tasks |-> IF t \in due THEN "due" ELSE task[t]]
        /\ left' = [left EXCEPT ![a] = Cardinality(due)]
        /\ IF due = {}
           THEN HandOn(a)
           ELSE host' = [host EXCEPT ![a] = "tracked"] /\ UNCHANGED <<handed, early, pending, processed>>
    BY <1>3 DEF NmapSucceeds
  <2>1. Cardinality(due) \in Nat BY TasksAreCounted DEF TasksOf
  <2>2. left' \in [Addrs -> Nat] BY <2>1 DEF Sound, TypeOK
  <2>3. task' \in [Tasks -> TaskStates] BY DEF Sound, TypeOK, TaskStates
  <2>4. nmapOK' \in Nat BY <1>3 DEF Sound, TypeOK, NmapSucceeds
  <2>5. /\ host' \in [Addrs -> HostStates] /\ handed' \in [Addrs -> Nat]
        /\ early' \subseteq Addrs /\ pending' \subseteq Addrs /\ processed' \in Nat
    <3>1. CASE due = {} BY <3>1, HandOnType DEF Sound
    <3>2. CASE due # {} BY <3>2 DEF Sound, TypeOK, HostStates
    <3> QED BY <3>1, <3>2
  <2> QED BY <1>3, <2>2, <2>3, <2>4, <2>5 DEF Sound, TypeOK, NmapSucceeds
<1>4. CASE ProbePanics(a)
  <2>1. host' \in [Addrs -> HostStates] BY <1>4 DEF Sound, TypeOK, ProbePanics, HostStates
  <2>2. task' \in [Tasks -> TaskStates] BY <1>4 DEF Sound, TypeOK, ProbePanics, TaskStates
  <2> QED BY <1>4, <2>1, <2>2, PanicType DEF Sound, TypeOK, ProbePanics
<1>5. CASE CallbackPanics(a)
  <2>1. host' \in [Addrs -> HostStates] BY <1>5 DEF Sound, TypeOK, CallbackPanics, HostStates
  <2>2. /\ task' \in [Tasks -> TaskStates] /\ left' \in [Addrs -> Nat]
        /\ cut' \subseteq Addrs /\ nmapOK' \in Nat
    BY <1>5 DEF Sound, TypeOK, CallbackPanics, TaskStates
  <2> QED BY <1>5, <2>1, <2>2, PanicType DEF Sound, TypeOK, CallbackPanics
<1> QED BY <1>1, <1>2, <1>3, <1>4, <1>5 DEF Probe

LEMMA WorkType == \A t \in Tasks : Sound /\ (Work(t) \/ HandOnPanics(t)) => TypeOK'
<1> SUFFICES ASSUME NEW t \in Tasks, Sound, Work(t) \/ HandOnPanics(t) PROVE TypeOK'
  OBVIOUS
<1> USE DEF coverVars, nmapVars, histVars
<1>1. CASE QueueTask(t) \/ TakeTask(t)
  <2>1. task' \in [Tasks -> TaskStates]
    BY <1>1 DEF Sound, TypeOK, QueueTask, TakeTask, TaskStates
  <2> QED BY <1>1, <2>1 DEF Sound, TypeOK, QueueTask, TakeTask
<1>2. CASE DropTask(t) \/ TaskEnds(t)
  <2> DEFINE a == TaskHost[t]
  <2>1. a \in Addrs /\ left[a] >= 1
    BY <1>2, OpenMeansLeft DEF Sound, DropTask, TaskEnds
  <2>2. Complete(a) BY <1>2 DEF DropTask, TaskEnds
  <2>3. task' \in [Tasks -> TaskStates]
    BY <1>2 DEF Sound, TypeOK, DropTask, TaskEnds, TaskStates
  <2>4. cut' \subseteq Addrs BY <1>2, <2>1 DEF Sound, TypeOK, DropTask, TaskEnds
  <2> HIDE DEF a
  <2>5. /\ host' \in [Addrs -> HostStates] /\ handed' \in [Addrs -> Nat]
        /\ early' \subseteq Addrs /\ pending' \subseteq Addrs /\ processed' \in Nat
        /\ left' \in [Addrs -> Nat]
    BY <2>1, <2>2, CompleteType DEF Sound
  <2> QED BY <1>2, <2>3, <2>4, <2>5 DEF Sound, TypeOK, DropTask, TaskEnds
<1>3. CASE HandOnPanics(t)
  BY <1>3, PanicType DEF Sound, TypeOK, HandOnPanics, Stages
<1> QED BY <1>1, <1>2, <1>3 DEF Work

LEMMA ProceedType == Sound /\ Proceed => TypeOK'
<1> SUFFICES ASSUME Sound, Proceed PROVE TypeOK' OBVIOUS
<1> USE DEF Sound, TypeOK, coverVars, nmapVars, histVars
<1>1. CASE EndPool
  <2>1. CASE In("retry") = {} \/ ctxDone \/ Systemic
    <3>1. GiveUp(In("retry")) /\ stage' = "draining" /\ UNCHANGED feeder BY <1>1, <2>1 DEF EndPool
    <3>2. In("retry") \in SUBSET Addrs BY DEF In
    <3>3. host' \in [Addrs -> HostStates] /\ nmapFailed' \in Nat /\ processed' \in Nat
      BY <3>1, <3>2, GiveUpType
    <3> QED BY <1>1, <3>1, <3>3 DEF EndPool, Stages
  <2>2. CASE ~(In("retry") = {} \/ ctxDone \/ Systemic)
    <3>1. stage' = "retry" /\ feeder' = "resending" /\ UNCHANGED <<host, nmapFailed, processed>>
      BY <1>1, <2>2 DEF EndPool
    <3> QED BY <1>1, <3>1 DEF EndPool, Stages, Feeders
  <2> QED BY <2>1, <2>2
<1>2. CASE StopRetry BY <1>2 DEF StopRetry, Feeders
<1>3. CASE EndRetry BY <1>3 DEF EndRetry, Stages
<1>4. CASE Return BY <1>4 DEF Return, Verdict, Stages
<1>5. CASE Report BY <1>5 DEF Report, Stages, Outcomes
<1> QED BY <1>1, <1>2, <1>3, <1>4, <1>5 DEF Proceed

LEMMA TypesKept == Sound /\ [Next]_vars => TypeOK'
<1> SUFFICES ASSUME Sound, [Next]_vars PROVE TypeOK' OBVIOUS
<1> USE DEF Sound, TypeOK, coverVars, nmapVars, histVars
<1>1. CASE ReturnUnplanned BY <1>1 DEF ReturnUnplanned, Stages
<1>2. CASE Plan BY <1>2, ScanPipelineAssumption DEF Plan, Stages, Placed
<1>3. CASE Cancel BY <1>3 DEF Cancel
<1>4. CASE SweepPanics BY <1>4, PanicType DEF SweepPanics, Stages
<1>5. CASE UNCHANGED vars BY <1>5 DEF vars
<1> HIDE DEF Sound, TypeOK
<1> QED BY <1>1, <1>2, <1>3, <1>4, <1>5, ProduceType, ProbeType, WorkType, ProceedType DEF Next

\* Steps that only move hosts already found keep Placed.
LEMMA PlacedFrame ==
  ASSUME TypeOK, Placed, UNCHANGED <<blocks, swept>>, host' \in [Addrs -> HostStates],
         \A a \in Addrs : host[a] = "unknown" => host'[a] = "unknown",
         stage' = "start" => stage = "start" /\ UNCHANGED <<feeder, host>>,
         feeder' = "sweeping" => swept < blocks
  PROVE  Placed'
BY DEF Placed, BlockIn

LEMMA CompletePlaces ==
  ASSUME NEW a \in Addrs, TypeOK, Complete(a) \/ HandOn(a)
  PROVE  \A b \in Addrs : host'[b] = host[b] \/ (b = a /\ host'[b] = "handed")
BY DEF TypeOK, Complete, HandOn, StillWorking

LEMMA PlacedKept == Sound /\ [Next]_vars => Placed'
<1> SUFFICES ASSUME Sound, [Next]_vars PROVE Placed' OBVIOUS
<1>0. TypeOK' BY TypesKept
<1>t. TypeOK /\ Placed /\ Counted BY DEF Sound
<1>h. host' \in [Addrs -> HostStates] BY <1>0 DEF TypeOK
<1> USE DEF coverVars, nmapVars, histVars
<1>1. CASE SweepEnds
  <2>1. \A a \in Addrs : host'[a] # host[a] => BlockIn(a) = swept + 1
    BY <1>1, <1>t DEF SweepEnds, TypeOK
  <2>2. /\ stage' = "pool" /\ feeder' = "sending" /\ swept' = swept + 1 /\ UNCHANGED blocks
        /\ swept \in Nat
    BY <1>1, <1>t, ScanPipelineAssumption DEF SweepEnds, TypeOK
  <2>3. \A a \in Addrs : BlockIn(a) \in Nat
    BY ScanPipelineAssumption DEF BlockIn
  <2> QED BY <2>1, <2>2, <2>3, <1>t DEF Placed, BlockIn
<1>2. CASE Plan
  BY <1>2, <1>t DEF Plan, Placed
<1>3. CASE StartSweep \/ SweepFails \/ BlockSent \/ CloseFeed \/ ReturnUnplanned \/ Cancel \/ SweepPanics
  <2>1. UNCHANGED <<blocks, swept, host>>
    BY <1>3 DEF StartSweep, SweepFails, BlockSent, CloseFeed, ReturnUnplanned, Cancel, SweepPanics
  <2>2. stage' = "start" => stage = "start" /\ UNCHANGED feeder
    BY <1>3 DEF StartSweep, SweepFails, BlockSent, CloseFeed, ReturnUnplanned, Cancel, SweepPanics
  <2>3. feeder' = "sweeping" => swept < blocks
    BY <1>3, <1>t DEF StartSweep, SweepFails, BlockSent, CloseFeed, ReturnUnplanned, Cancel, SweepPanics, Placed
  <2> QED BY <2>1, <2>2, <2>3, <1>t, <1>h, PlacedFrame
<1>4. CASE \E a \in Addrs : Send(a) \/ TakeJob(a) \/ TakeRetry(a) \/ NmapFails(a) \/ ProbePanics(a)
  <2> PICK a \in Addrs : Send(a) \/ TakeJob(a) \/ TakeRetry(a) \/ NmapFails(a) \/ ProbePanics(a)
    BY <1>4
  <2>1. stage' = stage /\ stage # "start" /\ UNCHANGED <<blocks, swept, feeder>>
    BY DEF Send, TakeJob, TakeRetry, NmapFails, ProbePanics, Running
  <2>2. \A b \in Addrs : host[b] = "unknown" => host'[b] = "unknown"
    BY <1>t DEF Send, TakeJob, TakeRetry, Begin, NmapFails, GiveUp, ProbePanics, TypeOK
  <2> QED BY <2>1, <2>2, <1>t, <1>h, PlacedFrame DEF Placed
<1>5. CASE \E a \in Addrs : NmapSucceeds(a) \/ CallbackPanics(a)
  <2> PICK a \in Addrs : NmapSucceeds(a) \/ CallbackPanics(a)
    BY <1>5
  <2>1. stage' = stage /\ stage # "start" /\ UNCHANGED <<blocks, swept, feeder>>
    BY DEF NmapSucceeds, CallbackPanics, Running
  <2>2. host[a] # "unknown"
    <3>1. CASE host[a] = "probing" BY <3>1
    <3>2. CASE \E t \in TasksOf(a) : task[t] = "due"
      BY <3>2, <1>t, OpenMeansLeft DEF TasksOf
    <3> QED BY <3>1, <3>2 DEF NmapSucceeds, CallbackPanics
  <2>3. \A b \in Addrs : b # a => host'[b] = host[b]
    <3>1. CASE NmapSucceeds(a) BY <3>1, <1>t, CompletePlaces DEF NmapSucceeds, TypeOK
    <3>2. CASE CallbackPanics(a) BY <3>2, <1>t DEF CallbackPanics, TypeOK
    <3> QED BY <3>1, <3>2
  <2>4. host'[a] # "unknown"
    <3>1. CASE NmapSucceeds(a) BY <3>1, <1>t DEF NmapSucceeds, HandOn, TypeOK
    <3>2. CASE CallbackPanics(a) BY <3>2, <1>t DEF CallbackPanics, TypeOK
    <3> QED BY <3>1, <3>2
  <2> QED BY <2>1, <2>2, <2>3, <2>4, <1>t, <1>h, PlacedFrame DEF Placed
<1>6. CASE \E t \in Tasks : QueueTask(t) \/ TakeTask(t) \/ HandOnPanics(t)
  <2>1. UNCHANGED <<blocks, swept, host, feeder>> /\ stage # "start" /\ stage' # "start"
    BY <1>6 DEF QueueTask, TakeTask, HandOnPanics, Running
  <2> QED BY <2>1, <1>t, <1>h, PlacedFrame DEF Placed
<1>7. CASE \E t \in Tasks : DropTask(t) \/ TaskEnds(t)
  <2> PICK t \in Tasks : DropTask(t) \/ TaskEnds(t) BY <1>7
  <2>1. /\ stage' = stage /\ stage # "start" /\ UNCHANGED <<blocks, swept, feeder>>
        /\ Complete(TaskHost[t]) /\ task[t] \in {"due", "queued", "running"}
    BY DEF DropTask, TaskEnds, Running
  <2>2. TaskHost[t] \in Addrs /\ host[TaskHost[t]] # "unknown"
    BY <2>1, <1>t, OpenMeansLeft
  <2>3. \A b \in Addrs : host[b] = "unknown" => host'[b] = "unknown"
    BY <2>1, <2>2, <1>t, CompletePlaces
  <2> QED BY <2>1, <2>3, <1>t, <1>h, PlacedFrame DEF Placed
<1>8. CASE Proceed
  <2>1. UNCHANGED <<blocks, swept>> /\ stage # "start" /\ stage' # "start"
    BY <1>8 DEF Proceed, EndPool, StopRetry, EndRetry, Return, Report, PoolEnded
  <2>2. \A b \in Addrs : host[b] = "unknown" => host'[b] = "unknown"
    BY <1>8, <1>t DEF Proceed, EndPool, StopRetry, EndRetry, Return, Report, GiveUp, In, TypeOK
  <2>3. feeder' = "sweeping" => feeder = "sweeping"
    BY <1>8 DEF Proceed, EndPool, StopRetry, EndRetry, Return, Report
  <2> QED BY <2>1, <2>2, <2>3, <1>t, <1>h, PlacedFrame DEF Placed
<1>9. CASE UNCHANGED vars BY <1>9, <1>t DEF vars, Placed, BlockIn
<1> QED BY <1>1, <1>2, <1>3, <1>4, <1>5, <1>6, <1>7, <1>8, <1>9 DEF Next, Produce, Probe, Work

LEMMA CountedFrame ==
  ASSUME NEW a \in Addrs, CountedAt(a), left'[a] = left[a], Open(a)' = Open(a),
         Dispatching(a)' => Dispatching(a),
         \/ host'[a] = host[a]
         \/ host[a] \notin {"tracked", "lost"} /\ host'[a] \notin {"tracked", "lost"}
  PROVE  CountedAt(a)'
BY DEF CountedAt

\* Completing one open sub-task of a host keeps the tracker's count exact.
LEMMA CompleteCounts ==
  ASSUME Sound, NEW t \in Tasks, task[t] \in {"due", "running"}, Complete(TaskHost[t]),
         task' = [task EXCEPT ![t] = "done"]
  PROVE  Counted'
<1> DEFINE h == TaskHost[t]
<1>t. TypeOK /\ Counted BY DEF Sound
<1>1. /\ h \in Addrs /\ t \in Open(h) /\ host[h] \in {"tracked", "lost"}
      /\ left[h] \in Nat /\ left[h] >= 1
      /\ host[h] = "tracked" => left[h] = Cardinality(Open(h))
      /\ host[h] = "lost" => task[t] # "due" /\ left[h] > Cardinality(Open(h)) /\ left[h] >= 2
  BY <1>t, OpenMeansLeft
<1>2. Complete(h) OBVIOUS
<1>3. \A b \in Addrs : Open(b)' = Open(b) \ {t}
  BY <1>t DEF Open, TasksOf, TypeOK
<1>4. \A b \in Addrs : Dispatching(b)' => Dispatching(b)
  BY <1>t DEF Dispatching, TasksOf, TypeOK
<1>5. \A b \in Addrs : b # h => Open(b)' = Open(b)
  BY <1>3 DEF Open, TasksOf
<1> HIDE DEF h
<1>6. \A b \in Addrs : b # h => host'[b] = host[b] /\ left'[b] = left[b]
  BY <1>t, <1>1, <1>2, CompletePlaces DEF Complete, TypeOK
<1>7. \A b \in Addrs : b # h => CountedAt(b)'
  BY <1>t, <1>4, <1>5, <1>6, CountedFrame DEF Counted
<1>8. /\ left'[h] = left[h] - 1
      /\ host'[h] = IF left[h] <= 1 THEN "handed" ELSE host[h]
  BY <1>t, <1>1, <1>2 DEF Complete, HandOn, StillWorking, TypeOK
<1>9. /\ IsFiniteSet(Open(h)) /\ Cardinality(Open(h)) \in Nat
      /\ IsFiniteSet(Open(h)') /\ Cardinality(Open(h)') = Cardinality(Open(h)) - 1
  BY <1>1, <1>3, OpenIsCounted, FS_RemoveElement
<1>10. Cardinality(Open(h)') = 0 <=> Open(h)' = {}
  BY <1>9, FS_EmptySet
<1>11. CASE host[h] = "tracked"
  <2>1. CASE left[h] <= 1
    <3>1. host'[h] = "handed" /\ Open(h)' = {} BY <1>1, <1>8, <1>9, <1>10, <1>11, <2>1
    <3>2. CountedAt(h)' BY <3>1 DEF CountedAt
    <3> QED BY <1>7, <3>2 DEF Counted
  <2>2. CASE ~(left[h] <= 1)
    <3>1. host'[h] = "tracked" BY <1>8, <1>11, <2>2
    <3>2. left'[h] = Cardinality(Open(h)') /\ Open(h)' # {}
      BY <1>1, <1>8, <1>9, <1>10, <1>11, <2>2
    <3>3. CountedAt(h)' BY <3>1, <3>2 DEF CountedAt
    <3> QED BY <1>7, <3>3 DEF Counted
  <2> QED BY <2>1, <2>2
<1>12. CASE host[h] = "lost"
  <2>1. host'[h] = "lost" BY <1>1, <1>8, <1>12
  <2>2. left'[h] > Cardinality(Open(h)') BY <1>1, <1>8, <1>9, <1>12
  <2>3. ~Dispatching(h)' BY <1>t, <1>1, <1>4, <1>12 DEF Counted, CountedAt
  <2>4. CountedAt(h)' BY <2>1, <2>2, <2>3 DEF CountedAt
  <2> QED BY <1>7, <2>4 DEF Counted
<1> QED BY <1>1, <1>11, <1>12

LEMMA NmapSucceedsCounts == \A a \in Addrs : Sound /\ NmapSucceeds(a) => Counted'
<1> SUFFICES ASSUME NEW a \in Addrs, Sound, NmapSucceeds(a) PROVE Counted' OBVIOUS
<1>t. TypeOK /\ Counted BY DEF Sound
<1> PICK due \in SUBSET TasksOf(a) :
      /\ task' = [t \in Tasks |-> IF t \in due THEN "due" ELSE task[t]]
      /\ left' = [left EXCEPT ![a] = Cardinality(due)]
      /\ IF due = {}
         THEN HandOn(a)
         ELSE host' = [host EXCEPT ![a] = "tracked"] /\ UNCHANGED <<handed, early, pending, processed>>
  BY DEF NmapSucceeds
<1>1. host[a] = "probing" /\ Open(a) = {} BY <1>t DEF NmapSucceeds, Counted, CountedAt
<1>2. Open(a)' = due BY <1>1 DEF Open, TasksOf
<1>3. \A b \in Addrs : b # a => Open(b)' = Open(b) /\ Dispatching(b)' = Dispatching(b)
  BY DEF Open, Dispatching, TasksOf
<1>4. \A b \in Addrs : b # a => host'[b] = host[b] /\ left'[b] = left[b]
  BY <1>t DEF HandOn, TypeOK
<1>5. \A b \in Addrs : b # a => CountedAt(b)'
  BY <1>t, <1>3, <1>4, CountedFrame DEF Counted
<1>6. CountedAt(a)'
  <2>1. CASE due = {}
    <3>1. host'[a] = "handed" BY <1>t, <2>1 DEF HandOn, TypeOK
    <3> QED BY <1>2, <2>1, <3>1 DEF CountedAt
  <2>2. CASE due # {}
    <3>1. host'[a] = "tracked" /\ left'[a] = Cardinality(due) BY <1>t, <2>2 DEF TypeOK
    <3> QED BY <1>2, <2>2, <3>1 DEF CountedAt
  <2> QED BY <2>1, <2>2
<1> QED BY <1>5, <1>6 DEF Counted

LEMMA PanicCounts == \A a \in Addrs : Sound /\ (ProbePanics(a) \/ CallbackPanics(a)) => Counted'
<1> SUFFICES ASSUME NEW a \in Addrs, Sound, ProbePanics(a) \/ CallbackPanics(a) PROVE Counted' OBVIOUS
<1>t. TypeOK /\ Counted BY DEF Sound
<1>l. host'[a] = "lost" /\ \A b \in Addrs : b # a => host'[b] = host[b]
  BY <1>t DEF ProbePanics, CallbackPanics, TypeOK
<1>1. CASE ProbePanics(a)
  <2>1. /\ task' = [t \in Tasks |-> IF TaskHost[t] = a /\ task[t] = "due" THEN "none" ELSE task[t]]
        /\ left' = left
    BY <1>1 DEF ProbePanics
  <2>2. \A b \in Addrs : b # a => Open(b)' = Open(b) /\ Dispatching(b)' = Dispatching(b)
    BY <2>1 DEF Open, Dispatching, TasksOf
  <2>3. \A b \in Addrs : b # a => CountedAt(b)'
    BY <1>t, <1>l, <2>1, <2>2, CountedFrame DEF Counted
  <2>4. ~Dispatching(a)' BY <2>1 DEF Dispatching, TasksOf
  <2>5. Open(a)' = {} \/ left'[a] > Cardinality(Open(a)')
    <3>1. CASE host[a] \in {"probing", "doomed"}
      <4>1. Open(a) = {} BY <3>1, <1>t DEF Counted, CountedAt
      <4> QED BY <4>1, <2>1 DEF Open, TasksOf
    <3>2. CASE host[a] = "tracked" /\ Dispatching(a)
      <4> PICK t \in TasksOf(a) : task[t] = "due" BY <3>2 DEF Dispatching
      <4>1. t \in Open(a) /\ Open(a)' \subseteq Open(a) \ {t}
        BY <2>1 DEF Open, TasksOf
      <4>2. left[a] = Cardinality(Open(a)) BY <1>t, <3>2 DEF Counted, CountedAt
      <4>3. /\ IsFiniteSet(Open(a)) /\ Cardinality(Open(a)) \in Nat
            /\ IsFiniteSet(Open(a) \ {t}) /\ Cardinality(Open(a) \ {t}) = Cardinality(Open(a)) - 1
        BY <4>1, OpenIsCounted, FS_RemoveElement
      <4>4. Cardinality(Open(a)') <= Cardinality(Open(a) \ {t}) /\ Cardinality(Open(a)') \in Nat
        BY <4>1, <4>3, FS_Subset, FS_CardinalityType
      <4> QED BY <2>1, <4>2, <4>3, <4>4
    <3> QED BY <1>1, <3>1, <3>2 DEF ProbePanics
  <2>6. CountedAt(a)' BY <1>l, <2>4, <2>5 DEF CountedAt
  <2> QED BY <2>3, <2>6 DEF Counted
<1>2. CASE CallbackPanics(a)
  <2>1. CASE host[a] = "probing" /\ UNCHANGED <<task, left>>
    <3>1. \A b \in Addrs : Open(b)' = Open(b) /\ Dispatching(b)' = Dispatching(b)
      BY <2>1 DEF Open, Dispatching, TasksOf
    <3>2. Open(a) = {} BY <2>1, <1>t DEF Counted, CountedAt
    <3>3. ~Dispatching(a) BY <3>2 DEF Open, Dispatching, TasksOf
    <3>4. CountedAt(a)' BY <1>l, <3>1, <3>2, <3>3 DEF CountedAt
    <3>5. \A b \in Addrs : b # a => CountedAt(b)'
      BY <1>t, <1>l, <2>1, <3>1, CountedFrame DEF Counted
    <3> QED BY <3>4, <3>5 DEF Counted
  <2>2. ASSUME NEW t \in TasksOf(a), task[t] = "due", task' = [task EXCEPT ![t] = "done"],
               left[a] = 1, left' = [left EXCEPT ![a] = 0]
        PROVE  Counted'
    <3>1. t \in Tasks /\ TaskHost[t] = a BY <2>2 DEF TasksOf
    <3>2. t \in Open(a) /\ left[a] = Cardinality(Open(a))
      BY <1>t, <2>2, <3>1, OpenMeansLeft
    <3>3. Open(a)' = Open(a) \ {t} BY <1>t, <2>2, <3>1 DEF Open, TasksOf, TypeOK
    <3>4. /\ IsFiniteSet(Open(a) \ {t}) /\ Cardinality(Open(a) \ {t}) = 0
      BY <2>2, <3>2, OpenIsCounted, FS_RemoveElement
    <3>5. Open(a)' = {} BY <3>3, <3>4, FS_EmptySet
    <3>6. ~Dispatching(a)' BY <3>5 DEF Open, Dispatching, TasksOf
    <3>7. CountedAt(a)' BY <1>l, <3>5, <3>6 DEF CountedAt
    <3>8. \A b \in Addrs : b # a => Open(b)' = Open(b) /\ Dispatching(b)' = Dispatching(b)
      BY <1>t, <2>2, <3>1 DEF Open, Dispatching, TasksOf, TypeOK
    <3>9. \A b \in Addrs : b # a => CountedAt(b)'
      BY <1>t, <1>l, <2>2, <3>8, CountedFrame DEF Counted, TypeOK
    <3> QED BY <3>7, <3>9 DEF Counted
  <2> QED BY <1>2, <2>1, <2>2 DEF CallbackPanics
<1> QED BY <1>1, <1>2

LEMMA CountedKept == Sound /\ [Next]_vars => Counted'
<1> SUFFICES ASSUME Sound, [Next]_vars PROVE Counted' OBVIOUS
<1>t. TypeOK /\ Placed /\ Counted BY DEF Sound
<1> DEFINE Untouched(a) == \/ host'[a] = host[a]
                           \/ host[a] \notin {"tracked", "lost"} /\ host'[a] \notin {"tracked", "lost"}
<1>f. ASSUME UNCHANGED <<task, left>>, \A a \in Addrs : Untouched(a)
      PROVE  Counted'
  <2>1. \A a \in Addrs : Open(a)' = Open(a) /\ Dispatching(a)' = Dispatching(a)
    BY <1>f DEF Open, Dispatching, TasksOf
  <2> QED BY <1>t, <1>f, <2>1, CountedFrame DEF Counted
<1> USE DEF coverVars, nmapVars, histVars
<1>1. CASE SweepEnds
  <2>1. \A a \in Addrs : host'[a] # host[a] => BlockIn(a) = swept + 1 /\ host'[a] = "found"
    BY <1>1, <1>t DEF SweepEnds, TypeOK
  <2>2. swept \in Nat BY <1>t, ScanPipelineAssumption DEF TypeOK
  <2>3. \A a \in Addrs : host'[a] # host[a] => host[a] = "unknown"
    BY <2>1, <2>2, <1>t, ScanPipelineAssumption DEF Placed, BlockIn
  <2>4. \A a \in Addrs : Untouched(a) BY <2>1, <2>3
  <2>5. UNCHANGED <<task, left>> BY <1>1 DEF SweepEnds
  <2> HIDE DEF Untouched
  <2> QED BY <2>4, <2>5, <1>f
<1>2. CASE \/ StartSweep \/ SweepFails \/ BlockSent \/ CloseFeed \/ ReturnUnplanned \/ Plan
           \/ Cancel \/ SweepPanics \/ UNCHANGED vars \/ \E t \in Tasks : HandOnPanics(t)
  <2>1. UNCHANGED <<task, left, host>>
    BY <1>2 DEF StartSweep, SweepFails, BlockSent, CloseFeed, ReturnUnplanned, Plan, Cancel,
                SweepPanics, HandOnPanics, vars
  <2> QED BY <2>1, <1>f
<1>3. CASE \E a \in Addrs : Send(a) \/ TakeJob(a) \/ TakeRetry(a) \/ NmapFails(a)
  <2> PICK a \in Addrs : Send(a) \/ TakeJob(a) \/ TakeRetry(a) \/ NmapFails(a) BY <1>3
  <2>1. UNCHANGED <<task, left>> BY DEF Send, TakeJob, TakeRetry, NmapFails
  <2>2. \A b \in Addrs : Untouched(b)
    BY <1>t DEF Send, TakeJob, TakeRetry, Begin, NmapFails, GiveUp, TypeOK
  <2> HIDE DEF Untouched
  <2> QED BY <2>1, <2>2, <1>f
<1>4. CASE Proceed
  <2>1. UNCHANGED <<task, left>>
    BY <1>4 DEF Proceed, EndPool, StopRetry, EndRetry, Return, Report
  <2>2. \A b \in Addrs : Untouched(b)
    BY <1>4, <1>t DEF Proceed, EndPool, StopRetry, EndRetry, Return, Report, GiveUp, In, TypeOK
  <2> HIDE DEF Untouched
  <2> QED BY <2>1, <2>2, <1>f
<1>5. CASE \E t \in Tasks : QueueTask(t) \/ TakeTask(t)
  <2> PICK t \in Tasks : QueueTask(t) \/ TakeTask(t) BY <1>5
  <2>1. UNCHANGED <<host, left>> BY DEF QueueTask, TakeTask
  <2>2. \A a \in Addrs : Open(a)' = Open(a) /\ (Dispatching(a)' => Dispatching(a))
    BY <1>t DEF QueueTask, TakeTask, Open, Dispatching, TasksOf, TypeOK
  <2> QED BY <2>1, <2>2, <1>t, CountedFrame DEF Counted
<1>6. CASE \E t \in Tasks : DropTask(t) \/ TaskEnds(t)
  BY <1>6, CompleteCounts DEF DropTask, TaskEnds
<1>7. CASE \E a \in Addrs : NmapSucceeds(a) \/ ProbePanics(a) \/ CallbackPanics(a)
  BY <1>7, NmapSucceedsCounts, PanicCounts
<1> QED BY <1>1, <1>2, <1>3, <1>4, <1>5, <1>6, <1>7 DEF Next, Produce, Probe, Work

LEMMA InitSound == Init => Sound
<1> SUFFICES ASSUME Init PROVE Sound OBVIOUS
<1>1. TypeOK
  <2>1. host \in [Addrs -> HostStates] /\ task \in [Tasks -> TaskStates]
    BY DEF Init, HostStates, TaskStates
  <2>2. left \in [Addrs -> Nat] /\ handed \in [Addrs -> Nat] BY DEF Init
  <2>3. stage \in Stages /\ feeder \in Feeders /\ outcome \in Outcomes /\ panics \in 0..MaxPanics
    BY ScanPipelineAssumption DEF Init, Stages, Feeders, Outcomes
  <2>4. ctxDone \in BOOLEAN /\ failed \in BOOLEAN BY DEF Init
  <2>5. /\ blocks \in {1, Blocks} /\ swept \in 0..blocks
        /\ discovered \in Nat /\ processed \in Nat /\ nmapOK \in Nat /\ nmapFailed \in Nat
    BY DEF Init
  <2>6. pending \subseteq Addrs /\ early \subseteq Addrs /\ cut \subseteq Addrs BY DEF Init
  <2> QED BY <2>1, <2>2, <2>3, <2>4, <2>5, <2>6 DEF TypeOK
<1>2. Placed BY DEF Init, Placed
<1>3. Counted BY DEF Init, Counted, CountedAt, Open, TasksOf
<1> QED BY <1>1, <1>2, <1>3 DEF Sound

LEMMA SoundInvariant == Spec => []Sound
<1>1. Sound /\ [Next]_vars => Sound' BY TypesKept, PlacedKept, CountedKept DEF Sound
<1> QED BY InitSound, <1>1, PTL DEF Spec

\* Every reachable state of RunScan is well typed: in particular the
\* tracker's count of a host, which is a difference, never goes below zero.
THEOREM TypeCorrect == Spec => []TypeOK
<1>1. Sound => TypeOK BY DEF Sound
<1> QED BY SoundInvariant, <1>1, PTL

-----------------------------------------------------------------------------
(* Covered: what the coverage says of each address. *)

CoveredAt(a) ==
  /\ a \in pending => host[a] # "unknown"
  /\ host[a] # "unknown" => a \in pending \/ a \in early
  /\ ~(a \in pending /\ a \in early)
  /\ a \in early => host[a] = "handed"
  /\ handed[a] = IF host[a] = "handed" THEN 1 ELSE 0
  /\ a \in cut => ctxDone /\ a \notin early

\* A host that was found is pending until it was handed on by a scan still
\* live, and it is handed on when it gets to "handed", once.
Covered == \A a \in Addrs : CoveredAt(a)

\* Steps that hand nothing on and find nothing.
LEMMA CoveredFrame ==
  ASSUME Covered, UNCHANGED <<pending, early, handed>>, ctxDone => ctxDone',
         \A a \in Addrs : \/ host'[a] = host[a]
                          \/ host[a] \notin {"unknown", "handed"} /\ host'[a] \notin {"unknown", "handed"},
         \A a \in Addrs : a \in cut' => a \in cut \/ (ctxDone /\ host[a] # "handed")
  PROVE  Covered'
BY DEF Covered, CoveredAt

LEMMA HandOnCovers ==
  ASSUME Sound, Covered, NEW a \in Addrs, HandOn(a), host[a] \notin {"unknown", "handed"}, UNCHANGED ctxDone,
         \A b \in Addrs : b \in cut' => b \in cut \/ (ctxDone /\ b = a)
  PROVE  Covered'
<1>1. \A b \in Addrs : b # a => CoveredAt(b)'
  BY DEF Sound, TypeOK, HandOn, HostDone, Covered, CoveredAt
<1>2. CoveredAt(a)'
  BY DEF Sound, TypeOK, HandOn, HostDone, Covered, CoveredAt
<1> QED BY <1>1, <1>2 DEF Covered

LEMMA CoveredKept == Sound /\ Covered /\ [Next]_vars => Covered'
<1> SUFFICES ASSUME Sound, Covered, [Next]_vars PROVE Covered' OBVIOUS
<1>t. TypeOK /\ Placed /\ Counted BY DEF Sound
<1> USE DEF coverVars, nmapVars, histVars
<1>1. CASE SweepEnds
  <2> PICK found \in SUBSET {a \in Addrs : BlockIn(a) = swept + 1} :
        /\ pending' = pending \cup found
        /\ host'    = [a \in Addrs |-> IF a \in found THEN "found" ELSE host[a]]
    BY <1>1 DEF SweepEnds, Cover
  <2>1. swept \in Nat BY <1>t, ScanPipelineAssumption DEF TypeOK
  <2>2. \A a \in found : host[a] = "unknown"
    BY <2>1, <1>t, ScanPipelineAssumption DEF Placed, BlockIn
  <2>3. UNCHANGED <<early, handed, cut, ctxDone>> BY <1>1 DEF SweepEnds
  <2> QED BY <2>2, <2>3 DEF Covered, CoveredAt
<1>2. CASE \/ StartSweep \/ SweepFails \/ BlockSent \/ CloseFeed \/ ReturnUnplanned \/ Plan
           \/ Cancel \/ SweepPanics \/ UNCHANGED vars
           \/ \E t \in Tasks : QueueTask(t) \/ TakeTask(t) \/ HandOnPanics(t)
  <2>1. UNCHANGED <<host, pending, early, handed, cut>> /\ (ctxDone => ctxDone')
    BY <1>2 DEF StartSweep, SweepFails, BlockSent, CloseFeed, ReturnUnplanned, Plan, Cancel,
                SweepPanics, HandOnPanics, QueueTask, TakeTask, vars
  <2> QED BY <2>1, CoveredFrame
<1>3. CASE \E a \in Addrs : Send(a) \/ TakeJob(a) \/ TakeRetry(a) \/ NmapFails(a) \/ ProbePanics(a)
  <2> PICK a \in Addrs : Send(a) \/ TakeJob(a) \/ TakeRetry(a) \/ NmapFails(a) \/ ProbePanics(a) BY <1>3
  <2>1. UNCHANGED <<pending, early, handed, cut, ctxDone>>
    BY DEF Send, TakeJob, TakeRetry, NmapFails, ProbePanics
  <2>2. \A b \in Addrs : \/ host'[b] = host[b]
                         \/ host[b] \notin {"unknown", "handed"} /\ host'[b] \notin {"unknown", "handed"}
    BY <1>t DEF Send, TakeJob, TakeRetry, Begin, NmapFails, GiveUp, ProbePanics, TypeOK
  <2> QED BY <2>1, <2>2, CoveredFrame
<1>4. CASE Proceed
  <2>1. UNCHANGED <<pending, early, handed, cut, ctxDone>>
    BY <1>4 DEF Proceed, EndPool, StopRetry, EndRetry, Return, Report
  <2>2. \A b \in Addrs : \/ host'[b] = host[b]
                         \/ host[b] \notin {"unknown", "handed"} /\ host'[b] \notin {"unknown", "handed"}
    BY <1>4, <1>t DEF Proceed, EndPool, StopRetry, EndRetry, Return, Report, GiveUp, In, TypeOK
  <2> QED BY <2>1, <2>2, CoveredFrame
<1>5. CASE \E t \in Tasks : DropTask(t) \/ TaskEnds(t)
  <2> PICK t \in Tasks : DropTask(t) \/ TaskEnds(t) BY <1>5
  <2> DEFINE h == TaskHost[t]
  <2>1. /\ Complete(h) /\ UNCHANGED ctxDone /\ task[t] \in {"due", "queued", "running"}
        /\ \A b \in Addrs : b \in cut' => b \in cut \/ (ctxDone /\ b = h)
    BY DEF DropTask, TaskEnds
  <2>2. h \in Addrs /\ host[h] \in {"tracked", "lost"}
    BY <2>1, <1>t, OpenMeansLeft
  <2> HIDE DEF h
  <2>3. CASE HandOn(h)
    BY <2>1, <2>2, <2>3, HandOnCovers
  <2>4. CASE StillWorking
    BY <2>1, <2>2, <2>4, CoveredFrame DEF StillWorking
  <2> QED BY <2>1, <2>3, <2>4 DEF Complete
<1>6. CASE \E a \in Addrs : NmapSucceeds(a)
  <2> PICK a \in Addrs : NmapSucceeds(a) BY <1>6
  <2>1. UNCHANGED <<ctxDone, cut>> /\ host[a] = "probing" BY DEF NmapSucceeds
  <2>2. \/ HandOn(a)
        \/ host' = [host EXCEPT ![a] = "tracked"] /\ UNCHANGED <<handed, early, pending>>
    BY DEF NmapSucceeds
  <2>3. CASE HandOn(a) BY <2>1, <2>3, HandOnCovers
  <2>4. CASE host' = [host EXCEPT ![a] = "tracked"] /\ UNCHANGED <<handed, early, pending>>
    BY <2>1, <2>4, <1>t, CoveredFrame DEF TypeOK
  <2> QED BY <2>2, <2>3, <2>4
<1>7. CASE \E a \in Addrs : CallbackPanics(a)
  <2> PICK a \in Addrs : CallbackPanics(a) BY <1>7
  <2>1. /\ UNCHANGED <<ctxDone, pending, early, handed>> /\ host' = [host EXCEPT ![a] = "lost"]
        /\ \A b \in Addrs : b \in cut' => b \in cut \/ (ctxDone /\ b = a)
    BY DEF CallbackPanics
  <2>2. host[a] \notin {"unknown", "handed"}
    BY <1>t, OpenMeansLeft DEF CallbackPanics, TasksOf
  <2> QED BY <2>1, <2>2, <1>t, CoveredFrame DEF TypeOK
<1> QED BY <1>1, <1>2, <1>3, <1>4, <1>5, <1>6, <1>7 DEF Next, Produce, Probe, Work

LEMMA CoveredInvariant == Spec => [](Sound /\ Covered)
<1>1. Init => Covered BY DEF Init, Covered, CoveredAt
<1>2. Sound /\ Covered /\ [Next]_vars => Covered' BY CoveredKept
<1> QED BY SoundInvariant, <1>1, <1>2, PTL DEF Spec

\* What a resume would scan misses nothing: every address is in the
\* remainder, or was found silent, or was handed on whole.
THEOREM NothingIsForgotten == Spec => []NothingForgotten
<1>1. Sound /\ Covered => NothingForgotten
  <2> SUFFICES ASSUME Sound, Covered, NEW a \in Addrs
               PROVE  a \in Remaining \/ Silent(a) \/ (handed[a] = 1 /\ a \notin cut)
    BY DEF NothingForgotten
  <2>1. CASE a \notin Swept BY <2>1 DEF Remaining
  <2>2. CASE a \in Swept /\ host[a] = "unknown" BY <2>2 DEF Silent
  <2>3. CASE a \in Swept /\ host[a] # "unknown"
    BY <2>3 DEF Covered, CoveredAt, Remaining
  <2> QED BY <2>1, <2>2, <2>3
<1> QED BY CoveredInvariant, <1>1, PTL

\* A resume scans no host again that was handed on before the cancellation,
\* and no address that was swept and found silent.
THEOREM NothingIsScannedTwice == Spec => []NothingTwice
<1>1. Sound /\ Covered => NothingTwice
  <2> SUFFICES ASSUME Sound, Covered, NEW a \in Remaining PROVE a \notin early /\ ~Silent(a)
    BY DEF NothingTwice
  <2>1. CASE blocks = 1 /\ swept = 0
    <3>1. a \in Addrs /\ a \notin Swept BY <2>1 DEF Remaining, Swept, BlockIn
    <3>2. host[a] = "unknown" BY <2>1, <3>1 DEF Sound, Placed, BlockIn
    <3> QED BY <3>1, <3>2 DEF Covered, CoveredAt, Silent
  <2>2. CASE ~(blocks = 1 /\ swept = 0)
    <3>1. a \in (Addrs \ Swept) \cup pending /\ a \in Addrs BY <2>2 DEF Remaining, Sound, TypeOK
    <3>2. CASE a \notin Swept
      <4>1. host[a] = "unknown" BY <3>1, <3>2 DEF Sound, Placed, Swept
      <4> QED BY <3>1, <3>2, <4>1 DEF Covered, CoveredAt, Silent
    <3>3. CASE a \in pending BY <3>1, <3>3 DEF Covered, CoveredAt, Silent
    <3> QED BY <3>1, <3>2, <3>3
  <2> QED BY <2>1, <2>2
<1> QED BY CoveredInvariant, <1>1, PTL

-----------------------------------------------------------------------------
(* Staged: what is over once RunScan has got to a stage. *)

Ended == stage \in {"draining", "returned", "reported"}

\* Where the feeder is at each stage.
FeederStaged ==
  /\ stage = "pool" => feeder # "resending"
  /\ stage = "retry" => feeder = "resending" \/ (feeder = "closed" /\ ctxDone)
  /\ stage = "draining" => feeder \in {"closed", "resending"}
  /\ stage \in {"returned", "reported"} => feeder \in {"between", "closed", "resending"}
  /\ feeder \in {"closed", "resending"} /\ ~failed /\ ~ctxDone => swept = blocks

\* Where an address cannot be any more.
HostStaged(a) ==
  /\ stage = "retry" \/ Ended => host[a] # "queued"
  /\ Ended => host[a] \notin {"probing", "doomed"} /\ ~Dispatching(a)
  /\ Ended /\ ~ctxDone => host[a] # "retry"
  /\ stage \in {"returned", "reported"} => host[a] # "tracked"
  /\ feeder \in {"between", "sweeping"} => host[a] # "found"
  /\ feeder \in {"closed", "resending"} /\ ~ctxDone => host[a] # "found"

OutcomeStaged ==
  /\ outcome # "none" => stage = "reported"
  /\ outcome = "completed" => ~ctxDone /\ ~failed

Staged == FeederStaged /\ OutcomeStaged /\ \A a \in Addrs : HostStaged(a)

\* Steps of the workers: a host leaves its state for one no stage forbids.
LEMMA StagedFrame ==
  ASSUME Staged, UNCHANGED <<stage, ctxDone, feeder, blocks, swept, failed, outcome>>,
         stage \notin {"returned", "reported"},
         \A a \in Addrs : \/ host'[a] = host[a]
                          \/ host'[a] \in {"tracked", "handed", "failed", "lost"}
                          \/ stage = "pool" /\ host'[a] \in {"queued", "retry"}
                          \/ ~Ended /\ host'[a] \in {"probing", "doomed"},
         \A a \in Addrs : Ended /\ Dispatching(a)' => Dispatching(a)
  PROVE  Staged'
<1>1. FeederStaged' /\ OutcomeStaged' BY DEF Staged, FeederStaged, OutcomeStaged
<1>2. ASSUME NEW a \in Addrs PROVE HostStaged(a)'
  <2>1. HostStaged(a) BY DEF Staged
  <2>2. Ended' = Ended BY DEF Ended
  <2>3. Ended => stage # "pool" BY DEF Ended
  <2> QED BY <2>1, <2>2, <2>3 DEF HostStaged
<1> QED BY <1>1, <1>2 DEF Staged

LEMMA ProduceStaged == Sound /\ Staged /\ Produce => Staged'
<1> SUFFICES ASSUME Sound, Staged, Produce PROVE Staged' OBVIOUS
<1>0. stage = "pool" /\ stage' = "pool" /\ UNCHANGED <<task, outcome, ctxDone>>
  BY DEF Produce, StartSweep, SweepEnds, SweepFails, BlockSent, CloseFeed, Send
<1>1. OutcomeStaged' BY <1>0 DEF Staged, OutcomeStaged
<1>2. FeederStaged'
  BY <1>0 DEF Produce, StartSweep, SweepEnds, SweepFails, BlockSent, CloseFeed, Send, Staged, FeederStaged,
              coverVars
<1>3. ASSUME NEW a \in Addrs PROVE HostStaged(a)'
  <2>1. HostStaged(a) BY DEF Staged
  <2>2. ~Ended' BY <1>0 DEF Ended
  <2>3. CASE SweepEnds
    <3>1. feeder' = "sending" BY <2>3 DEF SweepEnds
    <3> QED BY <1>0, <2>2, <3>1 DEF HostStaged
  <2>4. CASE SweepFails
    <3>1. feeder = "sweeping" /\ UNCHANGED host BY <2>4 DEF SweepFails
    <3> QED BY <1>0, <2>1, <2>2, <3>1 DEF HostStaged
  <2>5. CASE StartSweep
    BY <1>0, <2>1, <2>2, <2>5 DEF StartSweep, HostStaged
  <2>6. CASE BlockSent
    BY <1>0, <2>1, <2>2, <2>6 DEF BlockSent, HostStaged, In
  <2>7. CASE CloseFeed
    BY <1>0, <2>1, <2>2, <2>7 DEF CloseFeed, HostStaged
  <2>8. CASE \E b \in Addrs : Send(b)
    BY <1>0, <2>1, <2>2, <2>8 DEF Send, HostStaged, Sound, TypeOK
  <2> QED BY <2>3, <2>4, <2>5, <2>6, <2>7, <2>8 DEF Produce
<1> QED BY <1>1, <1>2, <1>3 DEF Staged

LEMMA ProbeStaged == \A a \in Addrs : Sound /\ Staged /\ (Probe(a) \/ ProbePanics(a) \/ CallbackPanics(a)) => Staged'
<1> SUFFICES ASSUME NEW a \in Addrs, Sound, Staged, Probe(a) \/ ProbePanics(a) \/ CallbackPanics(a)
             PROVE Staged'
  OBVIOUS
<1>t. TypeOK BY DEF Sound
<1>a. HostStaged(a) BY DEF Staged
<1> USE DEF coverVars, nmapVars, histVars
<1>1. CASE TakeJob(a) \/ TakeRetry(a)
  BY <1>1, <1>t, StagedFrame DEF TakeJob, TakeRetry, Begin, Ended, TypeOK, Dispatching, TasksOf
<1>2. CASE NmapFails(a)
  <2>1. ~Ended BY <1>2, <1>a DEF NmapFails, HostStaged
  <2>2. \A b \in Addrs : \/ host'[b] = host[b]
                         \/ host'[b] = "failed"
                         \/ stage = "pool" /\ host'[b] = "retry"
    BY <1>2, <1>t DEF NmapFails, GiveUp, TypeOK
  <2> QED BY <1>2, <2>1, <2>2, StagedFrame DEF NmapFails, Ended
<1>3. CASE NmapSucceeds(a)
  <2>1. ~Ended BY <1>3, <1>a DEF NmapSucceeds, HostStaged
  <2>2. \A b \in Addrs : host'[b] = host[b] \/ host'[b] \in {"handed", "tracked"}
    BY <1>3, <1>t DEF NmapSucceeds, HandOn, TypeOK
  <2> QED BY <1>3, <2>1, <2>2, StagedFrame DEF NmapSucceeds, Ended
<1>4. CASE ProbePanics(a)
  <2>1. ~Ended BY <1>4, <1>a DEF ProbePanics, HostStaged
  <2> QED BY <1>4, <1>t, <2>1, StagedFrame DEF ProbePanics, Ended, TypeOK
<1>5. CASE CallbackPanics(a)
  <2>1. ~Ended BY <1>5, <1>a DEF CallbackPanics, HostStaged, Dispatching
  <2> QED BY <1>5, <1>t, <2>1, StagedFrame DEF CallbackPanics, Ended, TypeOK
<1> QED BY <1>1, <1>2, <1>3, <1>4, <1>5 DEF Probe

LEMMA WorkStaged == \A t \in Tasks : Sound /\ Staged /\ Work(t) => Staged'
<1> SUFFICES ASSUME NEW t \in Tasks, Sound, Staged, Work(t) PROVE Staged' OBVIOUS
<1>t. TypeOK /\ Counted BY DEF Sound
<1> USE DEF coverVars, nmapVars, histVars
<1>1. /\ UNCHANGED <<stage, ctxDone, feeder, blocks, swept, failed, outcome>>
      /\ stage \notin {"returned", "reported"}
  BY DEF Work, QueueTask, TakeTask, DropTask, TaskEnds, Running
<1>2. \A a \in Addrs : Dispatching(a)' => Dispatching(a)
  BY <1>t DEF Work, QueueTask, TakeTask, DropTask, TaskEnds, Dispatching, TasksOf, TypeOK
<1>3. \A a \in Addrs : host'[a] = host[a] \/ host'[a] = "handed"
  BY <1>t DEF Work, QueueTask, TakeTask, DropTask, TaskEnds, Complete, HandOn, StillWorking, TypeOK
<1> QED BY <1>1, <1>2, <1>3, StagedFrame

LEMMA ProceedStaged == Sound /\ Staged /\ Proceed => Staged'
<1> SUFFICES ASSUME Sound, Staged, Proceed PROVE Staged' OBVIOUS
<1>t. TypeOK /\ Counted BY DEF Sound
<1> USE DEF coverVars, nmapVars, histVars
<1>0. UNCHANGED <<task, ctxDone, blocks, swept>>
  BY DEF Proceed, EndPool, StopRetry, EndRetry, Return, Report
<1>d. \A a \in Addrs : Dispatching(a)' = Dispatching(a)
  BY <1>0 DEF Dispatching, TasksOf
<1>1. FeederStaged'
  BY <1>0 DEF Proceed, EndPool, PoolEnded, StopRetry, EndRetry, Return, Verdict, Report, Staged, FeederStaged
<1>2. OutcomeStaged'
  BY <1>0 DEF Proceed, EndPool, PoolEnded, StopRetry, EndRetry, Return, Verdict, Report, Staged, OutcomeStaged
<1>3. ASSUME NEW a \in Addrs PROVE HostStaged(a)'
  <2>1. HostStaged(a) BY DEF Staged
  <2>2. CASE EndPool
    <3>1. /\ host[a] \notin {"queued", "probing", "doomed"} /\ ~Dispatching(a)
          /\ stage = "pool" /\ feeder = "closed" /\ failed' = failed
      BY <2>2 DEF EndPool, PoolEnded, In, Busy
    <3>2. CASE In("retry") = {} \/ ctxDone \/ Systemic
      <4>1. /\ stage' = "draining" /\ feeder' = feeder
            /\ host'[a] = IF host[a] = "retry" THEN "failed" ELSE host[a]
        BY <2>2, <3>2, <1>t DEF EndPool, GiveUp, In
      <4> QED BY <1>0, <1>d, <2>1, <3>1, <4>1 DEF HostStaged, Ended
    <3>3. CASE ~(In("retry") = {} \/ ctxDone \/ Systemic)
      <4>1. stage' = "retry" /\ feeder' = "resending" /\ host' = host
        BY <2>2, <3>3 DEF EndPool
      <4> QED BY <1>0, <1>d, <2>1, <3>1, <4>1 DEF HostStaged, Ended
    <3> QED BY <3>2, <3>3
  <2>3. CASE StopRetry
    BY <1>0, <1>d, <2>1, <2>3 DEF StopRetry, HostStaged, Ended
  <2>4. CASE EndRetry
    <3>1. host[a] \notin {"probing", "doomed"} /\ ~Dispatching(a) /\ host[a] # "queued"
      BY <2>1, <2>4 DEF EndRetry, HostStaged, In, Busy
    <3>2. ~ctxDone => host[a] # "retry"
      BY <2>4 DEF EndRetry, Staged, FeederStaged, In
    <3> QED BY <1>0, <1>d, <2>1, <2>4, <3>1, <3>2 DEF EndRetry, HostStaged, Ended
  <2>5. CASE Return
    <3>1. ~Dispatching(a) /\ Ended BY <2>1, <2>5 DEF Return, HostStaged, Ended
    <3>2. Open(a) = {} BY <2>5, <3>1 DEF Return, Open, Dispatching, TasksOf
    <3>3. host[a] # "tracked" BY <1>t, <3>2 DEF Counted, CountedAt
    <3>4. stage = "draining" /\ stage' = "returned" /\ host' = host /\ feeder' = feeder
      BY <2>5 DEF Return
    <3>5. failed => failed' BY <2>5 DEF Return, Verdict
    <3> QED BY <1>0, <1>d, <2>1, <3>1, <3>3, <3>4, <3>5 DEF HostStaged, Ended
  <2>6. CASE Report
    BY <1>0, <1>d, <2>1, <2>6 DEF Report, HostStaged, Ended
  <2> QED BY <2>2, <2>3, <2>4, <2>5, <2>6 DEF Proceed
<1> QED BY <1>1, <1>2, <1>3 DEF Staged

LEMMA OtherStaged ==
  Sound /\ Staged
    /\ (ReturnUnplanned \/ Plan \/ Cancel \/ SweepPanics \/ UNCHANGED vars \/ \E t \in Tasks : HandOnPanics(t))
  => Staged'
<1> SUFFICES ASSUME Sound, Staged,
                    ReturnUnplanned \/ Plan \/ Cancel \/ SweepPanics \/ UNCHANGED vars \/ \E t \in Tasks : HandOnPanics(t)
             PROVE  Staged'
  OBVIOUS
<1>t. TypeOK /\ Placed /\ Counted BY DEF Sound
<1> USE DEF coverVars, nmapVars, histVars
<1>0. UNCHANGED <<task, host, feeder, swept, outcome>>
  BY DEF ReturnUnplanned, Plan, Cancel, SweepPanics, HandOnPanics, vars
<1>d. \A a \in Addrs : Dispatching(a)' = Dispatching(a)
  BY <1>0 DEF Dispatching, TasksOf
<1>1. CASE ReturnUnplanned \/ Plan
  <2>1. feeder = "between" /\ outcome = "none" /\ stage = "start" /\ stage' \in {"returned", "pool"}
    BY <1>1, <1>t DEF ReturnUnplanned, Plan, Placed, Staged, OutcomeStaged
  <2>2. \A a \in Addrs : host[a] = "unknown" /\ ~Dispatching(a)
    BY <2>1, <1>t DEF Placed, Counted, CountedAt, Open, Dispatching, TasksOf
  <2>3. FeederStaged' /\ OutcomeStaged' BY <1>0, <2>1 DEF FeederStaged, OutcomeStaged
  <2>4. \A a \in Addrs : HostStaged(a)' BY <1>0, <1>d, <2>1, <2>2 DEF HostStaged
  <2> QED BY <2>3, <2>4 DEF Staged
<1>2. CASE Cancel
  BY <1>0, <1>d, <1>2 DEF Cancel, Staged, FeederStaged, OutcomeStaged, HostStaged, Ended
<1>3. CASE SweepPanics \/ \E t \in Tasks : HandOnPanics(t)
  <2>1. /\ stage' = "crashed" /\ UNCHANGED <<ctxDone, failed, blocks>>
        /\ stage # "reported"
    BY <1>3 DEF SweepPanics, HandOnPanics, Running
  <2>2. FeederStaged' /\ OutcomeStaged' BY <1>0, <2>1 DEF Staged, FeederStaged, OutcomeStaged
  <2>3. \A a \in Addrs : HostStaged(a)' BY <1>0, <1>d, <2>1 DEF Staged, HostStaged, Ended
  <2> QED BY <2>2, <2>3 DEF Staged
<1>4. CASE UNCHANGED vars
  BY <1>d, <1>4 DEF vars, Staged, FeederStaged, OutcomeStaged, HostStaged, Ended
<1> QED BY <1>1, <1>2, <1>3, <1>4

LEMMA StagedInvariant == Spec => [](Sound /\ Covered /\ Staged)
<1>1. Init => Staged
  BY DEF Init, Staged, FeederStaged, OutcomeStaged, HostStaged, Ended
<1>2. Sound /\ Staged /\ [Next]_vars => Staged'
  BY ProduceStaged, ProbeStaged, WorkStaged, ProceedStaged, OtherStaged DEF Next
<1> QED BY CoveredInvariant, <1>1, <1>2, PTL DEF Spec

\* No host is handed on twice, and when RunScan has returned the tracker
\* waits for none.
THEOREM HandedOnOnlyOnce == Spec => []HandedOnOnce
<1>1. Sound /\ Covered /\ Staged => HandedOnOnce
  BY DEF HandedOnOnce, Covered, CoveredAt, Staged, HostStaged
<1> QED BY StagedInvariant, <1>1, PTL

\* Completed means that discovery swept every block and that every host it
\* found was dealt with to the end.
THEOREM CompletedMeansSwept == Spec => []CompletedIsSwept
<1>1. Sound /\ Covered /\ Staged => CompletedIsSwept
  <2> SUFFICES ASSUME Sound, Staged, outcome = "completed", Planned
               PROVE  /\ swept = blocks
                      /\ \A a \in Addrs : host[a] \in {"unknown", "handed", "failed", "lost"}
    BY DEF CompletedIsSwept
  <2>1. stage = "reported" /\ ~ctxDone /\ ~failed BY DEF Staged, OutcomeStaged
  <2>2. feeder \in {"closed", "resending"} BY <2>1 DEF Planned, Staged, FeederStaged
  <2>3. swept = blocks BY <2>1, <2>2 DEF Staged, FeederStaged
  <2>4. \A a \in Addrs : host[a] \in {"unknown", "handed", "failed", "lost"}
    BY <2>1, <2>2 DEF Staged, HostStaged, Ended, Sound, TypeOK, HostStates
  <2> QED BY <2>3, <2>4
<1> QED BY StagedInvariant, <1>1, PTL

-----------------------------------------------------------------------------
(* Tally: the two counters of the progress bar are the hosts found and the *)
(* hosts dealt with.                                                       *)

Known   == {a \in Addrs : host[a] # "unknown"}
Settled == {a \in Addrs : host[a] \in {"handed", "failed"}}

Tally ==
  /\ discovered = Cardinality(Known)
  /\ processed = Cardinality(Settled)
  /\ \A a \in Addrs : host[a] = "lost" => panics > 0

\* A step that finds the hosts F and is done with the hosts D.
LEMMA TallyMoves ==
  ASSUME TypeOK, Tally, NEW F \in SUBSET Addrs, NEW D \in SUBSET Addrs,
         F \cap Known = {}, D \cap Settled = {},
         Known' = Known \cup F, Settled' = Settled \cup D,
         discovered' = discovered + Cardinality(F), processed' = processed + Cardinality(D),
         \A a \in Addrs : host'[a] = "lost" => panics' > 0
  PROVE  Tally'
<1>1. /\ IsFiniteSet(F) /\ IsFiniteSet(D) /\ IsFiniteSet(Known) /\ IsFiniteSet(Settled)
      /\ Cardinality(F) \in Nat /\ Cardinality(D) \in Nat
      /\ Cardinality(Known) \in Nat /\ Cardinality(Settled) \in Nat
  <2>1. Known \subseteq Addrs /\ Settled \subseteq Addrs BY DEF Known, Settled
  <2> QED BY <2>1, AddrsAreCounted
<1>2. Cardinality(Known \cap F) = 0 /\ Cardinality(Settled \cap D) = 0
  <2>1. Known \cap F = {} /\ Settled \cap D = {} OBVIOUS
  <2> QED BY <2>1, FS_EmptySet
<1>3. Cardinality(Known \cup F) = Cardinality(Known) + Cardinality(F) - Cardinality(Known \cap F)
  BY <1>1, FS_Union
<1>4. Cardinality(Settled \cup D) = Cardinality(Settled) + Cardinality(D) - Cardinality(Settled \cap D)
  BY <1>1, FS_Union
<1>5. discovered' = Cardinality(Known') /\ processed' = Cardinality(Settled')
  BY <1>1, <1>2, <1>3, <1>4 DEF Tally
<1> QED BY <1>5 DEF Tally

\* Most steps find nothing and are done with nothing.
LEMMA TallyFrame ==
  ASSUME TypeOK, Tally, UNCHANGED <<discovered, processed>>, panics' \in {panics, panics + 1},
         \A a \in Addrs : \/ host'[a] = host[a]
                          \/ host[a] \notin {"unknown", "handed", "failed"}
                             /\ host'[a] \notin {"unknown", "handed", "failed"}
                             /\ (host'[a] = "lost" => panics' > 0)
  PROVE  Tally'
<1>1. Known' = Known \cup {} /\ Settled' = Settled \cup {} BY DEF Known, Settled
<1>2. /\ Cardinality({}) = 0 /\ discovered \in Nat /\ processed \in Nat
      /\ panics \in Nat
  BY FS_EmptySet, ScanPipelineAssumption DEF TypeOK
<1>3. \A a \in Addrs : host'[a] = "lost" => panics' > 0
  <2>1. panics > 0 => panics' > 0 BY <1>2
  <2> QED BY <2>1 DEF Tally
<1>4. discovered' = discovered + Cardinality({}) /\ processed' = processed + Cardinality({})
  BY <1>2
<1> QED BY <1>1, <1>3, <1>4, TallyMoves

LEMMA HandOnTallies ==
  ASSUME TypeOK, Tally, NEW a \in Addrs, host[a] \notin {"unknown", "handed", "failed"},
         HandOn(a), UNCHANGED <<discovered, panics>>
  PROVE  Tally'
<1>1. host' = [host EXCEPT ![a] = "handed"] /\ processed' = processed + 1 BY DEF HandOn
<1>2. /\ Known' = Known \cup {} /\ Settled' = Settled \cup {a} /\ a \notin Settled
      /\ \A b \in Addrs : host'[b] = "lost" => host[b] = "lost"
  BY <1>1 DEF TypeOK, Known, Settled
<1>3. Cardinality({}) = 0 /\ Cardinality({a}) = 1 /\ discovered \in Nat
  BY FS_EmptySet, FS_Singleton DEF TypeOK
<1>4. discovered' = discovered + Cardinality({}) /\ processed' = processed + Cardinality({a})
  BY <1>1, <1>3
<1>5. \A b \in Addrs : host'[b] = "lost" => panics' > 0 BY <1>2 DEF Tally
<1>6. {} \in SUBSET Addrs /\ {a} \in SUBSET Addrs /\ {} \cap Known = {} /\ {a} \cap Settled = {}
  BY <1>2
<1> QED BY <1>2, <1>4, <1>5, <1>6, TallyMoves

LEMMA GiveUpTallies ==
  ASSUME TypeOK, Tally, NEW gone \in SUBSET Addrs,
         \A a \in gone : host[a] \notin {"unknown", "handed", "failed"},
         GiveUp(gone), UNCHANGED <<discovered, panics>>
  PROVE  Tally'
<1>1. /\ host' = [a \in Addrs |-> IF a \in gone THEN "failed" ELSE host[a]]
      /\ processed' = processed + Cardinality(gone)
  BY DEF GiveUp
<1>2. /\ Known' = Known \cup {} /\ Settled' = Settled \cup gone /\ gone \cap Settled = {}
      /\ \A b \in Addrs : host'[b] = "lost" => host[b] = "lost"
  BY <1>1 DEF TypeOK, Known, Settled
<1>3. discovered' = discovered + Cardinality({}) BY FS_EmptySet DEF TypeOK
<1>4. \A b \in Addrs : host'[b] = "lost" => panics' > 0 BY <1>2 DEF Tally
<1>5. {} \in SUBSET Addrs /\ {} \cap Known = {} OBVIOUS
<1> QED BY <1>1, <1>2, <1>3, <1>4, <1>5, TallyMoves

LEMMA CompleteTallies ==
  ASSUME Sound, Tally, NEW t \in Tasks, task[t] \in {"due", "queued", "running"},
         Complete(TaskHost[t]), UNCHANGED <<discovered, panics>>
  PROVE  Tally'
<1> DEFINE a == TaskHost[t]
<1>1. /\ TypeOK /\ a \in Addrs /\ host[a] \in {"tracked", "lost"} /\ left[a] \in Nat
      /\ host[a] = "lost" => left[a] >= 2
  BY OpenMeansLeft DEF Sound
<1>2. CASE left[a] =< 1
  <2>1. HandOn(a) BY <1>2 DEF Complete
  <2>2. host[a] = "tracked" BY <1>1, <1>2
  <2> QED BY <1>1, <2>1, <2>2, HandOnTallies
<1>3. CASE ~(left[a] =< 1)
  <2>1. UNCHANGED <<host, processed>> BY <1>3 DEF Complete, StillWorking
  <2> QED BY <1>1, <2>1, TallyFrame
<1> QED BY <1>2, <1>3

LEMMA TallyKept == Sound /\ Tally /\ [Next]_vars => Tally'
<1> SUFFICES ASSUME Sound, Tally, [Next]_vars PROVE Tally' OBVIOUS
<1>t. TypeOK /\ Placed /\ Counted /\ panics \in Nat
  BY ScanPipelineAssumption DEF Sound, TypeOK
<1>m. Panic => panics' = panics + 1 /\ panics' > 0 BY <1>t DEF Panic
<1> USE DEF coverVars, nmapVars, histVars
<1>1. CASE SweepEnds
  <2>1. PICK found \in SUBSET {a \in Addrs : BlockIn(a) = swept + 1} :
          /\ host' = [a \in Addrs |-> IF a \in found THEN "found" ELSE host[a]]
          /\ discovered' = discovered + Cardinality(found)
    BY <1>1 DEF SweepEnds
  <2>2. swept \in Nat /\ \A a \in Addrs : BlockIn(a) \in Nat
    BY <1>t, ScanPipelineAssumption DEF TypeOK, BlockIn
  <2>3. \A a \in found : a \in Addrs /\ host[a] = "unknown"
    BY <2>1, <2>2, <1>t DEF Placed
  <2>4. /\ Known' = Known \cup found /\ Settled' = Settled \cup {} /\ found \cap Known = {}
        /\ \A b \in Addrs : host'[b] = "lost" => host[b] = "lost"
    BY <2>1, <2>3 DEF Known, Settled
  <2>5. Cardinality({}) = 0 /\ processed \in Nat BY <1>t, FS_EmptySet DEF TypeOK
  <2>6. processed' = processed /\ panics' = panics BY <1>1 DEF SweepEnds
  <2>7. \A b \in Addrs : host'[b] = "lost" => panics' > 0 BY <2>4, <2>6 DEF Tally
  <2>8. processed' = processed + Cardinality({}) BY <2>5, <2>6
  <2>9. found \in SUBSET Addrs BY <2>3
  <2> QED BY <2>1, <2>4, <2>7, <2>8, <2>9, <1>t, TallyMoves
<1>2. CASE StartSweep \/ SweepFails \/ BlockSent \/ CloseFeed \/ ReturnUnplanned \/ Plan \/ Cancel \/ UNCHANGED vars
  <2>1. UNCHANGED <<discovered, processed, host, panics>>
    BY <1>2 DEF StartSweep, SweepFails, BlockSent, CloseFeed, ReturnUnplanned, Plan, Cancel, vars
  <2> QED BY <2>1, <1>t, TallyFrame
<1>3. CASE SweepPanics \/ \E t \in Tasks : HandOnPanics(t)
  <2>1. UNCHANGED <<discovered, processed, host>> /\ Panic
    BY <1>3 DEF SweepPanics, HandOnPanics
  <2> QED BY <2>1, <1>t, <1>m, TallyFrame
<1>4. CASE \E a \in Addrs : Send(a) \/ TakeJob(a) \/ TakeRetry(a)
  <2>1. PICK a \in Addrs : Send(a) \/ TakeJob(a) \/ TakeRetry(a) BY <1>4
  <2>2. UNCHANGED <<discovered, processed, panics>> /\ host[a] \in {"found", "queued", "retry"}
    BY <2>1 DEF Send, TakeJob, TakeRetry
  <2>3. \A b \in Addrs : host'[b] = host[b] \/ (b = a /\ host'[b] \in {"queued", "doomed", "probing"})
    BY <2>1, <1>t DEF Send, TakeJob, TakeRetry, Begin, TypeOK
  <2> QED BY <2>2, <2>3, <1>t, TallyFrame
<1>5. CASE \E a \in Addrs : NmapFails(a)
  <2>1. PICK a \in Addrs : NmapFails(a) BY <1>5
  <2>2. host[a] \in {"probing", "doomed"} /\ UNCHANGED <<discovered, panics>> BY <2>1 DEF NmapFails
  <2>3. CASE GiveUp({a}) BY <2>2, <2>3, <1>t, GiveUpTallies
  <2>4. CASE ~GiveUp({a})
    <3>1. host' = [host EXCEPT ![a] = "retry"] /\ UNCHANGED processed BY <2>1, <2>4 DEF NmapFails
    <3>2. \A b \in Addrs : host'[b] = host[b] \/ (b = a /\ host'[b] = "retry")
      BY <3>1, <1>t DEF TypeOK
    <3> QED BY <2>2, <3>1, <3>2, <1>t, TallyFrame
  <2> QED BY <2>3, <2>4
<1>6. CASE \E a \in Addrs : NmapSucceeds(a)
  <2>1. PICK a \in Addrs : NmapSucceeds(a) BY <1>6
  <2>2. host[a] = "probing" /\ UNCHANGED <<discovered, panics>> BY <2>1 DEF NmapSucceeds
  <2>3. CASE HandOn(a) BY <2>2, <2>3, <1>t, HandOnTallies
  <2>4. CASE ~HandOn(a)
    <3>1. host' = [host EXCEPT ![a] = "tracked"] /\ UNCHANGED processed BY <2>1, <2>4 DEF NmapSucceeds
    <3>2. \A b \in Addrs : host'[b] = host[b] \/ (b = a /\ host'[b] = "tracked")
      BY <3>1, <1>t DEF TypeOK
    <3> QED BY <2>2, <3>1, <3>2, <1>t, TallyFrame
  <2> QED BY <2>3, <2>4
<1>7. CASE \E a \in Addrs : ProbePanics(a) \/ CallbackPanics(a)
  <2>1. PICK a \in Addrs : ProbePanics(a) \/ CallbackPanics(a) BY <1>7
  <2>2. UNCHANGED <<discovered, processed>> /\ Panic /\ host' = [host EXCEPT ![a] = "lost"]
    BY <2>1 DEF ProbePanics, CallbackPanics
  <2>3. host[a] \notin {"unknown", "handed", "failed"}
    <3>1. CASE host[a] \in {"probing", "doomed", "tracked"} BY <3>1
    <3>2. CASE \E t \in TasksOf(a) : task[t] = "due"
      BY <3>2, <1>t, OpenMeansLeft DEF TasksOf
    <3> QED BY <2>1, <3>1, <3>2 DEF ProbePanics, CallbackPanics
  <2>4. \A b \in Addrs : host'[b] = host[b] \/ (b = a /\ host'[b] = "lost")
    BY <2>2, <1>t DEF TypeOK
  <2> QED BY <2>2, <2>3, <2>4, <1>t, <1>m, TallyFrame
<1>8. CASE \E t \in Tasks : QueueTask(t) \/ TakeTask(t)
  <2>1. UNCHANGED <<discovered, processed, host, panics>> BY <1>8 DEF QueueTask, TakeTask
  <2> QED BY <2>1, <1>t, TallyFrame
<1>9. CASE \E t \in Tasks : DropTask(t) \/ TaskEnds(t)
  <2>1. PICK t \in Tasks : DropTask(t) \/ TaskEnds(t) BY <1>9
  <2>2. /\ task[t] \in {"due", "queued", "running"} /\ Complete(TaskHost[t])
        /\ UNCHANGED <<discovered, panics>>
    BY <2>1 DEF DropTask, TaskEnds
  <2> QED BY <2>2, CompleteTallies
<1>10. CASE EndPool
  <2>1. UNCHANGED <<discovered, panics>> BY <1>10 DEF EndPool
  <2>2. CASE GiveUp(In("retry"))
    <3>1. In("retry") \in SUBSET Addrs /\ \A a \in In("retry") : host[a] = "retry" BY DEF In
    <3> QED BY <2>1, <2>2, <3>1, <1>t, GiveUpTallies
  <2>3. CASE ~GiveUp(In("retry"))
    <3>1. UNCHANGED <<host, processed>> BY <1>10, <2>3 DEF EndPool
    <3> QED BY <2>1, <3>1, <1>t, TallyFrame
  <2> QED BY <2>2, <2>3
<1>11. CASE StopRetry \/ EndRetry \/ Return \/ Report
  <2>1. UNCHANGED <<discovered, processed, host, panics>>
    BY <1>11 DEF StopRetry, EndRetry, Return, Report
  <2> QED BY <2>1, <1>t, TallyFrame
<1> QED BY <1>1, <1>2, <1>3, <1>4, <1>5, <1>6, <1>7, <1>8, <1>9, <1>10, <1>11
        DEF Next, Produce, Proceed, Probe, Work

LEMMA TallyInvariant == Spec => [](Sound /\ Covered /\ Staged /\ Tally)
<1>1. Init => Tally
  <2> SUFFICES ASSUME Init PROVE Tally OBVIOUS
  <2>1. Known = {} /\ Settled = {} BY DEF Init, Known, Settled
  <2>2. Cardinality(Known) = 0 /\ Cardinality(Settled) = 0 BY <2>1, FS_EmptySet
  <2> QED BY <2>2 DEF Init, Tally
<1> QED BY StagedInvariant, TallyKept, <1>1, PTL DEF Spec

\* The progress bar never counts more hosts as dealt with than were found,
\* and both counts agree at the end of a scan that nothing interrupted.
THEOREM ProgressKeepsAddingUp == Spec => []ProgressAddsUp
<1>1. Sound /\ Covered /\ Staged /\ Tally => ProgressAddsUp
  <2> SUFFICES ASSUME Sound, Staged, Tally PROVE ProgressAddsUp OBVIOUS
  <2>1. Settled \subseteq Known /\ Known \subseteq Addrs BY DEF Settled, Known
  <2>2. /\ IsFiniteSet(Known) /\ Cardinality(Settled) =< Cardinality(Known)
    <3>1. IsFiniteSet(Known) BY <2>1, AddrsAreCounted
    <3> QED BY <2>1, <3>1, FS_Subset
  <2>3. ASSUME stage = "reported", ~ctxDone, panics = 0 PROVE Known = Settled
    <3>1. feeder \in {"between", "closed", "resending"} BY <2>3 DEF Staged, FeederStaged
    <3>2. \A a \in Addrs : host[a] # "lost" BY <2>3 DEF Tally
    <3>3. \A a \in Addrs : host[a] \in {"unknown", "handed", "failed"}
      BY <2>3, <3>1, <3>2 DEF Staged, HostStaged, Ended, Sound, TypeOK, HostStates
    <3> QED BY <3>3 DEF Known, Settled
  <2> QED BY <2>2, <2>3 DEF Tally, ProgressAddsUp
<1> QED BY TallyInvariant, <1>1, PTL

-----------------------------------------------------------------------------
\* No work is done twice, handed on twice or left undone, for any target.
THEOREM WorkStaysOrderly == Spec => []WorkIsOrderly
<1>1. TypeOK /\ NothingTwice /\ HandedOnOnce /\ CompletedIsSwept => WorkIsOrderly
  BY DEF WorkIsOrderly
<1> QED BY <1>1, TypeCorrect, NothingIsScannedTwice, HandedOnOnlyOnce, CompletedMeansSwept, PTL
=============================================================================
