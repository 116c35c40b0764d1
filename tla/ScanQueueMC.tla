---------------------------- MODULE ScanQueueMC ----------------------------
(* Small instances of ScanQueue for TLC: one or two scanners of one slot,  *)
(* two jobs of the queue, or one beside a local one.                       *)
EXTENDS ScanQueueRefinement, TLC

CONSTANTS a1, a2, r1, r2, r3, h1, j1, j2, jl

\* Every request is for a1, so a second scanner must find nothing to claim.
FirstAgentOf == [r \in Requests |-> a1]

\* r1 is a host's rescan, the others (and the resumes) are ad-hoc.
Priorities   == [r \in Requests |-> IF r = r1 THEN 0 ELSE 1]
SamePriority == [r \in Requests |-> 1]
Hosts        == [r \in Requests |-> IF r = r1 THEN h1 ELSE NoHost]
NoHosts      == [r \in Requests |-> NoHost]

\* reported and orphaned are history no action reads: two states that differ
\* in them alone have the same future for the safety properties.
SafetyView == <<reqVars, jobVars, web, scannerVars, faults>>

\* The second scanner, for which there is nothing to claim, asks only before the
\* fault and has no local job (what it does touches no row and no other scanner);
\* after the fault one operator clicks at a time.
FaultBound ==
  /\ \A a \in Agents \ {a1} : /\ faults > 0 => poll[a] = IdlePoll
                              /\ \A j \in LocalJobs : jobAgent[j] # a
  /\ faults > 0 => Cardinality({s \in Sessions : web[s] # IdleWeb}) <= 1

\* A job of the local endpoint is looked at with the ad-hoc requests r2 and r3
\* and without a fault; r1 and r2 are for the rest.
LocalBound ==
  IF \A j \in LocalJobs : jobStatus[j] = "none" THEN r3 \notin Rows
  ELSE r1 \notin Rows /\ faults = 0 /\ \A a \in Agents \ {a1} : poll[a] = IdlePoll

\* Beside it one job of the queue is run, or operators click.
BesideLocal ==
  (\E j \in LocalJobs : jobStatus[j] # "none") =>
    Cardinality({j \in Jobs \ LocalJobs : jobStatus[j] # "none"})
      <= IF \A s \in Sessions : web[s] = IdleWeb THEN 1 ELSE 0

SafetySpec == Init /\ [][Next /\ FaultBound' /\ LocalBound']_vars

JobSymmetry == Permutations(Jobs \ LocalJobs) \cup Permutations(Sessions)
=============================================================================
