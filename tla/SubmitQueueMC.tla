--------------------------- MODULE SubmitQueueMC ---------------------------
(* Small instances of SubmitQueue for TLC: one or two results, the watcher *)
(* of a serve process and an operator's flush.                             *)
EXTENDS SubmitQueue

CONSTANTS R1, R2, Serve, Flush

\* Any two submissions may fail. A third and fourth do so while no fault
\* happens and the other result is through: enough for two drains to lose one
\* of two counts and an entry to be given up after that.
OutageBound ==
  outages' > 2 => faults' = 0 /\ live'[R2] = "done" /\ entry'[R2] = "none"

BoundedSpec ==
  /\ Init /\ [][Next /\ OutageBound]_vars
  /\ WF_vars(DrainStep(Watcher)) /\ \A r \in Results : WF_vars(Callback(r))
=============================================================================
