------------------------ MODULE ScanQueueRefinement ------------------------
(* The queue protocol implements ScanLifecycle: the dashboard's word for a *)
(* request is read off its row, the work off the goroutine that ran it.    *)
EXTENDS ScanQueue

\* attemptState of scanGroups/routes.ts.
StateOf(r) ==
  CASE reqStatus[r] = "none"    -> "absent"
    [] reqStatus[r] = "pending" -> "queued"
    [] reqStatus[r] = "claimed" -> "running"
    [] OTHER                    -> reqStatus[r]

WorkOf(r) ==
  LET J == {j \in Jobs : jobReq[j] = r}
  IN  CASE J = {}                          -> "none"
        [] \E j \in J : Scanning(j)        -> "busy"
        [] \E j \in J : result[j] = "whole" -> "whole"
        [] OTHER                           -> "partial"

Lifecycle == INSTANCE ScanLifecycle WITH
  state <- [r \in Requests |-> StateOf(r)],
  work  <- [r \in Requests |-> WorkOf(r)]

\* Every behaviour of webserver and scanners, with lost calls, crashes and
\* racing operators, is one the dashboard's life cycle allows.
RefinesLifecycle == Lifecycle!Spec
=============================================================================
