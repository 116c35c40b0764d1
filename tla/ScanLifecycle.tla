--------------------------- MODULE ScanLifecycle ---------------------------
(***************************************************************************)
(* What the dashboard promises of a queued scan (scanGroups/routes.ts      *)
(* speaks of it in these words): it is queued, then running, then has an   *)
(* outcome; it is executed at most once; and "completed" is said only of a *)
(* scan that was executed to its end.                                      *)
(*                                                                         *)
(* state is what the operator reads, work is what happens on the network.  *)
(* They are not in step: an operator may settle a request that is still    *)
(* being worked on, and an outcome may be revised, by the scanner's report *)
(* or by a dismissal decided before it.                                    *)
(***************************************************************************)
CONSTANT Requests

VARIABLES state, work

vars == <<state, work>>

Outcomes == {"completed", "failed", "cancelled"}

Init ==
  /\ state = [r \in Requests |-> "absent"]
  /\ work  = [r \in Requests |-> "none"]

Queue(r) ==
  /\ state[r] = "absent"
  /\ state' = [state EXCEPT ![r] = "queued"]
  /\ UNCHANGED work

Claim(r) ==
  /\ state[r] = "queued"
  /\ state' = [state EXCEPT ![r] = "running"]
  /\ UNCHANGED work

Withdraw(r) ==
  /\ state[r] = "queued"
  /\ state' \in {[state EXCEPT ![r] = s] : s \in {"cancelled", "failed"}}
  /\ UNCHANGED work

\* Only a claimed request is executed, and only once.
Begin(r) ==
  /\ state[r] \notin {"absent", "queued"}
  /\ work[r] = "none"
  /\ work' = [work EXCEPT ![r] = "busy"]
  /\ UNCHANGED state

Finish(r) ==
  /\ work[r] = "busy"
  /\ work' \in {[work EXCEPT ![r] = w] : w \in {"whole", "partial"}}
  /\ UNCHANGED state

\* A scanner process dies with everything it was working on.
Interrupt ==
  /\ work' \in [Requests -> {"none", "busy", "whole", "partial"}]
  /\ \A r \in Requests : work'[r] # work[r] => work[r] = "busy" /\ work'[r] = "partial"
  /\ UNCHANGED state

Settle(r, s) ==
  /\ state[r] \notin {"absent", "queued"}
  /\ s = "completed" => work[r] = "whole"
  /\ state' = [state EXCEPT ![r] = s]
  /\ UNCHANGED work

Next ==
  \/ Interrupt
  \/ \E r \in Requests : Queue(r) \/ Claim(r) \/ Withdraw(r) \/ Begin(r) \/ Finish(r)
  \/ \E r \in Requests, s \in Outcomes : Settle(r, s)

Spec == Init /\ [][Next]_vars

(***************************************************************************)
(* What an operator may conclude.                                          *)
(***************************************************************************)

\* A request on which work was done was claimed, and one that is said to be
\* completed was worked on to its end.
WorkIsExplained ==
  \A r \in Requests : /\ work[r] # "none" => state[r] \notin {"absent", "queued"}
                      /\ state[r] = "completed" => work[r] = "whole"

\* What was worked on is not begun again, and what came of it stays.
WorkStands ==
  \A r \in Requests : /\ work[r] # "none" => work'[r] # "none"
                      /\ work[r] \in {"whole", "partial"} => work'[r] = work[r]
ExecutedOnce == [][WorkStands]_vars
=============================================================================
