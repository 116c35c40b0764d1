--------------------------- MODULE SelfUpdateMC ---------------------------
(* Small instances of SelfUpdate for TLC: a canary that scans, a scanner   *)
(* that has to wait for it, two releases.                                  *)
EXTENDS SelfUpdate, TLC

CONSTANTS a1, a2

ScansOf == [a \in Agents |-> IF a = a1 THEN 1 ELSE 0]

CanaryInit == Init /\ canary = {a1}
CanarySpec == CanaryInit /\ [][Next]_vars /\ Fairness
=============================================================================
