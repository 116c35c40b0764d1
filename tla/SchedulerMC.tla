---------------------------- MODULE SchedulerMC ----------------------------
(* Small instances of Scheduler for TLC: a sweep repeated every two        *)
(* minutes and a scan that is to run once, three scanners, five blocks.    *)
EXTENDS Scheduler, TLC

CONSTANTS a1, a2, a3, sweep, once

KindOf == [s \in Schedules |-> IF s = once THEN "once" ELSE "interval"]
PeriodOf == [s \in Schedules |-> 2]
\* The sweep comes due at an even or an odd minute; its window is the odd ones.
WindowOf == [s \in Schedules |-> IF s = once THEN 0..Day - 1 ELSE {1}]

\* Five /28 blocks, or two pairs of them and a last one. Of block 1 a1 and a2
\* have the same score.
BlocksOf == 16 :> <<1, 2, 3, 4, 5>> @@ 32 :> <<11, 11, 12, 12, 13>>
ScoreOf ==
  a1 :> (1 :> 2 @@ 2 :> 2 @@ 3 :> 2 @@ 4 :> 1 @@ 5 :> 1 @@ 11 :> 2 @@ 12 :> 2 @@ 13 :> 1) @@
  a2 :> (1 :> 2 @@ 2 :> 1 @@ 3 :> 0 @@ 4 :> 2 @@ 5 :> 0 @@ 11 :> 1 @@ 12 :> 0 @@ 13 :> 2) @@
  a3 :> (1 :> 0 @@ 2 :> 0 @@ 3 :> 1 @@ 4 :> 0 @@ 5 :> 2 @@ 11 :> 0 @@ 12 :> 1 @@ 13 :> 0)
RankOf == a1 :> 0 @@ a2 :> 1 @@ a3 :> 2

\* A part of more than one range is too long. So all three, and a1 with a3,
\* share the /28 blocks, and a block moves to those that stay; a1 and a2
\* share pairs, and block 4 moves from a2 to a1; a2 and a3 share nothing.
LengthOf == {} :> 0 @@ [share \in SUBSET (1..5) |-> Cardinality({p \in share : p - 1 \notin share})]

\* TLC works a definition out once, but not one that stands for a constant.
MCBlockOf == BlocksOf
MCScore == ScoreOf
MCRank == RankOf
MCLength == LengthOf

TeamsFor == [s \in Schedules |-> IF s = once THEN {<<a1>>} ELSE {<<a1, a2>>, <<a1, a2, a3>>}]

\* Two scanners sweep beside a scan that is to run once, or three sweep and
\* that scan is still to be created.
FilledInit ==
  /\ Init
  /\ schedule[sweep] # NoRow
  /\ schedule[once] = NoRow <=> Len(schedule[sweep].team) = 3
FilledSpec == FilledInit /\ [][Next]_vars /\ Fairness
=============================================================================
