------------------------------ MODULE TickOverlap ------------------------------
(***************************************************************************)
(* Scheduler ticks that overlap (server/src/scheduler.ts). The timer fires *)
(* every minute and does not wait for its last tick; a slow database makes *)
(* two work at once, on the rows each of them read when it began. Module   *)
(* Scheduler takes a tick to end within its minute; this one looks at one  *)
(* schedule, and at what ticks that do not may do to it.                   *)
(*                                                                         *)
(* An interval or cron schedule comes due again and again; a "once"        *)
(* schedule switches itself off, and an administrator may switch it on     *)
(* again.                                                                  *)
(***************************************************************************)
EXTENDS Integers, FiniteSets

CONSTANTS
    Ticks,          \* ticks that may be under way at once
    MaxDue,         \* how often the schedule comes due in one behaviour
    MaxTickFaults   \* restarts and failing statements

ASSUME TickAssumption ==
    /\ IsFiniteSet(Ticks)
    /\ MaxDue \in Nat /\ MaxTickFaults \in Nat

VARIABLES
    once,       \* schedule_type = "once"
    enabled,
    isDue,      \* next_run_at <= now
    skipped,    \* skipped_runs
    queued,     \* pending scan_requests of this schedule
    ticking,    \* ticks under way that have read it, and the skipped_runs they read
    tickFaults,
    \* history
    dues,       \* how often it came due
    runs,       \* requests queued since it last came due or was switched on
    skips,      \* runs that were skipped
    met         \* two ticks that had read it were under way at once

tickVars == <<once, enabled, isDue, skipped, queued, ticking, tickFaults, dues, runs, skips, met>>

Asleep == [pc |-> "idle", read |-> 0]
Busy == {t \in Ticks : ticking[t].pc # "idle"}

TickTypeOK ==
    /\ {once, enabled, isDue, met} \subseteq BOOLEAN
    /\ queued \in Nat /\ runs \in Nat
    /\ skipped \in Nat /\ skips \in Nat
    /\ ticking \in [Ticks -> [pc : {"idle", "turn", "skip", "queue"}, read : Nat]]
    /\ tickFaults \in 0 .. MaxTickFaults
    /\ dues \in 0 .. MaxDue

TickInit ==
    /\ once \in BOOLEAN
    /\ enabled = TRUE
    /\ isDue = FALSE
    /\ skipped = 0
    /\ queued = 0
    /\ ticking = [t \in Ticks |-> Asleep]
    /\ tickFaults = 0
    /\ dues = 0
    /\ runs = 0
    /\ skips = 0
    /\ met = FALSE

ComesDueAgain ==
    /\ enabled /\ ~isDue
    /\ dues < MaxDue
    /\ isDue' = TRUE
    /\ dues' = dues + 1
    /\ runs' = 0
    /\ UNCHANGED <<once, enabled, skipped, queued, ticking, tickFaults, skips, met>>

\* The enabled schedules that are due are read at once.
ReadDue(t) ==
    /\ ticking[t].pc = "idle"
    /\ enabled /\ isDue
    /\ ticking' = [ticking EXCEPT ![t] = [pc |-> "turn", read |-> skipped]]
    /\ met' = (met \/ Busy # {})
    /\ UNCHANGED <<once, enabled, isDue, skipped, queued, tickFaults, dues, runs, skips>>

\* Not the code: the pending request is not looked for.
TakeTurnBlind(t) ==
    /\ ticking[t].pc = "turn"
    /\ ticking' = [ticking EXCEPT ![t].pc = "queue"]
    /\ UNCHANGED <<once, enabled, isDue, skipped, queued, tickFaults, dues, runs, skips, met>>

\* Its turn comes: the window is closed, or one of its requests is pending.
TakeTurn(t) ==
    /\ ticking[t].pc = "turn"
    /\ \/ ticking' = [ticking EXCEPT ![t] = Asleep]
       \/ ticking' = [ticking EXCEPT ![t].pc = IF queued > 0 THEN "skip" ELSE "queue"]
    /\ UNCHANGED <<once, enabled, isDue, skipped, queued, tickFaults, dues, runs, skips, met>>

\* Not the code: a skipped run is not counted.
SkipRunUncounted(t) ==
    /\ ticking[t].pc = "skip"
    /\ isDue' = FALSE
    /\ skipped' = ticking[t].read
    /\ skips' = skips + 1
    /\ ticking' = [ticking EXCEPT ![t] = Asleep]
    /\ UNCHANGED <<once, enabled, queued, tickFaults, dues, runs, met>>

\* next_run_at moves on, and skipped_runs is one more than was read.
SkipRun(t) ==
    /\ ticking[t].pc = "skip"
    /\ isDue' = FALSE
    /\ skipped' = ticking[t].read + 1
    /\ skips' = skips + 1
    /\ ticking' = [ticking EXCEPT ![t] = Asleep]
    /\ UNCHANGED <<once, enabled, queued, tickFaults, dues, runs, met>>

\* Not the code: a "once" schedule stays on and due.
QueueForRunStaysOn(t) ==
    /\ ticking[t].pc = "queue"
    /\ queued' = queued + 1
    /\ runs' = runs + 1
    /\ ticking' = [ticking EXCEPT ![t] = Asleep]
    /\ isDue' = once
    /\ UNCHANGED <<once, enabled, skipped, tickFaults, dues, skips, met>>

\* One transaction; a "once" schedule is switched off and keeps its
\* next_run_at.
QueueForRun(t) ==
    /\ ticking[t].pc = "queue"
    /\ queued' = queued + 1
    /\ runs' = runs + 1
    /\ ticking' = [ticking EXCEPT ![t] = Asleep]
    /\ IF once
       THEN enabled' = FALSE /\ UNCHANGED isDue
       ELSE isDue' = FALSE /\ UNCHANGED enabled
    /\ UNCHANGED <<once, skipped, tickFaults, dues, skips, met>>

\* A statement fails, or the webserver is restarted: the rest of the tick is
\* left out.
TickCut(t) ==
    /\ ticking[t].pc # "idle"
    /\ tickFaults < MaxTickFaults
    /\ tickFaults' = tickFaults + 1
    /\ ticking' = [ticking EXCEPT ![t] = Asleep]
    /\ UNCHANGED <<once, enabled, isDue, skipped, queued, dues, runs, skips, met>>

\* Not the code: a request that has gone is claimed again.
RequestLeavesTwice ==
    /\ dues > 0
    /\ queued' = queued - 1
    /\ UNCHANGED <<once, enabled, isDue, skipped, ticking, tickFaults, dues, runs, skips, met>>

\* The scanner claims it, or the dashboard cancels it.
RequestLeaves ==
    /\ queued > 0
    /\ queued' = queued - 1
    /\ UNCHANGED <<once, enabled, isDue, skipped, ticking, tickFaults, dues, runs, skips, met>>

\* PATCH: "run this one-off scan again".
SwitchOn ==
    /\ ~enabled
    /\ dues < MaxDue
    /\ enabled' = TRUE
    /\ isDue' = TRUE
    /\ dues' = dues + 1
    /\ runs' = 0
    /\ UNCHANGED <<once, skipped, queued, ticking, tickFaults, skips, met>>

TickNext ==
    \/ ComesDueAgain \/ RequestLeaves \/ SwitchOn
    \/ \E t \in Ticks : ReadDue(t) \/ TakeTurn(t) \/ SkipRun(t) \/ QueueForRun(t) \/ TickCut(t)

TickSpec == TickInit /\ [][TickNext]_tickVars

(***************************************************************************)
(* Properties.                                                             *)
(***************************************************************************)

\* A schedule that came due is queued once, whatever its requests become,
\* unless two ticks met (scheduler.ts:66-74; "fires exactly once", 166).
OneRunPerDue == runs > 1 => met

\* However many ticks meet, at most one request per tick waits: a scanner
\* that does not poll never finds a pile of them (scheduler.ts:69-71).
PileUpIsBounded == queued <= Cardinality(Ticks)

\* Every skipped run is counted, unless two ticks met; then the later write
\* may have counted from the older number, and tells too few.
SkipsAreCounted == skipped <= skips /\ (skipped < skips => met)

\* What overlapping ticks cannot break: a run is queued once as long as they do
\* not meet, never more of them wait than there are ticks, and skips are counted.
TicksAgree == TickTypeOK /\ OneRunPerDue /\ PileUpIsBounded /\ SkipsAreCounted

=============================================================================
