----------------------------- MODULE Scheduler -----------------------------
(* The webserver's scheduler (server/src/scheduler.ts): once a minute it   *)
(* reads the schedules that are due and queues a scan for each, one part   *)
(* per scanner of its team, unless the time window of the schedule is      *)
(* closed or its last run still waits. Administrators edit, pause and      *)
(* delete schedules (schedules/routes.ts) and revoke scanners while it     *)
(* works; scanners claim what is queued. Time is a clock of Day minutes    *)
(* and, per schedule, the minutes until next_run_at.                       *)
(*                                                                         *)
(* A tick is taken to end within its minute: nothing in the code keeps two *)
(* ticks from overlapping, but 60 seconds lie between them.                *)
EXTENDS ScanSplit, Sequences

CONSTANTS
  Schedules,
  Kind,       \* "interval", "cron" or "once"
  Period,     \* minutes between two runs of a repeating schedule
  Day,        \* the length of a day in minutes
  Window,     \* per schedule, the minutes of the day it may be queued in
  Teams,      \* per schedule, the scanner sets it may be given
  Delays,     \* the run times an administrator may pick, in minutes from now
  MaxEvents,  \* bounds edits, deletions, revocations and restarts
  None

ASSUME ScheduleAssumption ==
  /\ Kind \in [Schedules -> {"interval", "cron", "once"}]
  /\ Period \in [Schedules -> Nat \ {0}]
  /\ Day \in Nat \ {0}
  /\ Window \in [Schedules -> SUBSET (0..Day - 1)]
  /\ Delays \subseteq Nat
  /\ MaxEvents \in Nat
ASSUME TeamAssumption ==
  /\ Teams \in [Schedules -> SUBSET (Seq(Agents) \ {<<>>})]
  /\ None \notin Schedules \cup Agents

VARIABLES
  clock,     \* the minute of the day
  ticked,    \* the timer has fired in this minute
  agent,     \* per scanner: "live", "revoked" or "deleted"
  schedule,  \* scan_schedules: state, minutes until next_run_at, team
  waiting,   \* the pending scan_requests of schedules
  tick,      \* the tick under way: schedules it read and how far it is
  edit,      \* the PATCH or POST under way
  events,    \* bound, see MaxEvents
  outcome,   \* what the last due run of a schedule came to
  owed,      \* history: runs a "once" schedule was asked for and has not had
  last       \* history: the scanners and parts of a schedule's last run

vars == <<clock, ticked, agent, schedule, waiting, tick, edit, events, outcome, owed, last>>

TeamsOf(s) == Teams[s] \cup {<<>>}
AnyTeam == UNION {Teams[s] : s \in Schedules}
MembersOf(team) == {team[i] : i \in DOMAIN team}
IdleTick == [pc |-> "idle", row |-> [s \in Schedules |-> <<>>], cur |-> None, ids |-> {}]
IdleEdit == [pc |-> "idle", cur |-> None, what |-> "pause", team |-> <<>>, delay |-> 0, stale |-> FALSE]

NoRow == [state |-> "absent", wait |-> 0, team |-> <<>>]

\* The process starts on whatever schedules the table holds.
Init ==
  /\ clock = 0
  /\ ticked = FALSE
  /\ agent = [a \in Agents |-> "live"]
  /\ schedule \in [Schedules -> {NoRow} \cup {[state |-> "on", wait |-> 0, team |-> t] : t \in AnyTeam}]
  /\ \A s \in Schedules : schedule[s].team \in TeamsOf(s)
  /\ waiting = {}
  /\ tick = IdleTick
  /\ edit = IdleEdit
  /\ events = 0
  /\ outcome = [s \in Schedules |-> "none"]
  /\ owed = [s \in Schedules |-> IF schedule[s] # NoRow /\ Kind[s] = "once" THEN 1 ELSE 0]
  /\ last = [s \in Schedules |-> [turn |-> 0, ids |-> {}, parts |-> {}]]

Exists(s) == schedule[s].state \in {"on", "off"}
Due(s) == schedule[s].state = "on" /\ schedule[s].wait = 0
DueRows == {s \in Schedules : tick.row[s] # <<>>}
Pending(s) == {r \in waiting : r.schedule = s}

\* nextRunFor: a "once" schedule has no interval and comes due at the next
\* tick again.
NextRun(s) == IF Kind[s] = "once" THEN 1 ELSE Period[s]

Happens == events < MaxEvents /\ events' = events + 1

-----------------------------------------------------------------------------
\* The tick

TickStart ==
  /\ tick.pc = "idle"
  /\ ~ticked
  /\ ticked' = TRUE
  /\ tick' = [IdleTick EXCEPT
       !.pc = IF \E s \in Schedules : Due(s) THEN "loop" ELSE "idle",
       !.row = [s \in Schedules |-> IF Due(s) THEN schedule[s].team ELSE <<>>]]
  /\ UNCHANGED <<clock, agent, schedule, waiting, edit, events, outcome, owed, last>>

\* On to the next row of the list.
Done(s) ==
  tick' = IF DueRows = {s} THEN IdleTick
          ELSE [IdleTick EXCEPT !.pc = "loop", !.row = [tick.row EXCEPT ![s] = <<>>]]

\* Not the code: a run outside its window is given up.
DeferredAway(s) == schedule' = [schedule EXCEPT ![s].wait = NextRun(s)]

\* Outside its window a schedule stays due.
Deferred(s) == UNCHANGED schedule
Defer(s) ==
  /\ tick.pc = "loop"
  /\ s \in DueRows
  /\ clock \notin Window[s]
  /\ Deferred(s)
  /\ Done(s)
  /\ UNCHANGED <<clock, ticked, agent, waiting, edit, events, outcome, owed, last>>

\* Not the code: only the part of the first scanner counts.
PredecessorOfFirst(s) == {r \in Pending(s) : r.agent = Head(schedule[s].team)}

\* alreadyQueued
Predecessor(s) == Pending(s)
LookUp(s) ==
  /\ tick.pc = "loop"
  /\ s \in DueRows
  /\ clock \in Window[s]
  /\ tick' = [tick EXCEPT !.pc = IF Predecessor(s) # {} THEN "skip" ELSE "assign", !.cur = s]
  /\ UNCHANGED <<clock, ticked, agent, schedule, waiting, edit, events, outcome, owed, last>>

\* Not the code: a skipped run stays due.
AfterSkipDue(s) == schedule

\* The row may have been deleted meanwhile, and is not updated then.
AfterSkip(s) == [schedule EXCEPT ![s].wait = IF Exists(s) THEN NextRun(s) ELSE @]
Skip ==
  /\ tick.pc = "skip"
  /\ schedule' = AfterSkip(tick.cur)
  /\ outcome' = [outcome EXCEPT ![tick.cur] = "skipped"]
  /\ Done(tick.cur)
  /\ UNCHANGED <<clock, ticked, agent, waiting, edit, events, owed, last>>

\* Not the code: a team may come out empty.
LiveTeamOrNobody(team) ==
  IF Len(team) = 1 THEN {Head(team)} ELSE {a \in MembersOf(team) : agent[a] = "live"}

\* The scanners of a team that can still claim a part.
LiveTeam(team) ==
  LET live == {a \in MembersOf(team) : agent[a] = "live"} IN
  IF Len(team) = 1 \/ live = {} THEN {Head(team)} ELSE live
Assign ==
  /\ tick.pc = "assign"
  /\ tick' = [tick EXCEPT !.pc = "queue", !.ids = LiveTeam(tick.row[tick.cur])]
  /\ UNCHANGED <<clock, ticked, agent, schedule, waiting, edit, events, outcome, owed, last>>

\* Not the code: the parts of the scanners that left are not given to others.
PartsForTeam(team, ids) == {p \in Parts[MembersOf(team)] : p.agent \in ids}
PartsFor(team, ids) == Parts[ids]

\* Not the code: a "once" schedule stays switched on.
AfterRunStillOn(s) ==
  [schedule EXCEPT ![s] = IF Exists(s) THEN [@ EXCEPT !.wait = NextRun(s)] ELSE @]
AfterRun(s) ==
  [schedule EXCEPT ![s] =
    IF ~Exists(s) THEN @
    ELSE IF Kind[s] = "once" THEN [@ EXCEPT !.state = "off"]
    ELSE [@ EXCEPT !.wait = NextRun(s)]]

\* One transaction: the parts and the row. A target that does not split any
\* more counts as handled.
QueueRun ==
  LET s == tick.cur
      parts == PartsFor(tick.row[s], tick.ids)
      turn == 1 - last[s].turn IN
  /\ tick.pc = "queue"
  /\ IF Splits(tick.ids)
     THEN /\ Exists(s)
          /\ \A p \in parts : agent[p.agent] # "deleted"
          /\ waiting' = waiting \cup
               {[schedule |-> s, turn |-> turn, agent |-> p.agent, share |-> p.share] : p \in parts}
          /\ outcome' = [outcome EXCEPT ![s] = "queued"]
          /\ owed' = [owed EXCEPT ![s] = IF Kind[s] = "once" THEN @ - 1 ELSE @]
          /\ last' = [last EXCEPT ![s] = [turn |-> turn, ids |-> tick.ids, parts |-> parts]]
     ELSE /\ outcome' = [outcome EXCEPT ![s] = "refused"]
          /\ UNCHANGED <<waiting, owed, last>>
  /\ schedule' = AfterRun(s)
  /\ Done(s)
  /\ UNCHANGED <<clock, ticked, agent, edit, events>>

\* A foreign key of a part is gone: the transaction throws, and with it the
\* tick ends; the rows it had not come to wait for the next one.
TickFails ==
  LET s == tick.cur IN
  /\ tick.pc = "queue"
  /\ Splits(tick.ids)
  /\ \/ ~Exists(s)
     \/ \E p \in PartsFor(tick.row[s], tick.ids) : agent[p.agent] = "deleted"
  /\ tick' = IdleTick
  /\ UNCHANGED <<clock, ticked, agent, schedule, waiting, edit, events, outcome, owed, last>>
-----------------------------------------------------------------------------
\* Administrators

\* checkScheduleScanners
TeamAllowed(team) ==
  /\ \A a \in MembersOf(team) : agent[a] # "deleted"
  /\ Len(team) > 1 => /\ \A a \in MembersOf(team) : agent[a] = "live"
                      /\ Splits(MembersOf(team))

\* The handlers read the row and check what they were sent ...
EditRead(s, what, team, delay) ==
  /\ edit.pc = "idle"
  /\ \/ what = "create" /\ schedule[s].state = "absent" /\ team # <<>>
     \/ what \in {"pause", "resume"} /\ Exists(s) /\ team = <<>>
     \/ what = "team" /\ Exists(s) /\ team # <<>>
     \/ what = "retime" /\ Exists(s) /\ team = <<>> /\ Kind[s] # "once"
     \/ what = "runAt" /\ Exists(s) /\ team = <<>> /\ Kind[s] = "once"
  /\ what \notin {"create", "runAt"} => delay = 0
  /\ Happens
  /\ team # <<>> => TeamAllowed(team)
  /\ edit' = [pc |-> "read", cur |-> s, what |-> what, team |-> team, delay |-> delay,
              stale |-> schedule[s].wait = 0]
  /\ UNCHANGED <<clock, ticked, agent, schedule, waiting, tick, outcome, owed, last>>

\* ... and write what it comes to later. An interval starts at once, a cron
\* expression at its next occurrence, a "once" schedule when it is told to.
FirstRun(s, delay) == CASE Kind[s] = "interval" -> 0
                        [] Kind[s] = "cron" -> Period[s]
                        [] OTHER -> delay
Edited(row) ==
  LET s == edit.cur IN
  CASE edit.what = "create" -> [state |-> "on", wait |-> FirstRun(s, edit.delay), team |-> edit.team]
    [] edit.what = "pause"  -> [row EXCEPT !.state = "off"]
    [] edit.what = "resume" ->
         [row EXCEPT !.state = "on",
                     !.wait = IF ~edit.stale THEN @ ELSE IF Kind[s] = "once" THEN 0 ELSE Period[s]]
    [] edit.what = "retime" -> [row EXCEPT !.wait = Period[s]]
    [] edit.what = "runAt"  -> [row EXCEPT !.wait = edit.delay]
    [] edit.what = "team"   -> [row EXCEPT !.team = edit.team]

\* No row left to update, or the first scanner of the team is gone: refused.
EditRefused ==
  \/ schedule[edit.cur].state = "deleted"
  \/ edit.team # <<>> /\ agent[Head(edit.team)] = "deleted"
EditWrite ==
  /\ edit.pc = "read"
  /\ edit' = IdleEdit
  /\ IF EditRefused THEN UNCHANGED <<schedule, owed>>
     ELSE /\ schedule' = [schedule EXCEPT ![edit.cur] = Edited(@)]
          /\ owed' = [owed EXCEPT ![edit.cur] =
               IF Kind[edit.cur] = "once" /\ edit.what \in {"create", "resume", "runAt"} THEN @ + 1 ELSE @]
  /\ UNCHANGED <<clock, ticked, agent, waiting, tick, events, outcome, last>>

\* Its requests stay, without their schedule, and leave this model.
GoneRow == [state |-> "deleted", wait |-> 0, team |-> <<>>]
Delete(gone) == schedule' = [s \in Schedules |-> IF s \in gone THEN GoneRow ELSE schedule[s]]
DeleteSchedule(s) ==
  /\ Exists(s)
  /\ Happens
  /\ Delete({s})
  /\ waiting' = waiting \ Pending(s)
  /\ UNCHANGED <<clock, ticked, agent, tick, edit, outcome, owed, last>>

Revoke(a) ==
  /\ agent[a] = "live"
  /\ Happens
  /\ agent' = [agent EXCEPT ![a] = "revoked"]
  /\ UNCHANGED <<clock, ticked, schedule, waiting, tick, edit, outcome, owed, last>>

\* Schedules go with the first scanner of their team; pending requests of
\* the others stay and nobody can claim them.
DeleteAgent(a) ==
  LET gone == {s \in Schedules : Exists(s) /\ Head(schedule[s].team) = a} IN
  /\ agent[a] = "revoked"
  /\ Happens
  /\ agent' = [agent EXCEPT ![a] = "deleted"]
  /\ Delete(gone)
  /\ waiting' = {r \in waiting : r.schedule \notin gone}
  /\ UNCHANGED <<clock, ticked, tick, edit, outcome, owed, last>>
-----------------------------------------------------------------------------
\* Scanners, operators, time

\* A pending request leaves the queue when its scanner claims it ...
Claim(a) ==
  /\ agent[a] = "live"
  /\ \E r \in waiting : r.agent = a /\ waiting' = waiting \ {r}
  /\ UNCHANGED <<clock, ticked, agent, schedule, tick, edit, events, outcome, owed, last>>

\* ... or an operator cancels it.
CancelRequest ==
  /\ Happens
  /\ \E r \in waiting : waiting' = waiting \ {r}
  /\ UNCHANGED <<clock, ticked, agent, schedule, tick, edit, outcome, owed, last>>

\* The first tick of a new process comes a minute after its start.
Restart ==
  /\ Happens
  /\ tick' = IdleTick
  /\ edit' = IdleEdit
  /\ ticked' = TRUE
  /\ UNCHANGED <<clock, agent, schedule, waiting, outcome, owed, last>>

Minute ==
  /\ ticked
  /\ tick.pc = "idle"
  /\ clock' = (clock + 1) % Day
  /\ ticked' = FALSE
  /\ schedule' = [s \in Schedules |-> [schedule[s] EXCEPT !.wait = IF @ = 0 THEN 0 ELSE @ - 1]]
  /\ UNCHANGED <<agent, waiting, tick, edit, events, outcome, owed, last>>
-----------------------------------------------------------------------------
TickStep == TickStart \/ Skip \/ Assign \/ QueueRun \/ TickFails \/ \E s \in Schedules : Defer(s) \/ LookUp(s)
Administer ==
  \/ \E s \in Schedules, d \in Delays \cup {0} : \E t \in TeamsOf(s) :
       \E what \in {"create", "pause", "resume", "team", "retime", "runAt"} : EditRead(s, what, t, d)
  \/ EditWrite
  \/ \E s \in Schedules : DeleteSchedule(s)
  \/ \E a \in Agents : Revoke(a) \/ DeleteAgent(a)
Next == TickStep \/ Administer \/ (\E a \in Agents : Claim(a)) \/ CancelRequest \/ Restart \/ Minute

Spec == Init /\ [][Next]_vars
Fairness ==
  /\ WF_vars(TickStep)
  /\ WF_vars(Minute)
  /\ \A a \in Agents : WF_vars(Claim(a))
-----------------------------------------------------------------------------
\* Properties

\* Every field keeps its type; while a run is being queued somebody is there
\* to take a part of it.
RequestType == [schedule : Schedules, turn : 0..1, agent : Agents, share : SUBSET Pieces]
TypeOK ==
  /\ clock \in 0..Day - 1
  /\ ticked \in BOOLEAN
  /\ agent \in [Agents -> {"live", "revoked", "deleted"}]
  /\ schedule \in [Schedules -> [state : {"absent", "on", "off", "deleted"}, wait : Nat, team : AnyTeam \cup {<<>>}]]
  /\ waiting \subseteq RequestType
  /\ tick \in [pc : {"idle", "loop", "skip", "assign", "queue"}, row : [Schedules -> AnyTeam \cup {<<>>}],
               cur : Schedules \cup {None}, ids : SUBSET Agents]
  /\ tick.pc = "queue" => tick.ids # {}
  /\ edit \in [pc : {"idle", "read"}, cur : Schedules \cup {None},
               what : {"create", "pause", "resume", "team", "retime", "runAt"},
               team : AnyTeam \cup {<<>>}, delay : Delays \cup {0}, stale : BOOLEAN]
  /\ events \in 0..MaxEvents
  /\ outcome \in [Schedules -> {"none", "queued", "skipped", "refused"}]
  /\ owed \in [Schedules -> Int]
  /\ last \in [Schedules -> [turn : 0..1, ids : SUBSET Agents, parts : SUBSET [agent : Agents, share : SUBSET Pieces]]]

\* Runs do not pile up behind a scanner that has stopped polling: whatever
\* is edited, claimed in part or restarted, all that waits of one schedule
\* belongs to one run, the last (scheduler.ts:66-75).
RunsDoNotPileUp == \A s \in Schedules : \A r \in Pending(s) : r.turn = last[s].turn

\* A "once" schedule never runs more often than somebody asked for, whether
\* by creating it, by picking a time or by switching it on again
\* (scheduler.ts:166-172).
OnceMeansOnce == \A s \in Schedules : owed[s] >= 0

\* A run leaves no piece of its target out and gives none to two scanners,
\* whoever was revoked since the schedule was saved (scanSplit.ts:127-165).
TargetIsShared ==
  \A s \in Schedules : last[s].parts # {} =>
    \A b \in Pieces : Cardinality({p \in last[s].parts : b \in p.share}) = 1

\* From one run to the next a piece changes hands only if its scanner left
\* the team or the new one joined it: hosts keep their identity
\* (scanSplit.ts:9-15). The one exception: the parts of the two teams do not
\* fit at the same block size, and then any piece may move.
Had(l, a, b) == \E p \in l.parts : p.agent = a /\ b \in p.share
OtherBlocks(ids, others) ==
  Cardinality(ids) # 1 /\ Cardinality(others) # 1 /\ BlockSize(ids) # BlockSize(others)
OnlyLostBlocksMove ==
  [][\A s \in Schedules : last[s].turn # last[s].turn' =>
       \A a, x \in Agents, b \in Pieces :
         Had(last[s], a, b) /\ Had(last[s]', x, b) /\ a # x
         => \/ a \notin last[s].ids' \/ x \notin last[s].ids
            \/ OtherBlocks(last[s].ids, last[s].ids')]_vars

\* A schedule that comes due does not stay so: it is queued, skipped and
\* counted, refused, or taken out of service, once its window opens.
DueIsAnswered == \A s \in Schedules : Due(s) ~> ~Due(s)

\* Deferring never loses a run: a repeating schedule is queued again and
\* again, so that its turn never stays the same, unless it is off, its target
\* does not split over what is left of its team, or a part of its last run is
\* stuck with a scanner that is no longer there (scheduler.ts:43-47).
Repeats(s) == schedule[s].state = "on" /\ Kind[s] # "once"
Stuck(s) == \E r \in Pending(s) : agent[r.agent] # "live"
Excused(s) == ~Repeats(s) \/ Stuck(s) \/ ~Splits(LiveTeam(schedule[s].team))
KeepsRunning ==
  \A s \in Schedules : \A turn \in 0..1 : []<>(last[s].turn = turn \/ Excused(s))

\* A team that lost a scanner goes on with the others: its target is split
\* anew over those that are left (scheduler.ts:109-114). The code does not
\* keep this; see the finding.
Depleted(s) == \A a \in MembersOf(schedule[s].team) : agent[a] # "live"
TeamCarriesOn ==
  \A s \in Schedules : []<>(~Repeats(s) \/ outcome[s] \in {"queued", "refused"} \/ Depleted(s))

\* What a schedule queues is what it says: once if it is to run once, and the
\* whole of its target, each block by one scanner.
RunsAreAsScheduled == TypeOK /\ OnceMeansOnce /\ TargetIsShared
=============================================================================
