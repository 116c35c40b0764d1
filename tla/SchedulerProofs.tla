-------------------------- MODULE SchedulerProofs --------------------------
(* Theorems about Scheduler for all schedules, teams, hashes, windows and  *)
(* any bound on what administrators do.                                    *)
EXTENDS Scheduler, FiniteSetTheorems, TLAPS

-----------------------------------------------------------------------------
\* The split of one target

\* The scanners of a set that one of them does not beat.
Above(a, ids, b) == {x \in ids : ~Beats(a, x, b)}

\* Scores and ranks are numbers: who is beaten by neither of two is not beaten
\* by the worse, and the better is not above itself.
LEMMA AboveShrinks ==
  ASSUME NEW ids \in SUBSET Agents, NEW b \in Keys, NEW a \in ids, NEW x \in Above(a, ids, b)
  PROVE  x \in ids /\ Above(x, ids, b) \subseteq Above(a, ids, b) /\ Above(x, ids, b) # Above(a, ids, b)
<1>1. x \in ids /\ ~Beats(a, x, b) BY DEF Above
<1>2. \A y \in ids : Score[y][b] \in Nat /\ Rank[y] \in Nat BY ScoreAssumption, RankAssumption
<1>3. \A y \in ids : ~Beats(x, y, b) => ~Beats(a, y, b) BY <1>1, <1>2 DEF Beats
<1>4. Beats(x, x, b) BY <1>1, <1>2 DEF Beats
<1> QED BY <1>1, <1>3, <1>4 DEF Above

\* Among finitely many scanners one has the highest score: the one that has
\* the fewest above it has none.
LEMMA OneBeatsAll ==
  ASSUME NEW ids \in SUBSET Agents, ids # {}, NEW b \in Keys
  PROVE  \E a \in ids : \A x \in ids : Beats(a, x, b)
<1> DEFINE T == {Above(a, ids, b) : a \in ids}
           R == StrictSubsetOrdering(ids)
<1>1. IsFiniteSet(ids) BY RankAssumption, FS_Subset
<1>2. IsWellFoundedOn(R, SUBSET ids) BY <1>1, FS_StrictSubsetOrderingWellFounded, FS_FiniteSubsetsOfFinite
<1>3. T \subseteq SUBSET ids /\ T # {} BY DEF Above
<1> HIDE DEF T, R
<1>4. PICK t \in T : \A u \in T : ~(<<u, t>> \in R) BY <1>2, <1>3, WFMin
<1>5. PICK a \in ids : t = Above(a, ids, b) BY <1>4 DEF T
<1>6. ASSUME NEW x \in Above(a, ids, b) PROVE FALSE
  <2>1. x \in ids /\ Above(x, ids, b) \subseteq t /\ Above(x, ids, b) # t BY <1>5, AboveShrinks
  <2>2. Above(x, ids, b) \in T BY <2>1 DEF T
  <2>3. <<Above(x, ids, b), t>> \in R BY <1>3, <2>1, <2>2 DEF R, StrictSubsetOrdering
  <2> QED BY <1>4, <2>2, <2>3
<1> QED BY <1>6 DEF Above

LEMMA OwnerWins ==
  ASSUME NEW ids \in SUBSET Agents, ids # {}, NEW b \in Keys
  PROVE  OwnerOf(b, ids) \in ids /\ \A x \in ids : Beats(OwnerOf(b, ids), x, b)
BY OneBeatsAll DEF OwnerOf

LEMMA OnlyOneWins ==
  ASSUME NEW a \in Agents, NEW x \in Agents, NEW b \in Keys, Beats(a, x, b), Beats(x, a, b)
  PROVE  a = x
<1>1. Score[a][b] \in Nat /\ Score[x][b] \in Nat BY ScoreAssumption
<1>2. Rank[a] \in Nat /\ Rank[x] \in Nat BY RankAssumption
<1>3. Rank[a] = Rank[x] BY <1>1, <1>2 DEF Beats
<1> QED BY <1>3, RankAssumption

\* A piece stays with its scanner, at one block size, unless that scanner leaves
\* the set or the new owner joins it (scanSplit.ts: rendezvous hashing).
THEOREM BlocksStayPut ==
  ASSUME NEW ids \in SUBSET Agents, ids # {}, NEW jds \in SUBSET Agents, jds # {}, NEW b \in Keys,
         OwnerOf(b, ids) \in jds, OwnerOf(b, jds) \in ids
  PROVE  OwnerOf(b, ids) = OwnerOf(b, jds)
<1>1. OwnerOf(b, ids) \in ids /\ Beats(OwnerOf(b, ids), OwnerOf(b, jds), b) BY OwnerWins
<1>2. OwnerOf(b, jds) \in jds /\ Beats(OwnerOf(b, jds), OwnerOf(b, ids), b) BY OwnerWins
<1> QED BY <1>1, <1>2, OnlyOneWins

LEMMA LeastSize ==
  ASSUME NEW S \in SUBSET Nat, S # {}
  PROVE  \E x \in S : \A y \in S : x <= y
<1> DEFINE Less == {ss \in Nat \X Nat : ss[1] < ss[2]}
<1>1. IsWellFoundedOn(Less, Nat) BY NatLessThanWellFounded DEF OpToRel
<1>2. PICK x \in S : \A y \in S : ~(<<y, x>> \in Less) BY <1>1, WFMin
<1>3. \A y \in S : ~(y < x) BY <1>2
<1> QED BY <1>3

\* If some size fits, the smallest is taken.
LEMMA SizeFits ==
  ASSUME NEW ids \in SUBSET Agents, Fitting[ids] # {}
  PROVE  /\ BlockSize(ids) \in Sizes
         /\ BlockSize(ids) \in Fitting[ids] /\ \A other \in Fitting[ids] : BlockSize(ids) <= other
<1> DEFINE S == Fitting[ids]
<1>1. S \in SUBSET Sizes /\ S \in SUBSET Nat /\ S # {} BY BlockAssumption DEF Fitting
<1>2. BlockSize(ids) = CHOOSE size \in S : \A other \in S : size <= other BY <1>1 DEF BlockSize, Smallest
<1> HIDE DEF S
<1>3. \E size \in S : \A other \in S : size <= other BY <1>1, LeastSize
<1>4. BlockSize(ids) \in S /\ \A other \in S : BlockSize(ids) <= other BY <1>2, <1>3
<1> QED BY <1>1, <1>4 DEF S

LEMMA OneScanner ==
  ASSUME NEW ids \in SUBSET Agents, Cardinality(ids) = 1
  PROVE  \E a \in ids : ids = {a}
<1>1. IsFiniteSet(ids) BY RankAssumption, FS_Subset
<1> QED BY <1>1, FS_Singleton

LEMMA PartsOfOne ==
  ASSUME NEW ids \in SUBSET Agents, Cardinality(ids) = 1
  PROVE  Splits(ids) /\ Parts[ids] = {[agent |-> a, share |-> Pieces] : a \in ids}
BY DEF Splits, Parts

LEMMA PartsOfMany ==
  ASSUME NEW ids \in SUBSET Agents, Splits(ids), Cardinality(ids) # 1
  PROVE  /\ BlockSize(ids) \in Sizes
         /\ Parts[ids] = {part \in {[agent |-> a, share |-> Share(a, ids, BlockSize(ids))] : a \in ids} : part.share # {}}
<1>1. BlockSize(ids) \in Sizes BY SizeFits DEF Splits
<1>2. Parts[ids] = PartsAt[ids][BlockSize(ids)] BY DEF Parts
<1>3. ASSUME NEW size \in Sizes
      PROVE  PartsAt[ids][size] =
               {part \in {[agent |-> a, share |-> Share(a, ids, size)] : a \in ids} : part.share # {}}
  BY DEF PartsAt
<1> QED BY <1>1, <1>2, <1>3

LEMMA PartsOfSet ==
  ASSUME NEW ids \in SUBSET Agents, Splits(ids)
  PROVE  Parts[ids] \in SUBSET [agent : Agents, share : SUBSET Pieces]
<1>1. CASE Cardinality(ids) = 1 BY <1>1, PartsOfOne
<1>2. CASE Cardinality(ids) # 1
  <2>1. \A a \in ids : Share(a, ids, BlockSize(ids)) \in SUBSET Pieces BY DEF Share
  <2> QED BY <1>2, <2>1, PartsOfMany
<1> QED BY <1>1, <1>2

LEMMA KeyType == \A size \in Sizes, b \in Pieces : BlockOf[size][b] \in Keys
BY BlockAssumption

\* Who has a piece is alone, or owns the block it lies in.
LEMMA PartOwner ==
  ASSUME NEW ids \in SUBSET Agents, Splits(ids), NEW p \in Parts[ids], NEW b \in p.share
  PROVE  /\ b \in Pieces /\ p.agent \in ids
         /\ \/ ids = {p.agent} /\ Cardinality(ids) = 1
            \/ /\ Cardinality(ids) # 1 /\ BlockOf[BlockSize(ids)][b] \in Keys
               /\ p.agent = OwnerOf(BlockOf[BlockSize(ids)][b], ids)
<1>1. b \in Pieces BY PartsOfSet
<1>2. CASE Cardinality(ids) = 1
  <2>1. PICK a \in ids : ids = {a} BY <1>2, OneScanner
  <2>2. p.agent \in ids BY <1>2, PartsOfOne
  <2> QED BY <1>1, <1>2, <2>1, <2>2
<1>3. CASE Cardinality(ids) # 1
  <2>1. PICK a \in ids : p = [agent |-> a, share |-> Share(a, ids, BlockSize(ids))] BY <1>3, PartsOfMany
  <2>2. OwnerOf(BlockOf[BlockSize(ids)][b], ids) = a BY <2>1 DEF Share
  <2>3. BlockOf[BlockSize(ids)][b] \in Keys BY <1>1, <1>3, PartsOfMany, KeyType
  <2> QED BY <1>1, <1>3, <2>1, <2>2, <2>3
<1> QED BY <1>2, <1>3

\* The parts of a set of scanners divide the target between them, at whatever
\* block size they fit (scanSplit.ts: splitTargetSpec).
THEOREM PartsDivideTheTarget ==
  ASSUME NEW ids \in SUBSET Agents, ids # {}, Splits(ids), NEW b \in Pieces
  PROVE  Cardinality({p \in Parts[ids] : b \in p.share}) = 1
<1>1. CASE Cardinality(ids) = 1
  <2>1. PICK a \in ids : ids = {a} BY <1>1, OneScanner
  <2>2. {p \in Parts[ids] : b \in p.share} = {[agent |-> a, share |-> Pieces]} BY <1>1, <2>1, PartsOfOne
  <2> QED BY <2>2, FS_Singleton
<1>2. CASE Cardinality(ids) # 1
  <2> DEFINE key == BlockOf[BlockSize(ids)][b]
             part == [agent |-> OwnerOf(key, ids), share |-> Share(OwnerOf(key, ids), ids, BlockSize(ids))]
  <2>1. key \in Keys BY <1>2, PartsOfMany, KeyType
  <2>2. OwnerOf(key, ids) \in ids BY <2>1, OwnerWins
  <2>3. b \in part.share BY DEF Share
  <2>4. part \in Parts[ids] BY <1>2, <2>2, <2>3, PartsOfMany
  <2>5. ASSUME NEW p \in Parts[ids], b \in p.share PROVE p = part
    <3>1. PICK a \in ids : p = [agent |-> a, share |-> Share(a, ids, BlockSize(ids))] BY <1>2, PartsOfMany
    <3>2. a = OwnerOf(key, ids) BY <2>5, <3>1 DEF Share
    <3> QED BY <3>1, <3>2
  <2>6. {p \in Parts[ids] : b \in p.share} = {part} BY <2>3, <2>4, <2>5
  <2> QED BY <2>6, FS_Singleton
<1> QED BY <1>1, <1>2
-----------------------------------------------------------------------------
\* Types

RowType == [state : {"absent", "on", "off", "deleted"}, wait : Nat, team : AnyTeam \cup {<<>>}]
TickType == [pc : {"idle", "loop", "skip", "assign", "queue"}, row : [Schedules -> AnyTeam \cup {<<>>}],
             cur : Schedules \cup {None}, ids : SUBSET Agents]
EditType == [pc : {"idle", "read"}, cur : Schedules \cup {None},
             what : {"create", "pause", "resume", "team", "retime", "runAt"},
             team : AnyTeam \cup {<<>>}, delay : Delays \cup {0}, stale : BOOLEAN]
LastType == [turn : 0..1, ids : SUBSET Agents, parts : SUBSET [agent : Agents, share : SUBSET Pieces]]

\* A tick and an edit that are under way know what they are about.
Knows ==
  /\ tick.pc \in {"skip", "assign", "queue"} => tick.cur \in DueRows
  /\ edit.pc = "read" => edit.cur \in Schedules

LEMMA TeamMembers ==
  ASSUME NEW t \in AnyTeam
  PROVE  t # <<>> /\ MembersOf(t) \in SUBSET Agents /\ Head(t) \in Agents
<1>1. t \in Seq(Agents) /\ t # <<>> BY TeamAssumption DEF AnyTeam
<1> QED BY <1>1 DEF MembersOf

LEMMA LiveTeamType ==
  ASSUME NEW t \in AnyTeam
  PROVE  LiveTeam(t) \in SUBSET Agents /\ LiveTeam(t) # {}
BY TeamMembers DEF LiveTeam

LEMMA Records ==
  /\ IdleTick \in TickType /\ IdleTick.pc = "idle"
  /\ IdleEdit \in EditType /\ IdleEdit.pc = "idle"
  /\ NoRow \in RowType
BY DEF IdleTick, TickType, IdleEdit, EditType, NoRow, RowType

LEMMA DoneTick ==
  ASSUME tick \in TickType, NEW s \in Schedules, Done(s)
  PROVE  tick' \in TickType /\ tick'.pc \in {"idle", "loop"}
<1>1. [tick.row EXCEPT ![s] = <<>>] \in [Schedules -> AnyTeam \cup {<<>>}] BY DEF TickType
<1>2. CASE DueRows = {s} BY <1>2, Records DEF Done
<1>3. CASE DueRows # {s}
  <2>1. tick' = [IdleTick EXCEPT !.pc = "loop", !.row = [tick.row EXCEPT ![s] = <<>>]] BY <1>3 DEF Done
  <2>2. tick' = [pc |-> "loop", row |-> [tick.row EXCEPT ![s] = <<>>], cur |-> None, ids |-> {}]
    BY <2>1 DEF IdleTick
  <2> QED BY <1>1, <2>2 DEF TickType
<1> QED BY <1>2, <1>3

\* Every period is a natural number, and so is the time to the next run.
LEMMA NextRunType == \A s \in Schedules : NextRun(s) \in Nat
BY ScheduleAssumption DEF NextRun

LEMMA EditedType ==
  ASSUME edit \in EditType, edit.cur \in Schedules, NEW row \in RowType
  PROVE  Edited(row) \in RowType
<1>1. Period[edit.cur] \in Nat /\ Delays \subseteq Nat BY ScheduleAssumption
<1>2. edit.delay \in Delays \cup {0} BY DEF EditType
<1>3. edit.delay \in Nat
  <2>1. \A d \in Delays \cup {0} : d \in Nat BY <1>1
  <2> QED BY <1>2, <2>1, Zenon
<1>4. FirstRun(edit.cur, edit.delay) \in Nat BY <1>1, <1>3 DEF FirstRun
<1>5. edit.team \in AnyTeam \cup {<<>>} BY DEF EditType
<1>6. edit.what \in {"create", "pause", "resume", "team", "retime", "runAt"} BY DEF EditType
<1> QED BY <1>1, <1>3, <1>4, <1>5, <1>6 DEF Edited, RowType

Typed == TypeOK /\ Knows

LEMMA Unfold == TypeOK => /\ schedule \in [Schedules -> RowType] /\ tick \in TickType
                          /\ edit \in EditType /\ last \in [Schedules -> LastType]
BY DEF TypeOK, RowType, TickType, EditType, LastType

LEMMA InitTyped == Init => Typed
<1> SUFFICES ASSUME Init PROVE Typed OBVIOUS
<1>1. schedule \in [Schedules -> RowType]
  <2>1. [Schedules -> {NoRow} \cup {[state |-> "on", wait |-> 0, team |-> t] : t \in AnyTeam}]
          \subseteq [Schedules -> RowType]
    BY Records DEF RowType
  <2> QED BY <2>1 DEF Init
<1>2. tick \in TickType /\ tick.pc = "idle" BY Records DEF Init
<1>3. edit \in EditType /\ edit.pc = "idle" BY Records DEF Init
<1>4. agent \in [Agents -> {"live", "revoked", "deleted"}] BY DEF Init
<1>5. waiting \subseteq RequestType BY DEF Init
<1>6. clock \in 0..Day - 1 /\ events \in 0..MaxEvents BY ScheduleAssumption DEF Init
<1>7. outcome \in [Schedules -> {"none", "queued", "skipped", "refused"}] BY DEF Init
<1>8. owed \in [Schedules -> Int] BY DEF Init
<1>9. last \in [Schedules -> LastType] BY DEF Init, LastType
<1>10. ticked \in BOOLEAN BY DEF Init
<1> QED BY <1>1, <1>2, <1>3, <1>4, <1>5, <1>6, <1>7, <1>8, <1>9, <1>10
       DEF Typed, TypeOK, Knows, RowType, TickType, EditType, LastType

LEMMA TickStartTyped == Typed /\ TickStart => Typed'
<1> SUFFICES ASSUME Typed, TickStart PROVE Typed' OBVIOUS
<1>1. schedule \in [Schedules -> RowType] BY Unfold DEF Typed
<1>2. DEFINE pc == IF \E s \in Schedules : Due(s) THEN "loop" ELSE "idle"
             row == [s \in Schedules |-> IF Due(s) THEN schedule[s].team ELSE <<>>]
<1>3. row \in [Schedules -> AnyTeam \cup {<<>>}] BY <1>1 DEF RowType
<1>4. tick' = [pc |-> pc, row |-> row, cur |-> None, ids |-> {}] BY DEF TickStart, IdleTick
<1>5. tick' \in TickType /\ tick'.pc \in {"idle", "loop"} BY <1>3, <1>4 DEF TickType
<1> QED BY <1>5 DEF Typed, TypeOK, Knows, TickStart, TickType

LEMMA DoneTyped ==
  ASSUME Typed, NEW s \in Schedules, Done(s), UNCHANGED <<clock, ticked, agent, edit, events>>,
         schedule' \in [Schedules -> RowType], waiting' \subseteq RequestType, last' \in [Schedules -> LastType],
         outcome' \in [Schedules -> {"none", "queued", "skipped", "refused"}], owed' \in [Schedules -> Int]
  PROVE  Typed'
<1>1. tick \in TickType BY Unfold DEF Typed
<1>2. tick' \in TickType /\ tick'.pc \in {"idle", "loop"} BY <1>1, DoneTick
<1> QED BY <1>2, ZenonT(60) DEF Typed, TypeOK, Knows, RowType, LastType, TickType

LEMMA DeferTyped == ASSUME Typed, NEW s \in Schedules, Defer(s) PROVE Typed'
<1>1. schedule' \in [Schedules -> RowType] /\ last \in [Schedules -> LastType]
  BY Unfold DEF Typed, Defer, Deferred
<1> QED BY <1>1, DoneTyped DEF Typed, TypeOK, Defer

LEMMA CurIsDue == Typed /\ tick.pc \in {"skip", "assign", "queue"} => tick.cur \in Schedules /\ tick.row[tick.cur] \in AnyTeam
<1> SUFFICES ASSUME Typed, tick.pc \in {"skip", "assign", "queue"}
             PROVE  tick.cur \in Schedules /\ tick.row[tick.cur] \in AnyTeam
  OBVIOUS
<1>1. tick \in TickType BY Unfold DEF Typed
<1> QED BY <1>1 DEF Typed, Knows, DueRows, TickType

LEMMA LookUpTyped == ASSUME Typed, NEW s \in Schedules, LookUp(s) PROVE Typed'
<1>1. tick \in TickType BY Unfold DEF Typed
<1>2. tick' = [pc |-> IF Predecessor(s) # {} THEN "skip" ELSE "assign", row |-> tick.row, cur |-> s, ids |-> tick.ids]
  BY <1>1 DEF LookUp, TickType
<1>3. tick' \in TickType /\ tick'.pc # "queue" /\ tick'.cur = s /\ s \in DueRows'
  BY <1>1, <1>2 DEF TickType, LookUp, DueRows
<1> QED BY <1>3 DEF Typed, TypeOK, Knows, LookUp, TickType

LEMMA SkipTyped == Typed /\ Skip => Typed'
<1> SUFFICES ASSUME Typed, Skip PROVE Typed' OBVIOUS
<1>1. tick.cur \in Schedules BY CurIsDue DEF Skip
<1>2. schedule \in [Schedules -> RowType] /\ last \in [Schedules -> LastType] BY Unfold DEF Typed
<1>3. [schedule[tick.cur] EXCEPT !.wait = IF Exists(tick.cur) THEN NextRun(tick.cur) ELSE @] \in RowType
  BY <1>1, <1>2, NextRunType DEF RowType
<1>4. schedule' = [schedule EXCEPT ![tick.cur] = [schedule[tick.cur] EXCEPT !.wait = IF Exists(tick.cur) THEN NextRun(tick.cur) ELSE @]]
  BY <1>1, <1>2 DEF Skip, AfterSkip
<1>5. schedule' \in [Schedules -> RowType] BY <1>1, <1>2, <1>3, <1>4
<1>6. outcome' \in [Schedules -> {"none", "queued", "skipped", "refused"}] BY DEF Skip, Typed, TypeOK
<1> QED BY <1>1, <1>2, <1>5, <1>6, DoneTyped DEF Skip, Typed, TypeOK

LEMMA AssignTyped == Typed /\ Assign => Typed'
<1> SUFFICES ASSUME Typed, Assign PROVE Typed' OBVIOUS
<1>1. tick \in TickType BY Unfold DEF Typed
<1>2. tick.row[tick.cur] \in AnyTeam /\ tick.cur \in DueRows BY CurIsDue DEF Assign, Typed, Knows
<1>3. tick' = [pc |-> "queue", row |-> tick.row, cur |-> tick.cur, ids |-> LiveTeam(tick.row[tick.cur])]
  BY <1>1 DEF Assign, TickType
<1>4. tick' \in TickType /\ tick'.ids # {} /\ tick'.cur \in DueRows'
  BY <1>1, <1>2, <1>3, LiveTeamType DEF TickType, DueRows
<1> QED BY <1>4 DEF Typed, TypeOK, Knows, Assign, TickType

LEMMA AfterRunType ==
  ASSUME schedule \in [Schedules -> RowType], NEW s \in Schedules
  PROVE  AfterRun(s) \in [Schedules -> RowType]
<1>1. schedule[s] \in RowType OBVIOUS
<1>2. [schedule[s] EXCEPT !.state = "off"] \in RowType BY <1>1 DEF RowType
<1>3. [schedule[s] EXCEPT !.wait = NextRun(s)] \in RowType BY <1>1, NextRunType DEF RowType
<1> QED BY <1>1, <1>2, <1>3 DEF AfterRun

LEMMA QueueRunTyped == Typed /\ QueueRun => Typed'
<1> SUFFICES ASSUME Typed, QueueRun PROVE Typed' OBVIOUS
<1> DEFINE s == tick.cur
           parts == PartsFor(tick.row[s], tick.ids)
           turn == 1 - last[s].turn
           requests == {[schedule |-> s, turn |-> turn, agent |-> p.agent, share |-> p.share] : p \in parts}
<1>1. s \in Schedules BY CurIsDue DEF QueueRun
<1>2. schedule \in [Schedules -> RowType] /\ last \in [Schedules -> LastType] /\ tick \in TickType
  BY Unfold DEF Typed
<1>3. schedule' \in [Schedules -> RowType] BY <1>1, <1>2, AfterRunType DEF QueueRun
<1>4. Splits(tick.ids) => parts \in SUBSET [agent : Agents, share : SUBSET Pieces]
  BY <1>2, PartsOfSet DEF PartsFor, TickType
<1>5. turn \in 0..1 BY <1>1, <1>2 DEF LastType
<1>6. Splits(tick.ids) => requests \subseteq RequestType BY <1>1, <1>4, <1>5 DEF RequestType
<1>7. Splits(tick.ids) => [turn |-> turn, ids |-> tick.ids, parts |-> parts] \in LastType
  BY <1>2, <1>4, <1>5 DEF LastType, TickType
<1>8. waiting' \subseteq RequestType
  <2>1. waiting' = waiting \/ (Splits(tick.ids) /\ waiting' = waiting \cup requests) BY DEF QueueRun
  <2> QED BY <1>6, <2>1 DEF Typed, TypeOK
<1>9. last' \in [Schedules -> LastType]
  <2>1. \/ last' = last
        \/ Splits(tick.ids) /\ last' = [last EXCEPT ![s] = [turn |-> turn, ids |-> tick.ids, parts |-> parts]]
    BY DEF QueueRun
  <2> QED BY <1>2, <1>7, <2>1
<1>10. outcome' \in [Schedules -> {"none", "queued", "skipped", "refused"}]
  BY DEF QueueRun, Typed, TypeOK
<1>11. owed' \in [Schedules -> Int] BY DEF QueueRun, Typed, TypeOK
<1>12. Done(s) /\ UNCHANGED <<clock, ticked, agent, edit, events>> BY DEF QueueRun
<1> HIDE DEF s
<1> QED BY <1>1, <1>3, <1>8, <1>9, <1>10, <1>11, <1>12, DoneTyped

LEMMA TickFailsTyped == Typed /\ TickFails => Typed'
<1> SUFFICES ASSUME Typed, TickFails PROVE Typed' OBVIOUS
<1>1. tick' \in TickType /\ tick'.pc = "idle" BY Records DEF TickFails
<1> QED BY <1>1 DEF Typed, TypeOK, Knows, TickFails, TickType

LEMMA EventsTyped == Typed /\ Happens => events' \in 0..MaxEvents
BY ScheduleAssumption DEF Typed, TypeOK, Happens

LEMMA EditReadTyped ==
  ASSUME Typed, NEW s \in Schedules, NEW t \in TeamsOf(s), NEW d \in Delays \cup {0},
         NEW what \in {"create", "pause", "resume", "team", "retime", "runAt"}, EditRead(s, what, t, d)
  PROVE  Typed'
<1>1. t \in AnyTeam \cup {<<>>} BY DEF TeamsOf, AnyTeam
<1>2. edit' = [pc |-> "read", cur |-> s, what |-> what, team |-> t, delay |-> d, stale |-> schedule[s].wait = 0]
  BY DEF EditRead
<1>3. (schedule[s].wait = 0) \in BOOLEAN OBVIOUS
<1>4. edit' \in EditType /\ edit'.cur \in Schedules BY <1>1, <1>2, <1>3 DEF EditType
<1>5. events' \in 0..MaxEvents BY EventsTyped DEF EditRead
<1> QED BY <1>4, <1>5 DEF Typed, TypeOK, Knows, EditRead, EditType, DueRows

LEMMA EditWriteTyped == Typed /\ EditWrite => Typed'
<1> SUFFICES ASSUME Typed, EditWrite PROVE Typed' OBVIOUS
<1>1. schedule \in [Schedules -> RowType] /\ edit \in EditType /\ edit.cur \in Schedules
  BY Unfold DEF Typed, Knows, EditWrite
<1>2. schedule' \in [Schedules -> RowType]
  <2>1. Edited(schedule[edit.cur]) \in RowType BY <1>1, EditedType
  <2> QED BY <1>1, <2>1 DEF EditWrite
<1>3. owed' \in [Schedules -> Int] BY <1>1 DEF EditWrite, Typed, TypeOK
<1>4. edit' \in EditType /\ edit'.pc = "idle" BY Records DEF EditWrite
<1> QED BY <1>2, <1>3, <1>4 DEF Typed, TypeOK, Knows, EditWrite, RowType, EditType, DueRows

LEMMA DeleteType ==
  ASSUME schedule \in [Schedules -> RowType], NEW gone, Delete(gone)
  PROVE  schedule' \in [Schedules -> RowType]
<1>1. GoneRow \in RowType BY DEF GoneRow, RowType
<1> QED BY <1>1 DEF Delete

LEMMA DeleteScheduleTyped == ASSUME Typed, NEW s \in Schedules, DeleteSchedule(s) PROVE Typed'
<1>1. schedule' \in [Schedules -> RowType] BY Unfold, DeleteType DEF Typed, DeleteSchedule
<1>2. events' \in 0..MaxEvents BY EventsTyped DEF DeleteSchedule
<1>3. waiting' \subseteq RequestType BY DEF DeleteSchedule, Typed, TypeOK
<1> QED BY <1>1, <1>2, <1>3, SMTT(30) DEF Typed, TypeOK, Knows, DeleteSchedule, RowType, DueRows

LEMMA RevokeTyped == ASSUME Typed, NEW a \in Agents, Revoke(a) PROVE Typed'
<1>1. events' \in 0..MaxEvents BY EventsTyped DEF Revoke
<1>2. agent' \in [Agents -> {"live", "revoked", "deleted"}] BY DEF Revoke, Typed, TypeOK
<1> QED BY <1>1, <1>2 DEF Typed, TypeOK, Knows, Revoke, DueRows

LEMMA DeleteAgentTyped == ASSUME Typed, NEW a \in Agents, DeleteAgent(a) PROVE Typed'
<1>1. schedule' \in [Schedules -> RowType] BY Unfold, DeleteType DEF Typed, DeleteAgent
<1>2. events' \in 0..MaxEvents BY EventsTyped DEF DeleteAgent
<1>3. agent' \in [Agents -> {"live", "revoked", "deleted"}] BY DEF DeleteAgent, Typed, TypeOK
<1>4. waiting' \subseteq RequestType BY DEF DeleteAgent, Typed, TypeOK
<1> QED BY <1>1, <1>2, <1>3, <1>4 DEF Typed, TypeOK, Knows, DeleteAgent, RowType, DueRows

LEMMA ClaimTyped == ASSUME Typed, NEW a \in Agents, Claim(a) PROVE Typed'
<1>1. waiting' \subseteq RequestType BY DEF Claim, Typed, TypeOK
<1> QED BY <1>1 DEF Typed, TypeOK, Knows, Claim, DueRows

LEMMA CancelTyped == Typed /\ CancelRequest => Typed'
<1> SUFFICES ASSUME Typed, CancelRequest PROVE Typed' OBVIOUS
<1>1. waiting' \subseteq RequestType BY DEF CancelRequest, Typed, TypeOK
<1>2. events' \in 0..MaxEvents BY EventsTyped DEF CancelRequest
<1> QED BY <1>1, <1>2 DEF Typed, TypeOK, Knows, CancelRequest, DueRows

LEMMA RestartTyped == Typed /\ Restart => Typed'
<1> SUFFICES ASSUME Typed, Restart PROVE Typed' OBVIOUS
<1>1. tick' \in TickType /\ tick'.pc = "idle" BY Records DEF Restart
<1>2. edit' \in EditType /\ edit'.pc = "idle" BY Records DEF Restart
<1>3. events' \in 0..MaxEvents BY EventsTyped DEF Restart
<1> QED BY <1>1, <1>2, <1>3 DEF Typed, TypeOK, Knows, Restart, TickType, EditType

LEMMA MinuteTyped == Typed /\ Minute => Typed'
<1> SUFFICES ASSUME Typed, Minute PROVE Typed' OBVIOUS
<1>1. schedule \in [Schedules -> RowType] BY Unfold DEF Typed
<1>2. \A s \in Schedules : [schedule[s] EXCEPT !.wait = IF schedule[s].wait = 0 THEN 0 ELSE schedule[s].wait - 1] \in RowType
  BY <1>1 DEF RowType
<1>3. schedule' \in [Schedules -> RowType] BY <1>2 DEF Minute
<1>4. clock' \in 0..Day - 1
  <2>1. clock \in Nat /\ Day \in Nat \ {0} BY ScheduleAssumption DEF Typed, TypeOK
  <2> QED BY <2>1 DEF Minute
<1> QED BY <1>3, <1>4 DEF Typed, TypeOK, Knows, Minute, RowType, DueRows

LEMMA StepTyped == Typed /\ [Next]_vars => Typed'
<1> SUFFICES ASSUME Typed, [Next]_vars PROVE Typed' OBVIOUS
<1>1. CASE TickStart BY <1>1, TickStartTyped
<1>2. CASE Skip BY <1>2, SkipTyped
<1>3. CASE Assign BY <1>3, AssignTyped
<1>4. CASE QueueRun BY <1>4, QueueRunTyped
<1>5. CASE TickFails BY <1>5, TickFailsTyped
<1>6. ASSUME NEW s \in Schedules, Defer(s) \/ LookUp(s) PROVE Typed' BY <1>6, DeferTyped, LookUpTyped
<1>7. CASE Administer
  <2>1. ASSUME NEW s \in Schedules, NEW d \in Delays \cup {0}, NEW t \in TeamsOf(s),
               NEW what \in {"create", "pause", "resume", "team", "retime", "runAt"}, EditRead(s, what, t, d)
        PROVE  Typed'
    BY <2>1, EditReadTyped
  <2>2. ASSUME NEW s \in Schedules, DeleteSchedule(s) PROVE Typed' BY <2>2, DeleteScheduleTyped
  <2>3. ASSUME NEW a \in Agents, Revoke(a) \/ DeleteAgent(a) PROVE Typed' BY <2>3, RevokeTyped, DeleteAgentTyped
  <2> QED BY <1>7, <2>1, <2>2, <2>3, EditWriteTyped DEF Administer
<1>8. ASSUME NEW a \in Agents, Claim(a) PROVE Typed' BY <1>8, ClaimTyped
<1>9. CASE CancelRequest BY <1>9, CancelTyped
<1>10. CASE Restart BY <1>10, RestartTyped
<1>11. CASE Minute BY <1>11, MinuteTyped
<1>12. CASE UNCHANGED vars BY <1>12 DEF vars, Typed, TypeOK, Knows, DueRows
<1> QED BY <1>1, <1>2, <1>3, <1>4, <1>5, <1>6, <1>7, <1>8, <1>9, <1>10, <1>11, <1>12 DEF Next, TickStep

\* The variables keep their types, and a run that is being queued has a
\* scanner to go to, whoever was revoked or deleted (scheduler.ts:
\* assignableScannerIds falls back to the first of the team).
THEOREM TypeCorrect == Spec => []TypeOK
<1>1. Typed => TypeOK BY DEF Typed
<1> QED BY <1>1, InitTyped, StepTyped, PTL DEF Spec
-----------------------------------------------------------------------------
\* One run of a schedule at a time

\* Between the look at the queue and the insert nobody else queues for the
\* schedule: the check of alreadyQueued is still good when it is used.
Clear == tick.pc \in {"assign", "queue"} => Pending(tick.cur) = {}

Single == Typed /\ Clear /\ RunsDoNotPileUp

\* Requests only leave the queue and the tick looks at none, or not at another.
LEMMA QueueShrinks ==
  ASSUME Single, waiting' \subseteq waiting, last' = last,
         tick'.pc \in {"assign", "queue"} => tick.pc \in {"assign", "queue"} /\ tick'.cur = tick.cur
  PROVE  Clear' /\ RunsDoNotPileUp'
<1>1. \A s : Pending(s)' \subseteq Pending(s) BY DEF Pending
<1>2. Clear' BY <1>1 DEF Single, Clear
<1>3. RunsDoNotPileUp' BY <1>1 DEF Single, RunsDoNotPileUp
<1> QED BY <1>2, <1>3

LEMMA QueueRunSingle == Single /\ QueueRun => Clear' /\ RunsDoNotPileUp'
<1> SUFFICES ASSUME Single, QueueRun PROVE Clear' /\ RunsDoNotPileUp' OBVIOUS
<1> DEFINE s == tick.cur
           parts == PartsFor(tick.row[s], tick.ids)
           turn == 1 - last[s].turn
           requests == {[schedule |-> s, turn |-> turn, agent |-> p.agent, share |-> p.share] : p \in parts}
<1>1. s \in Schedules /\ tick \in TickType /\ last \in [Schedules -> LastType]
  BY CurIsDue, Unfold DEF QueueRun, Single, Typed
<1>2. tick'.pc \in {"idle", "loop"} BY <1>1, DoneTick DEF QueueRun
<1>3. Clear' BY <1>2 DEF Clear
<1>4. Pending(s) = {} BY DEF Single, Clear, QueueRun
<1>5. CASE ~Splits(tick.ids)
  <2>1. waiting' = waiting /\ last' = last BY <1>5 DEF QueueRun
  <2> QED BY <1>2, <2>1, QueueShrinks
<1>6. CASE Splits(tick.ids)
  <2>1. waiting' = waiting \cup requests BY <1>6 DEF QueueRun
  <2>2. last' = [last EXCEPT ![s] = [turn |-> turn, ids |-> tick.ids, parts |-> parts]] BY <1>6 DEF QueueRun
  <2>3. last'[s].turn = turn BY <1>1, <2>2
  <2>4. \A r \in requests : r.schedule = s /\ r.turn = turn OBVIOUS
  <2>5. ASSUME NEW x \in Schedules, NEW r \in Pending(x)' PROVE r.turn = last'[x].turn
    <3>1. r \in waiting' /\ r.schedule = x BY DEF Pending
    <3>2. CASE x = s
      <4>1. r \notin waiting BY <1>4, <3>1, <3>2 DEF Pending
      <4>2. r \in requests BY <2>1, <3>1, <4>1
      <4> HIDE DEF requests, turn, s
      <4> QED BY <2>3, <2>4, <3>2, <4>2
    <3>3. CASE x # s
      <4> HIDE DEF requests, s
      <4>1. r \in waiting BY <2>1, <2>4, <3>1, <3>3
      <4>2. r \in Pending(x) BY <3>1, <4>1 DEF Pending
      <4>3. last'[x] = last[x] BY <1>1, <2>2, <3>3
      <4> QED BY <4>2, <4>3 DEF Single, RunsDoNotPileUp
    <3> QED BY <3>2, <3>3
  <2>6. RunsDoNotPileUp' BY <2>5 DEF RunsDoNotPileUp
  <2> QED BY <1>3, <2>6
<1> QED BY <1>5, <1>6

LEMMA LookUpSingle == ASSUME Single, NEW s \in Schedules, LookUp(s) PROVE Clear' /\ RunsDoNotPileUp'
<1>1. tick \in TickType BY Unfold DEF Single, Typed
<1>2. tick' = [pc |-> IF Predecessor(s) # {} THEN "skip" ELSE "assign", row |-> tick.row, cur |-> s, ids |-> tick.ids]
  BY <1>1 DEF LookUp, TickType
<1>3. Clear' BY <1>2 DEF Clear, Predecessor, Pending, LookUp
<1>4. RunsDoNotPileUp' BY DEF Single, RunsDoNotPileUp, LookUp, Pending
<1> QED BY <1>3, <1>4

LEMMA TickMoves ==
  ASSUME Single, NEW s \in Schedules, Done(s)
  PROVE  tick'.pc \notin {"assign", "queue"}
BY Unfold, DoneTick DEF Single, Typed

LEMMA StepSingle == Single /\ [Next]_vars => Single'
<1> SUFFICES ASSUME Single, [Next]_vars PROVE Single' OBVIOUS
<1>0. Typed' BY StepTyped DEF Single
<1>1. CASE TickStart
  <2>1. tick'.pc \in {"loop", "idle"} BY <1>1 DEF TickStart, IdleTick
  <2>2. waiting' = waiting /\ last' = last BY <1>1 DEF TickStart
  <2> QED BY <1>0, <2>1, <2>2, QueueShrinks DEF Single
<1>2. CASE Skip
  <2>1. tick.cur \in Schedules BY <1>2, CurIsDue DEF Skip, Single
  <2> QED BY <1>0, <1>2, <2>1, TickMoves, QueueShrinks DEF Single, Skip
<1>3. CASE Assign
  <2>1. tick \in TickType BY Unfold DEF Single, Typed
  <2>2. tick'.cur = tick.cur /\ tick.pc = "assign" BY <1>3, <2>1 DEF Assign, TickType
  <2>3. waiting' = waiting /\ last' = last BY <1>3 DEF Assign
  <2> QED BY <1>0, <2>2, <2>3, QueueShrinks DEF Single
<1>4. CASE QueueRun BY <1>0, <1>4, QueueRunSingle DEF Single
<1>5. CASE TickFails
  <2>1. tick'.pc = "idle" BY <1>5 DEF TickFails, IdleTick
  <2> QED BY <1>0, <1>5, <2>1, QueueShrinks DEF Single, TickFails
<1>6. ASSUME NEW s \in Schedules, Defer(s) PROVE Single'
  <2> QED BY <1>0, <1>6, TickMoves, QueueShrinks DEF Single, Defer
<1>7. ASSUME NEW s \in Schedules, LookUp(s) PROVE Single' BY <1>0, <1>7, LookUpSingle DEF Single
<1>8. CASE Administer \/ \E a \in Agents : Claim(a)
  <2>1. waiting' \subseteq waiting /\ last' = last /\ tick' = tick
    BY <1>8, ZenonT(60) DEF Administer, EditRead, EditWrite, DeleteSchedule, Revoke, DeleteAgent, Claim
  <2> QED BY <1>0, <2>1, QueueShrinks DEF Single
<1>9. CASE CancelRequest \/ Minute \/ UNCHANGED vars
  <2>1. waiting' \subseteq waiting /\ last' = last /\ tick' = tick BY <1>9 DEF CancelRequest, Minute, vars
  <2> QED BY <1>0, <2>1, QueueShrinks DEF Single
<1>10. CASE Restart
  <2>1. tick'.pc = "idle" BY <1>10 DEF Restart, IdleTick
  <2>2. waiting' = waiting /\ last' = last BY <1>10 DEF Restart
  <2> QED BY <1>0, <2>1, <2>2, QueueShrinks DEF Single
<1> QED BY <1>1, <1>2, <1>3, <1>4, <1>5, <1>6, <1>7, <1>8, <1>9, <1>10 DEF Next, TickStep

\* All that waits of one schedule belongs to its last run: a due schedule
\* is skipped as long as a part waits (scheduler.ts: alreadyQueued), and
\* neither an edit nor a claim nor a restart comes between that look and the
\* insert with a request of the same schedule.
THEOREM NoPileUp == Spec => []RunsDoNotPileUp
<1>1. Init => Single
  <2> SUFFICES ASSUME Init PROVE Single OBVIOUS
  <2>1. Typed BY InitTyped
  <2>2. tick.pc = "idle" /\ waiting = {} BY DEF Init, IdleTick
  <2> QED BY <2>1, <2>2 DEF Single, Clear, RunsDoNotPileUp, Pending
<1>2. Single => RunsDoNotPileUp BY DEF Single
<1> QED BY <1>1, <1>2, StepSingle, PTL DEF Spec
-----------------------------------------------------------------------------
\* A "once" schedule

\* Whoever switched a "once" schedule on is still owed its run, and so is
\* whoever it is about to be queued for.
Armed(s) == Kind[s] = "once" /\ (schedule[s].state = "on" \/ tick.row[s] # <<>>) => owed[s] >= 1
Promised == Typed /\ (\A s \in Schedules : Armed(s)) /\ OnceMeansOnce

\* Nothing is switched on and nothing read anew, and no run is had.
LEMMA StillPromised ==
  ASSUME Promised, owed' = owed,
         \A s \in Schedules : schedule'[s].state = "on" => schedule[s].state = "on" \/ tick.row[s] # <<>>,
         \A s \in Schedules : tick'.row[s] # <<>> => schedule[s].state = "on" \/ tick.row[s] # <<>>
  PROVE  (\A s \in Schedules : Armed(s))' /\ OnceMeansOnce'
BY DEF Promised, Armed, OnceMeansOnce

LEMMA DoneRows ==
  ASSUME tick \in TickType, NEW s \in Schedules, Done(s)
  PROVE  tick'.row[s] = <<>> /\ \A x \in Schedules : tick'.row[x] # <<>> => tick.row[x] # <<>>
<1>1. CASE DueRows = {s}
  <2>1. \A x \in Schedules : tick'.row[x] = <<>> BY <1>1 DEF Done, IdleTick
  <2> QED BY <2>1
<1>2. CASE DueRows # {s}
  <2>1. tick'.row = [tick.row EXCEPT ![s] = <<>>] BY <1>2 DEF Done, IdleTick
  <2> QED BY <2>1 DEF TickType
<1> QED BY <1>1, <1>2

LEMMA IdleRows == \A s \in Schedules : IdleTick.row[s] = <<>>
BY DEF IdleTick

LEMMA AfterRunStates ==
  ASSUME schedule \in [Schedules -> RowType], NEW s \in Schedules
  PROVE  /\ \A x \in Schedules : AfterRun(s)[x].state = "on" => schedule[x].state = "on"
         /\ Kind[s] = "once" => AfterRun(s)[s].state # "on"
<1>1. schedule[s] \in RowType OBVIOUS
<1>2. [schedule[s] EXCEPT !.state = "off"].state = "off" BY <1>1 DEF RowType
<1>3. [schedule[s] EXCEPT !.wait = NextRun(s)].state = schedule[s].state BY <1>1 DEF RowType
<1>4. \A x \in Schedules : x # s => AfterRun(s)[x] = schedule[x] BY DEF AfterRun
<1>5. AfterRun(s)[s] = IF ~Exists(s) THEN schedule[s]
                       ELSE IF Kind[s] = "once" THEN [schedule[s] EXCEPT !.state = "off"]
                       ELSE [schedule[s] EXCEPT !.wait = NextRun(s)]
  BY DEF AfterRun
<1> QED BY <1>2, <1>3, <1>4, <1>5 DEF Exists

LEMMA QueueRunPromised == Promised /\ QueueRun => (\A s \in Schedules : Armed(s))' /\ OnceMeansOnce'
<1> SUFFICES ASSUME Promised, QueueRun PROVE (\A s \in Schedules : Armed(s))' /\ OnceMeansOnce' OBVIOUS
<1> DEFINE s == tick.cur
<1>1. s \in Schedules /\ tick.row[s] \in AnyTeam BY CurIsDue DEF Promised, QueueRun
<1>2. schedule \in [Schedules -> RowType] /\ tick \in TickType /\ owed \in [Schedules -> Int]
  BY Unfold DEF Promised, Typed, TypeOK
<1>3. tick'.row[s] = <<>> /\ \A x \in Schedules : tick'.row[x] # <<>> => tick.row[x] # <<>>
  BY <1>1, <1>2, DoneRows DEF QueueRun
<1>4. schedule' = AfterRun(s) BY DEF QueueRun
<1>5. /\ \A x \in Schedules : schedule'[x].state = "on" => schedule[x].state = "on"
      /\ Kind[s] = "once" => schedule'[s].state # "on"
  <2> HIDE DEF s
  <2> QED BY <1>1, <1>2, <1>4, AfterRunStates
<1>6. CASE owed' = owed BY <1>3, <1>5, <1>6, StillPromised
<1>7. CASE owed' = [owed EXCEPT ![s] = IF Kind[s] = "once" THEN @ - 1 ELSE @]
  <2>1. Kind[s] = "once" => owed[s] >= 1 BY <1>1, TeamMembers DEF Promised, Armed
  <2>2. Kind[s] = "once" => owed'[s] = owed[s] - 1 BY <1>1, <1>2, <1>7
  <2>3. Kind[s] # "once" => owed'[s] = owed[s] BY <1>1, <1>2, <1>7
  <2>4. \A x \in Schedules : x # s => owed'[x] = owed[x] BY <1>1, <1>2, <1>7
  <2>5. owed[s] \in Int BY <1>1, <1>2
  <2>6. OnceMeansOnce'
    <3>1. owed'[s] >= 0 BY <1>1, <2>1, <2>2, <2>3, <2>5 DEF Promised, OnceMeansOnce
    <3> HIDE DEF s
    <3> QED BY <2>4, <3>1 DEF Promised, OnceMeansOnce
  <2>7. ASSUME NEW x \in Schedules PROVE Armed(x)'
    <3>1. CASE x = s BY <1>3, <1>5, <3>1 DEF Armed
    <3>2. CASE x # s
      <4> HIDE DEF s
      <4> QED BY <1>3, <1>5, <2>4, <3>2 DEF Promised, Armed
    <3> QED BY <3>1, <3>2
  <2> QED BY <2>6, <2>7
<1>8. owed' = owed \/ owed' = [owed EXCEPT ![s] = IF Kind[s] = "once" THEN @ - 1 ELSE @]
  BY DEF QueueRun
<1> QED BY <1>6, <1>7, <1>8

LEMMA EditedState ==
  ASSUME edit \in EditType, edit.cur \in Schedules, NEW row \in RowType, Edited(row).state = "on"
  PROVE  row.state = "on" \/ edit.what \in {"create", "resume"}
<1>1. edit.what \in {"create", "pause", "resume", "team", "retime", "runAt"} BY DEF EditType
<1>2. CASE edit.what = "pause"
  <2>1. Edited(row) = [row EXCEPT !.state = "off"] BY <1>2 DEF Edited
  <2> QED BY <2>1 DEF RowType
<1>3. CASE edit.what = "team"
  <2>1. Edited(row) = [row EXCEPT !.team = edit.team] BY <1>3 DEF Edited
  <2> QED BY <2>1 DEF RowType
<1>4. CASE edit.what = "retime"
  <2>1. Edited(row) = [row EXCEPT !.wait = Period[edit.cur]] BY <1>4 DEF Edited
  <2> QED BY <2>1 DEF RowType
<1>5. CASE edit.what = "runAt"
  <2>1. Edited(row) = [row EXCEPT !.wait = edit.delay] BY <1>5 DEF Edited
  <2> QED BY <2>1 DEF RowType
<1> QED BY <1>1, <1>2, <1>3, <1>4, <1>5

LEMMA EditWritePromised == Promised /\ EditWrite => (\A s \in Schedules : Armed(s))' /\ OnceMeansOnce'
<1> SUFFICES ASSUME Promised, EditWrite PROVE (\A s \in Schedules : Armed(s))' /\ OnceMeansOnce' OBVIOUS
<1>1. schedule \in [Schedules -> RowType] /\ edit \in EditType /\ edit.cur \in Schedules
  BY Unfold DEF Promised, Typed, Knows, EditWrite
<1>2. owed \in [Schedules -> Int] /\ tick' = tick BY DEF Promised, Typed, TypeOK, EditWrite
<1>3. CASE EditRefused BY <1>2, <1>3, StillPromised DEF EditWrite
<1>4. CASE ~EditRefused
  <2> DEFINE c == edit.cur
             asked == Kind[c] = "once" /\ edit.what \in {"create", "resume", "runAt"}
  <2>1. schedule' = [schedule EXCEPT ![c] = Edited(schedule[c])] BY <1>4 DEF EditWrite
  <2>2. owed' = [owed EXCEPT ![c] = IF asked THEN owed[c] + 1 ELSE owed[c]] BY <1>4 DEF EditWrite
  <2>3. schedule[c] \in RowType BY <1>1
  <2>4. schedule'[c].state = "on" => schedule[c].state = "on" \/ edit.what \in {"create", "resume"}
    BY <1>1, <2>1, <2>3, EditedState
  <2>5. \A x \in Schedules : x # c => schedule'[x] = schedule[x] /\ owed'[x] = owed[x] BY <1>1, <1>2, <2>1, <2>2
  <2>6. owed[c] \in Int /\ owed[c] >= 0 BY <1>1, <1>2 DEF Promised, OnceMeansOnce
  <2>7. asked => owed'[c] = owed[c] + 1 BY <1>1, <1>2, <2>2
  <2>8. ~asked => owed'[c] = owed[c] BY <1>1, <1>2, <2>2
  <2>9. owed'[c] >= 0
    <3>1. CASE asked BY <2>6, <2>7, <3>1
    <3>2. CASE ~asked BY <2>6, <2>8, <3>2
    <3> QED BY <3>1, <3>2
  <2>10. ASSUME NEW x \in Schedules PROVE owed'[x] >= 0
    <3>1. CASE x = c BY <2>9, <3>1
    <3>2. CASE x # c BY <2>5, <3>2 DEF Promised, OnceMeansOnce
    <3> QED BY <3>1, <3>2
  <2>11. ASSUME NEW x \in Schedules PROVE Armed(x)'
    <3>1. CASE x = c
      <4>1. CASE asked
        <5>1. owed'[c] >= 1 BY <2>6, <2>7, <4>1
        <5> QED BY <3>1, <5>1 DEF Armed
      <4>2. CASE ~asked
        <5>1. Kind[c] = "once" /\ (schedule'[c].state = "on" \/ tick'.row[c] # <<>>)
                => schedule[c].state = "on" \/ tick.row[c] # <<>>
          BY <1>2, <2>4, <4>2
        <5>2. Armed(c) BY <1>1 DEF Promised
        <5> QED BY <2>8, <3>1, <4>2, <5>1, <5>2 DEF Armed
      <4> QED BY <4>1, <4>2
    <3>2. CASE x # c
      <4>1. Armed(x) BY DEF Promised
      <4> QED BY <1>2, <2>5, <3>2, <4>1 DEF Armed
    <3> QED BY <3>1, <3>2
  <2> QED BY <2>10, <2>11 DEF OnceMeansOnce
<1> QED BY <1>3, <1>4

LEMMA TickStartPromised == Promised /\ TickStart => (\A s \in Schedules : Armed(s))' /\ OnceMeansOnce'
<1> SUFFICES ASSUME Promised, TickStart PROVE (\A s \in Schedules : Armed(s))' /\ OnceMeansOnce' OBVIOUS
<1>1. tick'.row = [s \in Schedules |-> IF Due(s) THEN schedule[s].team ELSE <<>>] BY DEF TickStart, IdleTick
<1>2. \A s \in Schedules : tick'.row[s] # <<>> => schedule[s].state = "on" BY <1>1 DEF Due
<1> QED BY <1>2, StillPromised DEF TickStart

LEMMA StepPromised == Promised /\ [Next]_vars => Promised'
<1> SUFFICES ASSUME Promised, [Next]_vars PROVE Promised' OBVIOUS
<1>0. Typed' BY StepTyped DEF Promised
<1>a. schedule \in [Schedules -> RowType] /\ tick \in TickType BY Unfold DEF Promised, Typed
<1>1. CASE TickStart BY <1>0, <1>1, TickStartPromised DEF Promised
<1>2. CASE Skip
  <2>1. tick.cur \in Schedules BY <1>2, CurIsDue DEF Skip, Promised
  <2>2. \A s \in Schedules : schedule'[s].state = schedule[s].state
    <3>1. schedule' = [schedule EXCEPT ![tick.cur] = [schedule[tick.cur] EXCEPT !.wait =
                         IF Exists(tick.cur) THEN NextRun(tick.cur) ELSE @]]
      BY <1>a, <1>2, <2>1 DEF Skip, AfterSkip
    <3>2. [schedule[tick.cur] EXCEPT !.wait = IF Exists(tick.cur) THEN NextRun(tick.cur) ELSE @].state
            = schedule[tick.cur].state
      BY <1>a, <2>1 DEF RowType
    <3> QED BY <1>a, <2>1, <3>1, <3>2
  <2>3. \A s \in Schedules : tick'.row[s] # <<>> => tick.row[s] # <<>>
    BY <1>a, <1>2, <2>1, DoneRows DEF Skip
  <2>4. owed' = owed BY <1>2 DEF Skip
  <2> QED BY <1>0, <2>2, <2>3, <2>4, StillPromised DEF Promised
<1>3. CASE Assign
  <2>1. tick'.row = tick.row BY <1>a, <1>3 DEF Assign, TickType
  <2> QED BY <1>0, <1>3, <2>1, StillPromised DEF Promised, Assign
<1>4. CASE QueueRun BY <1>0, <1>4, QueueRunPromised DEF Promised
<1>5. CASE TickFails BY <1>0, <1>5, IdleRows, StillPromised DEF Promised, TickFails
<1>6. ASSUME NEW s \in Schedules, Defer(s) PROVE Promised'
  BY <1>0, <1>a, <1>6, DoneRows, StillPromised DEF Promised, Defer, Deferred
<1>7. ASSUME NEW s \in Schedules, LookUp(s) PROVE Promised'
  <2>1. tick'.row = tick.row BY <1>a, <1>7 DEF LookUp, TickType
  <2> QED BY <1>0, <1>7, <2>1, StillPromised DEF Promised, LookUp
<1>8. CASE EditWrite BY <1>0, <1>8, EditWritePromised DEF Promised
<1>9. CASE \/ \E s \in Schedules, d \in Delays \cup {0} : \E t \in TeamsOf(s) :
                \E what \in {"create", "pause", "resume", "team", "retime", "runAt"} : EditRead(s, what, t, d)
           \/ \E s \in Schedules : DeleteSchedule(s)
           \/ \E a \in Agents : Revoke(a) \/ DeleteAgent(a)
  <2>1. owed' = owed /\ tick' = tick BY <1>9, ZenonT(60) DEF EditRead, DeleteSchedule, Revoke, DeleteAgent
  <2>2. schedule' = schedule \/ \E gone : Delete(gone)
    BY <1>9, ZenonT(60) DEF EditRead, DeleteSchedule, Revoke, DeleteAgent
  <2>3. \A s \in Schedules : schedule'[s].state = "on" => schedule[s].state = "on"
    <3>1. CASE schedule' = schedule BY <3>1
    <3>2. ASSUME NEW gone, Delete(gone), NEW s \in Schedules, schedule'[s].state = "on"
          PROVE  schedule[s].state = "on"
      BY <3>2 DEF Delete, GoneRow
    <3> QED BY <2>2, <3>1, <3>2
  <2> QED BY <1>0, <2>1, <2>3, StillPromised DEF Promised
<1>10. CASE CancelRequest \/ (\E a \in Agents : Claim(a)) \/ UNCHANGED vars
  <2>1. owed' = owed /\ tick' = tick /\ schedule' = schedule BY <1>10 DEF CancelRequest, Claim, vars
  <2> QED BY <1>0, <2>1, StillPromised DEF Promised
<1>11. CASE Restart BY <1>0, <1>11, IdleRows, StillPromised DEF Promised, Restart
<1>12. CASE Minute
  <2>1. \A s \in Schedules : schedule'[s].state = schedule[s].state BY <1>a, <1>12 DEF Minute, RowType
  <2> QED BY <1>0, <1>12, <2>1, StillPromised DEF Promised, Minute
<1> QED BY <1>1, <1>2, <1>3, <1>4, <1>5, <1>6, <1>7, <1>8, <1>9, <1>10, <1>11, <1>12
        DEF Next, TickStep, Administer

\* A "once" schedule is not queued more often than it was asked for, however
\* edits fall between the read of a tick and its insert (scheduler.ts: the
\* row is switched off in the transaction that queues its run).
THEOREM NeverTwice == Spec => []OnceMeansOnce
<1>1. Init => Promised
  <2> SUFFICES ASSUME Init PROVE Promised OBVIOUS
  <2>1. Typed BY InitTyped
  <2>2. \A s \in Schedules : schedule[s].state = "on" => schedule[s] # NoRow BY DEF NoRow
  <2>3. \A s \in Schedules : tick.row[s] = <<>> BY IdleRows DEF Init
  <2>4. \A s \in Schedules : owed[s] = IF schedule[s] # NoRow /\ Kind[s] = "once" THEN 1 ELSE 0
    BY DEF Init
  <2> QED BY <2>1, <2>2, <2>3, <2>4 DEF Promised, Armed, OnceMeansOnce
<1>2. Promised => OnceMeansOnce BY DEF Promised
<1> QED BY <1>1, <1>2, StepPromised, PTL DEF Spec
-----------------------------------------------------------------------------
\* The parts of a run

\* The parts queued last are those of the scanners they were queued for.
Whole ==
  \A s \in Schedules : last[s].parts # {} =>
    last[s].ids # {} /\ Splits(last[s].ids) /\ last[s].parts = Parts[last[s].ids]
Shared == Typed /\ Whole

LEMMA StepShared == Shared /\ [Next]_vars => Shared'
<1> SUFFICES ASSUME Shared, [Next]_vars PROVE Shared' OBVIOUS
<1>0. Typed' BY StepTyped DEF Shared
<1>1. CASE last' = last BY <1>0, <1>1 DEF Shared, Whole
<1>2. CASE QueueRun
  <2> DEFINE s == tick.cur
             row == [turn |-> 1 - last[s].turn, ids |-> tick.ids, parts |-> Parts[tick.ids]]
  <2>1. s \in Schedules /\ last \in [Schedules -> LastType] BY <1>2, CurIsDue, Unfold DEF QueueRun, Shared, Typed
  <2>2. tick.ids # {} BY <1>2 DEF QueueRun, Shared, Typed, TypeOK
  <2>3. CASE Splits(tick.ids) /\ last' = [last EXCEPT ![s] = row]
    <3>1. last'[s] = row /\ \A x \in Schedules : x # s => last'[x] = last[x] BY <2>1, <2>3
    <3>2. row.ids # {} /\ Splits(row.ids) /\ row.parts = Parts[row.ids] BY <2>2, <2>3
    <3> HIDE DEF s, row
    <3> QED BY <1>0, <3>1, <3>2 DEF Shared, Whole
  <2>4. last' = last \/ (Splits(tick.ids) /\ last' = [last EXCEPT ![s] = row]) BY <1>2 DEF QueueRun, PartsFor
  <2> QED BY <1>1, <2>3, <2>4
<1>3. last' = last \/ QueueRun
  BY ZenonT(60) DEF Next, TickStep, Administer, TickStart, Skip, Assign, TickFails, Defer, LookUp, EditRead, EditWrite,
         DeleteSchedule, Revoke, DeleteAgent, Claim, CancelRequest, Restart, Minute, vars
<1> QED BY <1>1, <1>2, <1>3

LEMMA InitShared == Init => Shared
BY InitTyped DEF Init, Shared, Whole

LEMMA LastIds == Shared => \A s \in Schedules : last[s].ids \in SUBSET Agents
BY Unfold DEF Shared, Typed, LastType

\* Every piece of the target is in exactly one part of a run, whoever was
\* revoked since the schedule was saved (scanSplit.ts: splitTargetSpec).
THEOREM EveryBlockOnce == Spec => []TargetIsShared
<1>1. Shared => TargetIsShared BY LastIds, PartsDivideTheTarget DEF Shared, Whole, TargetIsShared
<1> QED BY <1>1, InitShared, StepShared, PTL DEF Spec

\* A piece changes hands between two runs only if the scanner that had it
\* left the team, or the one that has it now joined it, or the two teams cut
\* the target at different sizes (scanSplit.ts: the hosts of a subnet keep
\* reporting through the same scanner).
THEOREM BlocksKeepTheirScanner == Spec => OnlyLostBlocksMove
<1> DEFINE Stays ==
      \A s \in Schedules : last[s].turn # last[s].turn' =>
        \A a, x \in Agents, b \in Pieces :
          Had(last[s], a, b) /\ Had(last[s]', x, b) /\ a # x
          => \/ a \notin last[s].ids' \/ x \notin last[s].ids
             \/ OtherBlocks(last[s].ids, last[s].ids')
<1>1. Shared /\ Shared' => Stays
  <2> SUFFICES ASSUME Shared, Shared', NEW s \in Schedules, NEW a \in Agents, NEW x \in Agents, NEW b \in Pieces,
                      Had(last[s], a, b), Had(last[s]', x, b), a # x, a \in last[s].ids', x \in last[s].ids,
                      ~OtherBlocks(last[s].ids, last[s].ids')
               PROVE  FALSE
    BY DEF Stays
  <2> DEFINE ids == last[s].ids
             jds == last[s].ids'
  <2>1. PICK p \in last[s].parts : p.agent = a /\ b \in p.share BY DEF Had
  <2>2. PICK q \in last[s].parts' : q.agent = x /\ b \in q.share BY DEF Had
  <2>3. ids # {} /\ Splits(ids) /\ p \in Parts[ids] BY <2>1 DEF Shared, Whole
  <2>4. jds # {} /\ Splits(jds) /\ q \in Parts[jds] BY <2>2 DEF Shared, Whole
  <2>5. ids \in SUBSET Agents BY LastIds
  <2>6. jds \in SUBSET Agents BY DEF Shared, Typed, TypeOK
  <2>7. ~OtherBlocks(ids, jds) /\ a \in jds /\ x \in ids OBVIOUS
  <2> HIDE DEF ids, jds
  <2>8. \/ ids = {a} /\ Cardinality(ids) = 1
        \/ /\ Cardinality(ids) # 1 /\ BlockOf[BlockSize(ids)][b] \in Keys
           /\ a = OwnerOf(BlockOf[BlockSize(ids)][b], ids)
    BY <2>1, <2>3, <2>5, PartOwner
  <2>9. \/ jds = {x} /\ Cardinality(jds) = 1
        \/ /\ Cardinality(jds) # 1 /\ BlockOf[BlockSize(jds)][b] \in Keys
           /\ x = OwnerOf(BlockOf[BlockSize(jds)][b], jds)
    BY <2>2, <2>4, <2>6, PartOwner
  <2>10. CASE Cardinality(ids) = 1 \/ Cardinality(jds) = 1 BY <2>7, <2>8, <2>9, <2>10
  <2>11. CASE Cardinality(ids) # 1 /\ Cardinality(jds) # 1
    <3>1. BlockSize(ids) = BlockSize(jds) BY <2>7, <2>11 DEF OtherBlocks
    <3> QED BY <2>3, <2>4, <2>5, <2>6, <2>7, <2>8, <2>9, <2>11, <3>1, BlocksStayPut
  <2> QED BY <2>10, <2>11
<1>2. Shared /\ [Next]_vars => [Stays]_vars BY <1>1, StepShared
<1> QED BY <1>2, InitShared, StepShared, PTL DEF Spec, OnlyLostBlocksMove

-----------------------------------------------------------------------------
\* What a schedule queues is what it says, for any schedules and scanners.
THEOREM RunsStayAsScheduled == Spec => []RunsAreAsScheduled
<1>1. TypeOK /\ OnceMeansOnce /\ TargetIsShared => RunsAreAsScheduled
  BY DEF RunsAreAsScheduled
<1> QED BY <1>1, TypeCorrect, NeverTwice, EveryBlockOnce, PTL
=============================================================================
